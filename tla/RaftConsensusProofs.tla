------------------------- MODULE RaftConsensusProofs -------------------------
(***************************************************************************)
(* Proofs about RaftConsensus for every set of servers, every bound and    *)
(* any number of restarts: its types, and that no commit index passes the  *)
(* end of a log and no committed entry is lost from one.                   *)
(***************************************************************************)
EXTENDS RaftConsensus, SequenceTheorems, FiniteSetTheorems, TLAPS
-----------------------------------------------------------------------------
(* Sets of natural numbers. *)

\* A non-empty set of indices has a smallest one.
LEMMA SmallestExists ==
  ASSUME NEW T \in SUBSET Nat, T # {}
  PROVE  \E x \in T : \A y \in T : x <= y
<1>1. PICK x \in T : \A y \in T : <<y, x>> \notin OpToRel(<, Nat)
  BY NatLessThanWellFounded, WFMin, Zenon
<1>2. \A y \in T : ~(y < x)
  BY <1>1, Zenon DEF OpToRel
<1> QED BY <1>2

\* A non-empty set of indices with an upper bound has a largest one.
LEMMA LargestExists ==
  ASSUME NEW T \in SUBSET Nat, T # {}, NEW n \in Nat, \A t \in T : t <= n
  PROVE  \E x \in T : \A y \in T : y <= x
<1> DEFINE D == {n - t : t \in T}
<1>1. PICK d \in D : \A e \in D : d <= e
  <2>1. \A t \in T : n - t \in Nat
    OBVIOUS
  <2>2. D \in SUBSET Nat /\ D # {}
    BY <2>1
  <2> HIDE DEF D
  <2> QED BY <2>2, SmallestExists
<1>2. PICK x \in T : d = n - x
  OBVIOUS
<1>3. ASSUME NEW y \in T PROVE y <= x
  <2>1. n - x <= n - y
    BY <1>1, <1>2
  <2> QED BY <2>1
<1> QED BY <1>3
-----------------------------------------------------------------------------
(* Configurations and quorums. *)

\* The body of a CONFIGURATION entry names servers.
LEMMA ConfigurationBody ==
  ASSUME NEW b \in Body, b.type = "CONFIGURATION"
  PROVE  /\ b.prev \in SUBSET Server
         /\ b.next \in SUBSET Server
BY DEF Body

\* The configuration of a log names servers, and its id is an index of the log.
LEMMA ConfigurationType ==
  ASSUME NEW log \in Seq(Entry)
  PROVE  /\ Configuration(log).prev \in SUBSET Server
         /\ Configuration(log).next \in SUBSET Server
         /\ ConfigId(log) \in 0 .. Len(log)
<1>1. CASE Configurations(log) = {}
  BY <1>1 DEF Configuration, ConfigId
<1>2. CASE Configurations(log) # {}
  <2>1. Configurations(log) \in SUBSET (1 .. Len(log))
    BY DEF Configurations
  <2>2. \E i \in Configurations(log) : \A j \in Configurations(log) : j <= i
    <3>1. Len(log) \in Nat
      OBVIOUS
    <3>2. /\ Configurations(log) \in SUBSET Nat
          /\ \A i \in Configurations(log) : i <= Len(log)
      BY <2>1, <3>1
    <3> QED BY <1>2, <3>1, <3>2, LargestExists, Zenon
  <2>3. ConfigId(log) \in Configurations(log)
    BY <1>2, <2>2 DEF ConfigId
  <2>4. log[ConfigId(log)].body \in Body
    <3>1. log[ConfigId(log)] \in Entry
      BY <2>1, <2>3, ElementOfSeq
    <3> QED BY <3>1 DEF Entry
  <2>5. log[ConfigId(log)].body.type = "CONFIGURATION"
    BY <2>3 DEF Configurations
  <2>6. Configuration(log) = log[ConfigId(log)].body
    BY <1>2 DEF Configuration
  <2> QED BY <2>1, <2>3, <2>4, <2>5, <2>6, ConfigurationBody
<1> QED BY <1>1, <1>2

\* quorumMin of servers that have reached at most n is at most n.
LEMMA SimpleQuorumMinBounded ==
  ASSUME NEW S \in SUBSET Server, NEW index \in [Server -> Nat], NEW n \in Nat,
         \A p \in Server : index[p] <= n
  PROVE  SimpleQuorumMin(S, index) \in 0 .. n
<1>1. CASE S = {}
  BY <1>1 DEF SimpleQuorumMin
<1>2. CASE S # {}
  <2> DEFINE values == {index[p] : p \in S}
             reached == {k \in values : IsMajority(AtLeast(S, index, k), S)}
  <2>1. values \in SUBSET (0 .. n) /\ values # {}
    BY <1>2
  <2>2. PICK least \in values : \A k \in values : least <= k
    BY <2>1, SmallestExists
  <2>3. AtLeast(S, index, least) = S
    BY <2>2 DEF AtLeast
  <2>4. IsMajority(S, S)
    <3>1. IsFiniteSet(S)
      BY ConstantsAssumption, FS_Subset DEF ConstantsAssumption
    <3>2. Cardinality(S) \in Nat /\ Cardinality(S) # 0
      BY <1>2, <3>1, FS_CardinalityType, FS_EmptySet
    <3>3. \A c \in Nat : c # 0 => c >= (c \div 2) + 1
      OBVIOUS
    <3> QED BY <3>2, <3>3 DEF IsMajority
  <2>5. least \in reached
    BY <2>3, <2>4
  <2>6. reached \in SUBSET Nat /\ \A k \in reached : k <= n
    BY <2>1
  <2>7. \E m \in reached : \A k \in reached : k <= m
    BY <2>5, <2>6, LargestExists
  <2>8. SimpleQuorumMin(S, index) \in reached
    BY <1>2, <2>7 DEF SimpleQuorumMin
  <2> QED BY <2>1, <2>8
<1> QED BY <1>1, <1>2
-----------------------------------------------------------------------------
(* What each method of the consensus object keeps, method by method. *)

\* r2 comes after r: it knows the peers r knows, and it leads only if r leads,
\* with a log at least as long.
Keeps(r, r2) ==
  /\ r.known \subseteq r2.known
  /\ r2.failed = "nothing" /\ r2.state = "LEADER" =>
       r.failed = "nothing" /\ r.state = "LEADER" /\ Len(r.log) <= Len(r2.log)

\* The fields of a consensus object and of a call that indices and terms are in.
LEMMA RaftFields ==
  ASSUME NEW r \in Raft
  PROVE  /\ r.log \in Seq(Entry) /\ Len(r.log) \in Nat
         /\ r.currentTerm \in Nat /\ r.commitIndex \in Nat
         /\ r.lastSynced \in Nat /\ r.syncTerm \in Nat /\ r.syncIndex \in Nat
         /\ r.known \in SUBSET Server /\ r.stored \in SUBSET Metadata
         /\ r.lastAgree \in [Server -> Nat]
         /\ r.votedFor \in Server \cup {None}
         /\ r.leaderId \in Server \cup {None}
<1>1. r.log \in Seq(Entry)
  BY DEF Raft
<1>2. Len(r.log) \in Nat
  BY <1>1, LenProperties
<1> QED BY <1>1, <1>2 DEF Raft

\* The fields of an appendEntries request.
LEMMA AppendFields ==
  ASSUME NEW m \in Message, m.kind = "append"
  PROVE  /\ m.term \in Nat /\ m.prevIndex \in Nat /\ m.commit \in Nat
         /\ m.entries \in Seq(Entry) /\ Len(m.entries) \in Nat
         /\ Covered(m) \in Nat
<1>1. /\ m.term \in Nat /\ m.prevIndex \in Nat /\ m.commit \in Nat
      /\ m.entries \in Seq(Entry)
  BY DEF Message
<1>2. Len(m.entries) \in Nat
  BY <1>1, LenProperties
<1> QED BY <1>1, <1>2 DEF Covered

\* The fields of the answer to an appendEntries request.
LEMMA AppendedFields ==
  ASSUME NEW m \in Message, m.kind = "appended"
  PROVE  /\ m.term \in Nat /\ m.lastIndex \in Nat /\ m.covered \in Nat
         /\ m.success \in BOOLEAN
BY DEF Message

\* The fields of a requestVote request.
LEMMA VoteFields ==
  ASSUME NEW m \in Message, m.kind = "vote"
  PROVE  m.term \in Nat /\ m.lastTerm \in Nat /\ m.lastIndex \in Nat
BY DEF Message

\* What init reads back is metadata that was flushed, or that is in memory.
LEMMA MetadataType ==
  ASSUME NEW stored \in SUBSET Metadata, NEW term \in Nat,
         NEW vote \in Server \cup {None}
  PROVE  stored \cup {[term |-> term, vote |-> vote]} \in SUBSET Metadata
BY DEF Metadata

\* Each of the two keys of the file is of something that was written to it.
LEMMA FilesType ==
  ASSUME NEW written \in SUBSET Metadata
  PROVE  /\ Files(written) \in SUBSET Metadata
         /\ \A m \in Files(written) : \E n \in written : m.term = n.term
<1>1. SUFFICES ASSUME NEW a \in written, NEW b \in written,
                      NEW m, m = [term |-> a.term, vote |-> b.vote]
               PROVE  m \in Metadata /\ m.term = a.term
  BY DEF Files
<1>2. a \in Metadata /\ b \in Metadata
  OBVIOUS
<1> QED BY <1>1, <1>2 DEF Metadata

\* What a call is allowed to be stays so when its caller moves on.
LEMMA CallInvKept ==
  ASSUME NEW r \in Raft, NEW r2 \in Raft, NEW p \in Server, NEW m \in Message,
         Keeps(r, r2), CallInv(r, p, m)
  PROVE  CallInv(r2, p, m)
<1>1. Len(r.log) \in Nat /\ Len(r2.log) \in Nat
  BY RaftFields
<1>2. /\ m.kind = "append" => Covered(m) \in Nat
      /\ m.kind = "appended" => m.covered \in Nat
  BY AppendFields, AppendedFields
<1> QED BY <1>1, <1>2 DEF Keeps, CallInv

\* stepDown.
LEMMA SteppedDownKeeps ==
  ASSUME NEW r \in Raft, NEW term \in Nat, term >= r.currentTerm
  PROVE  LET r2 == SteppedDown(r, term)
         IN /\ r2 \in Raft /\ Keeps(r, r2)
            /\ IndexInv(r) => IndexInv(r2)
            /\ r2.log = r.log /\ r2.commitIndex = r.commitIndex
            /\ r2.currentTerm = term /\ r2.failed = r.failed
            /\ r2.phase = r.phase /\ r2.state = "FOLLOWER"
            /\ r2.staging = r.staging
<1> DEFINE r2 == SteppedDown(r, term)
<1>1. r2 \in Raft
  <2>1. r.stored \cup {[term |-> term, vote |-> None]} \in SUBSET Metadata
    BY RaftFields, MetadataType
  <2> DEFINE newer == r.currentTerm < term
             leader == IF newer THEN None ELSE r.leaderId
             voted == IF newer THEN None ELSE r.votedFor
             stored == IF newer
                       THEN r.stored \cup {[term |-> term, vote |-> None]}
                       ELSE r.stored
             withhold == IF r.withhold = "max" THEN "no" ELSE r.withhold
  <2>2. /\ leader \in Server \cup {None} /\ voted \in Server \cup {None}
        /\ stored \in SUBSET Metadata
    BY <2>1, RaftFields
  <2>3. withhold \in {"no", "days", "max"}
    BY DEF Raft
  <2>4. r2 = [r EXCEPT !.currentTerm = term, !.leaderId = leader,
                       !.votedFor = voted, !.stored = stored,
                       !.state = "FOLLOWER", !.withhold = withhold,
                       !.logSyncQueued = FALSE]
    BY DEF SteppedDown
  <2> HIDE DEF leader, voted, stored, withhold, r2
  <2> QED BY <2>2, <2>3, <2>4 DEF Raft
<1>2. /\ r2.log = r.log /\ r2.commitIndex = r.commitIndex
      /\ r2.currentTerm = term /\ r2.failed = r.failed
      /\ r2.phase = r.phase /\ r2.state = "FOLLOWER"
      /\ r2.staging = r.staging
      /\ r2.known = r.known /\ r2.lastAgree = r.lastAgree
      /\ r2.syncing = r.syncing /\ r2.syncTerm = r.syncTerm
  BY DEF SteppedDown, Raft
<1>3. r.currentTerm \in Nat /\ r.syncTerm \in Nat
  BY RaftFields
<1> HIDE DEF r2
<1>4. IndexInv(r) => IndexInv(r2)
  BY <1>2, <1>3 DEF IndexInv
<1>5. Keeps(r, r2)
  BY <1>2 DEF Keeps
<1> QED BY <1>1, <1>2, <1>4, <1>5 DEF r2

\* getServer, for every server of a configuration.
LEMMA WithPeersKeeps ==
  ASSUME NEW r \in Raft, NEW s \in Server, NEW members \in SUBSET Server
  PROVE  LET r2 == WithPeers(r, s, members)
         IN /\ r2 \in Raft /\ Keeps(r, r2)
            /\ IndexInv(r) => IndexInv(r2)
            /\ r2.log = r.log /\ r2.commitIndex = r.commitIndex
            /\ r2.currentTerm = r.currentTerm /\ r2.failed = r.failed
            /\ r2.phase = r.phase /\ r2.state = r.state
            /\ r2.staging = r.staging
            /\ r2.lastAgree = r.lastAgree
            /\ r2.logSyncQueued = r.logSyncQueued
            /\ r2.syncing = r.syncing /\ r2.syncTerm = r.syncTerm
            /\ r2.syncIndex = r.syncIndex /\ r2.lastSynced = r.lastSynced
<1> DEFINE new == members \ (r.known \cup {s})
           next == [p \in Server |-> IF p \in new THEN Len(r.log) + 1
                                     ELSE r.nextIndex[p]]
           goal == [p \in Server |-> IF p \in new THEN Len(r.log)
                                     ELSE r.goal[p]]
           r2 == [r EXCEPT !.known = r.known \cup new, !.nextIndex = next,
                           !.goal = goal]
<1>1. Len(r.log) \in Nat /\ r.known \in SUBSET Server
  BY RaftFields
<1>2. /\ r.known \cup new \in SUBSET Server
      /\ next \in [Server -> Nat \ {0}]
      /\ goal \in [Server -> Nat]
  <2>1. r.nextIndex \in [Server -> Nat \ {0}] /\ r.goal \in [Server -> Nat]
    BY DEF Raft
  <2> QED BY <1>1, <2>1
<1>3. WithPeers(r, s, members) = r2
  BY DEF WithPeers
<1> HIDE DEF next, goal
<1>4. r2 \in Raft
  BY <1>2 DEF Raft
<1>5. /\ r2.log = r.log /\ r2.commitIndex = r.commitIndex
      /\ r2.currentTerm = r.currentTerm /\ r2.failed = r.failed
      /\ r2.phase = r.phase /\ r2.state = r.state
      /\ r2.staging = r.staging
      /\ r2.known = r.known \cup new /\ r2.lastAgree = r.lastAgree
      /\ r2.logSyncQueued = r.logSyncQueued
      /\ r2.syncing = r.syncing /\ r2.syncTerm = r.syncTerm
      /\ r2.syncIndex = r.syncIndex /\ r2.lastSynced = r.lastSynced
  BY DEF Raft
<1> HIDE DEF r2
<1>6. IndexInv(r) => IndexInv(r2)
  BY <1>5 DEF IndexInv
<1>7. Keeps(r, r2)
  BY <1>1, <1>5 DEF Keeps
<1> QED BY <1>3, <1>4, <1>5, <1>6, <1>7

\* append: the log grows at its end.
LEMMA AppendedKeeps ==
  ASSUME NEW r \in Raft, NEW s \in Server, NEW entries \in Seq(Entry)
  PROVE  LET r2 == Appended(r, s, entries)
         IN /\ r2 \in Raft /\ Keeps(r, r2)
            /\ IndexInv(r) => IndexInv(r2)
            /\ r2.log = r.log \o entries
            /\ Len(r2.log) = Len(r.log) + Len(entries)
            /\ SamePrefix(r.log, r2.log, Len(r.log))
            /\ r2.commitIndex = r.commitIndex
            /\ r2.currentTerm = r.currentTerm /\ r2.failed = r.failed
            /\ r2.phase = r.phase /\ r2.state = r.state
            /\ r.state = "LEADER" => r2.logSyncQueued
            /\ r2.staging \in {r.staging, {}}
            /\ Configurations(entries) # {} => r2.staging = {}
<1> DEFINE members == UNION {entries[i].body.prev \cup entries[i].body.next :
                               i \in Configurations(entries)}
           queued == r.logSyncQueued \/ r.state = "LEADER"
           staging == IF Configurations(entries) = {} THEN r.staging ELSE {}
           longer == [r EXCEPT !.log = r.log \o entries,
                               !.logSyncQueued = queued, !.staging = staging]
           r2 == Appended(r, s, entries)
<1>1. members \in SUBSET Server
  <2> SUFFICES ASSUME NEW i \in Configurations(entries)
               PROVE  entries[i].body.prev \cup entries[i].body.next
                        \in SUBSET Server
    OBVIOUS
  <2>1. i \in 1 .. Len(entries) /\ entries[i].body.type = "CONFIGURATION"
    BY DEF Configurations
  <2>2. entries[i] \in Entry
    BY <2>1, ElementOfSeq
  <2>3. entries[i].body \in Body
    BY <2>2 DEF Entry
  <2> QED BY <2>1, <2>3, ConfigurationBody
<1>2. r2 = WithPeers(longer, s, members)
  BY DEF Appended
<1>3. /\ r.log \o entries \in Seq(Entry)
      /\ Len(r.log \o entries) = Len(r.log) + Len(entries)
      /\ \A i \in 1 .. Len(r.log) : (r.log \o entries)[i] = r.log[i]
      /\ Len(r.log) \in Nat /\ Len(entries) \in Nat
  <2>1. r.log \in Seq(Entry)
    BY RaftFields
  <2>2. Len(r.log) \in Nat /\ Len(entries) \in Nat
    BY <2>1, LenProperties
  <2> QED BY <2>1, <2>2, ConcatProperties
<1>4. /\ queued \in BOOLEAN /\ staging \in SUBSET Server
      /\ r.state = "LEADER" => queued
      /\ staging \in {r.staging, {}}
      /\ Configurations(entries) # {} => staging = {}
  BY DEF Raft
<1> HIDE DEF members, queued, staging, r2
<1>5. longer \in Raft
  BY <1>3, <1>4 DEF Raft
<1>6. /\ longer.log = r.log \o entries /\ longer.commitIndex = r.commitIndex
      /\ longer.currentTerm = r.currentTerm /\ longer.failed = r.failed
      /\ longer.phase = r.phase /\ longer.state = r.state
      /\ longer.known = r.known /\ longer.lastAgree = r.lastAgree
      /\ longer.syncing = r.syncing /\ longer.syncTerm = r.syncTerm
      /\ longer.syncIndex = r.syncIndex /\ longer.lastSynced = r.lastSynced
      /\ longer.logSyncQueued = queued /\ longer.staging = staging
  BY DEF Raft
<1> HIDE DEF longer
<1>7. Len(longer.log) = Len(r.log) + Len(entries)
  BY <1>3, <1>6
<1>8. IndexInv(r) => IndexInv(longer)
  <2>1. Len(r.log) <= Len(longer.log)
    BY <1>3, <1>7
  <2>2. /\ r.commitIndex \in Nat /\ r.lastSynced \in Nat /\ r.syncIndex \in Nat
        /\ \A p \in Server : r.lastAgree[p] \in Nat
        /\ Len(longer.log) \in Nat
    BY <1>3, <1>7, RaftFields
  <2> QED BY <1>3, <1>6, <2>1, <2>2 DEF IndexInv
<1>9. Keeps(r, longer)
  BY <1>3, <1>6, <1>7 DEF Keeps
<1>10. /\ r2 \in Raft /\ Keeps(longer, r2)
       /\ IndexInv(longer) => IndexInv(r2)
       /\ r2.log = longer.log /\ r2.commitIndex = longer.commitIndex
       /\ r2.currentTerm = longer.currentTerm /\ r2.failed = longer.failed
       /\ r2.phase = longer.phase /\ r2.state = longer.state
       /\ r2.logSyncQueued = longer.logSyncQueued
       /\ r2.staging = longer.staging
  BY <1>1, <1>2, <1>5, WithPeersKeeps
<1>11. Keeps(r, r2)
  BY <1>3, <1>7, <1>9, <1>10 DEF Keeps
<1>12. SamePrefix(r.log, r2.log, Len(r.log))
  BY <1>3, <1>6, <1>10 DEF SamePrefix
<1>13. /\ IndexInv(r) => IndexInv(r2)
       /\ r2.log = r.log \o entries
       /\ Len(r2.log) = Len(r.log) + Len(entries)
       /\ r2.commitIndex = r.commitIndex
       /\ r2.currentTerm = r.currentTerm /\ r2.failed = r.failed
       /\ r2.phase = r.phase /\ r2.state = r.state
       /\ r.state = "LEADER" => r2.logSyncQueued
       /\ r2.staging \in {r.staging, {}}
       /\ Configurations(entries) # {} => r2.staging = {}
  BY <1>4, <1>6, <1>7, <1>8, <1>10
<1> QED BY <1>10, <1>11, <1>12, <1>13 DEF r2

\* The entry that a configuration change appends is a log entry.
LEMMA ConfigurationEntryType ==
  ASSUME NEW r \in Raft, NEW prev \in SUBSET Server, NEW next \in SUBSET Server
  PROVE  <<ConfigurationEntry(r, prev, next)>> \in Seq(Entry)
<1>1. r.currentTerm \in Nat
  BY RaftFields
<1>2. ConfigurationEntry(r, prev, next).body \in Body
  BY DEF ConfigurationEntry, Body
<1>3. ConfigurationEntry(r, prev, next) \in Entry
  BY <1>1, <1>2 DEF ConfigurationEntry, Entry
<1> QED BY <1>3

\* quorumMin, transitional or not, is at most what the furthest server has reached.
LEMMA QuorumMinBounded ==
  ASSUME NEW r \in Raft, NEW index \in [Server -> Nat], NEW n \in Nat,
         \A p \in Server : index[p] <= n
  PROVE  QuorumMin(r, index) \in 0 .. n
<1> DEFINE c == Configuration(r.log)
<1>1. c.prev \in SUBSET Server /\ c.next \in SUBSET Server
  BY RaftFields, ConfigurationType
<1>2. /\ SimpleQuorumMin(c.prev, index) \in 0 .. n
      /\ SimpleQuorumMin(c.next, index) \in 0 .. n
  BY <1>1, SimpleQuorumMinBounded
<1> QED BY <1>2, Zenon DEF QuorumMin

\* advanceCommittedId: the quorum index it commits is an index of the log.
LEMMA AdvancedCommittedIdKeeps ==
  ASSUME NEW r \in Raft, NEW s \in Server, IndexInv(r), r.failed = "nothing"
  PROVE  LET r2 == AdvancedCommittedId(r, s)
         IN /\ r2 \in Raft /\ Keeps(r, r2) /\ IndexInv(r2)
            /\ SamePrefix(r.log, r2.log, Len(r.log))
            /\ r2.staging \in {r.staging, {}}
<1> DEFINE r2 == AdvancedCommittedId(r, s)
           n == QuorumMin(r, [r.lastAgree EXCEPT ![s] = r.lastSynced])
           c == Configuration(r.log)
           committed == [r EXCEPT !.commitIndex = n]
<1>1. /\ Len(r.log) \in Nat /\ r.currentTerm \in Nat
      /\ c.prev \in SUBSET Server /\ c.next \in SUBSET Server
  BY RaftFields, ConfigurationType
<1>2. CASE r2 = r
  <2>1. Keeps(r, r)
    BY <1>1 DEF Keeps
  <2>2. SamePrefix(r.log, r.log, Len(r.log))
    BY <1>1 DEF SamePrefix
  <2> QED BY <1>2, <2>1, <2>2
<1>3. CASE r2 # r
  <2>1. r.state = "LEADER"
    BY <1>3 DEF AdvancedCommittedId
  <2>2. n \in 0 .. Len(r.log)
    <3> DEFINE index == [r.lastAgree EXCEPT ![s] = r.lastSynced]
    <3>1. r.lastAgree \in [Server -> Nat] /\ r.lastSynced \in Nat
      BY RaftFields
    <3>2. index \in [Server -> Nat]
      BY <3>1
    <3>3. \A p \in Server : index[p] <= Len(r.log)
      BY <2>1, <3>1 DEF IndexInv
    <3> HIDE DEF index
    <3>4. QuorumMin(r, index) \in 0 .. Len(r.log)
      BY <1>1, <3>2, <3>3, QuorumMinBounded
    <3> QED BY <3>4 DEF index
  <2> HIDE DEF n, r2, c
  <2>3. committed \in Raft
    <3>1. n \in Nat
      BY <1>1, <2>2
    <3> QED BY <3>1 DEF Raft
  <2>4. /\ committed.log = r.log /\ committed.commitIndex = n
        /\ committed.currentTerm = r.currentTerm /\ committed.failed = r.failed
        /\ committed.phase = r.phase /\ committed.state = r.state
        /\ committed.known = r.known /\ committed.lastAgree = r.lastAgree
        /\ committed.syncing = r.syncing /\ committed.syncTerm = r.syncTerm
        /\ committed.syncIndex = r.syncIndex
        /\ committed.lastSynced = r.lastSynced
        /\ committed.staging = r.staging
    BY DEF Raft
  <2> HIDE DEF committed
  <2>5. IndexInv(committed) /\ Keeps(r, committed)
    BY <1>1, <2>2, <2>4 DEF IndexInv, Keeps
  <2>6. CASE r2 = SteppedDown(committed, r.currentTerm + 1)
    <3>1. /\ r2 \in Raft /\ Keeps(committed, r2)
          /\ IndexInv(r2) /\ r2.log = committed.log
          /\ r2.staging = committed.staging
      BY <1>1, <2>3, <2>4, <2>5, <2>6, SteppedDownKeeps
    <3> QED BY <1>1, <2>4, <2>5, <3>1 DEF Keeps, SamePrefix, r2
  <2>7. CASE r2 = Appended(committed, s, <<ConfigurationEntry(r, c.next, {})>>)
    <3>1. <<ConfigurationEntry(r, c.next, {})>> \in Seq(Entry)
      BY <1>1, ConfigurationEntryType
    <3>2. /\ r2 \in Raft /\ Keeps(committed, r2) /\ IndexInv(r2)
          /\ SamePrefix(committed.log, r2.log, Len(committed.log))
          /\ r2.staging \in {committed.staging, {}}
      BY <2>3, <2>5, <2>7, <3>1, AppendedKeeps
    <3>3. Len(r2.log) \in Nat
      BY <3>2, RaftFields
    <3> QED BY <1>1, <2>4, <2>5, <3>2, <3>3 DEF Keeps, r2
  <2>8. CASE r2 = committed
    BY <1>1, <2>3, <2>4, <2>5, <2>8 DEF SamePrefix, r2
  <2>9. \/ r2 = SteppedDown(committed, r.currentTerm + 1)
        \/ r2 = Appended(committed, s, <<ConfigurationEntry(r, c.next, {})>>)
        \/ r2 = committed
    <3>1. ConfigurationEntry(committed, c.next, {})
            = ConfigurationEntry(r, c.next, {})
      BY <2>4 DEF ConfigurationEntry
    <3> QED BY <1>3, <2>4, <3>1 DEF AdvancedCommittedId, n, r2, c,
             committed
  <2> QED BY <2>6, <2>7, <2>8, <2>9
<1> QED BY <1>2, <1>3

\* r2 differs from r in fields that no index is in, or by having failed.
Alike(r, r2) ==
  /\ r2.log = r.log /\ r2.commitIndex = r.commitIndex
  /\ r2.currentTerm = r.currentTerm /\ r2.phase = r.phase
  /\ r2.known = r.known /\ r2.lastAgree = r.lastAgree
  /\ r2.syncing = r.syncing /\ r2.syncTerm = r.syncTerm
  /\ r2.syncIndex = r.syncIndex /\ r2.lastSynced = r.lastSynced
  /\ r2.state = r.state
  /\ r2.failed = "nothing" => r.failed = "nothing"

\* Two objects that agree on what IndexInv speaks of satisfy it alike.
LEMMA AlikeKeeps ==
  ASSUME NEW r \in Raft, NEW r2 \in Raft, Alike(r, r2)
  PROVE  Keeps(r, r2) /\ (IndexInv(r) => IndexInv(r2))
<1>1. Len(r.log) \in Nat
  BY RaftFields
<1> QED BY <1>1 DEF Alike, Keeps, IndexInv

\* An exception escapes.
LEMMA FailKeeps ==
  ASSUME NEW r \in Raft, NEW what \in Failures
  PROVE  /\ Fail(r, what) \in Raft /\ Alike(r, Fail(r, what))
         /\ Fail(r, what).failed # "nothing"
         /\ Fail(r, what).staging = r.staging
<1>1. what # "nothing"
  BY DEF Failures
<1>2. Fail(r, what) \in Raft /\ Fail(r, what).failed = what
  BY DEF Fail, Raft
<1> QED BY <1>1, <1>2 DEF Fail, Raft, Alike

\* becomeLeader: only a server that knows no peer survives it, and what it had
\* synced in an earlier term is not mistaken for this one's.
LEMMA BecomeLeaderKeeps ==
  ASSUME NEW r \in Raft, NEW s \in Server, IndexInv(r), r.phase = "running",
         r.syncing => r.syncTerm < r.currentTerm
  PROVE  LET r2 == BecomeLeader(r, s)
         IN /\ r2 \in Raft /\ IndexInv(r2)
            /\ r.known \subseteq r2.known
            /\ r2.failed = "nothing" => r.known = {} /\ r2.logSyncQueued
            /\ SamePrefix(r.log, r2.log, Len(r.log))
            /\ r2.staging \in {r.staging, {}}
<1> DEFINE r1 == [r EXCEPT !.state = "LEADER", !.leaderId = s, !.withhold = "max"]
           led == [r1 EXCEPT !.lastSynced = Len(r.log)]
           noop == [term |-> r.currentTerm, body |-> [type |-> "NOOP"]]
           r2 == BecomeLeader(r, s)
<1>1. /\ Len(r.log) \in Nat /\ r.currentTerm \in Nat /\ r.syncTerm \in Nat
      /\ r.commitIndex \in Nat
  BY RaftFields
<1>2. r1 \in Raft
  BY DEF Raft
<1>3. led \in Raft
  <2> HIDE DEF r1
  <2> QED BY <1>1, <1>2 DEF Raft
<1>4. r1.known = r.known /\ r1.log = r.log
  BY DEF Raft
<1>5. CASE r.known # {}
  <2>1. r2 = Fail(r1, "beginLeadership")
    BY <1>5 DEF BecomeLeader
  <2>2. /\ r1.commitIndex = r.commitIndex /\ r1.lastAgree = r.lastAgree
        /\ r1.syncing = r.syncing /\ r1.syncTerm = r.syncTerm
        /\ r1.currentTerm = r.currentTerm /\ r1.phase = r.phase
        /\ r1.staging = r.staging
    BY DEF Raft
  <2> HIDE DEF r1, r2
  <2>3. /\ r2 \in Raft /\ Alike(r1, r2) /\ r2.failed # "nothing"
        /\ r2.staging = r1.staging
    <3>1. "beginLeadership" \in Failures
      BY DEF Failures
    <3> QED BY <1>2, <2>1, <3>1, FailKeeps
  <2>4. IndexInv(r2)
    BY <1>4, <2>2, <2>3 DEF Alike, IndexInv
  <2>5. SamePrefix(r.log, r2.log, Len(r.log)) /\ r.known \subseteq r2.known
    BY <1>1, <1>4, <2>3 DEF Alike, SamePrefix
  <2> QED BY <2>2, <2>3, <2>4, <2>5 DEF r2
<1>6. CASE r.known = {}
  <2>1. r2 = Appended(led, s, <<noop>>)
    BY <1>6 DEF BecomeLeader
  <2>2. <<noop>> \in Seq(Entry)
    BY <1>1 DEF Entry, Body
  <2>3. /\ led.commitIndex = r.commitIndex /\ led.lastAgree = r.lastAgree
        /\ led.syncing = r.syncing /\ led.syncTerm = r.syncTerm
        /\ led.currentTerm = r.currentTerm /\ led.phase = r.phase
        /\ led.known = r.known /\ led.lastSynced = Len(r.log)
        /\ led.log = r.log /\ led.staging = r.staging
    BY DEF Raft
  <2>4. led.state = "LEADER"
    BY DEF Raft
  <2> HIDE DEF led, noop, r2
  <2>5. IndexInv(led)
    BY <1>1, <1>6, <2>3, <2>4 DEF IndexInv
  <2>6. /\ r2 \in Raft /\ IndexInv(r2) /\ Keeps(led, r2)
        /\ SamePrefix(led.log, r2.log, Len(led.log)) /\ r2.logSyncQueued
        /\ r2.staging \in {led.staging, {}}
    BY <1>3, <2>1, <2>2, <2>4, <2>5, AppendedKeeps
  <2> QED BY <1>6, <2>3, <2>6 DEF Keeps, r2
<1> QED BY <1>5, <1>6

\* The part of handleRequestVote that may vote.
LEMMA VotedKeeps ==
  ASSUME NEW r \in Raft, NEW s \in Server, NEW m \in Message, m.kind = "vote",
         IndexInv(r)
  PROVE  LET r2 == Voted(r, s, m)
         IN /\ r2 \in Raft /\ Keeps(r, r2) /\ IndexInv(r2)
            /\ r2.log = r.log
            /\ r2 = r \/ r2.state = "FOLLOWER" \/ r2.failed # "nothing"
<1> DEFINE r1 == IF m.term > r.currentTerm THEN SteppedDown(r, m.term) ELSE r
           down == SteppedDown(r1, r1.currentTerm)
           stored == down.stored \cup {[term |-> r1.currentTerm, vote |-> s]}
           voting == [down EXCEPT !.votedFor = s, !.stored = stored]
           r2 == Voted(r, s, m)
<1>1. m.term \in Nat /\ r.currentTerm \in Nat /\ Len(r.log) \in Nat
  BY RaftFields, VoteFields
<1>2. /\ r1 \in Raft /\ Keeps(r, r1) /\ IndexInv(r1) /\ r1.log = r.log
      /\ r1 = r \/ r1.state = "FOLLOWER"
  <2>1. CASE m.term > r.currentTerm
    BY <1>1, <2>1, SteppedDownKeeps
  <2>2. CASE ~(m.term > r.currentTerm)
    BY <1>1, <2>2 DEF Keeps
  <2> QED BY <2>1, <2>2
<1> HIDE DEF r1
<1>3. r1.currentTerm \in Nat
  BY <1>2, RaftFields
<1>4. /\ down \in Raft /\ Keeps(r1, down) /\ IndexInv(down)
      /\ down.log = r1.log /\ down.state = "FOLLOWER"
  BY <1>2, <1>3, SteppedDownKeeps
<1> HIDE DEF down
<1>5. stored \in SUBSET Metadata
  BY <1>3, <1>4, RaftFields, MetadataType
<1> HIDE DEF stored
<1>6. voting \in Raft /\ Alike(down, voting)
  BY <1>4, <1>5 DEF Raft, Alike
<1> HIDE DEF voting
<1>7. /\ IndexInv(voting) /\ Keeps(down, voting) /\ voting.log = down.log
      /\ voting.state = "FOLLOWER"
  BY <1>4, <1>6, AlikeKeeps DEF Alike
<1> DEFINE failed == Fail(r1, "getLastLogTerm")
<1>8. /\ failed \in Raft /\ Keeps(r1, failed) /\ IndexInv(failed)
      /\ failed.log = r1.log /\ failed.failed # "nothing"
  <2>1. failed \in Raft /\ Alike(r1, failed) /\ failed.failed # "nothing"
    <3>1. "getLastLogTerm" \in Failures
      BY DEF Failures
    <3> QED BY <1>2, <3>1, FailKeeps
  <2> HIDE DEF failed
  <2> QED BY <1>2, <2>1, AlikeKeeps DEF Alike
<1>9. r2 \in {r1, voting, failed}
  BY DEF Voted, voting, r1, down, stored
<1> HIDE DEF failed
<1> HIDE DEF r2
<1>10. Keeps(r, r2)
  BY <1>1, <1>2, <1>4, <1>7, <1>8, <1>9 DEF Keeps
<1> QED BY <1>2, <1>4, <1>6, <1>7, <1>8, <1>9, <1>10 DEF r2
-----------------------------------------------------------------------------
(* handleAppendEntries: what the log keeps and how far it reaches. *)

\* truncateSuffix keeps the entries it is asked to keep, and some more.
LEMMA TruncatedSuffixKeeps ==
  ASSUME NEW log \in Seq(Entry), NEW i \in Nat, i < Len(log)
  PROVE  LET kept == TruncatedSuffix(log, i)
         IN /\ kept \in Seq(Entry) /\ i <= Len(kept)
            /\ SamePrefix(log, kept, i)
<1> DEFINE kept == TruncatedSuffix(log, i)
<1>1. Len(log) \in Nat
  BY LenProperties
<1>2. CASE i < 1
  <2>1. kept = <<>>
    BY <1>2 DEF TruncatedSuffix
  <2> QED BY <1>2, <2>1 DEF SamePrefix
<1>3. CASE i >= 1 /\ i + 2 < Len(log)
  <2>1. kept = SubSeq(log, 1, i + 2)
    BY <1>1, <1>3 DEF TruncatedSuffix
  <2>2. \A j \in 1 .. i + 2 : log[j] \in Entry
    BY <1>1, <1>3, ElementOfSeq
  <2>3. /\ kept \in Seq(Entry) /\ Len(kept) = i + 2
        /\ \A j \in 1 .. i + 2 : kept[j] = log[j]
    BY <2>1, <2>2, SubSeqProperties
  <2> QED BY <2>3 DEF SamePrefix
<1>4. CASE i >= 1 /\ ~(i + 2 < Len(log))
  <2>1. kept = log
    BY <1>1, <1>4 DEF TruncatedSuffix
  <2> QED BY <1>1, <2>1 DEF SamePrefix
<1> QED BY <1>1, <1>2, <1>3, <1>4

\* The entries appended after a truncation make the log reach at least as far
\* as the request does.
LEMMA NewEntriesReach ==
  ASSUME NEW log \in Seq(Entry), NEW m \in Message, m.kind = "append",
         m.prevIndex <= Len(log)
  PROVE  /\ NewEntries(log, m) \in Seq(Entry)
         /\ Covered(m) <= Len(log) + Len(NewEntries(log, m))
<1> DEFINE n == Len(m.entries)
           present(k) == /\ m.prevIndex + k <= Len(log)
                         /\ log[m.prevIndex + k].term = m.entries[k].term
           new == {k \in 1 .. n : ~present(k)}
           first == CHOOSE k \in new : \A j \in new : k <= j
<1>1. /\ m.entries \in Seq(Entry) /\ n \in Nat /\ m.prevIndex \in Nat
      /\ Covered(m) = m.prevIndex + n /\ Len(log) \in Nat
  BY AppendFields, LenProperties DEF Covered
<1>2. \A k \in 1 .. n : m.entries[k] \in Entry
  BY <1>1, ElementOfSeq
<1>3. CASE new = {}
  <2>1. NewEntries(log, m) = <<>>
    BY <1>3 DEF NewEntries
  <2>2. n = 0 \/ m.prevIndex + n <= Len(log)
    BY <1>1, <1>3
  <2>3. Len(<<>>) = 0 /\ <<>> \in Seq(Entry)
    BY EmptySeq
  <2> QED BY <1>1, <2>1, <2>2, <2>3
<1>4. CASE new # {}
  <2>1. first \in new /\ \A j \in new : first <= j
    <3>1. new \in SUBSET Nat
      BY <1>1
    <3>2. \E k \in new : \A j \in new : k <= j
      BY <1>4, <3>1, SmallestExists
    <3> QED BY <3>2
  <2> HIDE DEF first
  <2>2. first \in 1 .. n
    BY <2>1
  <2>3. m.prevIndex + first - 1 <= Len(log)
    <3>1. CASE first = 1
      BY <1>1, <3>1
    <3>2. CASE first # 1
      <4>1. first - 1 \in 1 .. n /\ first - 1 \notin new
        BY <1>1, <2>1, <2>2, <3>2
      <4> QED BY <1>1, <2>2, <4>1
    <3> QED BY <3>1, <3>2
  <2>4. CASE first < n /\ present(first + 1)
    <3> DEFINE rest == SubSeq(m.entries, first + 2, n)
    <3>1. NewEntries(log, m) = <<m.entries[first]>> \o rest
      BY <1>4, <2>4 DEF NewEntries, first
    <3>2. \A i \in first + 2 .. n : m.entries[i] \in Entry
      BY <1>1, <1>2, <2>2
    <3>3. rest \in Seq(Entry) /\ Len(rest) = n - first - 1
      BY <1>1, <2>2, <2>4, <3>2, SubSeqProperties
    <3>4. /\ <<m.entries[first]>> \in Seq(Entry)
          /\ Len(<<m.entries[first]>>) = 1
      <4>1. m.entries[first] \in Entry
        BY <1>2, <2>2
      <4> QED BY <4>1
    <3> HIDE DEF rest
    <3>5. /\ NewEntries(log, m) \in Seq(Entry)
          /\ Len(NewEntries(log, m)) = 1 + (n - first - 1)
      BY <3>1, <3>3, <3>4, ConcatProperties
    <3> QED BY <1>1, <2>2, <2>4, <3>5
  <2>5. CASE ~(first < n /\ present(first + 1))
    <3>1. NewEntries(log, m) = SubSeq(m.entries, first, n)
      BY <1>4, <2>5 DEF NewEntries, first
    <3>2. \A i \in first .. n : m.entries[i] \in Entry
      BY <1>1, <1>2, <2>2
    <3>3. /\ NewEntries(log, m) \in Seq(Entry)
          /\ Len(NewEntries(log, m)) = n - first + 1
      BY <1>1, <2>2, <3>1, <3>2, SubSeqProperties
    <3> QED BY <1>1, <2>2, <2>3, <3>3
  <2> QED BY <2>4, <2>5
<1> QED BY <1>3, <1>4

\* The first conflict is at an index of the log past the one the request fits at.
LEMMA FirstConflict ==
  ASSUME NEW log \in Seq(Entry), NEW m \in Message, m.kind = "append",
         Conflicts(log, m) # {}
  PROVE  LET first == CHOOSE i \in Conflicts(log, m) :
                        \A j \in Conflicts(log, m) : i <= j
         IN first \in m.prevIndex + 1 .. Len(log)
<1>1. /\ m.prevIndex \in Nat /\ Len(m.entries) \in Nat /\ Len(log) \in Nat
  BY AppendFields, LenProperties
<1>2. /\ Conflicts(log, m) \in SUBSET (m.prevIndex + 1 .. Len(log))
      /\ Conflicts(log, m) \in SUBSET Nat
  BY <1>1 DEF Conflicts
<1>3. \E i \in Conflicts(log, m) : \A j \in Conflicts(log, m) : i <= j
  BY <1>2, SmallestExists
<1> QED BY <1>2, <1>3

\* A follower that accepts a request loses no entry it has committed, and its
\* new commit index is one of its log.
LEMMA AcceptedKeeps ==
  ASSUME NEW r \in Raft, NEW p \in Server, NEW m \in Message,
         m.kind = "append", m.commit <= Covered(m),
         IndexInv(r), Fits(r, m), r.state = "FOLLOWER"
  PROVE  LET r2 == Accepted(r, p, m).r
         IN /\ r2 \in Raft /\ IndexInv(r2)
            /\ r.known \subseteq r2.known
            /\ r2.state = "FOLLOWER"
            /\ SamePrefix(r.log, r2.log, r.commitIndex)
<1> DEFINE conflicts == Conflicts(r.log, m)
           first == CHOOSE i \in conflicts : \A j \in conflicts : i <= j
           kept == IF conflicts = {} THEN r.log
                   ELSE TruncatedSuffix(r.log, first - 1)
           new == NewEntries(kept, m)
           staging == IF conflicts # {} /\ Cardinality(Configurations(r.log)) > 1
                      THEN {} ELSE r.staging
           cut == [r EXCEPT !.log = kept, !.staging = staging]
           grown == IF new = <<>> THEN cut ELSE Appended(cut, p, new)
           commit == IF grown.commitIndex < m.commit THEN m.commit
                     ELSE grown.commitIndex
           final == [grown EXCEPT !.commitIndex = commit]
           r2 == Accepted(r, p, m).r
<1>1. /\ r.log \in Seq(Entry) /\ Len(r.log) \in Nat /\ r.commitIndex \in Nat
      /\ m.prevIndex \in Nat /\ m.commit \in Nat /\ Covered(m) \in Nat
      /\ r.commitIndex <= Len(r.log) /\ m.prevIndex <= Len(r.log)
      /\ r.known \in SUBSET Server
  BY RaftFields, AppendFields DEF IndexInv, Fits
<1>2. SamePrefix(r.log, r.log, r.commitIndex)
  BY <1>1 DEF SamePrefix
<1>3. CASE conflicts # {} /\ r.commitIndex >= first
  <2>1. "commitIndex" \in Failures
    BY DEF Failures
  <2>2. r2 = Fail(r, "commitIndex")
    BY <1>3, Zenon DEF Accepted
  <2>3. r2 \in Raft /\ Alike(r, r2)
    BY <2>1, <2>2, FailKeeps
  <2> HIDE DEF r2
  <2> QED BY <1>2, <2>3, AlikeKeeps DEF Alike, Keeps, r2
<1>4. CASE ~(conflicts # {} /\ r.commitIndex >= first)
  <2>1. /\ kept \in Seq(Entry) /\ m.prevIndex <= Len(kept)
        /\ r.commitIndex <= Len(kept) /\ SamePrefix(r.log, kept, r.commitIndex)
    <3>1. CASE conflicts = {}
      BY <1>1, <1>2, <3>1
    <3>2. CASE conflicts # {}
      <4>1. first \in m.prevIndex + 1 .. Len(r.log)
        BY <1>1, <3>2, FirstConflict
      <4> HIDE DEF first
      <4>2. first - 1 \in Nat /\ first - 1 < Len(r.log)
        BY <1>1, <4>1
      <4>3. kept = TruncatedSuffix(r.log, first - 1)
        BY <3>2
      <4>4. /\ kept \in Seq(Entry) /\ first - 1 <= Len(kept)
            /\ SamePrefix(r.log, kept, first - 1)
        BY <1>1, <4>2, <4>3, TruncatedSuffixKeeps
      <4>5. r.commitIndex <= first - 1 /\ m.prevIndex <= first - 1
        BY <1>1, <1>4, <3>2, <4>1
      <4>6. Len(kept) \in Nat
        BY <4>4, LenProperties
      <4> HIDE DEF kept
      <4> QED BY <1>1, <4>2, <4>4, <4>5, <4>6 DEF SamePrefix
    <3> QED BY <3>1, <3>2
  <2>2. Len(kept) \in Nat
    BY <2>1, LenProperties
  <2>3. /\ new \in Seq(Entry) /\ Covered(m) <= Len(kept) + Len(new)
        /\ Len(new) \in Nat
    <3> HIDE DEF kept
    <3>1. new \in Seq(Entry) /\ Covered(m) <= Len(kept) + Len(new)
      BY <2>1, NewEntriesReach
    <3> QED BY <3>1, LenProperties
  <2> HIDE DEF kept, new
  <2>4. cut \in Raft
    <3>1. staging \in SUBSET Server
      BY DEF Raft
    <3> HIDE DEF staging
    <3> QED BY <2>1, <3>1 DEF Raft
  <2>5. /\ cut.log = kept /\ cut.commitIndex = r.commitIndex
        /\ cut.known = r.known /\ cut.lastAgree = r.lastAgree
        /\ cut.phase = r.phase /\ cut.state = r.state
        /\ cut.syncing = r.syncing /\ cut.syncTerm = r.syncTerm
        /\ cut.currentTerm = r.currentTerm
    BY DEF Raft
  <2> HIDE DEF cut
  <2>6. IndexInv(cut)
    BY <2>1, <2>5 DEF IndexInv
  <2>7. CASE r2 = Fail(cut, "descriptions")
    <3>1. "descriptions" \in Failures
      BY DEF Failures
    <3> HIDE DEF r2
    <3>2. r2 \in Raft /\ Alike(cut, r2)
      BY <2>4, <2>7, <3>1, FailKeeps
    <3> QED BY <2>1, <2>4, <2>5, <2>6, <3>2, AlikeKeeps DEF Alike, r2
  <2>8. CASE r2 = final
    <3>1. /\ grown \in Raft /\ IndexInv(grown)
          /\ r.known \subseteq grown.known /\ grown.state = "FOLLOWER"
          /\ grown.commitIndex = r.commitIndex
          /\ Len(grown.log) = Len(kept) + Len(new)
          /\ SamePrefix(kept, grown.log, Len(kept))
      <4>1. CASE new = <<>>
        <5>1. Len(new) = 0
          BY <4>1, EmptySeq
        <5> QED BY <2>2, <2>4, <2>5, <2>6, <4>1, <5>1 DEF SamePrefix
      <4>2. CASE new # <<>>
        <5>1. grown = Appended(cut, p, new)
          BY <4>2
        <5> HIDE DEF grown
        <5>2. /\ grown \in Raft /\ Keeps(cut, grown) /\ IndexInv(grown)
              /\ Len(grown.log) = Len(cut.log) + Len(new)
              /\ SamePrefix(cut.log, grown.log, Len(cut.log))
              /\ grown.commitIndex = cut.commitIndex
              /\ grown.state = cut.state
          BY <2>3, <2>4, <2>6, <5>1, AppendedKeeps
        <5> QED BY <2>4, <2>5, <5>2 DEF Keeps
      <4> QED BY <4>1, <4>2
    <3> HIDE DEF grown
    <3>2. commit \in Nat /\ commit <= Len(grown.log)
      BY <1>1, <2>1, <2>2, <2>3, <3>1
    <3> HIDE DEF commit
    <3>3. final \in Raft
      BY <3>1, <3>2 DEF Raft
    <3>4. /\ final.log = grown.log /\ final.commitIndex = commit
          /\ final.known = grown.known /\ final.lastAgree = grown.lastAgree
          /\ final.phase = grown.phase /\ final.state = grown.state
          /\ final.syncing = grown.syncing /\ final.syncTerm = grown.syncTerm
          /\ final.currentTerm = grown.currentTerm
      BY <3>1 DEF Raft
    <3> HIDE DEF final
    <3>5. IndexInv(final)
      BY <3>1, <3>2, <3>4 DEF IndexInv
    <3>6. Len(grown.log) \in Nat
      BY <3>1, RaftFields
    <3>7. SamePrefix(r.log, final.log, r.commitIndex)
      BY <1>1, <2>1, <2>2, <3>1, <3>4, <3>6, SMTT(30) DEF SamePrefix
    <3> QED BY <2>8, <3>1, <3>3, <3>4, <3>5, <3>7 DEF r2
  <2>9. r2 = Fail(cut, "descriptions") \/ r2 = final
    BY <1>4, Zenon DEF Accepted, final, commit, grown, cut, new, kept,
           staging
  <2> QED BY <2>7, <2>8, <2>9
<1> QED BY <1>3, <1>4

\* The whole of handleAppendEntries, refusals and failed assertions included.
LEMMA ReceivedKeeps ==
  ASSUME NEW r \in Raft, NEW p \in Server, NEW s \in Server, NEW m \in Message,
         m.kind = "append", m.commit <= Covered(m), IndexInv(r)
  PROVE  LET result == Received(r, p, s, m)
         IN /\ result.r \in Raft /\ IndexInv(result.r) /\ Keeps(r, result.r)
            /\ SamePrefix(r.log, result.r.log, r.commitIndex)
            /\ result.answer \in Message
            /\ \/ result.answer = Unanswered
               \/ /\ result.answer.kind = "appended"
                  /\ result.answer.covered = Covered(m)
            /\ result.r = r \/ result.r.state = "FOLLOWER"
<1> DEFINE down == SteppedDown(r, m.term)
           leader == IF down.leaderId = None THEN s ELSE down.leaderId
           r1 == [down EXCEPT !.withhold = "days", !.leaderId = leader]
           answer(term, success) ==
             [kind |-> "appended", term |-> term, success |-> success,
              lastIndex |-> Len(r.log), covered |-> Covered(m)]
           accepted == Accepted(r1, p, m)
           result == Received(r, p, s, m)
<1>1. /\ m.term \in Nat /\ r.currentTerm \in Nat /\ Len(r.log) \in Nat
      /\ r.commitIndex \in Nat /\ r.commitIndex <= Len(r.log)
      /\ Covered(m) \in Nat
  BY RaftFields, AppendFields DEF IndexInv
<1>2. Unanswered \in Message
  BY DEF Unanswered, Message
<1>3. \A term \in Nat, success \in BOOLEAN :
        /\ answer(term, success) \in Message
        /\ answer(term, success).kind = "appended"
        /\ answer(term, success).covered = Covered(m)
  BY <1>1 DEF Message
<1>4. SamePrefix(r.log, r.log, r.commitIndex)
  BY <1>1 DEF SamePrefix
<1>5. CASE m.term < r.currentTerm
  <2>1. result.r = r /\ result.answer = answer(r.currentTerm, FALSE)
    BY <1>5 DEF Received
  <2>2. Keeps(r, r)
    BY <1>1 DEF Keeps
  <2> HIDE DEF result, answer
  <2> QED BY <1>1, <1>3, <1>4, <2>1, <2>2 DEF result
<1>6. CASE ~(m.term < r.currentTerm)
  <2>1. /\ down \in Raft /\ IndexInv(down) /\ Keeps(r, down)
        /\ down.log = r.log /\ down.commitIndex = r.commitIndex
        /\ down.state = "FOLLOWER"
    BY <1>1, <1>6, SteppedDownKeeps
  <2> HIDE DEF down
  <2>2. leader \in Server \cup {None}
    BY <2>1, RaftFields
  <2> HIDE DEF leader
  <2>3. r1 \in Raft /\ Alike(down, r1)
    BY <2>1, <2>2, ZenonT(40) DEF Raft, Alike
  <2> HIDE DEF r1
  <2>4. /\ IndexInv(r1) /\ r.known \subseteq r1.known /\ r1.state = "FOLLOWER"
        /\ r1.log = r.log /\ r1.commitIndex = r.commitIndex
    BY <2>1, <2>3, AlikeKeeps DEF Alike, Keeps
  <2>5. CASE r1.leaderId # s
    <3>1. result.r = Fail(r1, "leaderId") /\ result.answer = Unanswered
      BY <1>6, <2>5 DEF Received, r1, down, leader
    <3>2. "leaderId" \in Failures
      BY DEF Failures
    <3> HIDE DEF result
    <3>3. result.r \in Raft /\ Alike(r1, result.r)
      BY <2>3, <3>1, <3>2, FailKeeps
    <3>4. IndexInv(result.r) /\ result.r.log = r.log
          /\ r.known \subseteq result.r.known /\ result.r.state = "FOLLOWER"
      BY <2>3, <2>4, <3>3, AlikeKeeps DEF Alike
    <3> QED BY <1>2, <1>4, <3>1, <3>3, <3>4 DEF Keeps, result
  <2>6. CASE r1.leaderId = s /\ ~Fits(r1, m)
    <3>1. result.r = r1 /\ result.answer = answer(m.term, FALSE)
      BY <1>6, <2>6 DEF Received, r1, down, leader
    <3> HIDE DEF result, answer
    <3> QED BY <1>1, <1>3, <1>4, <2>3, <2>4, <3>1 DEF Keeps, result
  <2>7. CASE r1.leaderId = s /\ Fits(r1, m)
    <3>1. /\ result.r = accepted.r
          /\ result.answer \in {answer(m.term, TRUE), Unanswered}
      BY <1>6, <2>7 DEF Received, r1, down, leader
    <3>2. /\ accepted.r \in Raft /\ IndexInv(accepted.r)
          /\ r1.known \subseteq accepted.r.known
          /\ accepted.r.state = "FOLLOWER"
          /\ SamePrefix(r1.log, accepted.r.log, r1.commitIndex)
      BY <2>3, <2>4, <2>7, AcceptedKeeps
    <3> HIDE DEF result, answer, accepted
    <3> QED BY <1>1, <1>2, <1>3, <2>4, <3>1, <3>2 DEF Keeps, result
  <2> QED BY <2>5, <2>6, <2>7
<1> QED BY <1>5, <1>6

\* The rest of appendEntries, when the answer has arrived.
LEMMA AnsweredKeeps ==
  ASSUME NEW r \in Raft, NEW s \in Server, NEW p \in Server, NEW m \in Message,
         m.kind = "appended", IndexInv(r), CallInv(r, p, m), r.failed = "nothing"
  PROVE  LET r2 == Answered(r, s, p, m)
         IN /\ r2 \in Raft /\ IndexInv(r2) /\ Keeps(r, r2)
            /\ SamePrefix(r.log, r2.log, Len(r.log))
            /\ r2.staging \in {r.staging, {}}
<1> DEFINE agree == IF r.lastAgree[p] > m.covered THEN r.lastAgree[p]
                    ELSE m.covered
           lastAgree == [r.lastAgree EXCEPT ![p] = agree]
           agreed == [r EXCEPT !.lastAgree = lastAgree]
           counted == IF r.lastAgree[p] > m.covered THEN r
                      ELSE AdvancedCommittedId(agreed, s)
           next == [counted.nextIndex EXCEPT ![p] = agree + 1]
           caughtUp == IF r.goal[p] <= agree THEN counted.caughtUp \cup {p}
                       ELSE counted.caughtUp
           r2 == Answered(r, s, p, m)
<1>1. /\ m.term \in Nat /\ m.covered \in Nat /\ m.lastIndex \in Nat
      /\ r.currentTerm \in Nat /\ Len(r.log) \in Nat
      /\ r.lastAgree \in [Server -> Nat]
      /\ p \in r.known
  BY RaftFields, AppendedFields DEF CallInv
<1>2. SamePrefix(r.log, r.log, Len(r.log))
  BY <1>1 DEF SamePrefix
<1>3. CASE m.term > r.currentTerm
  <2>1. r2 = SteppedDown(r, m.term)
    BY <1>3 DEF Answered
  <2>2. /\ r2 \in Raft /\ IndexInv(r2) /\ Keeps(r, r2) /\ r2.log = r.log
        /\ r2.staging = r.staging
    BY <1>1, <1>3, <2>1, SteppedDownKeeps
  <2> HIDE DEF r2
  <2> QED BY <1>2, <2>2 DEF r2
<1>4. CASE m.term < r.currentTerm
  <2>1. r2 = Fail(r, "response.term")
    BY <1>1, <1>4 DEF Answered
  <2>2. "response.term" \in Failures
    BY DEF Failures
  <2> HIDE DEF r2
  <2>3. r2 \in Raft /\ Alike(r, r2) /\ r2.staging = r.staging
    BY <2>1, <2>2, FailKeeps
  <2> QED BY <1>2, <2>3, AlikeKeeps DEF Alike, r2
<1>5. CASE m.term = r.currentTerm /\ ~m.success
  <2>1. r2 = [r EXCEPT !.nextIndex[p] = Retreat(m)]
    BY <1>1, <1>5 DEF Answered
  <2>2. Retreat(m) \in Nat \ {0}
    BY <1>1 DEF Retreat
  <2> HIDE DEF r2
  <2>3. r2 \in Raft /\ Alike(r, r2) /\ r2.staging = r.staging
    BY <2>1, <2>2 DEF Raft, Alike
  <2> QED BY <1>2, <2>3, AlikeKeeps DEF Alike, r2
<1>6. CASE m.term = r.currentTerm /\ m.success
  <2>1. r2 = [counted EXCEPT !.nextIndex = next, !.caughtUp = caughtUp]
    <3>1. r2 = [counted EXCEPT
                  !.nextIndex[p] = agree + 1,
                  !.caughtUp = IF r.goal[p] <= agree THEN @ \cup {p} ELSE @]
      BY <1>1, <1>6 DEF Answered
    <3> QED BY <3>1
  <2>2. agree \in Nat
    BY <1>1
  <2>3. lastAgree \in [Server -> Nat]
    BY <1>1, <2>2
  <2> HIDE DEF lastAgree
  <2>4. agreed \in Raft
    BY <2>3 DEF Raft
  <2>5. /\ agreed.log = r.log /\ agreed.commitIndex = r.commitIndex
        /\ agreed.currentTerm = r.currentTerm /\ agreed.phase = r.phase
        /\ agreed.known = r.known /\ agreed.lastAgree = lastAgree
        /\ agreed.syncing = r.syncing /\ agreed.syncTerm = r.syncTerm
        /\ agreed.syncIndex = r.syncIndex /\ agreed.lastSynced = r.lastSynced
        /\ agreed.state = r.state /\ agreed.failed = r.failed
        /\ agreed.staging = r.staging
    BY DEF Raft
  <2> HIDE DEF agreed
  <2>6. IndexInv(agreed)
    <3>1. \A q \in Server : lastAgree[q] = IF q = p THEN agree ELSE r.lastAgree[q]
      BY <1>1 DEF lastAgree
    <3>2. r.state = "LEADER" => agree <= Len(r.log)
      BY <1>1 DEF CallInv, IndexInv
    <3> HIDE DEF agree
    <3> QED BY <1>1, <2>5, <3>1, <3>2 DEF IndexInv
  <2>7. Keeps(r, agreed)
    BY <1>1, <2>5 DEF Keeps
  <2>8. /\ counted \in Raft /\ IndexInv(counted) /\ Keeps(r, counted)
        /\ SamePrefix(r.log, counted.log, Len(r.log))
        /\ counted.staging \in {r.staging, {}}
    <3>1. CASE r.lastAgree[p] > m.covered
      BY <1>1, <1>2, <3>1 DEF Keeps
    <3>2. CASE ~(r.lastAgree[p] > m.covered)
      <4>1. counted = AdvancedCommittedId(agreed, s)
        BY <3>2
      <4> HIDE DEF counted
      <4>2. /\ counted \in Raft /\ IndexInv(counted) /\ Keeps(agreed, counted)
            /\ SamePrefix(agreed.log, counted.log, Len(agreed.log))
            /\ counted.staging \in {agreed.staging, {}}
        BY <2>4, <2>5, <2>6, <4>1, AdvancedCommittedIdKeeps
      <4>3. Len(counted.log) \in Nat
        BY <4>2, RaftFields
      <4> QED BY <1>1, <2>5, <4>2, <4>3 DEF Keeps
    <3> QED BY <3>1, <3>2
  <2> HIDE DEF counted, agree
  <2>9. next \in [Server -> Nat \ {0}] /\ caughtUp \in SUBSET Server
    <3>1. counted.nextIndex \in [Server -> Nat \ {0}]
      BY <2>8 DEF Raft
    <3>2. counted.caughtUp \in SUBSET Server
      BY <2>8 DEF Raft
    <3> QED BY <2>2, <3>1, <3>2
  <2> HIDE DEF next, caughtUp, r2
  <2>10. r2 \in Raft /\ Alike(counted, r2) /\ r2.staging = counted.staging
    BY <2>1, <2>8, <2>9 DEF Raft, Alike
  <2>11. Keeps(counted, r2) /\ IndexInv(r2) /\ r2.log = counted.log
    BY <2>8, <2>10, AlikeKeeps DEF Alike
  <2>12. Len(counted.log) \in Nat /\ Len(r2.log) \in Nat
    BY <2>8, <2>10, RaftFields
  <2> QED BY <1>1, <2>8, <2>10, <2>11, <2>12 DEF Keeps, r2
<1> QED BY <1>1, <1>3, <1>4, <1>5, <1>6
-----------------------------------------------------------------------------
(* The changes that a log makes. *)

\* made[n] are the changes that the first n entries make, for n up to m.
MadeUpTo(made, entries, m) ==
  made = [n \in 0 .. m |->
            IF n = 0 THEN <<>>
            ELSE IF entries[n].body.type = "DATA"
            THEN Append(made[n - 1], entries[n].body.data)
            ELSE made[n - 1]]

\* The loop over the entries has a result.
LEMMA LoopEnds ==
  ASSUME NEW entries \in Seq(Entry)
  PROVE  \E made : /\ MadeUpTo(made, entries, Len(entries))
                   /\ Changes(entries) = made[Len(entries)]
<1> DEFINE stuck == {m \in Nat : ~\E made : MadeUpTo(made, entries, m)}
<1>1. stuck = {}
  <2> SUFFICES ASSUME stuck # {} PROVE FALSE
    OBVIOUS
  <2>1. PICK m \in stuck : \A k \in stuck : m <= k
    <3>1. stuck \in SUBSET Nat
      OBVIOUS
    <3> HIDE DEF stuck
    <3> QED BY <3>1, SmallestExists
  <2>2. m # 0
    <3> DEFINE none == [n \in 0 .. 0 |-> <<>>]
    <3>1. MadeUpTo(none, entries, 0)
      BY DEF MadeUpTo
    <3> QED BY <2>1, <3>1
  <2>3. PICK made : MadeUpTo(made, entries, m - 1)
    <3>1. m - 1 \in Nat /\ ~(m <= m - 1)
      BY <2>1, <2>2
    <3>2. m - 1 \notin stuck
      <4> HIDE DEF stuck
      <4> QED BY <2>1, <3>1
    <3> QED BY <3>1, <3>2
  <2> DEFINE more == [n \in 0 .. m |->
                        IF n = m
                        THEN IF entries[m].body.type = "DATA"
                             THEN Append(made[m - 1], entries[m].body.data)
                             ELSE made[m - 1]
                        ELSE made[n]]
  <2>4. m \in Nat
    BY <2>1
  <2> HIDE DEF stuck
  <2>5. ASSUME NEW n \in 0 .. m
        PROVE  more[n] = IF n = 0 THEN <<>>
                         ELSE IF entries[n].body.type = "DATA"
                         THEN Append(more[n - 1], entries[n].body.data)
                         ELSE more[n - 1]
    <3>1. CASE n = m
      <4>1. m - 1 \in 0 .. m /\ m - 1 # m
        BY <2>2, <2>4
      <4>2. more[m - 1] = made[m - 1]
        BY <4>1
      <4> QED BY <2>2, <3>1, <4>2
    <3>2. CASE n # m
      <4>1. n \in 0 .. m - 1 /\ more[n] = made[n]
        BY <2>4, <3>2
      <4>2. made[n] = IF n = 0 THEN <<>>
                      ELSE IF entries[n].body.type = "DATA"
                      THEN Append(made[n - 1], entries[n].body.data)
                      ELSE made[n - 1]
        BY <2>3, <4>1, Zenon DEF MadeUpTo
      <4>3. n # 0 => more[n - 1] = made[n - 1]
        BY <2>4, <3>2, <4>1
      <4> QED BY <4>1, <4>2, <4>3
    <3> QED BY <3>1, <3>2
  <2>6. MadeUpTo(more, entries, m)
    <3> DEFINE loop == [n \in 0 .. m |->
                          IF n = 0 THEN <<>>
                          ELSE IF entries[n].body.type = "DATA"
                          THEN Append(more[n - 1], entries[n].body.data)
                          ELSE more[n - 1]]
    <3>1. more = [n \in 0 .. m |-> more[n]]
      OBVIOUS
    <3> HIDE DEF more
    <3>2. \A n \in 0 .. m : more[n] = loop[n]
      BY <2>5
    <3>3. loop = [n \in 0 .. m |-> loop[n]]
      OBVIOUS
    <3> HIDE DEF loop
    <3>4. more = loop
      BY <3>1, <3>2, <3>3
    <3> QED BY <3>4 DEF MadeUpTo, loop
  <2> QED BY <2>1, <2>6 DEF stuck
<1>2. \E made : MadeUpTo(made, entries, Len(entries))
  BY <1>1, LenProperties
<1> QED BY <1>2, Zenon DEF MadeUpTo, Changes

\* One entry more of the loop.
LEMMA LoopGoesOn ==
  ASSUME NEW made, NEW entries, NEW m \in Nat, MadeUpTo(made, entries, m)
  PROVE  /\ made[0] = <<>>
         /\ \A n \in 1 .. m :
              made[n] = IF entries[n].body.type = "DATA"
                        THEN Append(made[n - 1], entries[n].body.data)
                        ELSE made[n - 1]
<1>1. \A n \in 0 .. m :
        made[n] = IF n = 0 THEN <<>>
                  ELSE IF entries[n].body.type = "DATA"
                  THEN Append(made[n - 1], entries[n].body.data)
                  ELSE made[n - 1]
  BY Zenon DEF MadeUpTo
<1> QED BY <1>1

\* Every change is the data of an entry.
LEMMA LoopMakesValues ==
  ASSUME NEW entries \in Seq(Entry), NEW made,
         MadeUpTo(made, entries, Len(entries))
  PROVE  \A n \in 0 .. Len(entries) : made[n] \in Seq(Value)
<1> DEFINE bad == {n \in 0 .. Len(entries) : made[n] \notin Seq(Value)}
<1>0. Len(entries) \in Nat
  BY LenProperties
<1> SUFFICES ASSUME bad # {} PROVE FALSE
  OBVIOUS
<1>1. PICK n \in bad : \A k \in bad : n <= k
  <2>1. bad \in SUBSET Nat
    BY <1>0
  <2> HIDE DEF bad
  <2> QED BY <2>1, SmallestExists
<1>2. n \in 0 .. Len(entries) /\ made[n] \notin Seq(Value)
  BY <1>1
<1>3. n # 0
  <2>1. made[0] = <<>>
    BY <1>0, LoopGoesOn
  <2> QED BY <1>2, <2>1, EmptySeq
<1>4. n - 1 \in 0 .. Len(entries) /\ n \in 1 .. Len(entries) /\ ~(n <= n - 1)
  BY <1>0, <1>2, <1>3
<1>5. n - 1 \notin bad
  <2> HIDE DEF bad
  <2> QED BY <1>1, <1>4
<1>6. made[n - 1] \in Seq(Value)
  BY <1>4, <1>5
<1>7. made[n] = IF entries[n].body.type = "DATA"
                THEN Append(made[n - 1], entries[n].body.data)
                ELSE made[n - 1]
  BY <1>0, <1>4, LoopGoesOn
<1>8. entries[n].body.type = "DATA" => entries[n].body.data \in Value
  <2>1. entries[n] \in Entry
    BY <1>4, ElementOfSeq
  <2>2. entries[n].body \in Body
    BY <2>1 DEF Entry
  <2> QED BY <2>2 DEF Body
<1> HIDE DEF bad
<1>9. made[n] \in Seq(Value)
  BY <1>6, <1>7, <1>8, AppendProperties
<1> QED BY <1>2, <1>9

\* The changes that entries make have the type of fs.
LEMMA ChangesType ==
  ASSUME NEW entries \in Seq(Entry)
  PROVE  Changes(entries) \in Seq(Value)
<1>1. PICK made : /\ MadeUpTo(made, entries, Len(entries))
                  /\ Changes(entries) = made[Len(entries)]
  BY LoopEnds
<1>2. Len(entries) \in 0 .. Len(entries)
  BY LenProperties
<1> QED BY <1>1, <1>2, LoopMakesValues

\* No entries make none.
LEMMA NoChanges == Changes(<<>>) = <<>>
<1>1. <<>> \in Seq(Entry) /\ Len(<<>>) = 0
  BY EmptySeq
<1>2. PICK made : MadeUpTo(made, <<>>, 0) /\ Changes(<<>>) = made[0]
  BY <1>1, LoopEnds
<1> QED BY <1>2, LoopGoesOn

\* The changes that append makes, on a leader none.
LEMMA AppliedType ==
  ASSUME NEW r \in Raft, NEW entries \in Seq(Entry)
  PROVE  Applied(r, entries) \in Seq(Value)
<1>1. Changes(entries) \in Seq(Value)
  BY ChangesType
<1>2. <<>> \in Seq(Value)
  BY EmptySeq
<1> QED BY <1>1, <1>2 DEF Applied

\* What handleAppendEntries changes in the file system are changes of its entries.
LEMMA AcceptedChanges ==
  ASSUME NEW r \in Raft, NEW p \in Server, NEW m \in Message,
         m.kind = "append", Fits(r, m)
  PROVE  Accepted(r, p, m).changes \in Seq(Value)
<1> DEFINE conflicts == Conflicts(r.log, m)
           first == CHOOSE i \in conflicts : \A j \in conflicts : i <= j
           kept == IF conflicts = {} THEN r.log
                   ELSE TruncatedSuffix(r.log, first - 1)
           new == NewEntries(kept, m)
           staging == IF conflicts # {} /\ Cardinality(Configurations(r.log)) > 1
                      THEN {} ELSE r.staging
           cut == [r EXCEPT !.log = kept, !.staging = staging]
<1>1. /\ r.log \in Seq(Entry) /\ Len(r.log) \in Nat
      /\ m.prevIndex \in Nat /\ m.prevIndex <= Len(r.log)
  BY RaftFields, AppendFields DEF Fits
<1>2. kept \in Seq(Entry) /\ m.prevIndex <= Len(kept)
  <2>1. CASE conflicts = {}
    BY <1>1, <2>1
  <2>2. CASE conflicts # {}
    <3>1. first \in m.prevIndex + 1 .. Len(r.log)
      BY <1>1, <2>2, FirstConflict
    <3> HIDE DEF first
    <3>2. /\ first - 1 \in Nat /\ first - 1 < Len(r.log)
          /\ m.prevIndex <= first - 1
      BY <1>1, <3>1
    <3>3. kept = TruncatedSuffix(r.log, first - 1)
      BY <2>2
    <3>4. kept \in Seq(Entry) /\ first - 1 <= Len(kept)
      BY <1>1, <3>2, <3>3, TruncatedSuffixKeeps
    <3>5. Len(kept) \in Nat
      BY <3>4, LenProperties
    <3> HIDE DEF kept
    <3> QED BY <1>1, <3>2, <3>4, <3>5
  <2> QED BY <2>1, <2>2
<1>3. new \in Seq(Entry)
  <2> HIDE DEF kept
  <2> QED BY <1>2, NewEntriesReach
<1>4. cut \in Raft
  <2>1. staging \in SUBSET Server
    BY DEF Raft
  <2> HIDE DEF staging, kept
  <2> QED BY <1>2, <2>1 DEF Raft
<1>5. Accepted(r, p, m).changes \in {<<>>, Applied(cut, new)}
  BY Zenon DEF Accepted, cut, new, kept, staging
<1>6. Applied(cut, new) \in Seq(Value)
  <2> HIDE DEF cut, new
  <2> QED BY <1>3, <1>4, AppliedType
<1>7. <<>> \in Seq(Value)
  BY EmptySeq
<1> HIDE DEF cut, new
<1> QED BY <1>5, <1>6, <1>7

\* Neither does a request that is refused change anything else.
LEMMA ReceivedChanges ==
  ASSUME NEW r \in Raft, NEW p \in Server, NEW s \in Server, NEW m \in Message,
         m.kind = "append", IndexInv(r)
  PROVE  Received(r, p, s, m).changes \in Seq(Value)
<1> DEFINE down == SteppedDown(r, m.term)
           leader == IF down.leaderId = None THEN s ELSE down.leaderId
           r1 == [down EXCEPT !.withhold = "days", !.leaderId = leader]
<1>1. m.term \in Nat /\ r.currentTerm \in Nat /\ <<>> \in Seq(Value)
  BY RaftFields, AppendFields, EmptySeq
<1>2. Received(r, p, s, m).changes = <<>>
        \/ /\ ~(m.term < r.currentTerm) /\ Fits(r1, m)
           /\ Received(r, p, s, m).changes = Accepted(r1, p, m).changes
  BY Zenon DEF Received, r1, leader, down
<1>3. CASE Received(r, p, s, m).changes = <<>>
  BY <1>1, <1>3
<1>4. CASE /\ ~(m.term < r.currentTerm) /\ Fits(r1, m)
           /\ Received(r, p, s, m).changes = Accepted(r1, p, m).changes
  <2>1. down \in Raft
    BY <1>1, <1>4, SteppedDownKeeps
  <2> HIDE DEF down
  <2>2. leader \in Server \cup {None}
    BY <2>1, RaftFields
  <2> HIDE DEF leader
  <2>3. r1 \in Raft
    BY <2>1, <2>2 DEF Raft
  <2> HIDE DEF r1
  <2> QED BY <1>4, <2>3, AcceptedChanges DEF r1
<1> QED BY <1>2, <1>3, <1>4

-----------------------------------------------------------------------------
(* Steps of the cluster: one server moves, and at most one call changes. *)

RestTypeOK ==
  /\ reconf \in [Server -> [step : {"none", "staging", "committing"}, term : Nat,
                           members : SUBSET Server, index : Nat]]
  /\ pending \in [Server -> Value \cup {None}]
  /\ restarts \in 0 .. MaxRestarts

CallsInv ==
  /\ rpc \in [Server -> [Server -> Message]]
  /\ \A s, p \in Server : CallInv(raft[s], p, rpc[s][p])

\* What CommittedPrefixStable says of one step.
CommittedKept ==
  \A s \in Server :
    raft'[s].phase # "new" =>
      SamePrefix(raft[s].log, raft'[s].log, raft[s].commitIndex)

\* The call of q to p becomes m while s moves on to r2.
LEMMA CallsKept ==
  ASSUME NothingInFlightOvershoots, NEW s \in Server, NEW r2 \in Raft,
         Keeps(raft[s], r2), raft' = [raft EXCEPT ![s] = r2],
         NEW q \in Server, NEW p \in Server, NEW m \in Message,
         CallInv(raft[q], p, m), rpc' = [rpc EXCEPT ![q][p] = m]
  PROVE  CallsInv'
<1>1. /\ raft \in [Server -> Raft] /\ rpc \in [Server -> [Server -> Message]]
      /\ \A x, y \in Server : CallInv(raft[x], y, rpc[x][y])
  BY DEF NothingInFlightOvershoots, ServersTypeOK
<1>2. rpc' \in [Server -> [Server -> Message]]
  BY <1>1
<1>3. ASSUME NEW x \in Server, NEW y \in Server
      PROVE  CallInv(raft'[x], y, rpc'[x][y])
  <2>1. raft[x] \in Raft /\ rpc'[x][y] \in Message
    BY <1>1, <1>2
  <2>2. CallInv(raft[x], y, rpc'[x][y])
    <3>1. CASE x = q /\ y = p
      BY <1>1, <3>1
    <3>2. CASE ~(x = q /\ y = p)
      <4>1. rpc'[x][y] = rpc[x][y]
        BY <1>1, <3>2
      <4> QED BY <1>1, <4>1
    <3> QED BY <3>1, <3>2
  <2>3. CASE x = s
    BY <1>1, <2>1, <2>2, <2>3, CallInvKept
  <2>4. CASE x # s
    BY <1>1, <2>2, <2>4
  <2> QED BY <2>3, <2>4
<1> QED BY <1>2, <1>3 DEF CallsInv

\* One server moves on, and some calls with it: the invariant is kept if its parts are.
LEMMA ServerMoves ==
  ASSUME NothingInFlightOvershoots, NEW s \in Server, NEW r2 \in Raft,
         IndexInv(r2), raft' = [raft EXCEPT ![s] = r2], CallsInv', RestTypeOK',
         r2.phase # "new" => SamePrefix(raft[s].log, r2.log, raft[s].commitIndex)
  PROVE  NothingInFlightOvershoots' /\ CommittedKept
<1>1. /\ raft \in [Server -> Raft] /\ \A x \in Server : IndexInv(raft[x])
  BY DEF NothingInFlightOvershoots, ServersTypeOK
<1>2. raft' \in [Server -> Raft]
  BY <1>1
<1>3. \A x \in Server : IndexInv(raft'[x])
  BY <1>1
<1>4. \A x \in Server : SamePrefix(raft[x].log, raft[x].log, raft[x].commitIndex)
  <2> SUFFICES ASSUME NEW x \in Server
               PROVE  SamePrefix(raft[x].log, raft[x].log, raft[x].commitIndex)
    OBVIOUS
  <2>1. IndexInv(raft[x])
    BY <1>1
  <2> QED BY <2>1 DEF IndexInv, SamePrefix
<1>5. CommittedKept
  BY <1>1, <1>4 DEF CommittedKept
<1>6. NothingInFlightOvershoots'
  BY <1>2, <1>3 DEF NothingInFlightOvershoots, ServersTypeOK, CallsInv, RestTypeOK
<1> QED BY <1>5, <1>6

\* A step of one server that no call takes part in.
LEMMA ServerMovesAlone ==
  ASSUME NothingInFlightOvershoots, NEW s \in Server, NEW r2 \in Raft,
         IndexInv(r2), Keeps(raft[s], r2), raft' = [raft EXCEPT ![s] = r2],
         rpc' = rpc, RestTypeOK',
         SamePrefix(raft[s].log, r2.log, raft[s].commitIndex)
  PROVE  NothingInFlightOvershoots' /\ CommittedKept
<1>1. /\ rpc \in [Server -> [Server -> Message]]
      /\ CallInv(raft[s], s, rpc[s][s])
  BY DEF NothingInFlightOvershoots, ServersTypeOK
<1>2. rpc' = [rpc EXCEPT ![s][s] = rpc[s][s]]
  BY <1>1
<1>3. rpc[s][s] \in Message
  BY <1>1
<1>4. CallsInv'
  BY <1>1, <1>2, <1>3, CallsKept
<1> QED BY <1>4, ServerMoves

\* A step that leaves every consensus object alone.
LEMMA ServersStay ==
  ASSUME NothingInFlightOvershoots, raft' = raft, CallsInv', RestTypeOK'
  PROVE  NothingInFlightOvershoots' /\ CommittedKept
<1>1. /\ raft \in [Server -> Raft] /\ \A x \in Server : IndexInv(raft[x])
  BY DEF NothingInFlightOvershoots, ServersTypeOK
<1>2. \A x \in Server : SamePrefix(raft[x].log, raft[x].log, raft[x].commitIndex)
  <2> SUFFICES ASSUME NEW x \in Server
               PROVE  SamePrefix(raft[x].log, raft[x].log, raft[x].commitIndex)
    OBVIOUS
  <2>1. IndexInv(raft[x])
    BY <1>1
  <2> QED BY <2>1 DEF IndexInv, SamePrefix
<1>3. CommittedKept
  BY <1>2 DEF CommittedKept
<1> QED BY <1>1, <1>3 DEF NothingInFlightOvershoots, ServersTypeOK, CallsInv,
           RestTypeOK

\* A prefix of a log that only grew is a prefix.
LEMMA PrefixOfGrown ==
  ASSUME NEW r \in Raft, NEW r2 \in Raft, IndexInv(r),
         SamePrefix(r.log, r2.log, Len(r.log))
  PROVE  SamePrefix(r.log, r2.log, r.commitIndex)
<1>1. /\ r.commitIndex \in Nat /\ Len(r.log) \in Nat /\ Len(r2.log) \in Nat
      /\ r.commitIndex <= Len(r.log)
  BY RaftFields DEF IndexInv
<1> QED BY <1>1 DEF SamePrefix
-----------------------------------------------------------------------------
(* One lemma per action: it keeps the invariant and the committed entries. *)

\* What the invariant says of one server and of its calls.
LEMMA Parts ==
  ASSUME NothingInFlightOvershoots, NEW s \in Server
  PROVE  /\ raft \in [Server -> Raft] /\ raft[s] \in Raft /\ IndexInv(raft[s])
         /\ rpc \in [Server -> [Server -> Message]]
         /\ \A p \in Server : /\ rpc[s][p] \in Message
                             /\ CallInv(raft[s], p, rpc[s][p])
         /\ CallsInv /\ RestTypeOK
BY DEF NothingInFlightOvershoots, ServersTypeOK, CallsInv, RestTypeOK

\* A new process: no call of its own, and calls to it may be lost.
LEMMA RestartStep ==
  ASSUME NothingInFlightOvershoots, NEW s \in Server, Restart(s)
  PROVE  NothingInFlightOvershoots' /\ CommittedKept
<1>1. PICK stored \in SUBSET Files(raft[s].stored) :
        raft' = [raft EXCEPT ![s] = NewRaft(stored)]
  BY DEF Restart
<1>2. PICK lost \in SUBSET Server :
        rpc' = [q \in Server |-> [p \in Server |->
                  IF q = s THEN Idle
                  ELSE IF p = s /\ q \in lost THEN Unanswered
                  ELSE rpc[q][p]]]
        /\ \A q \in lost : rpc[q][s].kind \in {"append", "vote"}
  BY DEF Restart
<1> DEFINE r2 == NewRaft(stored)
<1>3. r2 \in Raft /\ r2.phase = "new" /\ IndexInv(r2)
  <2>1. stored \in SUBSET Metadata
    BY <1>1, Parts, RaftFields, FilesType
  <2>2. r2 \in Raft
    BY <2>1, EmptySeq DEF NewRaft, Raft
  <2>3. Len(<<>>) = 0
    OBVIOUS
  <2> QED BY <2>2, <2>3 DEF NewRaft, IndexInv
<1> HIDE DEF r2
<1>4. rpc' \in [Server -> [Server -> Message]]
  <2>1. Idle \in Message /\ Unanswered \in Message
    BY DEF Idle, Unanswered, Message
  <2> QED BY <1>2, <2>1, Parts
<1>5. ASSUME NEW q \in Server, NEW p \in Server
      PROVE  CallInv(raft'[q], p, rpc'[q][p])
  <2>1. CASE q = s
    <3>1. rpc'[q][p] = Idle
      BY <1>2, <2>1
    <3> QED BY <3>1 DEF CallInv, Idle
  <2>2. CASE q # s
    <3>1. raft'[q] = raft[q] /\ CallInv(raft[q], p, rpc[q][p])
      BY <1>1, <2>2, Parts
    <3>2. CASE p = s /\ q \in lost
      <4>1. /\ rpc'[q][p] = Unanswered /\ rpc[q][p].kind # "idle"
        BY <1>2, <2>2, <3>2
      <4> QED BY <3>1, <4>1 DEF CallInv, Unanswered
    <3>3. CASE ~(p = s /\ q \in lost)
      <4>1. rpc'[q][p] = rpc[q][p]
        BY <1>2, <2>2, <3>3
      <4> QED BY <3>1, <4>1
    <3> QED BY <3>2, <3>3
  <2> QED BY <2>1, <2>2
<1>6. CallsInv'
  BY <1>4, <1>5 DEF CallsInv
<1>7. RestTypeOK'
  BY Parts, ConstantsAssumption
     DEF Restart, RestTypeOK, NoReconf, ConstantsAssumption
<1>8. raft' = [raft EXCEPT ![s] = r2]
  BY <1>1 DEF r2
<1> QED BY <1>3, <1>6, <1>7, <1>8, ServerMoves

\* bootstrapConfiguration: the first entry of an empty log.
LEMMA BootstrapConfigurationStep ==
  ASSUME NothingInFlightOvershoots, NEW s \in Server, BootstrapConfiguration(s)
  PROVE  NothingInFlightOvershoots' /\ CommittedKept
<1> DEFINE r == raft[s]
           r1 == SteppedDown(r, 1)
           first == ConfigurationEntry(r1, {s}, {})
           longer == Appended(r1, s, <<first>>)
           r2 == [longer EXCEPT !.phase = "bootstrapped"]
           failed == Fail(r, "bootstrapConfiguration")
<1>1. r \in Raft /\ IndexInv(r) /\ r.phase = "new"
  BY Parts DEF BootstrapConfiguration
<1>2. rpc' = rpc /\ RestTypeOK'
  BY Parts DEF BootstrapConfiguration, RestTypeOK
<1>3. CASE r.currentTerm = 0 /\ r.log = <<>>
  <2>1. raft' = [raft EXCEPT ![s] = r2]
    BY <1>3 DEF BootstrapConfiguration
  <2> HIDE DEF r
  <2>2. /\ r1 \in Raft /\ IndexInv(r1) /\ Keeps(r, r1)
        /\ r1.log = r.log /\ r1.phase = r.phase /\ r1.state = "FOLLOWER"
    BY <1>1, <1>3, SteppedDownKeeps
  <2> HIDE DEF r1
  <2>3. <<first>> \in Seq(Entry)
    BY <2>2, ConfigurationEntryType
  <2> HIDE DEF first
  <2>4. /\ longer \in Raft /\ IndexInv(longer) /\ Keeps(r1, longer)
        /\ SamePrefix(r1.log, longer.log, Len(r1.log))
        /\ longer.phase = r1.phase /\ longer.state = r1.state
    BY <2>2, <2>3, AppendedKeeps
  <2> HIDE DEF longer
  <2>5. /\ r2 \in Raft /\ r2.log = longer.log /\ r2.state = longer.state
        /\ r2.known = longer.known /\ r2.commitIndex = longer.commitIndex
        /\ r2.lastAgree = longer.lastAgree /\ r2.syncing = longer.syncing
        /\ r2.syncTerm = longer.syncTerm /\ r2.currentTerm = longer.currentTerm
    BY <2>4 DEF Raft
  <2> HIDE DEF r2
  <2>6. IndexInv(r2)
    BY <1>1, <2>2, <2>4, <2>5 DEF IndexInv
  <2>7. Keeps(r, r2)
    BY <2>2, <2>4, <2>5 DEF Keeps
  <2>8. SamePrefix(r.log, r2.log, r.commitIndex)
    <3>1. SamePrefix(r.log, r2.log, Len(r.log))
      BY <2>2, <2>4, <2>5
    <3> QED BY <1>1, <2>5, <3>1, PrefixOfGrown
  <2> QED BY <1>2, <2>1, <2>5, <2>6, <2>7, <2>8, ServerMovesAlone DEF r
<1>4. CASE ~(r.currentTerm = 0 /\ r.log = <<>>)
  <2>1. raft' = [raft EXCEPT ![s] = failed]
    BY <1>4 DEF BootstrapConfiguration
  <2>2. failed \in Raft /\ Alike(r, failed)
    <3>1. "bootstrapConfiguration" \in Failures
      BY DEF Failures
    <3> QED BY <1>1, <3>1, FailKeeps
  <2> HIDE DEF failed
  <2>3. SamePrefix(r.log, failed.log, r.commitIndex)
    BY <1>1, <2>2 DEF Alike, IndexInv, SamePrefix
  <2> QED BY <1>1, <1>2, <2>1, <2>2, <2>3, AlikeKeeps, ServerMovesAlone
<1> QED BY <1>3, <1>4

\* init: the metadata read back may lower the term, but no sync or leadership exists yet.
LEMMA InitializeStep ==
  ASSUME NothingInFlightOvershoots, NEW s \in Server, Initialize(s)
  PROVE  NothingInFlightOvershoots' /\ CommittedKept
<1> DEFINE r == raft[s]
<1> DEFINE current == [term |-> r.currentTerm, vote |-> r.votedFor]
<1>1. PICK m \in Files(r.stored \cup {current}) :
        raft' = [raft EXCEPT ![s] = SteppedDown(
                   [r EXCEPT !.currentTerm = m.term, !.votedFor = m.vote,
                             !.stored = @ \cup {m}, !.phase = "running"], m.term)]
  BY DEF Initialize
<1>2. r \in Raft /\ IndexInv(r) /\ r.phase # "running"
  BY Parts DEF Initialize
<1>3. rpc' = rpc /\ RestTypeOK'
  BY Parts DEF Initialize, RestTypeOK
<1> DEFINE stored == r.stored \cup {m}
           ready == [r EXCEPT !.currentTerm = m.term, !.votedFor = m.vote,
                              !.stored = stored, !.phase = "running"]
           r2 == SteppedDown(ready, m.term)
<1>4. raft' = [raft EXCEPT ![s] = r2]
  BY <1>1
<1> HIDE DEF r
<1>5. m \in Metadata
  <2>1. current \in Metadata
    BY <1>2, RaftFields DEF Metadata
  <2>2. r.stored \cup {current} \in SUBSET Metadata
    BY <1>2, <2>1, RaftFields
  <2> QED BY <2>2, FilesType
<1>6. /\ m.term \in Nat /\ m.vote \in Server \cup {None}
      /\ stored \in SUBSET Metadata
  <2>1. m.term \in Nat /\ m.vote \in Server \cup {None}
    BY <1>5 DEF Metadata
  <2> QED BY <1>2, <1>5, <2>1, RaftFields
<1> HIDE DEF stored
<1>7. /\ ready \in Raft /\ ready.currentTerm = m.term
      /\ ready.log = r.log /\ ready.state = r.state /\ ready.known = r.known
      /\ ready.commitIndex = r.commitIndex /\ ready.lastAgree = r.lastAgree
      /\ ready.syncing = r.syncing /\ ready.failed = r.failed
  BY <1>2, <1>6 DEF Raft
<1> HIDE DEF ready
<1>8. IndexInv(ready)
  BY <1>2, <1>7 DEF IndexInv
<1>9. /\ r2 \in Raft /\ IndexInv(r2) /\ Keeps(ready, r2) /\ r2.log = ready.log
  BY <1>6, <1>7, <1>8, SteppedDownKeeps
<1> HIDE DEF r2
<1>10. Keeps(r, r2) /\ SamePrefix(r.log, r2.log, r.commitIndex)
  BY <1>2, <1>7, <1>9 DEF Keeps, IndexInv, SamePrefix
<1> QED BY <1>3, <1>4, <1>9, <1>10, ServerMovesAlone DEF r
\* A candidate may lead at once only if it knows no peer: then it has no call
\* under way whose answer could be about an earlier leadership.
LEMMA StartNewElectionStep ==
  ASSUME NothingInFlightOvershoots, NEW s \in Server, StartNewElection(s)
  PROVE  NothingInFlightOvershoots' /\ CommittedKept
<1> DEFINE r == raft[s]
           term == r.currentTerm + 1
           stored == r.stored \cup {[term |-> term, vote |-> s]}
           r1 == [r EXCEPT !.currentTerm = term, !.state = "CANDIDATE",
                           !.leaderId = None, !.votedFor = s, !.stored = stored]
           failed == Fail(r1, "quorumAll")
           led == BecomeLeader(r1, s)
<1>1. /\ r \in Raft /\ IndexInv(r) /\ r.phase = "running"
      /\ \A p \in Server : rpc[s][p] \in Message /\ CallInv(r, p, rpc[s][p])
  BY Parts DEF StartNewElection
<1>2. rpc' = rpc /\ RestTypeOK'
  BY Parts DEF StartNewElection, RestTypeOK
<1>3. \/ raft' = [raft EXCEPT ![s] = r1]
      \/ raft' = [raft EXCEPT ![s] = failed]
      \/ raft' = [raft EXCEPT ![s] = led]
  BY Zenon DEF StartNewElection
<1> HIDE DEF r
<1>4. /\ term \in Nat /\ r.currentTerm \in Nat /\ r.syncTerm \in Nat
      /\ stored \in SUBSET Metadata
  <2>1. term \in Nat /\ r.currentTerm \in Nat /\ r.syncTerm \in Nat
    BY <1>1, RaftFields
  <2>2. r.stored \in SUBSET Metadata
    BY <1>1, RaftFields
  <2> HIDE DEF term
  <2>3. stored \in SUBSET Metadata
    BY <2>1, <2>2, MetadataType
  <2> QED BY <2>1, <2>3
<1> HIDE DEF stored
<1>5. /\ r1 \in Raft /\ r1.currentTerm = term /\ r1.state = "CANDIDATE"
      /\ r1.log = r.log /\ r1.known = r.known /\ r1.phase = r.phase
      /\ r1.commitIndex = r.commitIndex /\ r1.lastAgree = r.lastAgree
      /\ r1.syncing = r.syncing /\ r1.syncTerm = r.syncTerm
      /\ r1.failed = r.failed
  BY <1>1, <1>4 DEF Raft
<1> HIDE DEF r1
<1>6. IndexInv(r1) /\ Keeps(r, r1) /\ SamePrefix(r.log, r1.log, r.commitIndex)
  BY <1>1, <1>4, <1>5 DEF IndexInv, Keeps, SamePrefix
<1>7. CASE raft' = [raft EXCEPT ![s] = r1]
  BY <1>2, <1>5, <1>6, <1>7, ServerMovesAlone DEF r
<1>8. CASE raft' = [raft EXCEPT ![s] = failed]
  <2>1. failed \in Raft /\ Alike(r1, failed)
    <3>1. "quorumAll" \in Failures
      BY DEF Failures
    <3> QED BY <1>5, <3>1, FailKeeps
  <2> HIDE DEF failed
  <2>2. /\ IndexInv(failed) /\ Keeps(r, failed)
        /\ SamePrefix(r.log, failed.log, r.commitIndex)
    BY <1>5, <1>6, <2>1, AlikeKeeps DEF Alike, Keeps
  <2> QED BY <1>2, <1>8, <2>1, <2>2, ServerMovesAlone DEF r
<1>9. CASE raft' = [raft EXCEPT ![s] = led]
  <2>1. r1.syncing => r1.syncTerm < r1.currentTerm
    BY <1>1, <1>4, <1>5 DEF IndexInv
  <2>2. /\ led \in Raft /\ IndexInv(led) /\ r.known \subseteq led.known
        /\ led.failed = "nothing" => r.known = {}
        /\ SamePrefix(r.log, led.log, Len(r.log))
    BY <1>1, <1>5, <1>6, <2>1, BecomeLeaderKeeps
  <2> HIDE DEF led
  <2>3. SamePrefix(r.log, led.log, r.commitIndex)
    BY <1>1, <2>2, PrefixOfGrown
  <2>4. ASSUME NEW p \in Server
        PROVE  CallInv(led, p, rpc[s][p])
    BY <1>1, <2>2 DEF CallInv
  <2>5. ASSUME NEW q \in Server, NEW p \in Server
        PROVE  CallInv(raft'[q], p, rpc'[q][p])
    BY <1>2, <1>9, <2>4, Parts
  <2>6. CallsInv'
    BY <1>2, <2>5, Parts DEF CallsInv
  <2> QED BY <1>2, <1>9, <2>2, <2>3, <2>6, ServerMoves DEF r
<1> QED BY <1>3, <1>7, <1>8, <1>9

\* requestVote: a call of a candidate to a peer it knows.
LEMMA RequestVoteStep ==
  ASSUME NothingInFlightOvershoots, NEW s \in Server, NEW p \in Server,
         RequestVote(s, p)
  PROVE  NothingInFlightOvershoots' /\ CommittedKept
<1> DEFINE r == raft[s]
           m == [kind |-> "vote", term |-> r.currentTerm,
                 lastTerm |-> LastTerm(r.log), lastIndex |-> Len(r.log)]
<1>1. r \in Raft /\ p \in r.known
  BY Parts DEF RequestVote
<1>2. raft' = raft /\ rpc' = [rpc EXCEPT ![s][p] = m] /\ RestTypeOK'
  BY Parts DEF RequestVote, RestTypeOK
<1> HIDE DEF r
<1>3. LastTerm(r.log) \in Nat
  <2>1. CASE r.log = <<>>
    BY <2>1 DEF LastTerm
  <2>2. CASE r.log # <<>>
    <3>1. r.log \in Seq(Entry) /\ Len(r.log) \in 1 .. Len(r.log)
      BY <1>1, <2>2, RaftFields, EmptySeq
    <3>2. r.log[Len(r.log)] \in Entry
      BY <3>1, ElementOfSeq
    <3> QED BY <2>2, <3>2 DEF LastTerm, Entry
  <2> QED BY <2>1, <2>2
<1>4. m \in Message /\ m.kind = "vote"
  BY <1>1, <1>3, RaftFields DEF Message
<1> HIDE DEF m
<1>5. CallInv(r, p, m)
  BY <1>1, <1>4 DEF CallInv
<1>6. raft' = [raft EXCEPT ![s] = r] /\ Keeps(r, r)
  BY <1>1, <1>2, Parts, RaftFields DEF Keeps, r
<1>7. CallsInv'
  BY <1>1, <1>2, <1>4, <1>5, <1>6, CallsKept DEF r
<1> QED BY <1>2, <1>7, ServersStay

\* handleRequestVote: the voter may step down, and its answer never comes.
LEMMA HandleRequestVoteStep ==
  ASSUME NothingInFlightOvershoots, NEW p \in Server, NEW s \in Server,
         HandleRequestVote(p, s)
  PROVE  NothingInFlightOvershoots' /\ CommittedKept
<1> DEFINE r == raft[p]
           m == rpc[s][p]
           voted == IF r.withhold # "no" THEN r ELSE Voted(r, s, m)
           r2 == [voted EXCEPT !.rpcAlive = FALSE]
<1>1. /\ r \in Raft /\ IndexInv(r) /\ m \in Message /\ m.kind = "vote"
      /\ CallInv(raft[s], p, m)
  BY Parts DEF HandleRequestVote
<1>2. /\ raft' = [raft EXCEPT ![p] = r2]
      /\ rpc' = [rpc EXCEPT ![s][p] = Unanswered]
      /\ RestTypeOK'
  BY Parts DEF HandleRequestVote, RestTypeOK
<1> HIDE DEF r, m
<1>3. voted \in Raft /\ Keeps(r, voted) /\ IndexInv(voted) /\ voted.log = r.log
  <2>1. Keeps(r, r)
    BY <1>1, RaftFields DEF Keeps
  <2> QED BY <1>1, <2>1, VotedKeeps
<1> HIDE DEF voted
<1>4. r2 \in Raft /\ Alike(voted, r2)
  BY <1>3 DEF Raft, Alike
<1> HIDE DEF r2
<1>5. /\ IndexInv(r2) /\ Keeps(r, r2)
      /\ SamePrefix(r.log, r2.log, r.commitIndex)
  BY <1>1, <1>3, <1>4, AlikeKeeps DEF Alike, Keeps, IndexInv, SamePrefix
<1>6. Unanswered \in Message /\ CallInv(raft[s], p, Unanswered)
  BY <1>1 DEF Unanswered, Message, CallInv
<1>7. CallsInv'
  BY <1>2, <1>4, <1>5, <1>6, CallsKept DEF r
<1> QED BY <1>2, <1>4, <1>5, <1>7, ServerMoves DEF r

\* appendEntries: the request carries no commit index beyond its entries.
LEMMA AppendEntriesStep ==
  ASSUME NothingInFlightOvershoots, NEW s \in Server, NEW p \in Server,
         AppendEntries(s, p)
  PROVE  NothingInFlightOvershoots' /\ CommittedKept
<1> DEFINE r == raft[s]
           prev == r.nextIndex[p] - 1
           last == IF Len(r.log) < prev + MaxEntries THEN Len(r.log)
                   ELSE prev + MaxEntries
           failed == Fail(r, "prevLogIndex")
           prevTerm == IF prev = 0 THEN 0 ELSE r.log[prev].term
           entries == SubSeq(r.log, prev + 1, last)
           commit == CommitSent(r, last)
           m == [kind |-> "append", term |-> r.currentTerm, prevIndex |-> prev,
                 prevTerm |-> prevTerm, entries |-> entries, commit |-> commit]
<1>1. r \in Raft /\ IndexInv(r) /\ p \in r.known
  BY Parts DEF AppendEntries
<1>2. RestTypeOK'
  BY Parts DEF AppendEntries, RestTypeOK
<1>3. CASE prev > Len(r.log)
  <2>1. raft' = [raft EXCEPT ![s] = failed] /\ rpc' = rpc
    BY <1>3 DEF AppendEntries
  <2>2. failed \in Raft /\ Alike(r, failed)
    <3>1. "prevLogIndex" \in Failures
      BY DEF Failures
    <3> QED BY <1>1, <3>1, FailKeeps
  <2> HIDE DEF failed
  <2>3. SamePrefix(r.log, failed.log, r.commitIndex)
    BY <1>1, <2>2 DEF Alike, IndexInv, SamePrefix
  <2> QED BY <1>1, <1>2, <2>1, <2>2, <2>3, AlikeKeeps, ServerMovesAlone
<1>4. CASE ~(prev > Len(r.log))
  <2>1. raft' = raft /\ rpc' = [rpc EXCEPT ![s][p] = m]
    BY <1>4 DEF AppendEntries
  <2> HIDE DEF r
  <2>2. /\ r.log \in Seq(Entry) /\ Len(r.log) \in Nat /\ r.currentTerm \in Nat
        /\ r.commitIndex \in Nat /\ prev \in Nat /\ prev <= Len(r.log)
        /\ MaxEntries \in Nat
    <3>1. r.nextIndex[p] \in Nat \ {0}
      BY <1>1 DEF Raft
    <3>2. /\ r.log \in Seq(Entry) /\ Len(r.log) \in Nat /\ r.currentTerm \in Nat
          /\ r.commitIndex \in Nat
      BY <1>1, RaftFields
    <3> QED BY <1>4, <3>1, <3>2, ConstantsAssumption DEF ConstantsAssumption
  <2> HIDE DEF prev
  <2>3. last \in Nat /\ prev <= last /\ last <= Len(r.log)
    BY <2>2
  <2> HIDE DEF last
  <2>4. entries \in Seq(Entry) /\ Len(entries) = last - prev
    <3>1. \A i \in prev + 1 .. last : r.log[i] \in Entry
      BY <2>2, <2>3, ElementOfSeq
    <3> QED BY <2>2, <2>3, <3>1, SubSeqProperties
  <2>5. commit \in Nat /\ commit <= last
    BY <2>2, <2>3 DEF CommitSent
  <2>6. prevTerm \in Nat
    <3>1. CASE prev = 0
      BY <3>1
    <3>2. CASE prev # 0
      <4>1. r.log[prev] \in Entry
        BY <2>2, <3>2, ElementOfSeq
      <4> QED BY <3>2, <4>1 DEF Entry
    <3> QED BY <3>1, <3>2
  <2> HIDE DEF entries, commit, prevTerm
  <2>7. /\ m \in Message /\ m.kind = "append" /\ m.commit = commit
        /\ m.prevIndex = prev /\ m.entries = entries
    BY <2>2, <2>4, <2>5, <2>6 DEF Message
  <2> HIDE DEF m
  <2>8. Covered(m) = last
    BY <2>2, <2>3, <2>4, <2>7 DEF Covered
  <2>9. CallInv(r, p, m)
    BY <1>1, <2>3, <2>5, <2>7, <2>8 DEF CallInv
  <2>10. raft' = [raft EXCEPT ![s] = r] /\ Keeps(r, r)
    BY <1>1, <2>1, <2>2, Parts DEF Keeps, r
  <2>11. CallsInv'
    BY <1>1, <2>1, <2>7, <2>9, <2>10, CallsKept DEF r
  <2> QED BY <1>2, <2>1, <2>11, ServersStay
<1> QED BY <1>3, <1>4

\* handleAppendEntries on the follower, and its answer on the way back.
LEMMA HandleAppendEntriesStep ==
  ASSUME NothingInFlightOvershoots, NEW p \in Server, NEW s \in Server,
         HandleAppendEntries(p, s)
  PROVE  NothingInFlightOvershoots' /\ CommittedKept
<1> DEFINE r == raft[p]
           m == rpc[s][p]
           result == Received(r, p, s, m)
<1>1. /\ r \in Raft /\ IndexInv(r) /\ m \in Message /\ m.kind = "append"
      /\ CallInv(raft[s], p, m)
  BY Parts DEF HandleAppendEntries
<1>2. /\ raft' = [raft EXCEPT ![p] = result.r]
      /\ rpc' = [rpc EXCEPT ![s][p] = result.answer]
      /\ RestTypeOK'
  BY Parts DEF HandleAppendEntries, RestTypeOK
<1> HIDE DEF r, m
<1>3. /\ result.r \in Raft /\ IndexInv(result.r) /\ Keeps(r, result.r)
      /\ SamePrefix(r.log, result.r.log, r.commitIndex)
      /\ result.answer \in Message
      /\ \/ result.answer = Unanswered
         \/ /\ result.answer.kind = "appended"
            /\ result.answer.covered = Covered(m)
  <2>1. m.commit <= Covered(m)
    BY <1>1 DEF CallInv
  <2> QED BY <1>1, <2>1, ReceivedKeeps
<1> HIDE DEF result
<1>4. CallInv(raft[s], p, result.answer)
  BY <1>1, <1>3 DEF CallInv, Unanswered
<1>5. CallsInv'
  BY <1>2, <1>3, <1>4, CallsKept DEF r
<1> QED BY <1>2, <1>3, <1>5, ServerMoves DEF r

\* The answer is taken in by the leader, whatever it has become meanwhile.
LEMMA HandleAppendEntriesResponseStep ==
  ASSUME NothingInFlightOvershoots, NEW s \in Server, NEW p \in Server,
         HandleAppendEntriesResponse(s, p)
  PROVE  NothingInFlightOvershoots' /\ CommittedKept
<1> DEFINE r == raft[s]
           m == rpc[s][p]
           r2 == Answered(r, s, p, m)
<1>1. /\ r \in Raft /\ IndexInv(r) /\ m \in Message /\ m.kind = "appended"
      /\ CallInv(r, p, m) /\ r.failed = "nothing"
  BY Parts DEF HandleAppendEntriesResponse, Up
<1>2. /\ raft' = [raft EXCEPT ![s] = r2]
      /\ rpc' = [rpc EXCEPT ![s][p] = Idle]
      /\ RestTypeOK'
  BY Parts DEF HandleAppendEntriesResponse, RestTypeOK
<1> HIDE DEF r, m
<1>3. /\ r2 \in Raft /\ IndexInv(r2) /\ Keeps(r, r2)
      /\ SamePrefix(r.log, r2.log, Len(r.log))
  BY <1>1, AnsweredKeeps
<1> HIDE DEF r2
<1>4. SamePrefix(r.log, r2.log, r.commitIndex)
  BY <1>1, <1>3, PrefixOfGrown
<1>5. Idle \in Message /\ CallInv(r, p, Idle)
  BY DEF Idle, Message, CallInv
<1>6. CallsInv'
  BY <1>2, <1>3, <1>5, CallsKept DEF r
<1> QED BY <1>2, <1>3, <1>4, <1>6, ServerMoves DEF r

\* leaderDiskThreadMain takes a sync of the whole log.
LEMMA TakeSyncStep ==
  ASSUME NothingInFlightOvershoots, NEW s \in Server, TakeSync(s)
  PROVE  NothingInFlightOvershoots' /\ CommittedKept
<1> DEFINE r == raft[s]
           r2 == [r EXCEPT !.logSyncQueued = FALSE, !.syncing = TRUE,
                           !.syncTerm = r.currentTerm, !.syncIndex = Len(r.log)]
<1>1. /\ r \in Raft /\ IndexInv(r) /\ r.state = "LEADER"
      /\ raft \in [Server -> Raft]
  BY Parts DEF TakeSync
<1>2. rpc' = rpc /\ RestTypeOK'
  BY Parts DEF TakeSync, RestTypeOK
<1>3. raft' = [raft EXCEPT ![s] = r2]
  BY <1>1 DEF TakeSync
<1> HIDE DEF r
<1>4. /\ r.currentTerm \in Nat /\ Len(r.log) \in Nat /\ r.commitIndex \in Nat
      /\ r.phase = "running"
  BY <1>1, RaftFields DEF IndexInv
<1>5. /\ r2 \in Raft /\ r2.log = r.log /\ r2.commitIndex = r.commitIndex
      /\ r2.currentTerm = r.currentTerm /\ r2.phase = r.phase
      /\ r2.known = r.known /\ r2.lastAgree = r.lastAgree
      /\ r2.syncing = TRUE /\ r2.syncTerm = r.currentTerm
      /\ r2.syncIndex = Len(r.log) /\ r2.lastSynced = r.lastSynced
      /\ r2.state = r.state /\ r2.failed = r.failed
  BY <1>1, <1>4 DEF Raft
<1> HIDE DEF r2
<1>6. IndexInv(r2)
  BY <1>1, <1>4, <1>5 DEF IndexInv
<1>7. Keeps(r, r2) /\ SamePrefix(r.log, r2.log, r.commitIndex)
  BY <1>1, <1>4, <1>5 DEF Keeps, IndexInv, SamePrefix
<1> QED BY <1>2, <1>3, <1>5, <1>6, <1>7, ServerMovesAlone DEF r

\* The entries a sync covers still count if the term has not changed.
LEMMA SyncDoneStep ==
  ASSUME NothingInFlightOvershoots, NEW s \in Server, SyncDone(s)
  PROVE  NothingInFlightOvershoots' /\ CommittedKept
<1> DEFINE r == raft[s]
           over == SyncOver(r)
           synced == [over EXCEPT !.lastSynced = over.syncIndex]
           counted == AdvancedCommittedId(synced, s)
<1>1. r \in Raft /\ IndexInv(r) /\ r.failed = "nothing" /\ r.syncing
  BY Parts DEF SyncDone, Up
<1>2. rpc' = rpc /\ RestTypeOK'
  BY Parts DEF SyncDone, RestTypeOK
<1>3. raft' = [raft EXCEPT
        ![s] = IF over.state = "LEADER" /\ over.currentTerm = over.syncTerm
               THEN counted ELSE over]
  BY DEF SyncDone
<1> HIDE DEF r
<1>4. /\ over \in Raft /\ over.log = r.log /\ over.commitIndex = r.commitIndex
      /\ over.currentTerm = r.currentTerm /\ over.phase = r.phase
      /\ over.known = r.known /\ over.lastAgree = r.lastAgree
      /\ over.syncing = FALSE /\ over.syncTerm = r.syncTerm
      /\ over.syncIndex = r.syncIndex /\ over.lastSynced = r.lastSynced
      /\ over.state = r.state /\ over.failed = r.failed
  BY <1>1 DEF Raft, SyncOver
<1> HIDE DEF over
<1>5. IndexInv(over)
  BY <1>1, <1>4 DEF IndexInv
<1>6. /\ Keeps(r, over) /\ SamePrefix(r.log, over.log, Len(r.log))
      /\ Len(r.log) \in Nat
  BY <1>1, <1>4, RaftFields DEF Keeps, SamePrefix
<1>7. CASE over.state = "LEADER" /\ over.currentTerm = over.syncTerm
  <2>1. over.syncIndex \in Nat /\ over.syncIndex <= Len(over.log)
    BY <1>1, <1>4, <1>7, RaftFields DEF IndexInv
  <2>2. /\ synced \in Raft /\ synced.log = over.log
        /\ synced.commitIndex = over.commitIndex
        /\ synced.currentTerm = over.currentTerm /\ synced.phase = over.phase
        /\ synced.known = over.known /\ synced.lastAgree = over.lastAgree
        /\ synced.syncing = over.syncing /\ synced.lastSynced = over.syncIndex
        /\ synced.state = over.state /\ synced.failed = over.failed
    BY <1>4, <2>1 DEF Raft
  <2> HIDE DEF synced
  <2>3. IndexInv(synced) /\ Keeps(over, synced)
    BY <1>4, <1>5, <1>6, <2>1, <2>2 DEF IndexInv, Keeps
  <2>4. /\ counted \in Raft /\ Keeps(synced, counted) /\ IndexInv(counted)
        /\ SamePrefix(synced.log, counted.log, Len(synced.log))
    BY <1>1, <1>4, <2>2, <2>3, AdvancedCommittedIdKeeps
  <2> HIDE DEF counted
  <2>5. Keeps(r, counted)
    BY <1>4, <2>2, <2>4 DEF Keeps
  <2>6. SamePrefix(r.log, counted.log, r.commitIndex)
    BY <1>1, <1>4, <2>2, <2>4, PrefixOfGrown
  <2>7. raft' = [raft EXCEPT ![s] = counted]
    BY <1>3, <1>7
  <2> QED BY <1>2, <2>4, <2>5, <2>6, <2>7, ServerMovesAlone DEF r
<1>8. CASE ~(over.state = "LEADER" /\ over.currentTerm = over.syncTerm)
  <2>1. raft' = [raft EXCEPT ![s] = over]
    BY <1>3, <1>8
  <2>2. SamePrefix(r.log, over.log, r.commitIndex)
    BY <1>1, <1>4, <1>6, PrefixOfGrown
  <2> QED BY <1>2, <1>4, <1>5, <1>6, <2>1, <2>2, ServerMovesAlone DEF r
<1> QED BY <1>7, <1>8

\* A step of the servers' other state.
LEMMA OtherStep ==
  ASSUME NothingInFlightOvershoots, raft' = raft, rpc' = rpc, RestTypeOK'
  PROVE  NothingInFlightOvershoots' /\ CommittedKept
<1>1. CallsInv'
  BY DEF NothingInFlightOvershoots, ServersTypeOK, CallsInv
<1> QED BY <1>1, ServersStay

\* A change to the file system touches no consensus object.
LEMMA ClientChangeStep ==
  ASSUME NothingInFlightOvershoots, NEW s \in Server, NEW v \in Value,
         ClientChange(s, v)
  PROVE  NothingInFlightOvershoots' /\ CommittedKept
<1>1. RestTypeOK'
  BY Parts DEF ClientChange, RestTypeOK
<1> QED BY <1>1, OtherStep DEF ClientChange

\* replicate: the log grows by a change.
LEMMA ReplicateStep ==
  ASSUME NothingInFlightOvershoots, NEW s \in Server, Replicate(s)
  PROVE  NothingInFlightOvershoots' /\ CommittedKept
<1> DEFINE r == raft[s]
           entry == [term |-> r.currentTerm,
                     body |-> [type |-> "DATA", data |-> pending[s]]]
           r2 == Appended(r, s, <<entry>>)
<1>1. /\ r \in Raft /\ IndexInv(r) /\ pending[s] \in Value
      /\ raft \in [Server -> Raft]
  BY Parts DEF Replicate, RestTypeOK
<1>2. rpc' = rpc /\ RestTypeOK'
  BY Parts DEF Replicate, RestTypeOK
<1>3. raft' = [raft EXCEPT ![s] = r2]
  BY <1>1 DEF Replicate
<1> HIDE DEF r
<1>4. <<entry>> \in Seq(Entry)
  <2>1. r.currentTerm \in Nat
    BY <1>1, RaftFields
  <2> QED BY <1>1, <2>1 DEF Entry, Body
<1> HIDE DEF entry
<1>5. /\ r2 \in Raft /\ IndexInv(r2) /\ Keeps(r, r2)
      /\ SamePrefix(r.log, r2.log, Len(r.log))
  BY <1>1, <1>4, AppendedKeeps
<1> HIDE DEF r2
<1>6. SamePrefix(r.log, r2.log, r.commitIndex)
  BY <1>1, <1>5, PrefixOfGrown
<1> QED BY <1>2, <1>3, <1>5, <1>6, ServerMovesAlone DEF r

\* setConfiguration: new servers become known with an empty agreement.
LEMMA SetConfigurationStep ==
  ASSUME NothingInFlightOvershoots, NEW s \in Server, NEW members \in Views,
         SetConfiguration(s, members)
  PROVE  NothingInFlightOvershoots' /\ CommittedKept
<1> DEFINE r == raft[s]
           peers == WithPeers(r, s, members)
           r2 == [peers EXCEPT !.staging = members]
<1>1. r \in Raft /\ IndexInv(r) /\ members \in SUBSET Server
  BY Parts, ConstantsAssumption DEF ConstantsAssumption
<1>2. rpc' = rpc
  BY DEF SetConfiguration
<1>3. RestTypeOK'
  <2>1. r.currentTerm \in Nat
    BY <1>1, RaftFields
  <2> QED BY <1>1, <2>1, Parts DEF SetConfiguration, RestTypeOK
<1>4. raft' = [raft EXCEPT ![s] = r2]
  BY DEF SetConfiguration
<1> HIDE DEF r
<1>5. /\ peers \in Raft /\ IndexInv(peers) /\ Keeps(r, peers)
      /\ peers.log = r.log
  BY <1>1, WithPeersKeeps
<1> HIDE DEF peers
<1>6. r2 \in Raft /\ Alike(peers, r2)
  BY <1>1, <1>5, ZenonT(40) DEF Raft, Alike
<1> HIDE DEF r2
<1>7. /\ IndexInv(r2) /\ Keeps(r, r2)
      /\ SamePrefix(r.log, r2.log, r.commitIndex)
  BY <1>1, <1>5, <1>6, AlikeKeeps DEF Alike, Keeps, IndexInv, SamePrefix
<1> QED BY <1>2, <1>3, <1>4, <1>6, <1>7, ServerMovesAlone DEF r

\* setConfiguration gives up: no consensus object changes.
LEMMA SetConfigurationDeposedStep ==
  ASSUME NothingInFlightOvershoots, NEW s \in Server, SetConfigurationDeposed(s)
  PROVE  NothingInFlightOvershoots' /\ CommittedKept
<1>1. RestTypeOK'
  BY Parts DEF SetConfigurationDeposed, RestTypeOK, NoReconf
<1> QED BY <1>1, OtherStep DEF SetConfigurationDeposed

\* setConfiguration resets the staging servers: no index changes.
LEMMA SetConfigurationTimeoutStep ==
  ASSUME NothingInFlightOvershoots, NEW s \in Server, SetConfigurationTimeout(s)
  PROVE  NothingInFlightOvershoots' /\ CommittedKept
<1> DEFINE r == raft[s]
           r2 == ResetStagingServers(r)
<1>1. r \in Raft /\ IndexInv(r) /\ raft \in [Server -> Raft]
  BY Parts
<1>2. rpc' = rpc /\ RestTypeOK'
  BY Parts DEF SetConfigurationTimeout, RestTypeOK, NoReconf
<1>3. raft' = [raft EXCEPT ![s] = r2]
  BY <1>1 DEF SetConfigurationTimeout
<1> HIDE DEF r
<1>4. r2 \in Raft /\ Alike(r, r2)
  BY <1>1 DEF ResetStagingServers, Raft, Alike
<1> HIDE DEF r2
<1>5. SamePrefix(r.log, r2.log, r.commitIndex)
  BY <1>1, <1>4 DEF Alike, IndexInv, SamePrefix
<1> QED BY <1>1, <1>2, <1>3, <1>4, <1>5, AlikeKeeps, ServerMovesAlone DEF r

\* setConfiguration appends the transitional configuration.
LEMMA SetConfigurationReplicateStep ==
  ASSUME NothingInFlightOvershoots, NEW s \in Server,
         SetConfigurationReplicate(s)
  PROVE  NothingInFlightOvershoots' /\ CommittedKept
<1> DEFINE r == raft[s]
           c == Configuration(r.log)
           entry == ConfigurationEntry(r, c.prev, reconf[s].members)
           r2 == Appended(r, s, <<entry>>)
<1>1. /\ r \in Raft /\ IndexInv(r) /\ reconf[s].members \in SUBSET Server
      /\ raft \in [Server -> Raft]
  BY Parts DEF RestTypeOK
<1>2. rpc' = rpc
  BY DEF SetConfigurationReplicate
<1>3. RestTypeOK'
  <2>1. Len(r.log) + 1 \in Nat
    BY <1>1, RaftFields
  <2> QED BY <2>1, Parts, ZenonT(40) DEF SetConfigurationReplicate, RestTypeOK
<1>4. raft' = [raft EXCEPT ![s] = r2]
  BY <1>1 DEF SetConfigurationReplicate
<1> HIDE DEF r
<1>5. <<entry>> \in Seq(Entry)
  <2>1. c.prev \in SUBSET Server
    BY <1>1, RaftFields, ConfigurationType
  <2> QED BY <1>1, <2>1, ConfigurationEntryType
<1> HIDE DEF entry
<1>6. /\ r2 \in Raft /\ IndexInv(r2) /\ Keeps(r, r2)
      /\ SamePrefix(r.log, r2.log, Len(r.log))
  BY <1>1, <1>5, AppendedKeeps
<1> HIDE DEF r2
<1>7. SamePrefix(r.log, r2.log, r.commitIndex)
  BY <1>1, <1>6, PrefixOfGrown
<1> QED BY <1>2, <1>3, <1>4, <1>6, <1>7, ServerMovesAlone DEF r

\* setConfiguration returns: no consensus object changes.
LEMMA SetConfigurationReturnStep ==
  ASSUME NothingInFlightOvershoots, NEW s \in Server, SetConfigurationReturn(s)
  PROVE  NothingInFlightOvershoots' /\ CommittedKept
<1>1. RestTypeOK'
  BY Parts DEF SetConfigurationReturn, RestTypeOK, NoReconf
<1> QED BY <1>1, OtherStep DEF SetConfigurationReturn
-----------------------------------------------------------------------------
(* The theorems. *)

\* The invariant holds when every process has just been started.
LEMMA InitEstablishes == Init => NothingInFlightOvershoots
<1> SUFFICES ASSUME Init PROVE NothingInFlightOvershoots
  OBVIOUS
<1>1. NewRaft({}) \in Raft /\ IndexInv(NewRaft({}))
  <2>1. {} \in SUBSET Metadata /\ Len(<<>>) = 0
    OBVIOUS
  <2> QED BY <2>1, EmptySeq DEF NewRaft, Raft, IndexInv
<1>2. Idle \in Message /\ \A s, p \in Server : CallInv(NewRaft({}), p, Idle)
  BY DEF Idle, Message, CallInv
<1>3. /\ raft \in [Server -> Raft]
      /\ \A s \in Server : IndexInv(raft[s])
  BY <1>1, Zenon DEF Init
<1>4. /\ rpc \in [Server -> [Server -> Message]]
      /\ \A s, p \in Server : CallInv(raft[s], p, rpc[s][p])
  BY <1>2, Zenon DEF Init
<1>5. RestTypeOK
  BY ConstantsAssumption DEF Init, NoReconf, RestTypeOK, ConstantsAssumption
<1> QED BY <1>3, <1>4, <1>5
        DEF NothingInFlightOvershoots, ServersTypeOK, RestTypeOK

\* Every step, a stutter included, keeps it.
LEMMA NextKeeps ==
  ASSUME NothingInFlightOvershoots, [Next]_vars
  PROVE  NothingInFlightOvershoots' /\ CommittedKept
<1>1. CASE UNCHANGED vars
  <2>1. raft' = raft /\ rpc' = rpc /\ RestTypeOK'
    BY <1>1 DEF vars, NothingInFlightOvershoots, ServersTypeOK, RestTypeOK
  <2> QED BY <2>1, OtherStep
<1>2. CASE Next
  <2> PICK s \in Server :
        \/ Restart(s) \/ BootstrapConfiguration(s) \/ Initialize(s)
        \/ StartNewElection(s) \/ TakeSync(s) \/ SyncDone(s)
        \/ \E v \in Value : ClientChange(s, v)
        \/ Replicate(s)
        \/ \E members \in Views : SetConfiguration(s, members)
        \/ SetConfigurationDeposed(s) \/ SetConfigurationTimeout(s)
        \/ SetConfigurationReplicate(s) \/ SetConfigurationReturn(s)
        \/ \E p \in Server : \/ RequestVote(s, p) \/ HandleRequestVote(p, s)
                             \/ AppendEntries(s, p) \/ HandleAppendEntries(p, s)
                             \/ HandleAppendEntriesResponse(s, p)
    BY <1>2, Zenon DEF Next
  <2>1. CASE Restart(s)
    BY <2>1, RestartStep
  <2>2. CASE BootstrapConfiguration(s)
    BY <2>2, BootstrapConfigurationStep
  <2>3. CASE Initialize(s)
    BY <2>3, InitializeStep
  <2>4. CASE StartNewElection(s)
    BY <2>4, StartNewElectionStep
  <2>5. CASE TakeSync(s)
    BY <2>5, TakeSyncStep
  <2>6. CASE SyncDone(s)
    BY <2>6, SyncDoneStep
  <2>7. CASE \E v \in Value : ClientChange(s, v)
    BY <2>7, ClientChangeStep
  <2>8. CASE Replicate(s)
    BY <2>8, ReplicateStep
  <2>9. CASE \E members \in Views : SetConfiguration(s, members)
    BY <2>9, SetConfigurationStep
  <2>10. CASE SetConfigurationDeposed(s)
    BY <2>10, SetConfigurationDeposedStep
  <2>11. CASE SetConfigurationTimeout(s)
    BY <2>11, SetConfigurationTimeoutStep
  <2>12. CASE SetConfigurationReplicate(s)
    BY <2>12, SetConfigurationReplicateStep
  <2>13. CASE SetConfigurationReturn(s)
    BY <2>13, SetConfigurationReturnStep
  <2>14. CASE \E p \in Server : RequestVote(s, p)
    BY <2>14, RequestVoteStep
  <2>15. CASE \E p \in Server : HandleRequestVote(p, s)
    BY <2>15, HandleRequestVoteStep
  <2>16. CASE \E p \in Server : AppendEntries(s, p)
    BY <2>16, AppendEntriesStep
  <2>17. CASE \E p \in Server : HandleAppendEntries(p, s)
    BY <2>17, HandleAppendEntriesStep
  <2>18. CASE \E p \in Server : HandleAppendEntriesResponse(s, p)
    BY <2>18, HandleAppendEntriesResponseStep
  <2> QED BY <2>1, <2>2, <2>3, <2>4, <2>5, <2>6, <2>7, <2>8, <2>9, <2>10,
             <2>11, <2>12, <2>13, <2>14, <2>15, <2>16, <2>17, <2>18
<1> QED BY <1>1, <1>2

\* No request, answer or sync that is under way can move a commit index past
\* the end of a log, whichever servers crash, stand for election or are added.
THEOREM NothingOvershoots == Spec => []NothingInFlightOvershoots
<1>1. NothingInFlightOvershoots /\ [Next]_vars => NothingInFlightOvershoots'
  BY NextKeeps
<1> QED BY InitEstablishes, <1>1, PTL DEF Spec

\* The type of fs.
FilesTypeOK == fs \in [Server -> Seq(Value)]

\* Clients, replicate and handleAppendEntries change one file system each, by changes.
LEMMA FilesStep ==
  ASSUME NothingInFlightOvershoots, FilesTypeOK, [Next]_vars
  PROVE  FilesTypeOK'
<1>1. CASE UNCHANGED fs
  BY <1>1 DEF FilesTypeOK
<1>2. ASSUME NEW s \in Server, NEW v \in Value, ClientChange(s, v)
      PROVE  FilesTypeOK'
  <2>1. fs' = [fs EXCEPT ![s] = Append(@, v)] /\ Append(fs[s], v) \in Seq(Value)
    BY <1>2, AppendProperties DEF ClientChange, FilesTypeOK
  <2> QED BY <2>1 DEF FilesTypeOK
<1>3. ASSUME NEW s \in Server, Replicate(s)
      PROVE  FilesTypeOK'
  <2> DEFINE entry == [term |-> raft[s].currentTerm,
                       body |-> [type |-> "DATA", data |-> pending[s]]]
  <2>1. raft[s] \in Raft /\ pending[s] \in Value
    BY <1>3, Parts DEF Replicate, RestTypeOK
  <2>2. <<entry>> \in Seq(Entry)
    <3>1. raft[s].currentTerm \in Nat
      BY <2>1, RaftFields
    <3> QED BY <2>1, <3>1 DEF Entry, Body
  <2>3. fs' = [fs EXCEPT ![s] = @ \o Applied(raft[s], <<entry>>)]
    BY <1>3 DEF Replicate
  <2> HIDE DEF entry
  <2>4. Applied(raft[s], <<entry>>) \in Seq(Value) /\ fs[s] \in Seq(Value)
    BY <2>1, <2>2, AppliedType DEF FilesTypeOK
  <2>5. fs[s] \o Applied(raft[s], <<entry>>) \in Seq(Value)
    BY <2>4, ConcatProperties
  <2> QED BY <2>3, <2>5 DEF FilesTypeOK
<1>4. ASSUME NEW p \in Server, NEW s \in Server, HandleAppendEntries(p, s)
      PROVE  FilesTypeOK'
  <2> DEFINE changes == Received(raft[p], p, s, rpc[s][p]).changes
  <2>1. /\ raft[p] \in Raft /\ IndexInv(raft[p]) /\ rpc[s][p] \in Message
        /\ rpc[s][p].kind = "append"
    BY <1>4, Parts DEF HandleAppendEntries
  <2>2. changes \in Seq(Value)
    BY <2>1, ReceivedChanges
  <2>3. fs' = [fs EXCEPT ![p] = @ \o changes]
    BY <1>4 DEF HandleAppendEntries
  <2> HIDE DEF changes
  <2>4. fs[p] \o changes \in Seq(Value)
    BY <2>2, ConcatProperties DEF FilesTypeOK
  <2> QED BY <2>3, <2>4 DEF FilesTypeOK
<1>5. CASE \E s \in Server :
        \/ Restart(s) \/ BootstrapConfiguration(s) \/ Initialize(s)
        \/ StartNewElection(s) \/ TakeSync(s) \/ SyncDone(s)
        \/ \E members \in Views : SetConfiguration(s, members)
        \/ SetConfigurationDeposed(s) \/ SetConfigurationTimeout(s)
        \/ SetConfigurationReplicate(s) \/ SetConfigurationReturn(s)
        \/ \E p \in Server : \/ RequestVote(s, p) \/ HandleRequestVote(p, s)
                             \/ AppendEntries(s, p)
                             \/ HandleAppendEntriesResponse(s, p)
  <2>1. ASSUME NEW s \in Server,
               \/ Restart(s) \/ BootstrapConfiguration(s) \/ Initialize(s)
               \/ StartNewElection(s) \/ TakeSync(s) \/ SyncDone(s)
        PROVE  UNCHANGED fs
    BY <2>1, Zenon DEF Restart, BootstrapConfiguration, Initialize,
         StartNewElection, TakeSync, SyncDone
  <2>2. ASSUME NEW s \in Server,
               \/ \E members \in Views : SetConfiguration(s, members)
               \/ SetConfigurationDeposed(s) \/ SetConfigurationTimeout(s)
               \/ SetConfigurationReplicate(s) \/ SetConfigurationReturn(s)
        PROVE  UNCHANGED fs
    BY <2>2, Zenon DEF SetConfiguration, SetConfigurationDeposed,
         SetConfigurationTimeout, SetConfigurationReplicate, SetConfigurationReturn
  <2>3. ASSUME NEW s \in Server, NEW p \in Server,
               \/ RequestVote(s, p) \/ HandleRequestVote(p, s)
               \/ AppendEntries(s, p) \/ HandleAppendEntriesResponse(s, p)
        PROVE  UNCHANGED fs
    BY <2>3, Zenon DEF RequestVote, HandleRequestVote, AppendEntries,
         HandleAppendEntriesResponse
  <2>4. UNCHANGED fs
    BY <1>5, <2>1, <2>2, <2>3, Zenon
  <2> QED BY <1>1, <2>4
<1>6. CASE UNCHANGED vars
  BY <1>1, <1>6 DEF vars
<1> QED BY <1>2, <1>3, <1>4, <1>5, <1>6, Zenon DEF Next

\* The consensus objects, the calls and the reconfigurations keep their types, and
\* what append and replicate do to the file systems are changes, in any cluster.
THEOREM TypesAreKept == Spec => []TypeOK
<1>1. Init => FilesTypeOK
  <2>1. <<>> \in Seq(Value)
    BY EmptySeq
  <2> QED BY <2>1 DEF Init, FilesTypeOK
<1>2. NothingInFlightOvershoots /\ FilesTypeOK /\ [Next]_vars => FilesTypeOK'
  BY FilesStep
<1>3. NothingInFlightOvershoots /\ FilesTypeOK => TypeOK
  BY DEF NothingInFlightOvershoots, FilesTypeOK, TypeOK
<1> QED BY NothingOvershoots, <1>1, <1>2, <1>3, PTL DEF Spec

\* The assertions on the commit index in handleAppendEntries and in
\* advanceCommittedId hold: it never passes the end of the log.
THEOREM CommitStaysWithinLog == Spec => []CommitWithinLog
<1>1. NothingInFlightOvershoots => CommitWithinLog
  BY DEF NothingInFlightOvershoots, IndexInv, CommitWithinLog
<1> QED BY NothingOvershoots, <1>1, PTL

\* advanceCommittedId never looks up an index that is not in the log: neither
\* the disk nor a peer is ahead of the leader's log.
THEOREM AgreementStaysWithinLog == Spec => []AgreementWithinLog
<1>1. NothingInFlightOvershoots => AgreementWithinLog
  <2> SUFFICES ASSUME NothingInFlightOvershoots, NEW s \in Server,
                      Up(s), raft[s].state = "LEADER"
               PROVE  /\ raft[s].lastSynced <= Len(raft[s].log)
                      /\ \A p \in raft[s].known :
                           raft[s].lastAgree[p] <= Len(raft[s].log)
    BY DEF AgreementWithinLog
  <2>1. raft[s] \in Raft /\ IndexInv(raft[s])
    BY Parts
  <2>2. raft[s].known \in SUBSET Server
    BY <2>1, RaftFields
  <2> QED BY <2>1, <2>2 DEF IndexInv, Up
<1> QED BY NothingOvershoots, <1>1, PTL

\* No conflict, truncation, answer or reconfiguration removes an entry from the
\* log of a server that has committed it; only a restart does.
THEOREM CommittedEntriesStay == Spec => CommittedPrefixStable
<1>1. NothingInFlightOvershoots /\ [Next]_vars
        => [\A s \in Server :
              raft'[s].phase # "new" =>
                SamePrefix(raft[s].log, raft'[s].log, raft[s].commitIndex)]_vars
  BY NextKeeps DEF CommittedKept
<1> QED BY NothingOvershoots, <1>1, PTL DEF Spec, CommittedPrefixStable
-----------------------------------------------------------------------------
(* The disk thread: no entry of a leader is forgotten.                      *)

\* r2 leads with nothing queued only if r did, with the same log and the same
\* sync, under way or over.
SyncKept(r, r2) ==
  r2.failed = "nothing" /\ r2.state = "LEADER" /\ ~r2.logSyncQueued =>
    /\ r.failed = "nothing" /\ r.state = "LEADER" /\ ~r.logSyncQueued
    /\ r2.log = r.log /\ r2.currentTerm = r.currentTerm
    /\ r2.syncing = r.syncing /\ r2.syncTerm = r.syncTerm
    /\ r2.syncIndex = r.syncIndex /\ r2.lastSynced = r.lastSynced

\* What is queued or under way stays so.
LEMMA SyncInvKept ==
  ASSUME NEW r, NEW r2, SyncInv(r), SyncKept(r, r2)
  PROVE  SyncInv(r2)
<1> SUFFICES ASSUME r2.failed = "nothing", r2.state = "LEADER",
                    ~r2.logSyncQueued
             PROVE  SyncInv(r2)
  BY DEF SyncInv
<1>1. /\ r.failed = "nothing" /\ r.state = "LEADER" /\ ~r.logSyncQueued
      /\ r2.log = r.log /\ r2.currentTerm = r.currentTerm
      /\ r2.syncing = r.syncing /\ r2.syncTerm = r.syncTerm
      /\ r2.syncIndex = r.syncIndex /\ r2.lastSynced = r.lastSynced
  BY DEF SyncKept
<1> QED BY <1>1, Zenon DEF SyncInv

\* advanceCommittedId queues a sync of the entry it appends.
LEMMA AdvancedCommittedIdSyncs ==
  ASSUME NEW r \in Raft, NEW s \in Server, IndexInv(r), r.failed = "nothing"
  PROVE  SyncKept(r, AdvancedCommittedId(r, s))
<1> DEFINE r2 == AdvancedCommittedId(r, s)
           n == QuorumMin(r, [r.lastAgree EXCEPT ![s] = r.lastSynced])
           c == Configuration(r.log)
           committed == [r EXCEPT !.commitIndex = n]
           entries == <<ConfigurationEntry(r, c.next, {})>>
<1>1. CASE r2 = r
  BY <1>1 DEF SyncKept
<1>2. CASE r2 # r
  <2>1. r.state = "LEADER"
    BY <1>2 DEF AdvancedCommittedId
  <2>2. /\ r.currentTerm \in Nat /\ Len(r.log) \in Nat
        /\ c.next \in SUBSET Server
    BY RaftFields, ConfigurationType
  <2>3. n \in Nat
    <3> DEFINE index == [r.lastAgree EXCEPT ![s] = r.lastSynced]
    <3>1. index \in [Server -> Nat] /\ \A p \in Server : index[p] <= Len(r.log)
      <4>1. r.lastAgree \in [Server -> Nat] /\ r.lastSynced \in Nat
        BY RaftFields
      <4> QED BY <2>1, <4>1 DEF IndexInv
    <3> HIDE DEF index
    <3>2. QuorumMin(r, index) \in 0 .. Len(r.log)
      BY <2>2, <3>1, QuorumMinBounded
    <3> QED BY <2>2, <3>2 DEF index
  <2> HIDE DEF n, r2, c
  <2>4. /\ committed \in Raft /\ committed.log = r.log
        /\ committed.currentTerm = r.currentTerm
        /\ committed.failed = r.failed /\ committed.state = r.state
        /\ committed.logSyncQueued = r.logSyncQueued
        /\ committed.syncing = r.syncing /\ committed.syncTerm = r.syncTerm
        /\ committed.syncIndex = r.syncIndex
        /\ committed.lastSynced = r.lastSynced
    BY <2>3 DEF Raft
  <2> HIDE DEF committed
  <2>5. \/ r2 = SteppedDown(committed, r.currentTerm + 1)
        \/ r2 = Appended(committed, s, entries)
        \/ r2 = committed
    <3>1. ConfigurationEntry(committed, c.next, {})
            = ConfigurationEntry(r, c.next, {})
      BY <2>4 DEF ConfigurationEntry
    <3> QED BY <1>2, <2>4, <3>1 DEF AdvancedCommittedId, n, r2, c, committed
  <2>6. CASE r2 = SteppedDown(committed, r.currentTerm + 1)
    <3>1. r2.state = "FOLLOWER"
      BY <2>2, <2>4, <2>6, SteppedDownKeeps
    <3> QED BY <3>1 DEF SyncKept, r2
  <2>7. CASE r2 = Appended(committed, s, entries)
    <3>1. entries \in Seq(Entry)
      BY <2>2, ConfigurationEntryType
    <3> HIDE DEF entries
    <3>2. r2.logSyncQueued
      BY <2>1, <2>4, <2>7, <3>1, AppendedKeeps
    <3> QED BY <3>2 DEF SyncKept, r2
  <2>8. CASE r2 = committed
    BY <2>4, <2>8 DEF SyncKept, r2
  <2> QED BY <2>5, <2>6, <2>7, <2>8
<1> QED BY <1>1, <1>2

\* append: a leader queues a sync, and who does not lead needs none.
LEMMA AppendedSyncs ==
  ASSUME NEW r \in Raft, NEW s \in Server, NEW entries \in Seq(Entry)
  PROVE  SyncKept(r, Appended(r, s, entries))
<1> DEFINE r2 == Appended(r, s, entries)
<1>1. r2.state = r.state /\ (r.state = "LEADER" => r2.logSyncQueued)
  BY AppendedKeeps
<1> HIDE DEF r2
<1>2. SyncKept(r, r2)
  BY <1>1 DEF SyncKept
<1> QED BY <1>2 DEF r2

\* The rest of appendEntries: at most advanceCommittedId has to do with syncs.
LEMMA AnsweredSyncs ==
  ASSUME NEW r \in Raft, NEW s \in Server, NEW p \in Server, NEW m \in Message,
         m.kind = "appended", IndexInv(r), CallInv(r, p, m), r.failed = "nothing"
  PROVE  SyncKept(r, Answered(r, s, p, m))
<1> DEFINE agree == IF r.lastAgree[p] > m.covered THEN r.lastAgree[p]
                    ELSE m.covered
           lastAgree == [r.lastAgree EXCEPT ![p] = agree]
           agreed == [r EXCEPT !.lastAgree = lastAgree]
           counted == IF r.lastAgree[p] > m.covered THEN r
                      ELSE AdvancedCommittedId(agreed, s)
           r2 == Answered(r, s, p, m)
<1>1. /\ m.term \in Nat /\ m.covered \in Nat /\ r.currentTerm \in Nat
      /\ Len(r.log) \in Nat /\ r.lastAgree \in [Server -> Nat]
      /\ p \in r.known
  BY RaftFields, AppendedFields DEF CallInv
<1>2. CASE m.term > r.currentTerm
  <2>1. r2 = SteppedDown(r, m.term)
    BY <1>2 DEF Answered
  <2>2. r2.state = "FOLLOWER"
    BY <1>1, <1>2, <2>1, SteppedDownKeeps
  <2> QED BY <2>2 DEF SyncKept
<1>3. CASE m.term < r.currentTerm
  <2>1. r2 = Fail(r, "response.term")
    BY <1>1, <1>3 DEF Answered
  <2>2. r2.failed # "nothing"
    BY <2>1 DEF Fail, Raft
  <2> QED BY <2>2 DEF SyncKept
<1>4. CASE m.term = r.currentTerm /\ ~m.success
  <2>1. r2 = [r EXCEPT !.nextIndex[p] = Retreat(m)]
    BY <1>1, <1>4 DEF Answered
  <2> HIDE DEF r2
  <2>2. SyncKept(r, r2)
    BY <2>1 DEF Raft, SyncKept
  <2> QED BY <2>2 DEF r2
<1>5. CASE m.term = r.currentTerm /\ m.success
  <2>1. \E next, caughtUp :
          r2 = [counted EXCEPT !.nextIndex = next, !.caughtUp = caughtUp]
    <3>1. r2 = [counted EXCEPT
                  !.nextIndex[p] = agree + 1,
                  !.caughtUp = IF r.goal[p] <= agree THEN @ \cup {p} ELSE @]
      BY <1>1, <1>5 DEF Answered
    <3> QED BY <3>1
  <2>2. lastAgree \in [Server -> Nat]
    BY <1>1
  <2>3. \A q \in Server : lastAgree[q] = IF q = p THEN agree ELSE r.lastAgree[q]
    BY <1>1
  <2>4. r.state = "LEADER" => agree <= Len(r.log)
    BY <1>1 DEF CallInv, IndexInv
  <2> HIDE DEF lastAgree, agree
  <2>5. /\ agreed \in Raft
        /\ agreed.log = r.log /\ agreed.commitIndex = r.commitIndex
        /\ agreed.currentTerm = r.currentTerm /\ agreed.phase = r.phase
        /\ agreed.known = r.known /\ agreed.lastAgree = lastAgree
        /\ agreed.syncing = r.syncing /\ agreed.syncTerm = r.syncTerm
        /\ agreed.syncIndex = r.syncIndex /\ agreed.lastSynced = r.lastSynced
        /\ agreed.state = r.state /\ agreed.failed = r.failed
        /\ agreed.logSyncQueued = r.logSyncQueued
    BY <2>2 DEF Raft
  <2> HIDE DEF agreed
  <2>6. IndexInv(agreed) /\ SyncKept(r, agreed)
    BY <1>1, <2>3, <2>4, <2>5 DEF IndexInv, SyncKept
  <2>7. counted \in Raft /\ SyncKept(r, counted)
    <3>1. CASE r.lastAgree[p] > m.covered
      BY <3>1 DEF SyncKept
    <3>2. CASE ~(r.lastAgree[p] > m.covered)
      <4>1. counted = AdvancedCommittedId(agreed, s)
        BY <3>2
      <4> HIDE DEF counted
      <4>2. counted \in Raft
        BY <2>5, <2>6, <4>1, AdvancedCommittedIdKeeps
      <4>3. SyncKept(agreed, counted)
        BY <2>5, <2>6, <4>1, AdvancedCommittedIdSyncs
      <4> QED BY <2>5, <4>2, <4>3 DEF SyncKept
    <3> QED BY <3>1, <3>2
  <2> HIDE DEF counted, r2
  <2>8. SyncKept(counted, r2)
    BY <2>1, <2>7 DEF Raft, SyncKept
  <2>9. SyncKept(r, r2)
    BY <2>7, <2>8 DEF SyncKept
  <2> QED BY <2>9 DEF r2
<1> QED BY <1>1, <1>2, <1>3, <1>4, <1>5

\* One server moves on and its disk thread still has what to sync.
LEMMA SyncsMove ==
  ASSUME SyncsReachTheEnd, NEW s \in Server, NEW r2,
         raft' = [raft EXCEPT ![s] = r2], SyncInv(r2)
  PROVE  \A x \in Server : SyncInv(raft'[x])
<1>1. raft \in [Server -> Raft] /\ \A x \in Server : SyncInv(raft[x])
  BY Parts DEF SyncsReachTheEnd
<1> TAKE x \in Server
<1>2. CASE x = s
  <2>1. raft'[x] = r2
    BY <1>1, <1>2
  <2> QED BY <2>1
<1>3. CASE x # s
  <2>1. raft'[x] = raft[x]
    BY <1>1, <1>3
  <2> QED BY <1>1, <2>1
<1> QED BY <1>2, <1>3

\* Who does not lead, or has failed, has nothing to sync.
LEMMA NothingToSync ==
  ASSUME NEW r, r.state # "LEADER" \/ r.failed # "nothing"
  PROVE  SyncInv(r)
BY DEF SyncInv

\* A new process, one that starts to run, a candidate or a seed does not lead;
\* a leader begins by queueing a sync.
LEMMA StartSyncs ==
  ASSUME SyncsReachTheEnd, NEW s \in Server,
         \/ Restart(s) \/ BootstrapConfiguration(s) \/ Initialize(s)
         \/ StartNewElection(s)
  PROVE  \A x \in Server : SyncInv(raft'[x])
<1> DEFINE r == raft[s]
<1>1. r \in Raft /\ IndexInv(r) /\ NothingInFlightOvershoots
  BY Parts DEF SyncsReachTheEnd
<1>2. CASE Restart(s)
  <2>1. PICK stored \in SUBSET Files(raft[s].stored) :
          raft' = [raft EXCEPT ![s] = NewRaft(stored)]
    BY <1>2 DEF Restart
  <2>2. SyncInv(NewRaft(stored))
    BY NothingToSync DEF NewRaft
  <2> QED BY <2>1, <2>2, SyncsMove
<1>3. CASE BootstrapConfiguration(s)
  <2> DEFINE r1 == SteppedDown(r, 1)
             first == ConfigurationEntry(r1, {s}, {})
             longer == Appended(r1, s, <<first>>)
             r2 == [longer EXCEPT !.phase = "bootstrapped"]
             failed == Fail(r, "bootstrapConfiguration")
  <2>1. CASE r.currentTerm = 0 /\ r.log = <<>>
    <3>1. raft' = [raft EXCEPT ![s] = r2]
      BY <1>3, <2>1 DEF BootstrapConfiguration
    <3> HIDE DEF r
    <3>2. r1 \in Raft /\ r1.state = "FOLLOWER"
      BY <1>1, <2>1, SteppedDownKeeps
    <3> HIDE DEF r1
    <3>3. <<first>> \in Seq(Entry)
      BY <3>2, ConfigurationEntryType
    <3> HIDE DEF first
    <3>4. longer \in Raft /\ longer.state = r1.state
      BY <3>2, <3>3, AppendedKeeps
    <3> HIDE DEF longer
    <3>5. r2.state = "FOLLOWER"
      BY <3>2, <3>4 DEF Raft
    <3> HIDE DEF r2
    <3>6. SyncInv(r2)
      BY <3>5, NothingToSync
    <3> QED BY <3>1, <3>6, SyncsMove
  <2>2. CASE ~(r.currentTerm = 0 /\ r.log = <<>>)
    <3>1. raft' = [raft EXCEPT ![s] = failed]
      BY <1>3, <2>2 DEF BootstrapConfiguration
    <3>2. "bootstrapConfiguration" \in Failures
      BY DEF Failures
    <3>3. failed.failed # "nothing"
      BY <1>1, <3>2, FailKeeps
    <3> HIDE DEF failed
    <3>4. SyncInv(failed)
      BY <3>3, NothingToSync
    <3> QED BY <3>1, <3>4, SyncsMove
  <2> QED BY <2>1, <2>2
<1>4. CASE Initialize(s)
  <2>1. PICK ready, term :
          raft' = [raft EXCEPT ![s] = SteppedDown(ready, term)]
          /\ \E m \in Files(r.stored \cup {[term |-> r.currentTerm,
                                            vote |-> r.votedFor]}) :
               /\ ready = [r EXCEPT !.currentTerm = m.term, !.votedFor = m.vote,
                                    !.stored = @ \cup {m}, !.phase = "running"]
               /\ term = m.term
    BY <1>4 DEF Initialize
  <2>2. SteppedDown(ready, term).state = "FOLLOWER"
    <3> HIDE DEF r
    <3>1. PICK vote, stored :
            ready = [r EXCEPT !.currentTerm = term, !.votedFor = vote,
                              !.stored = stored, !.phase = "running"]
      BY <2>1
    <3> QED BY <1>1, <3>1 DEF SteppedDown, Raft
  <2>3. SyncInv(SteppedDown(ready, term))
    BY <2>2, NothingToSync
  <2> QED BY <2>1, <2>3, SyncsMove
<1>5. CASE StartNewElection(s)
  <2> DEFINE term == r.currentTerm + 1
             stored == r.stored \cup {[term |-> term, vote |-> s]}
             r1 == [r EXCEPT !.currentTerm = term, !.state = "CANDIDATE",
                             !.leaderId = None, !.votedFor = s, !.stored = stored]
             failed == Fail(r1, "quorumAll")
             led == BecomeLeader(r1, s)
  <2>1. \/ raft' = [raft EXCEPT ![s] = r1]
        \/ raft' = [raft EXCEPT ![s] = failed]
        \/ raft' = [raft EXCEPT ![s] = led]
    BY <1>5, Zenon DEF StartNewElection
  <2>2. r.phase = "running"
    BY <1>5 DEF StartNewElection
  <2> HIDE DEF r
  <2>3. /\ term \in Nat /\ stored \in SUBSET Metadata
        /\ r.syncTerm \in Nat /\ r.currentTerm \in Nat
    <3>1. /\ r.currentTerm \in Nat /\ r.stored \in SUBSET Metadata
          /\ r.syncTerm \in Nat
      BY <1>1, RaftFields
    <3>2. term \in Nat
      BY <3>1
    <3> HIDE DEF term
    <3>3. stored \in SUBSET Metadata
      BY <3>1, <3>2, MetadataType
    <3> QED BY <3>1, <3>2, <3>3
  <2> HIDE DEF stored
  <2>4. /\ r1 \in Raft /\ r1.currentTerm = term /\ r1.state = "CANDIDATE"
        /\ r1.log = r.log /\ r1.known = r.known /\ r1.phase = r.phase
        /\ r1.commitIndex = r.commitIndex /\ r1.lastAgree = r.lastAgree
        /\ r1.syncing = r.syncing /\ r1.syncTerm = r.syncTerm
        /\ r1.failed = r.failed
    BY <1>1, <2>3 DEF Raft
  <2> HIDE DEF r1
  <2>5. SyncInv(r1)
    BY <2>4, NothingToSync
  <2>6. SyncInv(failed)
    <3>1. "quorumAll" \in Failures
      BY DEF Failures
    <3>2. failed.failed # "nothing"
      BY <2>4, <3>1, FailKeeps
    <3> HIDE DEF failed
    <3> QED BY <3>2, NothingToSync
  <2>7. SyncInv(led)
    <3>1. IndexInv(r1) /\ (r1.syncing => r1.syncTerm < r1.currentTerm)
      BY <1>1, <2>3, <2>4 DEF IndexInv
    <3>2. led.failed = "nothing" => led.logSyncQueued
      BY <2>2, <2>4, <3>1, BecomeLeaderKeeps
    <3> HIDE DEF led
    <3> QED BY <3>2 DEF SyncInv
  <2> HIDE DEF failed, led
  <2> QED BY <2>1, <2>5, <2>6, <2>7, SyncsMove
<1> QED BY <1>2, <1>3, <1>4, <1>5

\* leaderDiskThreadMain takes a sync of the whole log.
LEMMA TakeSyncSyncs ==
  ASSUME SyncsReachTheEnd, NEW s \in Server, TakeSync(s)
  PROVE  \A x \in Server : SyncInv(raft'[x])
<1> DEFINE r == raft[s]
           r2 == [r EXCEPT !.logSyncQueued = FALSE, !.syncing = TRUE,
                           !.syncTerm = r.currentTerm, !.syncIndex = Len(r.log)]
<1>1. r \in Raft /\ raft \in [Server -> Raft]
  BY Parts DEF SyncsReachTheEnd
<1>2. raft' = [raft EXCEPT ![s] = r2]
  BY <1>1 DEF TakeSync
<1> HIDE DEF r
<1>3. /\ r2.log = r.log /\ r2.currentTerm = r.currentTerm
      /\ r2.syncing = TRUE /\ r2.syncTerm = r.currentTerm
      /\ r2.syncIndex = Len(r.log)
  BY <1>1 DEF Raft
<1> HIDE DEF r2
<1>4. SyncInv(r2)
  BY <1>3 DEF SyncInv
<1> QED BY <1>2, <1>4, SyncsMove

\* The sync is over: it has brought the disk to the end of the log, or another
\* one is queued.
LEMMA SyncDoneSyncs ==
  ASSUME SyncsReachTheEnd, NEW s \in Server, SyncDone(s)
  PROVE  \A x \in Server : SyncInv(raft'[x])
<1> DEFINE r == raft[s]
           over == SyncOver(r)
           synced == [over EXCEPT !.lastSynced = over.syncIndex]
           counted == AdvancedCommittedId(synced, s)
<1>1. /\ r \in Raft /\ IndexInv(r) /\ r.failed = "nothing" /\ r.syncing
      /\ SyncInv(r)
  BY Parts DEF SyncDone, Up, SyncsReachTheEnd
<1>2. raft' = [raft EXCEPT
        ![s] = IF over.state = "LEADER" /\ over.currentTerm = over.syncTerm
               THEN counted ELSE over]
  BY DEF SyncDone
<1> HIDE DEF r
<1>3. /\ over \in Raft /\ over.log = r.log /\ over.commitIndex = r.commitIndex
      /\ over.currentTerm = r.currentTerm /\ over.phase = r.phase
      /\ over.known = r.known /\ over.lastAgree = r.lastAgree
      /\ over.syncing = FALSE /\ over.syncTerm = r.syncTerm
      /\ over.syncIndex = r.syncIndex /\ over.lastSynced = r.lastSynced
      /\ over.state = r.state /\ over.failed = r.failed
      /\ over.logSyncQueued = r.logSyncQueued
  BY <1>1 DEF Raft, SyncOver
<1> HIDE DEF over
<1>4. CASE over.state = "LEADER" /\ over.currentTerm = over.syncTerm
  <2>1. over.syncIndex \in Nat /\ over.syncIndex <= Len(over.log)
    BY <1>1, <1>3, <1>4, RaftFields DEF IndexInv
  <2>2. /\ synced \in Raft /\ synced.log = over.log
        /\ synced.commitIndex = over.commitIndex
        /\ synced.currentTerm = over.currentTerm /\ synced.phase = over.phase
        /\ synced.known = over.known /\ synced.lastAgree = over.lastAgree
        /\ synced.syncing = over.syncing /\ synced.lastSynced = over.syncIndex
        /\ synced.state = over.state /\ synced.failed = over.failed
        /\ synced.logSyncQueued = over.logSyncQueued
    BY <1>3, <2>1 DEF Raft
  <2> HIDE DEF synced
  <2>3. IndexInv(synced)
    BY <1>1, <1>3, <2>1, <2>2 DEF IndexInv
  <2>4. SyncInv(synced)
    BY <1>1, <1>3, <1>4, <2>2 DEF SyncInv
  <2>5. SyncInv(counted)
    <3>1. SyncKept(synced, counted)
      BY <1>1, <1>3, <2>2, <2>3, AdvancedCommittedIdSyncs
    <3> HIDE DEF counted
    <3> QED BY <2>4, <3>1, SyncInvKept
  <2> HIDE DEF counted
  <2>6. raft' = [raft EXCEPT ![s] = counted]
    BY <1>2, <1>4
  <2> QED BY <2>5, <2>6, SyncsMove
<1>5. CASE ~(over.state = "LEADER" /\ over.currentTerm = over.syncTerm)
  <2>1. SyncInv(over)
    BY <1>1, <1>3, <1>5 DEF SyncInv
  <2>2. raft' = [raft EXCEPT ![s] = over]
    BY <1>2, <1>5
  <2> QED BY <2>1, <2>2, SyncsMove
<1> QED BY <1>4, <1>5

\* An entry that replicate or setConfiguration appends is queued; the staging
\* servers have nothing to do with the disk.
LEMMA AppendSyncs ==
  ASSUME SyncsReachTheEnd, NEW s \in Server,
         \/ Replicate(s) \/ SetConfigurationReplicate(s)
         \/ SetConfigurationTimeout(s)
         \/ \E members \in Views : SetConfiguration(s, members)
  PROVE  \A x \in Server : SyncInv(raft'[x])
<1> DEFINE r == raft[s]
<1>1. /\ r \in Raft /\ IndexInv(r) /\ SyncInv(r) /\ raft \in [Server -> Raft]
      /\ RestTypeOK
  BY Parts DEF SyncsReachTheEnd
<1>2. CASE Replicate(s)
  <2> DEFINE entry == [term |-> r.currentTerm,
                       body |-> [type |-> "DATA", data |-> pending[s]]]
             r2 == Appended(r, s, <<entry>>)
  <2>1. pending[s] \in Value
    BY <1>1, <1>2 DEF Replicate, RestTypeOK
  <2>2. raft' = [raft EXCEPT ![s] = r2]
    BY <1>1, <1>2 DEF Replicate
  <2> HIDE DEF r
  <2>3. <<entry>> \in Seq(Entry)
    <3>1. r.currentTerm \in Nat
      BY <1>1, RaftFields
    <3> QED BY <2>1, <3>1 DEF Entry, Body
  <2> HIDE DEF entry
  <2>4. SyncKept(r, r2)
    BY <1>1, <2>3, AppendedSyncs
  <2> HIDE DEF r2
  <2>5. SyncInv(r2)
    BY <1>1, <2>4, SyncInvKept
  <2> QED BY <2>2, <2>5, SyncsMove
<1>3. CASE SetConfigurationReplicate(s)
  <2> DEFINE c == Configuration(r.log)
             entry == ConfigurationEntry(r, c.prev, reconf[s].members)
             r2 == Appended(r, s, <<entry>>)
  <2>1. reconf[s].members \in SUBSET Server
    BY <1>1 DEF RestTypeOK
  <2>2. raft' = [raft EXCEPT ![s] = r2]
    BY <1>1, <1>3 DEF SetConfigurationReplicate
  <2> HIDE DEF r
  <2>3. <<entry>> \in Seq(Entry)
    <3>1. c.prev \in SUBSET Server
      BY <1>1, RaftFields, ConfigurationType
    <3> QED BY <1>1, <2>1, <3>1, ConfigurationEntryType
  <2> HIDE DEF entry
  <2>4. SyncKept(r, r2)
    BY <1>1, <2>3, AppendedSyncs
  <2> HIDE DEF r2
  <2>5. SyncInv(r2)
    BY <1>1, <2>4, SyncInvKept
  <2> QED BY <2>2, <2>5, SyncsMove
<1>4. CASE SetConfigurationTimeout(s)
  <2> DEFINE r2 == ResetStagingServers(r)
  <2>1. raft' = [raft EXCEPT ![s] = r2]
    BY <1>1, <1>4 DEF SetConfigurationTimeout
  <2> HIDE DEF r
  <2>2. SyncKept(r, r2)
    BY <1>1 DEF ResetStagingServers, Raft, SyncKept
  <2> HIDE DEF r2
  <2>3. SyncInv(r2)
    BY <1>1, <2>2, SyncInvKept
  <2> QED BY <2>1, <2>3, SyncsMove
<1>5. CASE \E members \in Views : SetConfiguration(s, members)
  <2> PICK members \in Views : SetConfiguration(s, members)
    BY <1>5
  <2> DEFINE peers == WithPeers(r, s, members)
             r2 == [peers EXCEPT !.staging = members]
  <2>1. members \in SUBSET Server
    BY ConstantsAssumption DEF ConstantsAssumption
  <2>2. raft' = [raft EXCEPT ![s] = r2]
    BY DEF SetConfiguration
  <2> HIDE DEF r
  <2>3. /\ peers \in Raft /\ peers.log = r.log
        /\ peers.currentTerm = r.currentTerm /\ peers.failed = r.failed
        /\ peers.state = r.state /\ peers.logSyncQueued = r.logSyncQueued
        /\ peers.syncing = r.syncing /\ peers.syncTerm = r.syncTerm
        /\ peers.syncIndex = r.syncIndex /\ peers.lastSynced = r.lastSynced
    BY <1>1, <2>1, WithPeersKeeps
  <2> HIDE DEF peers
  <2>4. SyncKept(r, r2)
    <3>1. /\ r2.log = peers.log /\ r2.currentTerm = peers.currentTerm
          /\ r2.failed = peers.failed /\ r2.state = peers.state
          /\ r2.logSyncQueued = peers.logSyncQueued
          /\ r2.syncing = peers.syncing /\ r2.syncTerm = peers.syncTerm
          /\ r2.syncIndex = peers.syncIndex /\ r2.lastSynced = peers.lastSynced
      BY <2>3 DEF Raft
    <3> HIDE DEF r2
    <3> QED BY <2>3, <3>1, Zenon DEF SyncKept
  <2> HIDE DEF r2
  <2>5. SyncInv(r2)
    BY <1>1, <2>4, SyncInvKept
  <2> QED BY <2>2, <2>5, SyncsMove
<1> QED BY <1>2, <1>3, <1>4, <1>5

\* A call: a server that leads still leads with the same log after it, or has
\* queued a sync of what it appended.
LEMMA CallSyncs ==
  ASSUME SyncsReachTheEnd, NEW s \in Server, NEW p \in Server,
         \/ HandleRequestVote(p, s) \/ AppendEntries(s, p)
         \/ HandleAppendEntries(p, s) \/ HandleAppendEntriesResponse(s, p)
  PROVE  \A x \in Server : SyncInv(raft'[x])
<1>1. /\ raft[s] \in Raft /\ IndexInv(raft[s]) /\ SyncInv(raft[s])
      /\ raft[p] \in Raft /\ IndexInv(raft[p]) /\ SyncInv(raft[p])
      /\ rpc[s][p] \in Message /\ CallInv(raft[s], p, rpc[s][p])
  BY Parts DEF SyncsReachTheEnd
<1>2. CASE HandleRequestVote(p, s)
  <2> DEFINE r == raft[p]
             m == rpc[s][p]
             voted == IF r.withhold # "no" THEN r ELSE Voted(r, s, m)
             r2 == [voted EXCEPT !.rpcAlive = FALSE]
  <2>1. m.kind = "vote" /\ raft' = [raft EXCEPT ![p] = r2]
    BY <1>2 DEF HandleRequestVote
  <2>2. r \in Raft /\ IndexInv(r) /\ SyncInv(r) /\ m \in Message
    BY <1>1
  <2> HIDE DEF r, m
  <2>3. /\ voted \in Raft
        /\ voted = r \/ voted.state = "FOLLOWER" \/ voted.failed # "nothing"
    BY <2>1, <2>2, VotedKeeps
  <2> HIDE DEF voted
  <2>4. SyncInv(voted)
    BY <2>2, <2>3, NothingToSync
  <2>5. SyncKept(voted, r2)
    BY <2>3 DEF Raft, SyncKept
  <2> HIDE DEF r2
  <2>6. SyncInv(r2)
    BY <2>4, <2>5, SyncInvKept
  <2> QED BY <2>1, <2>6, SyncsMove
<1>3. CASE AppendEntries(s, p)
  <2> DEFINE r == raft[s]
             failed == Fail(r, "prevLogIndex")
  <2>1. CASE raft' = raft
    <3>1. \A x \in Server : SyncInv(raft[x])
      BY DEF SyncsReachTheEnd
    <3> QED BY <2>1, <3>1
  <2>2. CASE raft' = [raft EXCEPT ![s] = failed]
    <3>1. "prevLogIndex" \in Failures
      BY DEF Failures
    <3>2. failed.failed # "nothing"
      BY <1>1, <3>1, FailKeeps
    <3> HIDE DEF failed
    <3>3. SyncInv(failed)
      BY <3>2, NothingToSync
    <3> QED BY <2>2, <3>3, SyncsMove
  <2>3. raft' = raft \/ raft' = [raft EXCEPT ![s] = failed]
    BY <1>3 DEF AppendEntries
  <2> QED BY <2>1, <2>2, <2>3
<1>4. CASE HandleAppendEntries(p, s)
  <2> DEFINE r == raft[p]
             m == rpc[s][p]
             result == Received(r, p, s, m)
  <2>1. m.kind = "append" /\ raft' = [raft EXCEPT ![p] = result.r]
    BY <1>4 DEF HandleAppendEntries
  <2>2. /\ r \in Raft /\ IndexInv(r) /\ SyncInv(r) /\ m \in Message
        /\ CallInv(raft[s], p, m)
    BY <1>1
  <2> HIDE DEF r, m
  <2>3. result.r = r \/ result.r.state = "FOLLOWER"
    <3>1. m.commit <= Covered(m)
      BY <2>1, <2>2 DEF CallInv
    <3> QED BY <2>1, <2>2, <3>1, ReceivedKeeps
  <2> HIDE DEF result
  <2>4. SyncInv(result.r)
    BY <2>2, <2>3, NothingToSync
  <2> QED BY <2>1, <2>4, SyncsMove
<1>5. CASE HandleAppendEntriesResponse(s, p)
  <2> DEFINE r == raft[s]
             m == rpc[s][p]
             r2 == Answered(r, s, p, m)
  <2>1. /\ m.kind = "appended" /\ raft' = [raft EXCEPT ![s] = r2]
        /\ r.failed = "nothing"
    BY <1>5 DEF HandleAppendEntriesResponse, Up
  <2>2. /\ r \in Raft /\ IndexInv(r) /\ SyncInv(r) /\ m \in Message
        /\ CallInv(r, p, m)
    BY <1>1
  <2> HIDE DEF r, m
  <2>3. SyncKept(r, r2)
    BY <2>1, <2>2, AnsweredSyncs
  <2> HIDE DEF r2
  <2>4. SyncInv(r2)
    BY <2>2, <2>3, SyncInvKept
  <2> QED BY <2>1, <2>4, SyncsMove
<1> QED BY <1>2, <1>3, <1>4, <1>5

\* Every step, a stutter included, leaves the disk thread its syncs.
LEMMA NextSyncs ==
  ASSUME SyncsReachTheEnd, [Next]_vars
  PROVE  SyncsReachTheEnd'
<1>1. NothingInFlightOvershoots'
  BY NextKeeps DEF SyncsReachTheEnd
<1>2. \A x \in Server : SyncInv(raft[x])
  BY DEF SyncsReachTheEnd
<1>3. CASE raft' = raft
  <2>1. \A x \in Server : SyncInv(raft'[x])
    BY <1>2, <1>3
  <2> QED BY <1>1, <2>1 DEF SyncsReachTheEnd
<1>4. CASE raft' # raft
  <2>1. Next
    BY <1>4 DEF vars
  <2> PICK s \in Server :
        \/ Restart(s) \/ BootstrapConfiguration(s) \/ Initialize(s)
        \/ StartNewElection(s) \/ TakeSync(s) \/ SyncDone(s)
        \/ \E v \in Value : ClientChange(s, v)
        \/ Replicate(s)
        \/ \E members \in Views : SetConfiguration(s, members)
        \/ SetConfigurationDeposed(s) \/ SetConfigurationTimeout(s)
        \/ SetConfigurationReplicate(s) \/ SetConfigurationReturn(s)
        \/ \E p \in Server : \/ RequestVote(s, p) \/ HandleRequestVote(p, s)
                             \/ AppendEntries(s, p) \/ HandleAppendEntries(p, s)
                             \/ HandleAppendEntriesResponse(s, p)
    BY <2>1, Zenon DEF Next
  <2>2. /\ ~\E v \in Value : ClientChange(s, v)
        /\ ~SetConfigurationDeposed(s) /\ ~SetConfigurationReturn(s)
        /\ ~\E p \in Server : RequestVote(s, p)
    BY <1>4, Zenon DEF ClientChange, SetConfigurationDeposed,
                SetConfigurationReturn, RequestVote
  <2>3. \A x \in Server : SyncInv(raft'[x])
    <3>1. CASE \/ Restart(s) \/ BootstrapConfiguration(s) \/ Initialize(s)
               \/ StartNewElection(s)
      BY <3>1, StartSyncs
    <3>2. CASE TakeSync(s)
      BY <3>2, TakeSyncSyncs
    <3>3. CASE SyncDone(s)
      BY <3>3, SyncDoneSyncs
    <3>4. CASE \/ Replicate(s) \/ SetConfigurationReplicate(s)
               \/ SetConfigurationTimeout(s)
               \/ \E members \in Views : SetConfiguration(s, members)
      BY <3>4, AppendSyncs
    <3>5. CASE \E p \in Server : \/ HandleRequestVote(p, s)
                                 \/ AppendEntries(s, p)
                                 \/ HandleAppendEntries(p, s)
                                 \/ HandleAppendEntriesResponse(s, p)
      BY <3>5, CallSyncs
    <3> QED BY <2>2, <3>1, <3>2, <3>3, <3>4, <3>5
  <2> QED BY <1>1, <2>3 DEF SyncsReachTheEnd
<1> QED BY <1>3, <1>4

\* The disk thread of a leader always has before it, queued or under way, a sync
\* that reaches the end of the log, whatever the log gains while it waits.
THEOREM SyncsAlwaysReachTheEnd == Spec => []SyncsReachTheEnd
<1>1. Init => SyncsReachTheEnd
  <2> SUFFICES ASSUME Init PROVE SyncsReachTheEnd
    OBVIOUS
  <2>1. SyncInv(NewRaft({}))
    BY NothingToSync DEF NewRaft
  <2>2. \A x \in Server : SyncInv(raft[x])
    BY <2>1, Zenon DEF Init
  <2> QED BY <2>2, InitEstablishes DEF SyncsReachTheEnd
<1>2. SyncsReachTheEnd /\ [Next]_vars => SyncsReachTheEnd'
  BY NextSyncs
<1> QED BY <1>1, <1>2, PTL DEF Spec

\* leaderDiskThreadMain forgets no entry: what a leader has not counted as
\* synced is queued, or part of the sync under way.
THEOREM NoEntryForgotten == Spec => []SyncAccountedFor
<1>1. SyncsReachTheEnd => SyncAccountedFor
  <2> SUFFICES ASSUME SyncsReachTheEnd, NEW s \in Server, Up(s),
                      raft[s].state = "LEADER",
                      raft[s].lastSynced < Len(raft[s].log)
               PROVE  \/ raft[s].logSyncQueued
                      \/ /\ raft[s].syncing
                         /\ raft[s].syncTerm = raft[s].currentTerm
                         /\ raft[s].syncIndex = Len(raft[s].log)
    BY DEF SyncAccountedFor
  <2>1. raft[s] \in Raft /\ SyncInv(raft[s])
    BY Parts DEF SyncsReachTheEnd
  <2>2. raft[s].lastSynced # Len(raft[s].log)
    <3>1. raft[s].lastSynced \in Nat /\ Len(raft[s].log) \in Nat
      BY <2>1, RaftFields
    <3> QED BY <3>1
  <2> QED BY <2>1, <2>2 DEF SyncInv, Up
<1> QED BY SyncsAlwaysReachTheEnd, <1>1, PTL
=============================================================================
