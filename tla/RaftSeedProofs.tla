--------------------------- MODULE RaftSeedProofs ---------------------------
(***************************************************************************)
(* Proofs about a cluster with one seed, for every set of servers, every   *)
(* sequence of reconfigurations and every bound: no assertion of the       *)
(* consensus code fails, what the seed believes of its peers is true, what *)
(* it commits is on a majority, and the code implements ReplicatedLog.     *)
(***************************************************************************)
EXTENDS RaftSeed, RaftConsensusProofs
-----------------------------------------------------------------------------
(* Configurations and majorities. *)

\* The configuration of a log that grows by one entry: the entry if it is a
\* CONFIGURATION, else the one there was.
LEMMA ConfigurationOfAppended ==
  ASSUME NEW log \in Seq(Entry), NEW e \in Entry
  PROVE  LET log2 == log \o <<e>>
         IN /\ <<e>> \in Seq(Entry) /\ log2 \in Seq(Entry)
            /\ Len(log2) = Len(log) + 1 /\ Len(log) \in Nat
            /\ \A i \in 1 .. Len(log) : log2[i] = log[i]
            /\ log2[Len(log) + 1] = e
            /\ e.body.type = "CONFIGURATION" =>
                 /\ Configurations(log2) = Configurations(log) \cup {Len(log) + 1}
                 /\ Configuration(log2) = e.body
            /\ e.body.type # "CONFIGURATION" =>
                 /\ Configurations(log2) = Configurations(log)
                 /\ Configuration(log2) = Configuration(log)
<1> DEFINE log2 == log \o <<e>>
           n == Len(log)
<1>1. <<e>> \in Seq(Entry) /\ Len(<<e>>) = 1 /\ <<e>>[1] = e
  OBVIOUS
<1>2. /\ log2 \in Seq(Entry) /\ Len(log2) = n + 1 /\ n \in Nat
      /\ \A i \in 1 .. n : log2[i] = log[i]
      /\ log2[n + 1] = e
  <2>1. n \in Nat
    BY LenProperties
  <2>2. /\ log2 \in Seq(Entry) /\ Len(log2) = n + Len(<<e>>)
        /\ \A i \in 1 .. n + Len(<<e>>) :
             log2[i] = IF i <= n THEN log[i] ELSE <<e>>[i - n]
    BY <1>1, ConcatProperties
  <2> HIDE DEF log2, n
  <2>3. \A i \in 1 .. n : log2[i] = log[i]
    BY <1>1, <2>1, <2>2
  <2>4. log2[n + 1] = <<e>>[1]
    BY <1>1, <2>1, <2>2
  <2> QED BY <1>1, <2>1, <2>2, <2>3, <2>4
<1> DEFINE C == {i \in DOMAIN log : log[i].body.type = "CONFIGURATION"}
           C2 == {i \in DOMAIN log2 : log2[i].body.type = "CONFIGURATION"}
<1>3. Configurations(log) = C /\ Configurations(log2) = C2
  BY DEF Configurations
<1>4. DOMAIN log = 1 .. n /\ DOMAIN log2 = 1 .. n + 1
  BY <1>2, LenProperties
<1> HIDE DEF log2, n
<1>5. C \in SUBSET (1 .. n)
  BY <1>4
<1>6. CASE e.body.type = "CONFIGURATION"
  <2>1. C2 = C \cup {n + 1}
    BY <1>2, <1>4, <1>6
  <2>2. \A j \in C2 : j <= n + 1
    BY <1>2, <1>4
  <2> HIDE DEF C, C2
  <2>3. C2 # {} /\ n + 1 \in C2
    BY <2>1
  <2>4. \A i \in C2 : (\A j \in C2 : j <= i) => i = n + 1
    BY <1>2, <1>5, <2>1, <2>2
  <2>5. (CHOOSE i \in C2 : \A j \in C2 : j <= i) = n + 1
    BY <2>2, <2>3, <2>4
  <2>6. ConfigId(log2) = n + 1
    BY <1>3, <2>3, <2>5 DEF ConfigId
  <2>7. Configuration(log2) = e.body
    BY <1>2, <1>3, <2>3, <2>6 DEF Configuration
  <2> QED BY <1>1, <1>2, <1>3, <1>6, <2>1, <2>7 DEF log2, n
<1>7. CASE e.body.type # "CONFIGURATION"
  <2>1. C2 = C
    BY <1>2, <1>4, <1>7
  <2> HIDE DEF C, C2
  <2>2. Configuration(log2) = Configuration(log)
    <3>1. CASE C = {}
      BY <1>3, <2>1, <3>1 DEF Configuration
    <3>2. CASE C # {}
      <4>1. ConfigId(log2) = ConfigId(log)
        BY <1>3, <2>1, <3>2 DEF ConfigId
      <4>2. ConfigId(log) \in C
        <5>1. C \in SUBSET Nat /\ \A t \in C : t <= n
          BY <1>2, <1>5
        <5>2. \E i \in C : \A j \in C : j <= i
          BY <1>2, <3>2, <5>1, LargestExists
        <5> QED BY <1>3, <3>2, <5>2 DEF ConfigId
      <4>3. log2[ConfigId(log)] = log[ConfigId(log)]
        BY <1>2, <1>5, <4>2
      <4> QED BY <1>3, <2>1, <3>2, <4>1, <4>3 DEF Configuration
    <3> QED BY <3>1, <3>2
  <2> QED BY <1>1, <1>2, <1>3, <1>7, <2>1, <2>2 DEF log2, n
<1> QED BY <1>6, <1>7

\* The newest configuration is one of the log's.
LEMMA ConfigurationIsEntry ==
  ASSUME NEW log \in Seq(Entry), Configurations(log) # {}
  PROVE  /\ ConfigId(log) \in Configurations(log)
         /\ ConfigId(log) \in 1 .. Len(log)
         /\ Configuration(log) = log[ConfigId(log)].body
<1>1. Configurations(log) \in SUBSET (1 .. Len(log)) /\ Len(log) \in Nat
  BY LenProperties DEF Configurations
<1>2. /\ Configurations(log) \in SUBSET Nat
      /\ \A i \in Configurations(log) : i <= Len(log)
  BY <1>1
<1>3. \E i \in Configurations(log) : \A j \in Configurations(log) : j <= i
  BY <1>1, <1>2, LargestExists
<1> QED BY <1>1, <1>3 DEF ConfigId, Configuration

\* A set of servers that contains a majority is a majority.
LEMMA MajorityGrows ==
  ASSUME NEW S \in SUBSET Server, NEW Q \in SUBSET S, NEW Q2 \in SUBSET S,
         Q \subseteq Q2, IsMajority(Q, S)
  PROVE  IsMajority(Q2, S)
<1>1. IsFiniteSet(S) /\ IsFiniteSet(Q2) /\ IsFiniteSet(Q)
  BY ConstantsAssumption, FS_Subset DEF ConstantsAssumption
<1>2. /\ Cardinality(Q) <= Cardinality(Q2)
      /\ Cardinality(Q) \in Nat /\ Cardinality(Q2) \in Nat
      /\ Cardinality(S) \in Nat
  BY <1>1, FS_Subset, FS_CardinalityType
<1> QED BY <1>2 DEF IsMajority

\* A majority is more than half, and it is not empty.
LEMMA MajorityIsMoreThanHalf ==
  ASSUME NEW S \in SUBSET Server, NEW Q \in SUBSET S, IsMajority(Q, S)
  PROVE  2 * Cardinality(Q) > Cardinality(S) /\ S # {}
<1>1. IsFiniteSet(S) /\ IsFiniteSet(Q)
  BY ConstantsAssumption, FS_Subset DEF ConstantsAssumption
<1>2. Cardinality(Q) \in Nat /\ Cardinality(S) \in Nat
  BY <1>1, FS_CardinalityType
<1>3. \A c \in Nat : 2 * ((c \div 2) + 1) > c
  OBVIOUS
<1>4. 2 * Cardinality(Q) > Cardinality(S)
  BY <1>2, <1>3 DEF IsMajority
<1>5. S # {}
  <2> SUFFICES ASSUME S = {} PROVE FALSE
    OBVIOUS
  <2>1. Q = {} /\ Cardinality({}) = 0
    BY FS_EmptySet
  <2> QED BY <1>4, <2>1
<1> QED BY <1>4, <1>5

\* What more servers have reached, or have reached a smaller index, a majority
\* still has.
LEMMA ReachedGrows ==
  ASSUME NEW S \in SUBSET Server, NEW index \in [Server -> Nat],
         NEW index2 \in [Server -> Nat], \A p \in S : index[p] <= index2[p],
         NEW n \in Nat, NEW n2 \in Nat, n2 <= n,
         IsMajority(AtLeast(S, index, n), S)
  PROVE  IsMajority(AtLeast(S, index2, n2), S)
<1>1. /\ AtLeast(S, index, n) \in SUBSET S
      /\ AtLeast(S, index2, n2) \in SUBSET S
      /\ AtLeast(S, index, n) \subseteq AtLeast(S, index2, n2)
  BY DEF AtLeast
<1> QED BY <1>1, MajorityGrows

\* quorumMin of some servers is an index that a majority of them has reached.
LEMMA SimpleQuorumMinReached ==
  ASSUME NEW S \in SUBSET Server, S # {}, NEW index \in [Server -> Nat],
         NEW n \in Nat, \A p \in Server : index[p] <= n
  PROVE  IsMajority(AtLeast(S, index, SimpleQuorumMin(S, index)), S)
<1> DEFINE values == {index[p] : p \in S}
           reached == {k \in values : IsMajority(AtLeast(S, index, k), S)}
<1>1. values \in SUBSET (0 .. n) /\ values # {}
  OBVIOUS
<1>2. PICK least \in values : \A k \in values : least <= k
  BY <1>1, SmallestExists
<1>3. AtLeast(S, index, least) = S
  BY <1>2 DEF AtLeast
<1>4. IsMajority(S, S)
  <2>1. IsFiniteSet(S)
    BY ConstantsAssumption, FS_Subset DEF ConstantsAssumption
  <2>2. Cardinality(S) \in Nat /\ Cardinality(S) # 0
    BY <2>1, FS_CardinalityType, FS_EmptySet
  <2>3. \A c \in Nat : c # 0 => c >= (c \div 2) + 1
    OBVIOUS
  <2> QED BY <2>2, <2>3 DEF IsMajority
<1>5. least \in reached
  BY <1>3, <1>4
<1>6. reached \in SUBSET Nat /\ \A k \in reached : k <= n
  BY <1>1
<1>7. \E m \in reached : \A k \in reached : k <= m
  BY <1>5, <1>6, LargestExists
<1>8. SimpleQuorumMin(S, index) \in reached
  BY <1>7 DEF SimpleQuorumMin
<1> QED BY <1>8

\* What advanceCommittedId commits, a majority of the servers has reached, of
\* both sets while the configuration is transitional.
LEMMA QuorumMinReached ==
  ASSUME NEW r \in Raft, NEW index \in [Server -> Nat],
         NEW n \in Nat, \A p \in Server : index[p] <= n,
         QuorumMin(r, index) > 0
  PROVE  LET c == Configuration(r.log)
             k == QuorumMin(r, index)
         IN /\ c.prev # {}
            /\ IsMajority(AtLeast(c.prev, index, k), c.prev)
            /\ c.next # {} => IsMajority(AtLeast(c.next, index, k), c.next)
<1> DEFINE c == Configuration(r.log)
           k == QuorumMin(r, index)
           old == SimpleQuorumMin(c.prev, index)
           new == SimpleQuorumMin(c.next, index)
<1>1. c.prev \in SUBSET Server /\ c.next \in SUBSET Server
  BY RaftFields, ConfigurationType
<1>2. old \in Nat /\ new \in Nat
  BY <1>1, SimpleQuorumMinBounded
<1>3. /\ k = IF Transitional(r) /\ new < old THEN new ELSE old
      /\ Transitional(r) <=> c.next # {}
  BY Zenon DEF QuorumMin, Transitional
<1>4. c.prev = {} => old = 0
  BY DEF SimpleQuorumMin
<1> HIDE DEF c, k, old, new
<1>5. k > 0
  BY DEF k
<1>6. k \in Nat /\ k <= old /\ (c.next # {} => k <= new)
  BY <1>2, <1>3
<1>7. c.prev # {}
  BY <1>2, <1>4, <1>5, <1>6
<1>8. IsMajority(AtLeast(c.prev, index, old), c.prev)
  BY <1>1, <1>7, SimpleQuorumMinReached DEF old
<1>9. c.next # {} => IsMajority(AtLeast(c.next, index, new), c.next)
  BY <1>1, SimpleQuorumMinReached DEF new
<1>10. IsMajority(AtLeast(c.prev, index, k), c.prev)
  BY <1>1, <1>2, <1>6, <1>8, ReachedGrows
<1>11. c.next # {} => IsMajority(AtLeast(c.next, index, k), c.next)
  BY <1>1, <1>2, <1>6, <1>9, ReachedGrows
<1> QED BY <1>7, <1>10, <1>11 DEF c, k
-----------------------------------------------------------------------------
(* The seed's own object: what each method makes of it.                     *)

\* The seed moves from r to r2: its log grows at the end, its commit index does
\* not fall, and once it leads it leads on, in the same term.
Leads(r, r2) ==
  /\ SamePrefix(r.log, r2.log, Len(r.log))
  /\ r.commitIndex <= r2.commitIndex
  /\ r.state = "LEADER" =>
       r2.state = "LEADER" /\ r2.currentTerm = r.currentTerm

\* A majority of the servers of S has stored n entries.
HeldBy(S, stored, n) == IsMajority(AtLeast(S, stored, n), S)

\* What r has committed is held by a majority of its configuration.
CommitHeld(r, stored) ==
  r.commitIndex > 0 =>
    HeldBy(Configuration(r.log).prev, stored, r.commitIndex)

\* What r2 commits over r is held by a majority of r's configuration, both sets.
CommitReached(r, r2, stored) ==
  r2.commitIndex > r.commitIndex =>
    \A S \in {Configuration(r.log).prev, Configuration(r.log).next} \ {{}} :
      HeldBy(S, stored, r2.commitIndex)

\* Moving on twice is moving on.
LEMMA LeadsTwice ==
  ASSUME NEW r \in Raft, NEW r1 \in Raft, NEW r2 \in Raft,
         Leads(r, r1), Leads(r1, r2)
  PROVE  Leads(r, r2)
<1>1. /\ Len(r.log) \in Nat /\ Len(r1.log) \in Nat /\ Len(r2.log) \in Nat
      /\ r.commitIndex \in Nat /\ r1.commitIndex \in Nat
      /\ r2.commitIndex \in Nat
  BY RaftFields
<1> QED BY <1>1 DEF Leads, SamePrefix

\* Fields that differ without the log, the commit index, the term and the state.
LEMMA LeadsAlike ==
  ASSUME NEW r \in Raft, NEW r2 \in Raft, r2.log = r.log,
         r2.commitIndex = r.commitIndex, r2.currentTerm = r.currentTerm,
         r2.state = r.state
  PROVE  Leads(r, r2)
<1>1. Len(r.log) \in Nat /\ r.commitIndex \in Nat
  BY RaftFields
<1> QED BY <1>1 DEF Leads, SamePrefix

\* A CONFIGURATION entry that the seed is in, in both of its sets.
SeedEntry(e) ==
  e.body.type = "CONFIGURATION" =>
    /\ Seed \in e.body.prev
    /\ e.body.next # {} => Seed \in e.body.next

\* The seed is in every configuration of its log, the newest included.
LEMMA SeedInConfiguration ==
  ASSUME NEW r \in Raft, SeedObject(r), Configuration(r.log).prev # {}
  PROVE  /\ Seed \in Configuration(r.log).prev
         /\ Configuration(r.log).next # {} => Seed \in Configuration(r.log).next
<1>1. Configurations(r.log) # {}
  BY DEF Configuration
<1>2. r.log \in Seq(Entry)
  BY RaftFields
<1>3. /\ ConfigId(r.log) \in Configurations(r.log)
      /\ Configuration(r.log) = r.log[ConfigId(r.log)].body
  BY <1>1, <1>2, ConfigurationIsEntry
<1> QED BY <1>3 DEF SeedObject

\* getServer at a seed that leads, or that appends the configuration of itself.
LEMMA WithPeersAtSeed ==
  ASSUME NEW r \in Raft, NEW members \in SUBSET Server, SeedObject(r),
         r.state = "LEADER" \/ members \subseteq {Seed}
  PROVE  LET r2 == WithPeers(r, Seed, members)
         IN /\ r2 \in Raft /\ SeedObject(r2) /\ Leads(r, r2)
            /\ r2.log = r.log /\ r2.commitIndex = r.commitIndex
            /\ r2.lastAgree = r.lastAgree /\ r2.phase = r.phase
            /\ r2.currentTerm = r.currentTerm /\ r2.state = r.state
<1> DEFINE new == members \ (r.known \cup {Seed})
           next == [p \in Server |-> IF p \in new THEN Len(r.log) + 1
                                     ELSE r.nextIndex[p]]
           r2 == WithPeers(r, Seed, members)
<1>1. /\ r2 \in Raft /\ r2.log = r.log /\ r2.commitIndex = r.commitIndex
      /\ r2.currentTerm = r.currentTerm /\ r2.failed = r.failed
      /\ r2.phase = r.phase /\ r2.state = r.state /\ r2.lastAgree = r.lastAgree
  BY WithPeersKeeps, SeedAssumption
<1>2. /\ r2.known = r.known \cup new /\ r2.rpcAlive = r.rpcAlive
      /\ r2.nextIndex = next
  BY DEF WithPeers, Raft
<1>3. /\ r.nextIndex \in [Server -> Nat \ {0}] /\ Len(r.log) \in Nat
      /\ r.known \in SUBSET Server
  BY RaftFields DEF Raft
<1> HIDE DEF r2
<1>4. \A p \in Server : r2.nextIndex[p] <= Len(r2.log) + 1
  BY <1>1, <1>2, <1>3 DEF SeedObject
<1>5. Seed \notin r2.known
  BY <1>2 DEF SeedObject
<1>6. r.state # "LEADER" => r2.known = {}
  <2> SUFFICES ASSUME r.state # "LEADER" PROVE r2.known = {}
    OBVIOUS
  <2>1. r.known = {} /\ new = {}
    BY DEF SeedObject
  <2> QED BY <1>2, <2>1
<1>7. SeedObject(r2)
  BY <1>1, <1>2, <1>4, <1>5, <1>6 DEF SeedObject
<1>8. Leads(r, r2)
  BY <1>1, LeadsAlike
<1> QED BY <1>1, <1>7, <1>8 DEF r2

\* append of one entry at a seed that leads, or of its first configuration.
LEMMA AppendedAtSeed ==
  ASSUME NEW r \in Raft, NEW e \in Entry, SeedObject(r), SeedEntry(e),
         \/ r.state = "LEADER"
         \/ /\ e.body.type = "CONFIGURATION"
            /\ e.body.prev = {Seed} /\ e.body.next = {}
  PROVE  LET r2 == Appended(r, Seed, <<e>>)
         IN /\ r2 \in Raft /\ SeedObject(r2) /\ Leads(r, r2)
            /\ r2.log = r.log \o <<e>> /\ r2.commitIndex = r.commitIndex
            /\ r2.lastAgree = r.lastAgree /\ r2.phase = r.phase
            /\ r2.currentTerm = r.currentTerm /\ r2.state = r.state
<1> DEFINE entries == <<e>>
           members == UNION {entries[i].body.prev \cup entries[i].body.next :
                               i \in Configurations(entries)}
           queued == r.logSyncQueued \/ r.state = "LEADER"
           staging == IF Configurations(entries) = {} THEN r.staging ELSE {}
           longer == [r EXCEPT !.log = r.log \o entries,
                               !.logSyncQueued = queued, !.staging = staging]
           r2 == Appended(r, Seed, entries)
<1>1. r.log \in Seq(Entry) /\ Len(r.log) \in Nat /\ e.body \in Body
  BY RaftFields DEF Entry
<1>2. /\ entries \in Seq(Entry) /\ r.log \o entries \in Seq(Entry)
      /\ Len(r.log \o entries) = Len(r.log) + 1
      /\ \A i \in 1 .. Len(r.log) : (r.log \o entries)[i] = r.log[i]
      /\ (r.log \o entries)[Len(r.log) + 1] = e
  BY <1>1, ConfigurationOfAppended
<1>3. /\ members \in SUBSET Server
      /\ r.state # "LEADER" => members \subseteq {Seed}
  <2>1. \A i \in Configurations(entries) :
          entries[i] = e /\ e.body.type = "CONFIGURATION"
    <3>1. DOMAIN entries = {1} /\ entries[1] = e
      OBVIOUS
    <3> QED BY <3>1 DEF Configurations
  <2>2. e.body.type = "CONFIGURATION" =>
          e.body.prev \in SUBSET Server /\ e.body.next \in SUBSET Server
    BY <1>1, ConfigurationBody
  <2> HIDE DEF entries
  <2> QED BY <2>1, <2>2
<1>4. queued \in BOOLEAN /\ staging \in SUBSET Server
  BY DEF Raft
<1>5. r2 = WithPeers(longer, Seed, members)
  BY DEF Appended
<1> HIDE DEF members, queued, staging, entries, r2
<1>6. longer \in Raft
  BY <1>2, <1>4 DEF Raft
<1>7. /\ longer.log = r.log \o entries /\ longer.commitIndex = r.commitIndex
      /\ longer.currentTerm = r.currentTerm /\ longer.failed = r.failed
      /\ longer.phase = r.phase /\ longer.state = r.state
      /\ longer.known = r.known /\ longer.lastAgree = r.lastAgree
      /\ longer.rpcAlive = r.rpcAlive /\ longer.nextIndex = r.nextIndex
  BY DEF Raft
<1> HIDE DEF longer
<1>8. Leads(r, longer)
  <2>1. r.commitIndex \in Nat
    BY RaftFields
  <2> QED BY <1>1, <1>2, <1>7, <2>1 DEF Leads, SamePrefix
<1>9. SeedObject(longer)
  <2>1. \A i \in Configurations(longer.log) :
          /\ Seed \in longer.log[i].body.prev
          /\ longer.log[i].body.next # {} => Seed \in longer.log[i].body.next
    <3> SUFFICES ASSUME NEW i \in Configurations(longer.log)
                 PROVE  SeedEntry(longer.log[i])
                        /\ longer.log[i].body.type = "CONFIGURATION"
      BY DEF SeedEntry
    <3>1. /\ i \in 1 .. Len(r.log) + 1
          /\ longer.log[i].body.type = "CONFIGURATION"
      BY <1>1, <1>2, <1>7, LenProperties DEF Configurations
    <3>2. CASE i = Len(r.log) + 1
      BY <1>2, <1>7, <3>1, <3>2
    <3>3. CASE i # Len(r.log) + 1
      <4>1. i \in 1 .. Len(r.log) /\ longer.log[i] = r.log[i]
        BY <1>1, <1>2, <1>7, <3>1, <3>3
      <4>2. i \in Configurations(r.log)
        BY <1>1, <3>1, <4>1, LenProperties DEF Configurations
      <4> QED BY <3>1, <4>1, <4>2 DEF SeedObject, SeedEntry
    <3> QED BY <3>2, <3>3
  <2>2. \A p \in Server : longer.nextIndex[p] <= Len(longer.log) + 1
    <3>1. r.nextIndex \in [Server -> Nat \ {0}]
      BY DEF Raft
    <3> QED BY <1>1, <1>2, <1>7, <3>1 DEF SeedObject
  <2>3. r.state # "LEADER" =>
          /\ Configuration(longer.log).prev \subseteq {Seed}
          /\ Configuration(longer.log).next = {}
    <3> SUFFICES ASSUME r.state # "LEADER"
                 PROVE  /\ Configuration(longer.log).prev \subseteq {Seed}
                        /\ Configuration(longer.log).next = {}
      OBVIOUS
    <3>1. Configuration(r.log \o <<e>>) = e.body
      BY <1>1, ConfigurationOfAppended
    <3> QED BY <1>7, <3>1 DEF entries
  <2> QED BY <1>7, <2>1, <2>2, <2>3 DEF SeedObject
<1>10. /\ r2 \in Raft /\ SeedObject(r2) /\ Leads(longer, r2)
       /\ r2.log = longer.log /\ r2.commitIndex = longer.commitIndex
       /\ r2.lastAgree = longer.lastAgree /\ r2.phase = longer.phase
       /\ r2.currentTerm = longer.currentTerm /\ r2.state = longer.state
  BY <1>3, <1>5, <1>6, <1>7, <1>9, WithPeersAtSeed
<1>11. Leads(r, r2)
  BY <1>6, <1>8, <1>10, LeadsTwice
<1> QED BY <1>7, <1>10, <1>11 DEF r2, entries

\* A configuration or anything else that a server in some term appends.
LEMMA ConfigurationEntryFields ==
  ASSUME NEW r \in Raft, NEW prev \in SUBSET Server, NEW next \in SUBSET Server
  PROVE  LET e == ConfigurationEntry(r, prev, next)
         IN /\ e \in Entry /\ e.body.type = "CONFIGURATION"
            /\ e.body.prev = prev /\ e.body.next = next
<1>1. r.currentTerm \in Nat
  BY RaftFields
<1>2. ConfigurationEntry(r, prev, next).body \in Body
  BY DEF ConfigurationEntry, Body
<1> QED BY <1>1, <1>2 DEF ConfigurationEntry, Entry

\* advanceCommittedId at a leading seed: it commits what majorities of its
\* configuration have stored, appends the stable configuration that follows a
\* transitional one, and never deposes the seed.
LEMMA AdvancedAtSeed ==
  ASSUME NEW r \in Raft, SeedObject(r), IndexInv(r), r.state = "LEADER",
         NEW stored \in [Server -> Nat], CommitHeld(r, stored),
         \A p \in Server \ {Seed} : r.lastAgree[p] <= stored[p],
         stored[Seed] = Len(r.log), \A p \in Server : stored[p] <= Len(r.log)
  PROVE  LET r2 == AdvancedCommittedId(r, Seed)
         IN /\ r2 \in Raft /\ SeedObject(r2) /\ Leads(r, r2)
            /\ CommitReached(r, r2, stored) /\ CommitHeld(r2, stored)
            /\ r2.lastAgree = r.lastAgree
<1> DEFINE index == [r.lastAgree EXCEPT ![Seed] = r.lastSynced]
           n == QuorumMin(r, index)
           c == Configuration(r.log)
           committed == [r EXCEPT !.commitIndex = n]
           e == ConfigurationEntry(r, c.next, {})
           r2 == AdvancedCommittedId(r, Seed)
<1>1. /\ Len(r.log) \in Nat /\ r.currentTerm \in Nat /\ r.commitIndex \in Nat
      /\ c.prev \in SUBSET Server /\ c.next \in SUBSET Server
  BY RaftFields, ConfigurationType
<1>2. CASE r2 = r
  <2>1. Leads(r, r)
    BY LeadsAlike
  <2>2. CommitReached(r, r, stored)
    BY <1>1 DEF CommitReached
  <2> HIDE DEF r2
  <2> QED BY <1>2, <2>1, <2>2 DEF r2
<1>3. CASE r2 # r
  <2>1. ~(n <= r.commitIndex)
    BY <1>3, Zenon DEF AdvancedCommittedId
  <2>2. /\ index \in [Server -> Nat]
        /\ \A p \in Server : index[p] <= Len(r.log)
        /\ \A p \in Server : index[p] <= stored[p]
    <3>1. r.lastAgree \in [Server -> Nat] /\ r.lastSynced \in Nat
      BY RaftFields
    <3>2. /\ r.lastSynced <= Len(r.log)
          /\ \A p \in Server : r.lastAgree[p] <= Len(r.log)
      BY DEF IndexInv, SeedObject
    <3> QED BY <3>1, <3>2, SeedAssumption
  <2> HIDE DEF index
  <2>3. n \in Nat
    BY <1>1, <2>2, QuorumMinBounded
  <2>4. n > 0 /\ n > r.commitIndex
    BY <1>1, <2>1, <2>3
  <2>5. /\ c.prev # {} /\ IsMajority(AtLeast(c.prev, index, n), c.prev)
        /\ c.next # {} => IsMajority(AtLeast(c.next, index, n), c.next)
    BY <1>1, <2>2, <2>4, QuorumMinReached
  <2>6. /\ HeldBy(c.prev, stored, n)
        /\ c.next # {} => HeldBy(c.next, stored, n)
    <3> HIDE DEF c, n
    <3>1. \A S \in SUBSET Server :
            IsMajority(AtLeast(S, index, n), S)
              => IsMajority(AtLeast(S, stored, n), S)
      <4> SUFFICES ASSUME NEW S \in SUBSET Server,
                          IsMajority(AtLeast(S, index, n), S)
                   PROVE  IsMajority(AtLeast(S, stored, n), S)
        OBVIOUS
      <4>1. \A p \in S : index[p] <= stored[p]
        BY <2>2
      <4>2. n <= n
        BY <2>3
      <4> QED BY <2>2, <2>3, <4>1, <4>2, ReachedGrows
    <3> QED BY <1>1, <2>5, <3>1 DEF HeldBy
  <2>7. Seed \in c.prev /\ (c.next # {} => Seed \in c.next)
    BY <2>5, SeedInConfiguration
  <2>8. r2 = IF Transitional(r) THEN Appended(committed, Seed, <<e>>)
             ELSE committed
    <3>1. ~(n >= ConfigId(r.log) /\ Seed \notin c.prev \cup c.next)
      BY <2>7
    <3> QED BY <1>3, <3>1, Zenon DEF AdvancedCommittedId, index
  <2>9. Transitional(r) <=> c.next # {}
    BY DEF Transitional
  <2>10. /\ e \in Entry /\ e.body.type = "CONFIGURATION"
         /\ e.body.prev = c.next /\ e.body.next = {}
    BY <1>1, ConfigurationEntryFields
  <2>11. committed \in Raft
    <3> HIDE DEF n
    <3> QED BY <2>3 DEF Raft
  <2>12. /\ committed.log = r.log /\ committed.commitIndex = n
         /\ committed.currentTerm = r.currentTerm
         /\ committed.failed = r.failed /\ committed.rpcAlive = r.rpcAlive
         /\ committed.state = r.state /\ committed.known = r.known
         /\ committed.nextIndex = r.nextIndex
         /\ committed.lastAgree = r.lastAgree
    BY DEF Raft
  <2> HIDE DEF r2, n, c, e, committed
  <2>13. SeedObject(committed)
    BY <2>12 DEF SeedObject
  <2>14. Leads(r, committed)
    BY <1>1, <2>3, <2>4, <2>12 DEF Leads, SamePrefix
  <2>15. CASE c.next # {}
    <3>1. r2 = Appended(committed, Seed, <<e>>)
      BY <2>8, <2>9, <2>15
    <3>2. SeedEntry(e)
      BY <2>7, <2>10, <2>15 DEF SeedEntry
    <3>3. /\ r2 \in Raft /\ SeedObject(r2) /\ Leads(committed, r2)
          /\ r2.log = committed.log \o <<e>> /\ r2.commitIndex = n
          /\ r2.lastAgree = committed.lastAgree
      BY <2>10, <2>11, <2>12, <2>13, <3>1, <3>2, AppendedAtSeed
    <3>4. Configuration(r2.log) = e.body
      BY <2>10, <2>11, <2>12, <3>3, RaftFields, ConfigurationOfAppended
    <3>5. CommitHeld(r2, stored)
      BY <2>6, <2>10, <2>15, <3>3, <3>4 DEF CommitHeld
    <3>6. CommitReached(r, r2, stored)
      BY <2>6, <3>3 DEF CommitReached, c
    <3>7. Leads(r, r2)
      BY <2>11, <2>14, <3>3, LeadsTwice
    <3> QED BY <2>12, <3>3, <3>5, <3>6, <3>7 DEF r2
  <2>16. CASE c.next = {}
    <3>1. r2 = committed
      BY <2>8, <2>9, <2>16
    <3>2. CommitHeld(r2, stored)
      BY <2>6, <2>12, <3>1 DEF CommitHeld, c
    <3>3. CommitReached(r, r2, stored)
      BY <2>6, <2>12, <3>1 DEF CommitReached, c
    <3> QED BY <2>11, <2>12, <2>13, <2>14, <3>1, <3>2, <3>3 DEF r2
  <2> QED BY <2>15, <2>16
<1> QED BY <1>2, <1>3

\* becomeLeader at a seed that knows nobody yet.
LEMMA BecomeLeaderAtSeed ==
  ASSUME NEW r \in Raft, SeedObject([r EXCEPT !.state = "LEADER"]),
         r.known = {}, r.state # "LEADER", r.commitIndex = 0
  PROVE  LET r2 == BecomeLeader(r, Seed)
         IN /\ r2 \in Raft /\ SeedObject(r2) /\ Leads(r, r2)
            /\ r2.commitIndex = 0 /\ r2.lastAgree = r.lastAgree
            /\ r2.state = "LEADER"
<1> DEFINE noop == [term |-> r.currentTerm, body |-> [type |-> "NOOP"]]
           led == [r EXCEPT !.state = "LEADER", !.leaderId = Seed,
                            !.withhold = "max"]
           led2 == [led EXCEPT !.lastSynced = Len(r.log)]
           lead == [r EXCEPT !.state = "LEADER"]
           r2 == BecomeLeader(r, Seed)
<1>1. r2 = Appended(led2, Seed, <<noop>>)
  BY DEF BecomeLeader
<1>2. /\ noop \in Entry /\ SeedEntry(noop)
  <2>1. r.currentTerm \in Nat
    BY RaftFields
  <2> QED BY <2>1 DEF Entry, Body, SeedEntry
<1>3. /\ led2 \in Raft /\ led2.log = r.log /\ led2.commitIndex = r.commitIndex
      /\ led2.state = "LEADER" /\ led2.known = r.known
      /\ led2.failed = r.failed /\ led2.rpcAlive = r.rpcAlive
      /\ led2.nextIndex = r.nextIndex /\ led2.lastAgree = r.lastAgree
  <2>1. /\ led \in Raft /\ led.log = r.log /\ led.commitIndex = r.commitIndex
        /\ led.state = "LEADER" /\ led.known = r.known
        /\ led.failed = r.failed /\ led.rpcAlive = r.rpcAlive
        /\ led.nextIndex = r.nextIndex /\ led.lastAgree = r.lastAgree
    BY SeedAssumption, ZenonT(40) DEF Raft
  <2>2. Len(r.log) \in Nat
    BY RaftFields
  <2> HIDE DEF led
  <2> QED BY <2>1, <2>2, ZenonT(40) DEF Raft
<1>4. /\ lead.log = r.log /\ lead.known = r.known
      /\ lead.failed = r.failed /\ lead.rpcAlive = r.rpcAlive
      /\ lead.nextIndex = r.nextIndex
  BY DEF Raft
<1>5. SeedObject(lead)
  OBVIOUS
<1> HIDE DEF r2, led2, lead, noop
<1>6. SeedObject(led2)
  BY <1>3, <1>4, <1>5 DEF SeedObject
<1>7. /\ r2 \in Raft /\ SeedObject(r2) /\ Leads(led2, r2)
      /\ r2.commitIndex = led2.commitIndex /\ r2.lastAgree = led2.lastAgree
      /\ r2.state = led2.state
  BY <1>1, <1>2, <1>3, <1>6, AppendedAtSeed
<1>8. Leads(r, r2)
  BY <1>3, <1>7 DEF Leads
<1> QED BY <1>3, <1>7, <1>8 DEF r2

\* The rest of appendEntries at a leading seed, when the answer m of p arrives.
LEMMA AnsweredAtSeed ==
  ASSUME NEW r \in Raft, SeedObject(r), IndexInv(r), r.state = "LEADER",
         NEW stored \in [Server -> Nat], CommitHeld(r, stored),
         \A q \in Server \ {Seed} : r.lastAgree[q] <= stored[q],
         stored[Seed] = Len(r.log), \A q \in Server : stored[q] <= Len(r.log),
         NEW p \in Server \ {Seed}, NEW m \in Message, m.kind = "appended",
         p \in r.known, m.term = r.currentTerm, m.lastIndex <= Len(r.log),
         m.covered <= Len(r.log), m.success => m.covered <= stored[p]
  PROVE  LET r2 == Answered(r, Seed, p, m)
         IN /\ r2 \in Raft /\ SeedObject(r2) /\ Leads(r, r2)
            /\ CommitReached(r, r2, stored) /\ CommitHeld(r2, stored)
            /\ \A q \in Server \ {Seed} : r2.lastAgree[q] <= stored[q]
<1> DEFINE agree == IF r.lastAgree[p] > m.covered THEN r.lastAgree[p]
                    ELSE m.covered
           agreed == [r EXCEPT !.lastAgree[p] = agree]
           counted == IF r.lastAgree[p] > m.covered THEN r
                      ELSE AdvancedCommittedId(agreed, Seed)
           caughtUp == IF r.goal[p] <= agree THEN counted.caughtUp \cup {p}
                       ELSE counted.caughtUp
           yes == [counted EXCEPT !.nextIndex[p] = agree + 1,
                                  !.caughtUp = caughtUp]
           no == [r EXCEPT !.nextIndex[p] = Retreat(m)]
           r2 == Answered(r, Seed, p, m)
<1>1. /\ Len(r.log) \in Nat /\ r.currentTerm \in Nat /\ r.commitIndex \in Nat
      /\ r.lastAgree \in [Server -> Nat] /\ m.term \in Nat
      /\ m.lastIndex \in Nat /\ m.covered \in Nat /\ m.success \in BOOLEAN
  BY RaftFields, AppendedFields
<1>2. r2 \in Raft
  <2>1. CallInv(r, p, m)
    BY DEF CallInv
  <2> QED BY <2>1, SeedAssumption, AnsweredKeeps DEF SeedObject
<1>3. r2 = IF m.success THEN yes ELSE no
  BY <1>1 DEF Answered
<1>4. CASE ~m.success
  <2>1. r2 = no
    BY <1>3, <1>4
  <2>2. Retreat(m) \in Nat \ {0} /\ Retreat(m) <= Len(r.log) + 1
    BY <1>1 DEF Retreat
  <2>3. /\ no.log = r.log /\ no.commitIndex = r.commitIndex
        /\ no.currentTerm = r.currentTerm /\ no.failed = r.failed
        /\ no.rpcAlive = r.rpcAlive /\ no.state = r.state
        /\ no.known = r.known /\ no.lastAgree = r.lastAgree
        /\ no.nextIndex = [r.nextIndex EXCEPT ![p] = Retreat(m)]
    BY DEF Raft
  <2>4. r.nextIndex \in [Server -> Nat \ {0}]
    BY DEF Raft
  <2> HIDE DEF no, r2
  <2>5. SeedObject(r2)
    BY <2>1, <2>2, <2>3, <2>4 DEF SeedObject
  <2>6. Leads(r, r2)
    BY <1>2, <2>1, <2>3, LeadsAlike
  <2>7. CommitReached(r, r2, stored) /\ CommitHeld(r2, stored)
    BY <1>1, <2>1, <2>3 DEF CommitReached, CommitHeld
  <2> QED BY <1>2, <2>1, <2>3, <2>5, <2>6, <2>7 DEF r2
<1>5. CASE m.success
  <2>1. r2 = yes
    BY <1>3, <1>5
  <2>2. agree \in Nat /\ agree <= Len(r.log) /\ agree <= stored[p]
    BY <1>1, <1>5 DEF IndexInv, SeedObject
  <2> HIDE DEF agree
  <2>3. /\ agreed \in Raft /\ agreed.log = r.log
        /\ agreed.commitIndex = r.commitIndex
        /\ agreed.currentTerm = r.currentTerm /\ agreed.failed = r.failed
        /\ agreed.rpcAlive = r.rpcAlive /\ agreed.state = r.state
        /\ agreed.known = r.known /\ agreed.nextIndex = r.nextIndex
        /\ agreed.phase = r.phase /\ agreed.syncing = r.syncing
        /\ agreed.syncTerm = r.syncTerm /\ agreed.syncIndex = r.syncIndex
        /\ agreed.lastSynced = r.lastSynced
        /\ agreed.lastAgree = [r.lastAgree EXCEPT ![p] = agree]
    BY <1>1, <2>2 DEF Raft
  <2> HIDE DEF agreed
  <2>4. SeedObject(agreed) /\ Leads(r, agreed)
    BY <2>3, LeadsAlike DEF SeedObject
  <2>5. /\ \A q \in Server : agreed.lastAgree[q] <= Len(r.log)
        /\ \A q \in Server \ r.known : agreed.lastAgree[q] = 0
        /\ \A q \in Server \ {Seed} : agreed.lastAgree[q] <= stored[q]
    BY <1>1, <2>2, <2>3 DEF IndexInv, SeedObject
  <2>6. IndexInv(agreed)
    BY <2>3, <2>5 DEF IndexInv
  <2>7. /\ counted \in Raft /\ SeedObject(counted) /\ Leads(r, counted)
        /\ CommitReached(r, counted, stored) /\ CommitHeld(counted, stored)
        /\ \A q \in Server \ {Seed} : counted.lastAgree[q] <= stored[q]
    <3>1. CASE r.lastAgree[p] > m.covered
      <4>1. counted = r
        BY <3>1
      <4>2. Leads(r, r) /\ CommitReached(r, r, stored)
        BY <1>1, LeadsAlike DEF CommitReached
      <4> HIDE DEF counted
      <4> QED BY <4>1, <4>2
    <3>2. CASE ~(r.lastAgree[p] > m.covered)
      <4>1. counted = AdvancedCommittedId(agreed, Seed)
        BY <3>2
      <4>2. CommitHeld(agreed, stored)
        BY <2>3 DEF CommitHeld
      <4> HIDE DEF counted
      <4>3. /\ counted \in Raft /\ SeedObject(counted)
            /\ Leads(agreed, counted)
            /\ CommitReached(agreed, counted, stored)
            /\ CommitHeld(counted, stored)
            /\ counted.lastAgree = agreed.lastAgree
        BY <2>3, <2>4, <2>5, <2>6, <4>1, <4>2, AdvancedAtSeed
      <4>4. Leads(r, counted)
        BY <2>3, <2>4, <4>3, LeadsTwice
      <4>5. CommitReached(r, counted, stored)
        BY <2>3, <4>3 DEF CommitReached
      <4> QED BY <2>5, <4>3, <4>4, <4>5
    <3> QED BY <3>1, <3>2
  <2> HIDE DEF counted
  <2>8. /\ Len(counted.log) \in Nat /\ Len(r.log) <= Len(counted.log)
        /\ counted.nextIndex \in [Server -> Nat \ {0}]
        /\ counted.commitIndex \in Nat
    <3>1. counted.nextIndex \in [Server -> Nat \ {0}]
      BY <2>7 DEF Raft
    <3> QED BY <2>7, <3>1, RaftFields DEF Leads, SamePrefix
  <2>9. /\ yes.log = counted.log /\ yes.commitIndex = counted.commitIndex
        /\ yes.currentTerm = counted.currentTerm
        /\ yes.failed = counted.failed /\ yes.rpcAlive = counted.rpcAlive
        /\ yes.state = counted.state /\ yes.known = counted.known
        /\ yes.lastAgree = counted.lastAgree
        /\ yes.nextIndex = [counted.nextIndex EXCEPT ![p] = agree + 1]
    <3> HIDE DEF caughtUp
    <3> QED BY <2>7 DEF Raft
  <2> HIDE DEF yes, r2
  <2>10. \A q \in Server : r2.nextIndex[q] <= Len(r2.log) + 1
    BY <1>1, <2>1, <2>2, <2>7, <2>8, <2>9, SMTT(30) DEF SeedObject
  <2>11. SeedObject(r2)
    BY <2>1, <2>7, <2>9, <2>10 DEF SeedObject
  <2>12. Leads(r, r2)
    <3>1. Leads(counted, r2)
      BY <1>2, <2>1, <2>7, <2>9, LeadsAlike
    <3> QED BY <1>2, <2>7, <3>1, LeadsTwice
  <2>13. CommitReached(r, r2, stored) /\ CommitHeld(r2, stored)
    BY <2>1, <2>7, <2>9 DEF CommitReached, CommitHeld
  <2> QED BY <1>2, <2>1, <2>7, <2>9, <2>11, <2>12, <2>13 DEF r2
<1> QED BY <1>4, <1>5
-----------------------------------------------------------------------------
(* A follower of the seed: what a request makes of it.                      *)

\* The entries of a request that a prefix of the leader's log lacks: the next
\* ones of the leader's log, for no entry of the prefix is in conflict.
LEMMA NewEntriesOfLeader ==
  ASSUME NEW log \in Seq(Entry), NEW led \in Seq(Entry),
         SamePrefix(log, led, Len(log)),
         NEW m \in Message, m.kind = "append", m.prevIndex <= Len(log),
         Covered(m) <= Len(led),
         \A k \in DOMAIN m.entries : m.entries[k] = led[m.prevIndex + k]
  PROVE  LET new == NewEntries(log, m)
         IN /\ Conflicts(log, m) = {} /\ new \in Seq(Entry)
            /\ SamePrefix(log \o new, led, Len(log \o new))
            /\ Len(log \o new) = Len(log) + Len(new)
            /\ Covered(m) <= Len(log) + Len(new)
<1> DEFINE n == Len(m.entries)
           present(k) == /\ m.prevIndex + k <= Len(log)
                         /\ log[m.prevIndex + k].term = m.entries[k].term
           new == {k \in 1 .. n : ~present(k)}
           first == CHOOSE k \in new : \A j \in new : k <= j
           added == NewEntries(log, m)
<1>1. /\ m.entries \in Seq(Entry) /\ n \in Nat /\ m.prevIndex \in Nat
      /\ Covered(m) = m.prevIndex + n /\ Len(log) \in Nat /\ Len(led) \in Nat
      /\ DOMAIN m.entries = 1 .. n
  BY AppendFields, LenProperties DEF Covered
<1>2. \A i \in 1 .. Len(log) : log[i] = led[i]
  BY DEF SamePrefix
<1>3. \A k \in 1 .. n : present(k) <=> m.prevIndex + k <= Len(log)
  <2> SUFFICES ASSUME NEW k \in 1 .. n, m.prevIndex + k <= Len(log)
               PROVE  log[m.prevIndex + k].term = m.entries[k].term
    OBVIOUS
  <2>1. m.entries[k] = led[m.prevIndex + k]
    BY <1>1
  <2>2. m.prevIndex + k \in 1 .. Len(log)
    BY <1>1
  <2> QED BY <1>2, <2>1, <2>2
<1>4. Conflicts(log, m) = {}
  <2> SUFFICES ASSUME NEW i \in Conflicts(log, m) PROVE FALSE
    OBVIOUS
  <2>1. /\ i \in m.prevIndex + 1 .. m.prevIndex + n /\ i <= Len(log)
        /\ log[i].term # m.entries[i - m.prevIndex].term
    BY DEF Conflicts
  <2>2. i - m.prevIndex \in 1 .. n /\ m.prevIndex + (i - m.prevIndex) = i
    BY <1>1, <2>1
  <2>3. m.entries[i - m.prevIndex] = led[i]
    BY <1>1, <2>2
  <2> QED BY <1>1, <1>2, <2>1, <2>3
<1>5. added \in Seq(Entry) /\ Covered(m) <= Len(log) + Len(added)
  BY NewEntriesReach
<1>6. CASE new = {}
  <2>1. added = <<>>
    BY <1>6 DEF NewEntries
  <2>2. log \o added = log /\ Len(added) = 0
    BY <2>1, ConcatEmptySeq, EmptySeq
  <2> HIDE DEF added, new
  <2> QED BY <1>1, <1>4, <1>5, <2>2 DEF added
<1>7. CASE new # {}
  <2>1. first \in new /\ \A j \in new : first <= j
    <3>1. new \in SUBSET Nat
      BY <1>1
    <3>2. \E k \in new : \A j \in new : k <= j
      BY <1>7, <3>1, SmallestExists
    <3> QED BY <3>2
  <2>2. \A k \in 1 .. n : k \in new <=> m.prevIndex + k > Len(log)
    BY <1>1, <1>3
  <2>3. added = IF first < n /\ present(first + 1)
                THEN <<m.entries[first]>> \o SubSeq(m.entries, first + 2, n)
                ELSE SubSeq(m.entries, first, n)
    BY <1>7, Zenon DEF NewEntries
  <2> HIDE DEF first
  <2>4. first \in 1 .. n /\ m.prevIndex + first > Len(log)
    BY <1>1, <2>1, <2>2
  <2>5. m.prevIndex + first = Len(log) + 1
    <3>1. CASE first = 1
      BY <1>1, <2>4, <3>1
    <3>2. CASE first # 1
      <4>1. first - 1 \in 1 .. n /\ first - 1 \notin new
        BY <1>1, <2>1, <2>4, <3>2
      <4>2. ~(m.prevIndex + (first - 1) > Len(log))
        BY <2>2, <4>1
      <4>3. first \in 1 .. n /\ m.prevIndex + first > Len(log)
        BY <2>4
      <4>4. first \in Int /\ m.prevIndex \in Int /\ Len(log) \in Int
        BY <1>1, <4>3
      <4>5. \A p, f, l \in Int :
              ~(p + (f - 1) > l) /\ p + f > l => p + f = l + 1
        OBVIOUS
      <4> HIDE DEF n, new
      <4> QED BY <4>2, <4>3, <4>4, <4>5, ZenonT(40)
    <3> QED BY <3>1, <3>2
  <2>6. ~(first < n /\ present(first + 1))
    <3> SUFFICES ASSUME first < n PROVE ~present(first + 1)
      OBVIOUS
    <3>1. first + 1 \in 1 .. n
      BY <1>1, <2>4
    <3>2. ~(m.prevIndex + (first + 1) <= Len(log))
      BY <1>1, <2>4, <2>5
    <3> HIDE DEF present, new, n
    <3> QED BY <1>3, <3>1, <3>2
  <2>7. added = SubSeq(m.entries, first, n)
    BY <2>3, <2>6
  <2> HIDE DEF added, new, present
  <2>8. \A i \in first .. n : m.entries[i] \in Entry
    <3>1. \A i \in 1 .. n : m.entries[i] \in Entry
      BY <1>1, ElementOfSeq
    <3> QED BY <1>1, <2>4, <3>1
  <2>9. /\ Len(added) = n - first + 1
        /\ \A i \in 1 .. n - first + 1 : added[i] = m.entries[first + i - 1]
    BY <1>1, <2>4, <2>7, <2>8, SubSeqProperties
  <2>10. /\ Len(log \o added) = Len(log) + Len(added)
         /\ \A i \in 1 .. Len(log) + Len(added) :
              (log \o added)[i] = IF i <= Len(log) THEN log[i]
                                  ELSE added[i - Len(log)]
    BY <1>5, ConcatProperties
  <2>11. ASSUME NEW i \in 1 .. Len(log) + Len(added)
         PROVE  (log \o added)[i] = led[i]
    <3>1. CASE i <= Len(log)
      BY <1>1, <1>2, <2>10, <3>1
    <3>2. CASE ~(i <= Len(log))
      <4> DEFINE j == i - Len(log)
      <4>1. /\ j \in 1 .. n - first + 1 /\ first + j - 1 \in 1 .. n
            /\ m.prevIndex + (first + j - 1) = i
        <5>1. first \in Nat /\ n \in Nat /\ m.prevIndex \in Nat /\ Len(log) \in Nat
          BY <1>1, <2>4
        <5>2. i \in Nat /\ i > Len(log) /\ i <= Len(log) + (n - first + 1)
          BY <1>1, <2>4, <2>9, <3>2
        <5>3. j \in Nat /\ j >= 1 /\ j <= n - first + 1 /\ i = Len(log) + j
          BY <5>1, <5>2
        <5>4. first >= 1 /\ first <= n
          BY <2>4
        <5> HIDE DEF n, j
        <5>5. j \in 1 .. n - first + 1
          BY <5>1, <5>3
        <5>6. first + j - 1 \in 1 .. n
          BY <5>1, <5>3, <5>4
        <5>7. m.prevIndex + (first + j - 1) = i
          <6>2. m.prevIndex + first = Len(log) + 1
            BY <2>5
          <6>3. m.prevIndex \in Nat /\ first \in Nat /\ Len(log) \in Nat
            BY <5>1
          <6>4. j \in Nat
            BY <5>3
          <6>5. m.prevIndex + (first + j - 1) = Len(log) + j
            <7> DEFINE p == m.prevIndex
                       q == Len(log)
            <7>1. p \in Nat /\ first \in Nat /\ q \in Nat /\ p + first = q + 1
              BY <6>2, <6>3
            <7> HIDE DEF p, q
            <7>2. p + (first + j - 1) = q + j
              BY <6>4, <7>1
            <7> QED BY <7>2 DEF p, q
          <6>6. i = Len(log) + j
            BY <5>3
          <6> QED BY <6>5, <6>6
        <5> QED BY <5>5, <5>6, <5>7
      <4>2. (log \o added)[i] = added[j]
        BY <1>1, <2>10, <3>2
      <4> HIDE DEF j
      <4>3. added[j] = m.entries[first + j - 1]
        BY <2>9, <4>1
      <4>4. m.entries[first + j - 1] = led[m.prevIndex + (first + j - 1)]
        BY <1>1, <4>1
      <4> QED BY <4>1, <4>2, <4>3, <4>4
    <3> QED BY <3>1, <3>2
  <2>12. Len(log) + Len(added) <= Len(led) /\ Len(added) \in Nat
    BY <1>1, <2>4, <2>5, <2>9, SMTT(30)
  <2>13. SamePrefix(log \o added, led, Len(log \o added))
    BY <1>1, <2>10, <2>11, <2>12 DEF SamePrefix
  <2> QED BY <1>4, <1>5, <2>10, <2>13 DEF added
<1> QED BY <1>6, <1>7

\* What append leaves alone in the object of a follower.
LEMMA AppendedElse ==
  ASSUME NEW r \in Raft, NEW p \in Server, NEW entries \in Seq(Entry)
  PROVE  LET r2 == Appended(r, p, entries)
         IN /\ r2.rpcAlive = r.rpcAlive /\ r2.leaderId = r.leaderId
            /\ r2.stored = r.stored
<1> DEFINE members == UNION {entries[i].body.prev \cup entries[i].body.next :
                               i \in Configurations(entries)}
           queued == r.logSyncQueued \/ r.state = "LEADER"
           staging == IF Configurations(entries) = {} THEN r.staging ELSE {}
           longer == [r EXCEPT !.log = r.log \o entries,
                               !.logSyncQueued = queued, !.staging = staging]
           new == members \ (longer.known \cup {p})
           known == longer.known \cup new
           next == [q \in Server |-> IF q \in new THEN Len(longer.log) + 1
                                     ELSE longer.nextIndex[q]]
           goal == [q \in Server |-> IF q \in new THEN Len(longer.log)
                                     ELSE longer.goal[q]]
<1>1. Appended(r, p, entries)
        = [longer EXCEPT !.known = known, !.nextIndex = next, !.goal = goal]
  BY DEF Appended, WithPeers
<1> HIDE DEF members, queued, staging
<1>2. /\ longer.rpcAlive = r.rpcAlive /\ longer.leaderId = r.leaderId
      /\ longer.stored = r.stored
      /\ longer = [f \in DOMAIN r |-> longer[f]]
      /\ {"known", "nextIndex", "goal", "rpcAlive", "leaderId", "stored"}
           \subseteq DOMAIN r
  BY DEF Raft
<1> HIDE DEF longer, known, next, goal
<1> QED BY <1>1, <1>2, Zenon

\* A follower that accepts a request of the seed holds what the request covers,
\* and still a prefix of the seed's log.
LEMMA AcceptedAtFollower ==
  ASSUME NEW led \in Raft,
         NEW r \in Raft, NEW p \in Server \ {Seed}, NEW m \in Message,
         m.kind = "append", Covered(m) <= Len(led.log),
         FollowerObject(r, led), IndexInv(r), SeedCall(m, led, Len(r.log)),
         Fits(r, m)
  PROVE  LET r2 == Accepted(r, p, m).r
         IN /\ r2 \in Raft => FollowerObject(r2, led)
            /\ SamePrefix(r.log, r2.log, Len(r.log))
            /\ r.commitIndex <= r2.commitIndex
            /\ Covered(m) <= Len(r2.log)
<1> DEFINE new == NewEntries(r.log, m)
           cut == [r EXCEPT !.log = r.log, !.staging = r.staging]
           grown == IF new = <<>> THEN cut ELSE Appended(cut, p, new)
           commit == IF grown.commitIndex < m.commit THEN m.commit
                     ELSE grown.commitIndex
           final == [grown EXCEPT !.commitIndex = commit]
           r2 == Accepted(r, p, m).r
<1>1. /\ r.log \in Seq(Entry) /\ Len(r.log) \in Nat /\ r.commitIndex \in Nat
      /\ led.log \in Seq(Entry) /\ m.commit \in Nat
      /\ led.commitIndex \in Nat
  BY RaftFields, AppendFields
<1>2. /\ Conflicts(r.log, m) = {} /\ new \in Seq(Entry)
      /\ SamePrefix(r.log \o new, led.log, Len(r.log \o new))
      /\ Len(r.log \o new) = Len(r.log) + Len(new)
      /\ Covered(m) <= Len(r.log) + Len(new)
  <2>1. /\ SamePrefix(r.log, led.log, Len(r.log))
        /\ m.prevIndex <= Len(r.log)
        /\ \A k \in DOMAIN m.entries :
             m.entries[k] = led.log[m.prevIndex + k]
    BY DEF FollowerObject, Fits, SeedCall
  <2> QED BY <1>1, <2>1, NewEntriesOfLeader
<1>3. r2 = final
  BY <1>2, Zenon DEF Accepted
<1>4. /\ cut \in Raft /\ cut.log = r.log /\ cut.commitIndex = r.commitIndex
      /\ cut.failed = r.failed /\ cut.rpcAlive = r.rpcAlive
      /\ cut.state = r.state /\ cut.leaderId = r.leaderId
      /\ cut.currentTerm = r.currentTerm /\ cut.stored = r.stored
  BY DEF Raft
<1> HIDE DEF cut, new, r2
<1>5. /\ grown \in Raft /\ grown.log = r.log \o new
      /\ grown.commitIndex = r.commitIndex
      /\ grown.failed = r.failed /\ grown.rpcAlive = r.rpcAlive
      /\ grown.state = r.state /\ grown.leaderId = r.leaderId
      /\ grown.currentTerm = r.currentTerm /\ grown.stored = r.stored
  <2>1. CASE new = <<>>
    <3>1. r.log \o <<>> = r.log
      BY <1>1, ConcatEmptySeq
    <3> QED BY <1>4, <2>1, <3>1
  <2>2. CASE new # <<>>
    <3>1. grown = Appended(cut, p, new)
      BY <2>2
    <3> HIDE DEF grown
    <3>2. p \in Server
      OBVIOUS
    <3>3. /\ grown \in Raft /\ grown.log = cut.log \o new
          /\ grown.commitIndex = cut.commitIndex
          /\ grown.currentTerm = cut.currentTerm
          /\ grown.failed = cut.failed /\ grown.state = cut.state
      BY <1>2, <1>4, <3>1, <3>2, AppendedKeeps, ZenonT(40)
    <3>4. /\ grown.rpcAlive = cut.rpcAlive
          /\ grown.leaderId = cut.leaderId /\ grown.stored = cut.stored
      BY <1>2, <1>4, <3>1, <3>2, AppendedElse
    <3> QED BY <1>4, <3>3, <3>4
  <2> QED BY <2>1, <2>2
<1> HIDE DEF grown
<1>6. /\ commit \in Nat /\ r.commitIndex <= commit
      /\ commit <= led.commitIndex
  BY <1>1, <1>5 DEF FollowerObject, SeedCall
<1> HIDE DEF commit
<1>7. /\ final.log = r.log \o new /\ final.commitIndex = commit
      /\ final.failed = r.failed /\ final.rpcAlive = r.rpcAlive
      /\ final.state = r.state /\ final.leaderId = r.leaderId
      /\ final.currentTerm = r.currentTerm /\ final.stored = r.stored
  BY <1>5, <1>6 DEF Raft
<1> HIDE DEF final
<1>8. FollowerObject(r2, led)
  BY <1>2, <1>3, <1>6, <1>7 DEF FollowerObject
<1>9. SamePrefix(r.log, r2.log, Len(r.log))
  <2>1. \A i \in 1 .. Len(r.log) : (r.log \o new)[i] = r.log[i]
    BY <1>1, <1>2, ConcatProperties
  <2>2. Len(new) \in Nat
    BY <1>2, LenProperties
  <2> QED BY <1>1, <1>2, <1>3, <1>7, <2>1, <2>2 DEF SamePrefix
<1> QED BY <1>2, <1>3, <1>6, <1>7, <1>8, <1>9 DEF r2

\* handleAppendEntries of a follower makes the changes of the entries it appends.
LEMMA AcceptedFollows ==
  ASSUME NEW led \in Raft,
         NEW r \in Raft, NEW p \in Server \ {Seed}, NEW m \in Message,
         m.kind = "append", Covered(m) <= Len(led.log),
         FollowerObject(r, led), SeedCall(m, led, Len(r.log)), Fits(r, m)
  PROVE  \E new \in Seq(Entry) : /\ Accepted(r, p, m).r.log = r.log \o new
                                 /\ Accepted(r, p, m).changes = Changes(new)
<1> DEFINE new == NewEntries(r.log, m)
           cut == [r EXCEPT !.log = r.log, !.staging = r.staging]
           grown == IF new = <<>> THEN cut ELSE Appended(cut, p, new)
           commit == IF grown.commitIndex < m.commit THEN m.commit
                     ELSE grown.commitIndex
           final == [grown EXCEPT !.commitIndex = commit]
<1>1. /\ r.log \in Seq(Entry) /\ led.log \in Seq(Entry)
  BY RaftFields
<1>2. Conflicts(r.log, m) = {} /\ new \in Seq(Entry)
  <2>1. /\ SamePrefix(r.log, led.log, Len(r.log))
        /\ m.prevIndex <= Len(r.log)
        /\ \A k \in DOMAIN m.entries :
             m.entries[k] = led.log[m.prevIndex + k]
    BY DEF FollowerObject, Fits, SeedCall
  <2> QED BY <1>1, <2>1, NewEntriesOfLeader
<1>3. /\ Accepted(r, p, m).r = final
      /\ Accepted(r, p, m).changes = Applied(cut, new)
  BY <1>2, Zenon DEF Accepted
<1>4. cut \in Raft /\ cut.log = r.log /\ cut.state = r.state
  BY DEF Raft
<1> HIDE DEF cut, new
<1>5. grown \in Raft /\ grown.log = r.log \o new
  <2>1. CASE new = <<>>
    <3>1. r.log \o <<>> = r.log
      BY <1>1, ConcatEmptySeq
    <3> QED BY <1>4, <2>1, <3>1
  <2>2. CASE new # <<>>
    <3>1. grown = Appended(cut, p, new)
      BY <2>2
    <3> HIDE DEF grown
    <3>2. p \in Server
      OBVIOUS
    <3>3. grown \in Raft /\ grown.log = cut.log \o new
      BY <1>2, <1>4, <3>1, <3>2, AppendedKeeps
    <3> QED BY <1>4, <3>3
  <2> QED BY <2>1, <2>2
<1> HIDE DEF grown, commit
<1>6. final.log = r.log \o new
  BY <1>5 DEF Raft
<1> HIDE DEF final
<1>7. Applied(cut, new) = Changes(new)
  <2>1. cut.state = "FOLLOWER"
    BY <1>4 DEF FollowerObject
  <2> QED BY <2>1 DEF Applied
<1> QED BY <1>2, <1>3, <1>6, <1>7, Zenon

\* A follower makes the changes of the entries that it appends.
MakesWhatItAppends(log, result) ==
  \E new \in Seq(Entry) : result.r.log = log \o new /\ result.changes = Changes(new)

\* handleAppendEntries of a follower at a request of the seed: no assertion
\* fails, an answer of success is true, and it makes the changes of what it appends.
LEMMA ReceivedAtFollower ==
  ASSUME NEW led \in Raft, led.state = "LEADER",
         NEW r \in Raft, NEW p \in Server \ {Seed}, NEW m \in Message,
         m.kind = "append", CallInv(led, p, m),
         Covered(m) <= Len(led.log),
         FollowerObject(r, led), IndexInv(r), SeedCall(m, led, Len(r.log))
  PROVE  LET result == Received(r, p, Seed, m)
         IN /\ FollowerObject(result.r, led)
            /\ SamePrefix(r.log, result.r.log, Len(r.log))
            /\ r.commitIndex <= result.r.commitIndex
            /\ result.answer.kind = "appended" /\ result.answer.term = m.term
            /\ result.answer.lastIndex = Len(r.log)
            /\ result.answer.covered = Covered(m)
            /\ result.answer.success => Covered(m) <= Len(result.r.log)
            /\ MakesWhatItAppends(r.log, result)
<1> DEFINE down == SteppedDown(r, m.term)
           leader == IF down.leaderId = None THEN Seed ELSE down.leaderId
           r1 == [down EXCEPT !.withhold = "days", !.leaderId = leader]
           answer(term, success) ==
             [kind |-> "appended", term |-> term, success |-> success,
              lastIndex |-> Len(r.log), covered |-> Covered(m)]
           accepted == Accepted(r1, p, m)
           result == Received(r, p, Seed, m)
<1>1. /\ r.currentTerm \in Nat /\ Len(r.log) \in Nat /\ r.commitIndex \in Nat
      /\ m.term \in Nat /\ m.term = TermHeard(led) /\ r.currentTerm <= m.term
      /\ led.currentTerm \in Nat
  BY RaftFields, AppendFields DEF SeedCall, TermHeard, FollowerObject
<1>2. /\ down \in Raft /\ IndexInv(down) /\ down.log = r.log
      /\ down.commitIndex = r.commitIndex /\ down.currentTerm = m.term
      /\ down.failed = r.failed /\ down.state = "FOLLOWER"
  BY <1>1, SteppedDownKeeps
<1>3. /\ down.rpcAlive = r.rpcAlive
      /\ down.leaderId \in {None, r.leaderId}
      /\ \A t \in down.stored : t \in r.stored \/ t.term = m.term
  <2> DEFINE newer == r.currentTerm < m.term
             voted == IF newer THEN None ELSE r.votedFor
             withhold == IF r.withhold = "max" THEN "no" ELSE r.withhold
             ledBy == IF newer THEN None ELSE r.leaderId
             stored == IF newer
                       THEN r.stored \cup {[term |-> m.term, vote |-> None]}
                       ELSE r.stored
  <2>1. down = [r EXCEPT !.currentTerm = m.term, !.leaderId = ledBy,
                         !.votedFor = voted, !.stored = stored,
                         !.state = "FOLLOWER", !.withhold = withhold,
                         !.logSyncQueued = FALSE]
    BY DEF SteppedDown
  <2>2. /\ ledBy \in {None, r.leaderId}
        /\ \A t \in stored : t \in r.stored \/ t.term = m.term
    OBVIOUS
  <2> HIDE DEF newer, voted, withhold, ledBy, stored, down
  <2>3. /\ down.rpcAlive = r.rpcAlive /\ down.leaderId = ledBy
        /\ down.stored = stored
    BY <2>1 DEF Raft
  <2> QED BY <2>2, <2>3
<1> HIDE DEF down
<1>4. leader = Seed
  <2>1. down.leaderId \in {None, Seed}
    BY <1>3 DEF FollowerObject
  <2> QED BY <2>1
<1>5. /\ r1 \in Raft /\ r1.log = r.log /\ r1.commitIndex = r.commitIndex
      /\ r1.currentTerm = m.term /\ r1.failed = r.failed
      /\ r1.state = "FOLLOWER" /\ r1.rpcAlive = r.rpcAlive
      /\ r1.leaderId = Seed /\ r1.stored = down.stored /\ Alike(down, r1)
  <2> HIDE DEF leader
  <2> QED BY <1>2, <1>3, <1>4, SeedAssumption, ZenonT(40) DEF Raft, Alike
<1>6. result = IF ~Fits(r1, m)
               THEN [r |-> r1, changes |-> <<>>, answer |-> answer(m.term, FALSE)]
               ELSE [r |-> accepted.r, changes |-> accepted.changes,
                     answer |-> IF accepted.r.failed = "nothing"
                                THEN answer(m.term, TRUE) ELSE Unanswered]
  <2>1. ~(m.term < r.currentTerm)
    BY <1>1
  <2>2. ~(r1.leaderId # Seed)
    BY <1>5
  <2> QED BY <2>1, <2>2, Zenon DEF Received, down
<1> HIDE DEF r1
<1>7. FollowerObject(r1, led) /\ IndexInv(r1)
  <2>1. \A t \in r1.stored : t.term <= TermHeard(led)
    BY <1>1, <1>3, <1>5 DEF FollowerObject
  <2>2. FollowerObject(r1, led)
    BY <1>1, <1>5, <2>1 DEF FollowerObject
  <2> QED BY <1>2, <1>5, <2>2, AlikeKeeps
<1>8. SamePrefix(r.log, r.log, Len(r.log))
  BY <1>1 DEF SamePrefix
<1>9. CASE ~Fits(r1, m)
  <2>1. /\ result.r = r1 /\ result.answer = answer(m.term, FALSE)
        /\ result.changes = <<>>
    BY <1>6, <1>9
  <2>2. r.log \in Seq(Entry)
    BY RaftFields
  <2>3. r.log \o <<>> = r.log /\ <<>> \in Seq(Entry) /\ Changes(<<>>) = <<>>
    BY <2>2, ConcatEmptySeq, EmptySeq, NoChanges
  <2>4. MakesWhatItAppends(r.log, result)
    <3> HIDE DEF result
    <3> QED BY <1>5, <2>1, <2>3, Zenon DEF MakesWhatItAppends
  <2> QED BY <1>1, <1>5, <1>7, <1>8, <2>1, <2>4 DEF result
<1>10. CASE Fits(r1, m)
  <2>1. /\ result.r = accepted.r /\ result.changes = accepted.changes
        /\ result.answer = IF accepted.r.failed = "nothing"
                           THEN answer(m.term, TRUE) ELSE Unanswered
    BY <1>6, <1>10
  <2>2. accepted.r \in Raft
    BY <1>5, <1>7, <1>10, AcceptedKeeps DEF CallInv
  <2>3. /\ FollowerObject(accepted.r, led)
        /\ SamePrefix(r1.log, accepted.r.log, Len(r1.log))
        /\ r1.commitIndex <= accepted.r.commitIndex
        /\ Covered(m) <= Len(accepted.r.log)
    BY <1>5, <1>7, <1>10, <2>2, AcceptedAtFollower
  <2>5. \E new \in Seq(Entry) : /\ accepted.r.log = r1.log \o new
                               /\ accepted.changes = Changes(new)
    BY <1>5, <1>7, <1>10, AcceptedFollows, ZenonT(40)
  <2> HIDE DEF result, accepted
  <2>4. result.answer = answer(m.term, TRUE)
    BY <2>1, <2>3 DEF FollowerObject
  <2>6. MakesWhatItAppends(r.log, result)
    BY <1>5, <2>1, <2>5, Zenon DEF MakesWhatItAppends
  <2> QED BY <1>5, <2>1, <2>3, <2>4, <2>6 DEF result
<1> QED BY <1>9, <1>10
-----------------------------------------------------------------------------
(* Steps of the cluster.                                                    *)

\* A follower stays one when the seed moves on.
LEMMA FollowerKept ==
  ASSUME NEW led \in Raft, NEW led2 \in Raft, Leads(led, led2),
         NEW r \in Raft, FollowerObject(r, led)
  PROVE  FollowerObject(r, led2)
<1>1. /\ Len(r.log) \in Nat /\ Len(led.log) \in Nat /\ Len(led2.log) \in Nat
      /\ r.currentTerm \in Nat /\ led.currentTerm \in Nat
      /\ led2.currentTerm \in Nat /\ r.commitIndex \in Nat
      /\ led.commitIndex \in Nat /\ led2.commitIndex \in Nat
      /\ r.stored \in SUBSET Metadata
  BY RaftFields
<1>2. /\ TermHeard(led) \in Nat /\ TermHeard(led2) \in Nat
      /\ TermHeard(led) <= TermHeard(led2)
  BY <1>1 DEF TermHeard, Leads
<1>3. SamePrefix(r.log, led2.log, Len(r.log))
  <2>1. Len(r.log) <= Len(led.log) /\ Len(led.log) <= Len(led2.log)
    BY DEF FollowerObject, Leads, SamePrefix
  <2>2. \A i \in 1 .. Len(r.log) : r.log[i] = led.log[i]
    BY DEF FollowerObject, SamePrefix
  <2>3. \A i \in 1 .. Len(led.log) : led.log[i] = led2.log[i]
    BY DEF Leads, SamePrefix
  <2>4. Len(r.log) <= Len(led2.log) /\ \A i \in 1 .. Len(r.log) : i \in 1 .. Len(led.log)
    BY <1>1, <2>1
  <2>5. \A i \in 1 .. Len(r.log) : r.log[i] = led2.log[i]
    BY <2>2, <2>3, <2>4, Zenon
  <2>6. Len(r.log) <= Len(r.log)
    BY <1>1
  <2> QED BY <2>4, <2>5, <2>6 DEF SamePrefix
<1>4. \A t \in r.stored : t.term \in Nat
  BY <1>1 DEF Metadata
<1>5. \A t \in r.stored : t.term <= TermHeard(led2)
  BY <1>2, <1>4 DEF FollowerObject
<1>6. r.currentTerm <= TermHeard(led2) /\ r.commitIndex <= led2.commitIndex
  BY <1>1, <1>2 DEF FollowerObject, Leads
<1> QED BY <1>3, <1>5, <1>6 DEF FollowerObject

\* A call stays what it is when the seed moves on and the log it is for grows.
LEMMA SeedCallKept ==
  ASSUME NEW led \in Raft, NEW led2 \in Raft, Leads(led, led2),
         NEW n \in Nat, NEW n2 \in Nat, n <= n2,
         NEW m \in Message, SeedCall(m, led, n),
         m.kind = "idle" \/ led.state = "LEADER",
         m.kind = "append" => Covered(m) <= Len(led.log)
  PROVE  SeedCall(m, led2, n2)
<1>1. /\ Len(led.log) \in Nat /\ Len(led2.log) \in Nat
      /\ led.commitIndex \in Nat /\ led2.commitIndex \in Nat
      /\ \A i \in 1 .. Len(led.log) : led2.log[i] = led.log[i]
      /\ Len(led.log) <= Len(led2.log)
  BY RaftFields DEF Leads, SamePrefix
<1>2. CASE m.kind = "idle"
  BY <1>2 DEF SeedCall
<1>3. CASE m.kind = "append"
  <2>1. /\ m.entries \in Seq(Entry) /\ Len(m.entries) \in Nat
        /\ DOMAIN m.entries = 1 .. Len(m.entries)
        /\ m.prevIndex \in Nat /\ m.commit \in Nat
        /\ m.prevIndex + Len(m.entries) <= Len(led.log)
    BY <1>3, AppendFields, LenProperties DEF Covered
  <2>2. m.prevIndex > 0 => led2.log[m.prevIndex] = led.log[m.prevIndex]
    BY <1>1, <2>1, SMTT(30)
  <2>3. \A k \in DOMAIN m.entries :
          led2.log[m.prevIndex + k] = led.log[m.prevIndex + k]
    <3> SUFFICES ASSUME NEW k \in 1 .. Len(m.entries)
                 PROVE  m.prevIndex + k \in 1 .. Len(led.log)
      BY <1>1, <2>1
    <3> QED BY <1>1, <2>1
  <2>4. m.commit <= led2.commitIndex
    BY <1>1, <1>3, <2>1 DEF SeedCall, Leads
  <2>5. m.term = led2.currentTerm
    BY <1>3 DEF SeedCall, Leads
  <2> QED BY <1>3, <2>2, <2>3, <2>4, <2>5 DEF SeedCall
<1>4. CASE m.kind = "appended"
  <2>1. m.lastIndex \in Nat /\ m.covered \in Nat
    BY <1>4, AppendedFields
  <2>2. m.term = led2.currentTerm
    BY <1>4 DEF SeedCall, Leads
  <2> QED BY <1>1, <1>4, <2>1, <2>2 DEF SeedCall
<1> QED BY <1>2, <1>3, <1>4 DEF SeedCall

\* What the invariant says of the seed, and of what the servers have stored.
LEMMA SeedParts ==
  ASSUME OneSeedInv
  PROVE  /\ NothingInFlightOvershoots /\ Seed \in Server
         /\ raft \in [Server -> Raft] /\ raft[Seed] \in Raft
         /\ IndexInv(raft[Seed]) /\ SeedObject(raft[Seed])
         /\ Stored \in [Server -> Nat]
         /\ Stored[Seed] = Len(raft[Seed].log)
         /\ \A p \in Server : Stored[p] <= Len(raft[Seed].log)
         /\ CommitHeld(raft[Seed], Stored)
         /\ \A p \in Server \ {Seed} : raft[Seed].lastAgree[p] <= Stored[p]
         /\ raft[Seed].state # "LEADER" => raft[Seed].known = {}
         /\ SeedWork
<1>1. /\ NothingInFlightOvershoots /\ Seed \in Server
      /\ raft \in [Server -> Raft] /\ raft[Seed] \in Raft
      /\ IndexInv(raft[Seed]) /\ SeedObject(raft[Seed]) /\ SeedWork
  BY SeedAssumption, Parts DEF OneSeedInv
<1>2. /\ Stored \in [Server -> Nat]
      /\ \A p \in Server : Stored[p] = Len(raft[p].log)
  BY <1>1, RaftFields DEF Stored
<1>3. \A p \in Server : Stored[p] <= Len(raft[Seed].log)
  <2> SUFFICES ASSUME NEW p \in Server
               PROVE  Stored[p] <= Len(raft[Seed].log)
    OBVIOUS
  <2>1. CASE p = Seed
    BY <1>1, <1>2, <2>1
  <2>2. CASE p # Seed
    BY <1>2, <2>2 DEF OneSeedInv, FollowerObject, SamePrefix
  <2> QED BY <2>1, <2>2
<1>4. /\ CommitHeld(raft[Seed], Stored)
      /\ \A p \in Server \ {Seed} : raft[Seed].lastAgree[p] <= Stored[p]
  BY DEF OneSeedInv, SeedCounts, CommitHeld, HeldBy
<1> QED BY <1>1, <1>2, <1>3, <1>4 DEF SeedObject

\* What the invariant says of another server and of the seed's call to it.
LEMMA FollowerParts ==
  ASSUME OneSeedInv, NEW p \in Server \ {Seed}
  PROVE  /\ p \in Server /\ raft[p] \in Raft /\ IndexInv(raft[p])
         /\ FollowerObject(raft[p], raft[Seed])
         /\ rpc[Seed][p] \in Message /\ CallInv(raft[Seed], p, rpc[Seed][p])
         /\ SeedCall(rpc[Seed][p], raft[Seed], Stored[p])
         /\ rpc[Seed][p].kind = "append" =>
              Covered(rpc[Seed][p]) <= Len(raft[Seed].log)
         /\ rpc[Seed][p].kind = "appended" =>
              rpc[Seed][p].covered <= Len(raft[Seed].log)
         /\ rpc[Seed][p].kind # "idle" => raft[Seed].state = "LEADER"
         /\ Stored[p] = Len(raft[p].log) /\ Stored[p] \in Nat
         /\ reconf[p] = NoReconf /\ pending[p] = None
         /\ \A q \in Server : rpc[p][q] = Idle
<1>1. /\ NothingInFlightOvershoots /\ Seed \in Server
      /\ SeedObject(raft[Seed])
  BY SeedAssumption DEF OneSeedInv
<1>2. /\ raft[p] \in Raft /\ IndexInv(raft[p])
      /\ rpc[Seed][p] \in Message /\ CallInv(raft[Seed], p, rpc[Seed][p])
  BY <1>1, Parts
<1>3. /\ FollowerObject(raft[p], raft[Seed])
      /\ SeedCall(rpc[Seed][p], raft[Seed], Stored[p])
      /\ reconf[p] = NoReconf /\ pending[p] = None
      /\ \A q \in Server : rpc[p][q] = Idle
  BY DEF OneSeedInv
<1>4. rpc[Seed][p].kind # "idle" => raft[Seed].state = "LEADER"
  BY <1>1, <1>2 DEF CallInv, SeedObject
<1>5. /\ rpc[Seed][p].kind = "append" =>
           Covered(rpc[Seed][p]) <= Len(raft[Seed].log)
      /\ rpc[Seed][p].kind = "appended" =>
           rpc[Seed][p].covered <= Len(raft[Seed].log)
  BY <1>1, <1>2, <1>4 DEF CallInv, SeedObject
<1>6. Stored[p] = Len(raft[p].log) /\ Stored[p] \in Nat
  BY <1>2, RaftFields DEF Stored
<1> QED BY <1>2, <1>3, <1>4, <1>5, <1>6

\* A server that is not the seed calls nobody, and nobody calls the seed.
LEMMA OnlySeedCalls ==
  ASSUME OneSeedInv, NEW s \in Server, NEW p \in Server,
         rpc[s][p].kind # "idle"
  PROVE  s = Seed /\ p \in Server \ {Seed}
<1>1. s = Seed
  BY FollowerParts DEF Idle
<1>2. p # Seed
  <2>1. NothingInFlightOvershoots /\ SeedObject(raft[Seed])
    BY DEF OneSeedInv
  <2>2. CallInv(raft[s], p, rpc[s][p])
    BY <2>1, Parts
  <2> QED BY <1>1, <2>1, <2>2 DEF CallInv, SeedObject
<1> QED BY <1>1, <1>2

\* The seed's step, seen through the refinement mapping: the primary appends,
\* and commits what a quorum of its configuration holds.
LEMMA SeedStepLeads ==
  ASSUME OneSeedInv, NEW r2 \in Raft, raft' = [raft EXCEPT ![Seed] = r2],
         Leads(raft[Seed], r2), CommitReached(raft[Seed], r2, Stored)
  PROVE  Abstract!Lead
<1> DEFINE r == raft[Seed]
           log == [s \in Server |-> raft[s].log]
           commit == [s \in Server |-> raft[s].commitIndex]
           c == Configuration(r.log)
           n == r2.commitIndex
           Q == {p \in Server : Abstract!Holds(p, n)}
<1>1. /\ Seed \in Server /\ raft \in [Server -> Raft] /\ r \in Raft
      /\ r.log \in Seq(Entry) /\ r2.log \in Seq(Entry)
      /\ Len(r.log) \in Nat /\ Len(r2.log) \in Nat
      /\ r.commitIndex \in Nat /\ n \in Nat
      /\ DOMAIN r.log = 1 .. Len(r.log)
      /\ c.prev \in SUBSET Server /\ c.next \in SUBSET Server
  BY SeedParts, RaftFields, LenProperties, ConfigurationType
<1>2. /\ raft'[Seed] = r2
      /\ \A p \in Server \ {Seed} : raft'[p] = raft[p]
  BY <1>1
<1>3. Abstract!IsPrefixOf(r.log, r2.log)
  BY <1>1 DEF Abstract!IsPrefixOf, Leads, SamePrefix
<1>4. ASSUME NEW p \in Server, Stored[p] >= n PROVE p \in Q
  <2>1. /\ raft[p] \in Raft /\ raft[p].log \in Seq(Entry)
        /\ Len(raft[p].log) \in Nat /\ Stored[p] = Len(raft[p].log)
    BY <1>1, RaftFields DEF Stored
  <2>2. SamePrefix(raft[p].log, r.log, Len(raft[p].log))
    <3>1. CASE p = Seed
      BY <1>1, <3>1 DEF SamePrefix
    <3>2. CASE p # Seed
      BY <3>2, FollowerParts DEF FollowerObject
    <3> QED BY <3>1, <3>2
  <2>3. n <= Len(raft[p].log) /\ n <= Len(r.log)
    BY <1>1, <1>4, <2>1, <2>2 DEF SamePrefix
  <2>4. \A i \in 1 .. n : r.log[i] \in Entry
    BY <1>1, <2>3, ElementOfSeq
  <2>5. /\ SubSeq(r.log, 1, n) \in Seq(Entry)
        /\ Len(SubSeq(r.log, 1, n)) = n
        /\ \A i \in 1 .. n : SubSeq(r.log, 1, n)[i] = r.log[i]
    BY <1>1, <2>4, SubSeqProperties
  <2>6. DOMAIN SubSeq(r.log, 1, n) = 1 .. n
    BY <2>5, LenProperties
  <2>7. Abstract!IsPrefixOf(SubSeq(r.log, 1, n), raft[p].log)
    BY <1>1, <2>1, <2>2, <2>3, <2>5, <2>6, SMTT(30)
       DEF Abstract!IsPrefixOf, SamePrefix
  <2> QED BY <1>1, <2>7 DEF Abstract!Holds
<1>5. n > r.commitIndex => IsRaftQuorum(Q, r.log)
  <2> SUFFICES ASSUME n > r.commitIndex,
                      NEW S \in {c.prev, c.next} \ {{}}
               PROVE  2 * Cardinality(S \cap Q) > Cardinality(S)
    BY Zenon DEF IsRaftQuorum
  <2>1. IsMajority(AtLeast(S, Stored, n), S)
    BY DEF CommitReached, HeldBy
  <2> HIDE DEF Q
  <2>2. AtLeast(S, Stored, n) \subseteq S \cap Q /\ S \in SUBSET Server
    BY <1>1, <1>4 DEF AtLeast
  <2>3. IsMajority(S \cap Q, S)
    BY <2>1, <2>2, MajorityGrows DEF AtLeast
  <2> QED BY <2>2, <2>3, MajorityIsMoreThanHalf
<1>6. /\ log[Seed] = r.log /\ log'[Seed] = r2.log
      /\ commit[Seed] = r.commitIndex /\ commit'[Seed] = n
      /\ \A p \in Server \ {Seed} : log'[p] = log[p] /\ commit'[p] = commit[p]
  BY <1>1, <1>2
<1>7. r2.commitIndex >= r.commitIndex
  BY <1>1 DEF Leads
<1> HIDE DEF log, commit, n, c
<1> QED BY <1>3, <1>5, <1>6, <1>7, Zenon DEF Abstract!Lead, log, commit, n

\* The servers that are not the seed make no calls and no changes of their own.
OthersRest ==
  \A p \in Server \ {Seed} : /\ reconf[p] = NoReconf /\ pending[p] = None
                            /\ \A q \in Server : rpc[p][q] = Idle

\* What a step of the specification is to ReplicatedLog, and to the seed.
AbstractStep ==
  /\ Abstract!Next \/ UNCHANGED Abstract!logVars
  /\ Leads(raft[Seed], raft'[Seed])

\* A step of the seed's object keeps the invariant, and is one of the primary.
LEMMA SeedMoves ==
  ASSUME OneSeedInv, NothingInFlightOvershoots', OthersRest', SeedWork',
         NEW r2 \in Raft, raft' = [raft EXCEPT ![Seed] = r2],
         SeedObject(r2), Leads(raft[Seed], r2),
         CommitReached(raft[Seed], r2, Stored), CommitHeld(r2, Stored),
         \A p \in Server \ {Seed} : r2.lastAgree[p] <= Stored[p],
         \A p \in Server \ {Seed} :
           \/ rpc'[Seed][p] = rpc[Seed][p]
           \/ SeedCall(rpc'[Seed][p], r2, Stored[p])
  PROVE  OneSeedInv' /\ AbstractStep
<1>1. /\ Seed \in Server /\ raft \in [Server -> Raft] /\ raft[Seed] \in Raft
      /\ Stored \in [Server -> Nat] /\ Stored[Seed] = Len(raft[Seed].log)
  BY SeedParts
<1>2. /\ raft'[Seed] = r2
      /\ \A p \in Server \ {Seed} : raft'[p] = raft[p]
  BY <1>1
<1>3. AbstractStep
  <2>1. Abstract!Next
    BY SeedStepLeads DEF Abstract!Next
  <2> QED BY <1>2, <2>1 DEF AbstractStep
<1>4. Stored' = [p \in Server |-> Len(raft'[p].log)]
  BY DEF Stored
<1>5. \A p \in Server \ {Seed} : Stored'[p] = Stored[p]
  BY <1>2, <1>4 DEF Stored
<1>6. /\ Stored' \in [Server -> Nat]
      /\ \A p \in Server : Stored[p] <= Stored'[p]
  <2>1. Len(r2.log) \in Nat /\ Len(raft[Seed].log) <= Len(r2.log)
    BY RaftFields DEF Leads, SamePrefix
  <2>2. Stored'[Seed] = Len(r2.log)
    BY <1>1, <1>2, <1>4
  <2>3. \A p \in Server : Stored'[p] \in Nat /\ Stored[p] <= Stored'[p]
    BY <1>1, <1>5, <2>1, <2>2
  <2> QED BY <1>4, <2>3
<1>7. ASSUME NEW p \in Server \ {Seed}
      PROVE  /\ FollowerObject(raft'[p], r2)
             /\ SeedCall(rpc'[Seed][p], r2, Stored'[p])
  <2>1. FollowerObject(raft'[p], r2)
    BY <1>1, <1>2, FollowerParts, FollowerKept
  <2>2. Stored'[p] = Stored[p]
    BY <1>5
  <2>3. SeedCall(rpc'[Seed][p], r2, Stored[p])
    <3>1. /\ rpc[Seed][p] \in Message
          /\ SeedCall(rpc[Seed][p], raft[Seed], Stored[p])
          /\ rpc[Seed][p].kind = "idle" \/ raft[Seed].state = "LEADER"
          /\ rpc[Seed][p].kind = "append" =>
               Covered(rpc[Seed][p]) <= Len(raft[Seed].log)
      BY FollowerParts
    <3>2. Stored[p] \in Nat /\ Stored[p] <= Stored[p]
      BY <1>1
    <3>3. SeedCall(rpc[Seed][p], r2, Stored[p])
      BY <1>1, <3>1, <3>2, SeedCallKept
    <3>4. CASE rpc'[Seed][p] = rpc[Seed][p]
      BY <3>3, <3>4, Zenon
    <3> QED BY <3>4
  <2> QED BY <2>1, <2>2, <2>3, Zenon
<1>8. SeedCounts'
  <2> DEFINE S == Configuration(r2.log).prev
  <2>1. S \in SUBSET Server /\ r2.commitIndex \in Nat
    BY RaftFields, ConfigurationType
  <2> HIDE DEF S
  <2>2. r2.commitIndex > 0 => IsMajority(AtLeast(S, Stored, r2.commitIndex), S)
    BY DEF CommitHeld, HeldBy, S
  <2>3. r2.commitIndex > 0 => IsMajority(AtLeast(S, Stored', r2.commitIndex), S)
    <3> SUFFICES ASSUME IsMajority(AtLeast(S, Stored, r2.commitIndex), S)
                 PROVE  IsMajority(AtLeast(S, Stored', r2.commitIndex), S)
      BY <2>2
    <3>1. /\ AtLeast(S, Stored, r2.commitIndex) \in SUBSET S
          /\ AtLeast(S, Stored', r2.commitIndex) \in SUBSET S
          /\ AtLeast(S, Stored, r2.commitIndex)
               \subseteq AtLeast(S, Stored', r2.commitIndex)
      BY <1>1, <1>6, <2>1 DEF AtLeast
    <3> QED BY <2>1, <3>1, MajorityGrows
  <2> QED BY <1>2, <1>5, <2>3 DEF SeedCounts, S
<1>9. SeedObject(raft'[Seed])
  BY <1>2
<1> QED BY <1>2, <1>3, <1>7, <1>8, <1>9 DEF OneSeedInv, OthersRest

\* A step of another server keeps the invariant, and is one of a follower that
\* copies the primary's log.
LEMMA FollowerMoves ==
  ASSUME OneSeedInv, NothingInFlightOvershoots', OthersRest',
         UNCHANGED <<reconf, pending>>,
         NEW p \in Server \ {Seed}, NEW r2 \in Raft,
         raft' = [raft EXCEPT ![p] = r2],
         FollowerObject(r2, raft[Seed]), IndexInv(r2),
         SamePrefix(raft[p].log, r2.log, Len(raft[p].log)),
         raft[p].commitIndex <= r2.commitIndex,
         SeedCall(rpc'[Seed][p], raft[Seed], Len(r2.log)),
         \A q \in Server \ {Seed, p} : rpc'[Seed][q] = rpc[Seed][q]
  PROVE  OneSeedInv' /\ AbstractStep
<1>1. /\ Seed \in Server /\ raft \in [Server -> Raft] /\ raft[Seed] \in Raft
      /\ Stored \in [Server -> Nat] /\ SeedObject(raft[Seed]) /\ SeedWork
      /\ CommitHeld(raft[Seed], Stored)
      /\ \A q \in Server \ {Seed} : raft[Seed].lastAgree[q] <= Stored[q]
      /\ Stored[p] = Len(raft[p].log) /\ p \in Server
  BY SeedParts, FollowerParts
<1>2. /\ raft'[p] = r2 /\ raft'[Seed] = raft[Seed]
      /\ \A q \in Server \ {p} : raft'[q] = raft[q]
  BY <1>1
<1>3. /\ raft[p] \in Raft
      /\ Len(r2.log) \in Nat /\ Len(raft[p].log) \in Nat
      /\ Len(raft[Seed].log) \in Nat
      /\ r2.commitIndex \in Nat /\ raft[p].commitIndex \in Nat
      /\ raft[Seed].commitIndex \in Nat /\ raft[Seed].lastAgree \in [Server -> Nat]
      /\ DOMAIN r2.log = 1 .. Len(r2.log)
      /\ DOMAIN raft[p].log = 1 .. Len(raft[p].log)
      /\ Len(raft[p].log) <= Len(r2.log)
  BY <1>1, RaftFields, LenProperties DEF SamePrefix
<1>4. AbstractStep
  <2> DEFINE log == [s \in Server |-> raft[s].log]
             commit == [s \in Server |-> raft[s].commitIndex]
  <2>1. /\ log[p] = raft[p].log /\ log'[p] = r2.log
        /\ log[Seed] = raft[Seed].log
        /\ commit[p] = raft[p].commitIndex /\ commit'[p] = r2.commitIndex
        /\ commit[Seed] = raft[Seed].commitIndex
        /\ \A q \in Server \ {p} : log'[q] = log[q] /\ commit'[q] = commit[q]
    BY <1>1, <1>2
  <2>2. Abstract!IsPrefixOf(raft[p].log, r2.log)
    BY <1>3 DEF Abstract!IsPrefixOf, SamePrefix
  <2>3. Abstract!IsPrefixOf(r2.log, raft[Seed].log)
    BY <1>3 DEF Abstract!IsPrefixOf, SamePrefix, FollowerObject
  <2>4. r2.commitIndex \in raft[p].commitIndex .. raft[Seed].commitIndex
    BY <1>3 DEF FollowerObject
  <2>5. r2.commitIndex <= Len(r2.log)
    BY DEF IndexInv
  <2> HIDE DEF log, commit
  <2>6. Abstract!Follow(p)
    BY <2>1, <2>2, <2>3, <2>4, <2>5, Zenon DEF Abstract!Follow, log, commit
  <2>7. raft'[Seed] = raft[Seed] /\ Leads(raft[Seed], raft[Seed])
    BY SeedParts, LeadsAlike
  <2> QED BY <2>6, <2>7, Zenon DEF AbstractStep, Abstract!Next
<1>5. /\ Stored' \in [Server -> Nat]
      /\ \A q \in Server : Stored[q] <= Stored'[q]
      /\ Stored'[p] = Len(r2.log)
      /\ \A q \in Server \ {p} : Stored'[q] = Stored[q]
  <2>1. Stored' = [q \in Server |-> Len(raft'[q].log)]
    BY DEF Stored
  <2>2. /\ Stored'[p] = Len(r2.log)
        /\ \A q \in Server \ {p} : Stored'[q] = Stored[q]
    BY <1>1, <1>2, <2>1 DEF Stored
  <2>3. \A q \in Server : Stored'[q] \in Nat /\ Stored[q] <= Stored'[q]
    BY <1>1, <1>3, <2>2, SMTT(30)
  <2> QED BY <2>1, <2>2, <2>3
<1>6. ASSUME NEW q \in Server \ {Seed}
      PROVE  /\ FollowerObject(raft'[q], raft[Seed])
             /\ SeedCall(rpc'[Seed][q], raft[Seed], Stored'[q])
  <2>1. CASE q = p
    BY <1>2, <1>5, <2>1
  <2>2. CASE q # p
    <3>1. /\ rpc'[Seed][q] = rpc[Seed][q] /\ raft'[q] = raft[q]
          /\ Stored'[q] = Stored[q]
      BY <1>2, <1>5, <2>2
    <3> QED BY <3>1, FollowerParts
  <2> QED BY <2>1, <2>2
<1>7. SeedCounts'
  <2> DEFINE r == raft[Seed]
             S == Configuration(r.log).prev
  <2>1. S \in SUBSET Server
    BY <1>1, RaftFields, ConfigurationType
  <2>2. r.commitIndex > 0 => IsMajority(AtLeast(S, Stored, r.commitIndex), S)
    BY <1>1 DEF CommitHeld, HeldBy
  <2>3. r.commitIndex > 0 => IsMajority(AtLeast(S, Stored', r.commitIndex), S)
    <3> SUFFICES ASSUME IsMajority(AtLeast(S, Stored, r.commitIndex), S)
                 PROVE  IsMajority(AtLeast(S, Stored', r.commitIndex), S)
      BY <2>2
    <3> HIDE DEF S
    <3>1. /\ AtLeast(S, Stored, r.commitIndex) \in SUBSET S
          /\ AtLeast(S, Stored', r.commitIndex) \in SUBSET S
          /\ AtLeast(S, Stored, r.commitIndex)
               \subseteq AtLeast(S, Stored', r.commitIndex)
      BY <1>1, <1>3, <1>5, <2>1 DEF AtLeast
    <3> QED BY <2>1, <3>1, MajorityGrows
  <2>4. \A q \in Server \ {Seed} : r.lastAgree[q] <= Stored'[q]
    BY <1>1, <1>3, <1>5
  <2> QED BY <1>2, <2>3, <2>4 DEF SeedCounts
<1>8. SeedWork' /\ SeedObject(raft'[Seed])
  BY <1>1, <1>2 DEF SeedWork
<1> QED BY <1>2, <1>4, <1>6, <1>7, <1>8 DEF OneSeedInv, OthersRest

\* A step that leaves the consensus objects and the calls alone.
LEMMA SeedStays ==
  ASSUME OneSeedInv, NothingInFlightOvershoots', OthersRest', SeedWork',
         raft' = raft, rpc' = rpc
  PROVE  OneSeedInv' /\ AbstractStep
<1>1. Stored' = Stored
  BY DEF Stored
<1>2. UNCHANGED Abstract!logVars
  BY DEF Abstract!logVars
<1>3. SeedCounts'
  BY <1>1 DEF OneSeedInv, SeedCounts
<1>4. OneSeedInv'
  BY <1>1, <1>3 DEF OneSeedInv, OthersRest
<1>5. Leads(raft[Seed], raft'[Seed])
  BY SeedParts, LeadsAlike
<1> QED BY <1>2, <1>4, <1>5 DEF AbstractStep

\* Two objects of the seed that differ in none of the fields that matter here.
SeedAlike(r, r2) ==
  /\ r2.log = r.log /\ r2.commitIndex = r.commitIndex
  /\ r2.currentTerm = r.currentTerm /\ r2.state = r.state
  /\ r2.known = r.known /\ r2.failed = r.failed /\ r2.rpcAlive = r.rpcAlive
  /\ r2.nextIndex = r.nextIndex /\ r2.lastAgree = r.lastAgree

\* What holds of the one holds of the other.
LEMMA SeedAlikeKeeps ==
  ASSUME NEW r \in Raft, NEW r2 \in Raft, SeedAlike(r, r2)
  PROVE  /\ SeedObject(r) => SeedObject(r2)
         /\ Leads(r, r2)
         /\ \A stored \in [Server -> Nat] :
              /\ CommitReached(r, r2, stored)
              /\ CommitHeld(r, stored) => CommitHeld(r2, stored)
<1>1. SeedObject(r) => SeedObject(r2)
  BY DEF SeedAlike, SeedObject
<1>2. Leads(r, r2)
  BY LeadsAlike DEF SeedAlike
<1>3. r.commitIndex \in Nat
  BY RaftFields
<1>4. \A stored : CommitReached(r, r2, stored)
  BY <1>3 DEF SeedAlike, CommitReached
<1>5. \A stored : CommitHeld(r, stored) => CommitHeld(r2, stored)
  BY DEF SeedAlike, CommitHeld
<1> QED BY <1>1, <1>2, <1>4, <1>5

\* Only the seed takes part in this step, whatever it does.
LEMMA OthersStayAtRest ==
  ASSUME OneSeedInv,
         \A p \in Server \ {Seed} :
           /\ reconf'[p] = reconf[p] /\ pending'[p] = pending[p]
           /\ \A q \in Server : rpc'[p][q] = rpc[p][q]
  PROVE  OthersRest'
BY FollowerParts DEF OthersRest

\* A leading seed goes on with the work it has.
LEMMA SeedWorksOn ==
  ASSUME OneSeedInv, NothingInFlightOvershoots', raft[Seed].state = "LEADER",
         Leads(raft[Seed], raft'[Seed]),
         reconf'[Seed].step = "staging" =>
           Seed \in reconf'[Seed].members /\ Configurations(raft[Seed].log) # {}
  PROVE  SeedWork'
<1> DEFINE r == raft[Seed]
           r2 == raft'[Seed]
<1>1. r \in Raft /\ Seed \in Server
  BY SeedParts
<1>2. r2 \in Raft /\ IndexInv(r2)
  BY <1>1 DEF NothingInFlightOvershoots, ServersTypeOK
<1>3. r2.state = "LEADER"
  BY DEF Leads
<1>4. r2.phase = "running"
  BY <1>2, <1>3 DEF IndexInv
<1>5. Configurations(r.log) # {} => Configurations(r2.log) # {}
  <2>1. /\ r.log \in Seq(Entry) /\ r2.log \in Seq(Entry)
        /\ Len(r.log) \in Nat /\ Len(r2.log) \in Nat
    BY <1>1, <1>2, RaftFields
  <2>2. DOMAIN r.log = 1 .. Len(r.log) /\ DOMAIN r2.log = 1 .. Len(r2.log)
    BY <2>1, LenProperties
  <2>3. /\ Len(r.log) <= Len(r2.log)
        /\ \A i \in 1 .. Len(r.log) : r2.log[i] = r.log[i]
    BY <2>1 DEF Leads, SamePrefix
  <2>4. Configurations(r.log) \subseteq Configurations(r2.log)
    BY <2>1, <2>2, <2>3 DEF Configurations
  <2> QED BY <2>4
<1> QED BY <1>3, <1>4, <1>5 DEF SeedWork

\* A leading seed moves on without a call, and with the work it had.
LEMMA SeedMovesAlone ==
  ASSUME OneSeedInv, NothingInFlightOvershoots', raft[Seed].state = "LEADER",
         NEW r2 \in Raft, raft' = [raft EXCEPT ![Seed] = r2],
         SeedObject(r2), Leads(raft[Seed], r2),
         CommitReached(raft[Seed], r2, Stored), CommitHeld(r2, Stored),
         \A p \in Server \ {Seed} : r2.lastAgree[p] <= Stored[p],
         \A p \in Server \ {Seed} :
           /\ reconf'[p] = reconf[p] /\ pending'[p] = pending[p]
           /\ \A q \in Server : rpc'[p][q] = rpc[p][q]
           /\ \/ rpc'[Seed][p] = rpc[Seed][p]
              \/ SeedCall(rpc'[Seed][p], r2, Stored[p]),
         reconf'[Seed].step = "staging" => reconf'[Seed] = reconf[Seed]
  PROVE  OneSeedInv' /\ AbstractStep
<1>1. raft'[Seed] = r2
  BY SeedParts
<1>2. OthersRest'
  BY OthersStayAtRest
<1>3. SeedWork'
  <2>1. reconf'[Seed].step = "staging" =>
          Seed \in reconf'[Seed].members /\ Configurations(raft[Seed].log) # {}
    BY SeedParts DEF SeedWork
  <2> QED BY <1>1, <2>1, SeedWorksOn
<1> QED BY <1>2, <1>3, SeedMoves
-----------------------------------------------------------------------------
(* One lemma per action.                                                    *)

\* The process of the seed is not restarted here, nor is another.
LEMMA SeedRestart ==
  ASSUME OneSeedInv, NEW s \in Server, Restart(s)
  PROVE  FALSE
<1>1. restarts \in 0 .. MaxRestarts
  BY DEF OneSeedInv, NothingInFlightOvershoots, ServersTypeOK
<1> QED BY <1>1, SeedAssumption DEF Restart

\* bootstrapConfiguration: the seed, with an empty log, appends the
\* configuration of itself alone.
LEMMA SeedBootstrapConfiguration ==
  ASSUME OneSeedInv, NothingInFlightOvershoots', NEW s \in Server,
         BootstrapConfiguration(s)
  PROVE  OneSeedInv' /\ AbstractStep
<1> DEFINE r == raft[Seed]
           r1 == SteppedDown(r, 1)
           first == ConfigurationEntry(r1, {Seed}, {})
           longer == Appended(r1, Seed, <<first>>)
           r2 == [longer EXCEPT !.phase = "bootstrapped"]
<1>1. /\ s = Seed /\ Up(Seed) /\ r.phase = "new"
      /\ UNCHANGED <<rpc, reconf, fs, pending, restarts>>
      /\ raft' = [raft EXCEPT
           ![Seed] = IF r.currentTerm = 0 /\ r.log = <<>> THEN r2
                     ELSE Fail(r, "bootstrapConfiguration")]
  BY SeedAssumption DEF BootstrapConfiguration
<1>2. /\ r \in Raft /\ IndexInv(r) /\ SeedObject(r) /\ SeedWork
      /\ Seed \in Server /\ Stored \in [Server -> Nat]
      /\ \A p \in Server \ {Seed} : r.lastAgree[p] <= Stored[p]
  BY SeedParts
<1>3. r.currentTerm = 0 /\ r.log = <<>>
  BY <1>1, <1>2 DEF SeedWork
<1>4. raft' = [raft EXCEPT ![Seed] = r2]
  BY <1>1, <1>3
<1>5. /\ r.state = "FOLLOWER" /\ r.known = {} /\ r.commitIndex = 0
      /\ reconf[Seed].step # "staging" /\ pending[Seed] = None
  <2>1. r.state # "LEADER"
    BY <1>1, <1>2 DEF IndexInv
  <2> QED BY <1>2, <2>1 DEF SeedObject, SeedWork
<1> HIDE DEF r
<1>6. /\ r1 \in Raft /\ r1.log = r.log /\ r1.commitIndex = r.commitIndex
      /\ r1.currentTerm = 1 /\ r1.failed = r.failed /\ r1.state = "FOLLOWER"
  BY <1>2, <1>3, SteppedDownKeeps
<1>7. /\ r1.known = r.known /\ r1.rpcAlive = r.rpcAlive
      /\ r1.nextIndex = r.nextIndex /\ r1.lastAgree = r.lastAgree
  BY <1>2 DEF SteppedDown, Raft
<1> HIDE DEF r1
<1>8. SeedObject(r1)
  BY <1>2, <1>5, <1>6, <1>7 DEF SeedObject
<1>9. /\ first \in Entry /\ first.body.type = "CONFIGURATION"
      /\ first.body.prev = {Seed} /\ first.body.next = {}
  BY <1>2, <1>6, ConfigurationEntryFields
<1> HIDE DEF first
<1>10. /\ longer \in Raft /\ SeedObject(longer) /\ Leads(r1, longer)
       /\ longer.commitIndex = r1.commitIndex
       /\ longer.lastAgree = r1.lastAgree /\ longer.state = r1.state
  BY <1>6, <1>8, <1>9, AppendedAtSeed DEF SeedEntry
<1> HIDE DEF longer
<1>11. r2 \in Raft /\ SeedAlike(longer, r2) /\ r2.phase = "bootstrapped"
  BY <1>10 DEF Raft, SeedAlike
<1> HIDE DEF r2
<1>12. SeedObject(r2) /\ Leads(longer, r2)
  BY <1>10, <1>11, SeedAlikeKeeps
<1>13. Leads(r, r2)
  <2>1. Leads(r, r1)
    BY <1>2, <1>5, <1>6 DEF Leads, SamePrefix
  <2>2. Leads(r1, r2)
    BY <1>6, <1>10, <1>11, <1>12, LeadsTwice
  <2> QED BY <1>2, <1>6, <1>11, <2>1, <2>2, LeadsTwice
<1>14. /\ r2.commitIndex = 0 /\ r2.lastAgree = r.lastAgree
       /\ r2.state = "FOLLOWER"
  BY <1>5, <1>6, <1>7, <1>10, <1>11 DEF SeedAlike
<1>15. CommitReached(r, r2, Stored) /\ CommitHeld(r2, Stored)
  BY <1>5, <1>14 DEF CommitReached, CommitHeld
<1>16. OthersRest'
  BY <1>1, OthersStayAtRest
<1>17. SeedWork'
  <2>1. raft'[Seed] = r2
    BY <1>2, <1>4, SeedParts
  <2> QED BY <1>1, <1>5, <1>11, <2>1 DEF SeedWork
<1>18. \A p \in Server \ {Seed} : r2.lastAgree[p] <= Stored[p]
  BY <1>2, <1>14
<1> QED BY <1>1, <1>4, <1>11, <1>12, <1>13, <1>15, <1>16, <1>17, <1>18,
           SeedMoves DEF r

\* init: the seed comes up with what it had, as any server does; the metadata
\* that is read back is not newer than what the seed has told.
LEMMA SeedInitialize ==
  ASSUME OneSeedInv, NothingInFlightOvershoots', NEW s \in Server,
         Initialize(s)
  PROVE  OneSeedInv' /\ AbstractStep
<1> DEFINE r == raft[s]
<1> DEFINE current == [term |-> r.currentTerm, vote |-> r.votedFor]
<1>1. PICK m \in Files(r.stored \cup {current}) :
        raft' = [raft EXCEPT ![s] = SteppedDown(
                   [r EXCEPT !.currentTerm = m.term, !.votedFor = m.vote,
                             !.stored = @ \cup {m}, !.phase = "running"], m.term)]
  BY DEF Initialize
<1>2. /\ r \in Raft /\ IndexInv(r) /\ r.phase # "running"
      /\ UNCHANGED <<rpc, reconf, fs, pending, restarts>>
  BY SeedParts, Parts DEF Initialize
<1> DEFINE stored == r.stored \cup {m}
           ready == [r EXCEPT !.currentTerm = m.term, !.votedFor = m.vote,
                              !.stored = stored, !.phase = "running"]
           withhold == IF ready.withhold = "max" THEN "no" ELSE ready.withhold
           r2 == [ready EXCEPT !.currentTerm = m.term, !.state = "FOLLOWER",
                               !.withhold = withhold, !.logSyncQueued = FALSE]
<1> HIDE DEF r
<1>3. m \in Metadata /\ m.term \in Nat /\ m.vote \in Server \cup {None}
  <2>1. current \in Metadata
    BY <1>2, RaftFields DEF Metadata
  <2>2. r.stored \cup {current} \in SUBSET Metadata
    BY <1>2, <2>1, RaftFields
  <2>3. m \in Metadata
    BY <2>2, FilesType
  <2> QED BY <2>3 DEF Metadata
<1>4. stored \in SUBSET Metadata
  BY <1>2, <1>3, RaftFields
<1> HIDE DEF stored
<1>5. /\ ready \in Raft /\ ready.currentTerm = m.term
      /\ ready.log = r.log /\ ready.state = r.state /\ ready.known = r.known
      /\ ready.commitIndex = r.commitIndex /\ ready.lastAgree = r.lastAgree
      /\ ready.failed = r.failed /\ ready.phase = "running"
      /\ ready.rpcAlive = r.rpcAlive /\ ready.nextIndex = r.nextIndex
      /\ ready.leaderId = r.leaderId /\ ready.stored = stored
      /\ ready.withhold = r.withhold
  BY <1>2, <1>3, <1>4 DEF Raft
<1> HIDE DEF ready
<1>6. raft' = [raft EXCEPT ![s] = r2]
  <2>1. ~(ready.currentTerm < m.term)
    BY <1>3, <1>5
  <2>2. SteppedDown(ready, m.term)
          = [ready EXCEPT !.currentTerm = m.term, !.leaderId = ready.leaderId,
                          !.votedFor = ready.votedFor, !.stored = ready.stored,
                          !.state = "FOLLOWER", !.withhold = withhold,
                          !.logSyncQueued = FALSE]
    BY <2>1 DEF SteppedDown
  <2>3. SteppedDown(ready, m.term) = r2
    <3> HIDE DEF withhold
    <3> QED BY <1>5, <2>2, ZenonT(40) DEF Raft
  <2> HIDE DEF r2
  <2> QED BY <1>1, <2>3 DEF ready, stored, r
<1>7. /\ r2 \in Raft /\ r2.currentTerm = m.term
      /\ r2.log = r.log /\ r2.state = "FOLLOWER" /\ r2.known = r.known
      /\ r2.commitIndex = r.commitIndex /\ r2.lastAgree = r.lastAgree
      /\ r2.failed = r.failed /\ r2.phase = "running"
      /\ r2.rpcAlive = r.rpcAlive /\ r2.nextIndex = r.nextIndex
      /\ r2.leaderId = r.leaderId /\ r2.stored = stored
  <2>1. withhold \in {"no", "days", "max"}
    BY <1>5 DEF Raft
  <2> HIDE DEF withhold
  <2>2. ready \in Raft /\ m.term \in Nat
    BY <1>3, <1>5
  <2>3. r2 \in Raft
    BY <2>1, <2>2 DEF Raft
  <2>4. /\ r2.currentTerm = m.term /\ r2.state = "FOLLOWER"
        /\ r2.log = ready.log /\ r2.known = ready.known
        /\ r2.commitIndex = ready.commitIndex /\ r2.lastAgree = ready.lastAgree
        /\ r2.failed = ready.failed /\ r2.phase = ready.phase
        /\ r2.rpcAlive = ready.rpcAlive /\ r2.nextIndex = ready.nextIndex
        /\ r2.leaderId = ready.leaderId /\ r2.stored = ready.stored
    BY <2>2 DEF Raft
  <2> HIDE DEF r2
  <2> QED BY <1>5, <2>3, <2>4
<1> HIDE DEF r2
<1>8. Len(r.log) \in Nat /\ r.commitIndex \in Nat /\ r.currentTerm \in Nat
  BY <1>2, RaftFields
<1>9. r.state # "LEADER"
  BY <1>2 DEF IndexInv
<1>10. OthersRest'
  BY <1>2, OthersStayAtRest
<1>11. CASE s = Seed
  <2>1. /\ SeedObject(r) /\ SeedWork /\ Seed \in Server
        /\ \A p \in Server \ {Seed} : r.lastAgree[p] <= Stored[p]
    BY <1>11, SeedParts DEF r
  <2>2. /\ r.state = "FOLLOWER" /\ r.known = {} /\ r.commitIndex = 0
        /\ reconf[Seed].step # "staging" /\ pending[Seed] = None
    BY <1>9, <1>11, <2>1 DEF SeedObject, SeedWork, r
  <2>3. SeedObject(r2)
    BY <1>7, <2>1, <2>2 DEF SeedObject
  <2>4. Leads(r, r2)
    BY <1>7, <1>8, <1>9 DEF Leads, SamePrefix
  <2>5. CommitReached(r, r2, Stored) /\ CommitHeld(r2, Stored)
    BY <1>7, <2>2 DEF CommitReached, CommitHeld
  <2>6. raft'[Seed] = r2
    BY <1>6, <1>11, SeedParts
  <2>7. SeedWork'
    BY <1>2, <1>7, <2>2, <2>6 DEF SeedWork
  <2>8. \A p \in Server \ {Seed} : r2.lastAgree[p] <= Stored[p]
    BY <1>7, <2>1
  <2> QED BY <1>2, <1>6, <1>7, <1>10, <1>11, <2>3, <2>4, <2>5, <2>7, <2>8,
             SeedMoves DEF r
<1>12. CASE s # Seed
  <2>1. /\ s \in Server \ {Seed} /\ FollowerObject(r, raft[Seed])
        /\ SeedCall(rpc[Seed][s], raft[Seed], Stored[s])
        /\ Stored[s] = Len(r.log)
    BY <1>12, FollowerParts DEF r
  <2>2. \A t \in stored : t \in r.stored \/ t = m
    BY DEF stored
  <2>3. m.term <= TermHeard(raft[Seed])
    <3>1. r.stored \cup {current} \in SUBSET Metadata
      BY <1>2, RaftFields DEF Metadata
    <3>2. PICK n \in r.stored \cup {current} : m.term = n.term
      BY <3>1, FilesType
    <3> QED BY <2>1, <3>2 DEF FollowerObject
  <2>4. FollowerObject(r2, raft[Seed])
    BY <1>7, <2>1, <2>2, <2>3 DEF FollowerObject
  <2>5. IndexInv(r2)
    BY <1>6, SeedParts DEF NothingInFlightOvershoots
  <2>6. SamePrefix(r.log, r2.log, Len(r.log)) /\ r.commitIndex <= r2.commitIndex
    BY <1>7, <1>8 DEF SamePrefix
  <2>7. SeedCall(rpc'[Seed][s], raft[Seed], Len(r2.log))
    BY <1>2, <1>7, <2>1
  <2> QED BY <1>2, <1>6, <1>7, <1>10, <2>1, <2>4, <2>5, <2>6, <2>7,
             FollowerMoves DEF r
<1> QED BY <1>11, <1>12

\* startNewElection: alone in its configuration, or without one, the seed wins
\* at once, and no peer is there for becomeLeader to stumble over.
LEMMA SeedStartNewElection ==
  ASSUME OneSeedInv, NothingInFlightOvershoots', NEW s \in Server,
         StartNewElection(s)
  PROVE  OneSeedInv' /\ AbstractStep
<1> DEFINE r == raft[Seed]
           term == r.currentTerm + 1
           stored == r.stored \cup {[term |-> term, vote |-> Seed]}
           r1 == [r EXCEPT !.currentTerm = term, !.state = "CANDIDATE",
                           !.leaderId = None, !.votedFor = Seed,
                           !.stored = stored]
           c == Configuration(r.log)
           r2 == BecomeLeader(r1, Seed)
<1>1. /\ s = Seed /\ r.state # "LEADER" /\ r.phase = "running"
      /\ UNCHANGED <<rpc, reconf, fs, pending, restarts>>
      /\ raft' = [raft EXCEPT
           ![Seed] = IF ~QuorumAll(c.prev, {Seed}) THEN r1
                     ELSE IF Transitional(r) THEN Fail(r1, "quorumAll")
                     ELSE r2]
  <2>1. s = Seed
    BY SeedAssumption DEF StartNewElection
  <2> QED BY <2>1 DEF StartNewElection
<1>2. /\ r \in Raft /\ IndexInv(r) /\ SeedObject(r) /\ SeedWork
      /\ Seed \in Server /\ Stored \in [Server -> Nat]
      /\ \A p \in Server \ {Seed} : r.lastAgree[p] <= Stored[p]
      /\ raft \in [Server -> Raft]
  BY SeedParts
<1>3. /\ r.state = "FOLLOWER" /\ r.known = {} /\ r.commitIndex = 0
      /\ c.prev \subseteq {Seed} /\ c.next = {}
      /\ reconf[Seed].step # "staging" /\ pending[Seed] = None
  BY <1>1, <1>2 DEF SeedObject, SeedWork
<1>4. QuorumAll(c.prev, {Seed})
  <2>1. CASE c.prev = {}
    BY <2>1 DEF QuorumAll
  <2>2. CASE c.prev # {}
    <3>1. c.prev = {Seed} /\ c.prev \cap {Seed} = {Seed}
      BY <1>3, <2>2
    <3>2. Cardinality({Seed}) = 1
      BY FS_Singleton
    <3> QED BY <3>1, <3>2 DEF QuorumAll, IsMajority
  <2> QED BY <2>1, <2>2
<1>5. ~Transitional(r)
  BY <1>3 DEF Transitional
<1>6. raft' = [raft EXCEPT ![Seed] = r2]
  BY <1>1, <1>4, <1>5
<1> HIDE DEF r, c
<1>7. term \in Nat /\ stored \in SUBSET Metadata /\ Len(r.log) \in Nat
  <2>1. term \in Nat /\ r.stored \in SUBSET Metadata /\ Len(r.log) \in Nat
    BY <1>2, RaftFields
  <2> HIDE DEF term
  <2> QED BY <1>2, <2>1, MetadataType
<1> HIDE DEF term, stored
<1>8. /\ r1 \in Raft /\ r1.state = "CANDIDATE"
      /\ r1.log = r.log /\ r1.known = r.known /\ r1.rpcAlive = r.rpcAlive
      /\ r1.commitIndex = r.commitIndex /\ r1.lastAgree = r.lastAgree
      /\ r1.failed = r.failed /\ r1.nextIndex = r.nextIndex
  BY <1>2, <1>7 DEF Raft
<1> HIDE DEF r1
<1>9. SeedObject([r1 EXCEPT !.state = "LEADER"])
  <2> DEFINE lead == [r1 EXCEPT !.state = "LEADER"]
  <2>1. /\ lead.state = "LEADER"
        /\ lead.log = r.log /\ lead.known = r.known
        /\ lead.rpcAlive = r.rpcAlive /\ lead.failed = r.failed
        /\ lead.nextIndex = r.nextIndex
    BY <1>8 DEF Raft
  <2> HIDE DEF lead
  <2>2. SeedObject(lead)
    BY <1>2, <2>1 DEF SeedObject
  <2> QED BY <2>2 DEF lead
<1>10. /\ r2 \in Raft /\ SeedObject(r2) /\ Leads(r1, r2)
       /\ r2.commitIndex = 0 /\ r2.lastAgree = r1.lastAgree
       /\ r2.state = "LEADER"
  <2>1. r1.known = {} /\ r1.state # "LEADER" /\ r1.commitIndex = 0
    BY <1>3, <1>8
  <2> QED BY <1>8, <1>9, <2>1, BecomeLeaderAtSeed
<1> HIDE DEF r2
<1>11. Leads(r, r2)
  BY <1>3, <1>8, <1>10 DEF Leads
<1>12. CommitReached(r, r2, Stored) /\ CommitHeld(r2, Stored)
  BY <1>3, <1>10 DEF CommitReached, CommitHeld
<1>13. OthersRest'
  BY <1>1, OthersStayAtRest
<1>14. SeedWork'
  <2>1. raft'[Seed] = r2
    BY <1>2, <1>6
  <2>2. IndexInv(r2)
    BY <1>2, <2>1 DEF NothingInFlightOvershoots
  <2> QED BY <1>1, <1>3, <1>10, <2>1, <2>2 DEF SeedWork, IndexInv
<1>15. \A p \in Server \ {Seed} : r2.lastAgree[p] <= Stored[p]
  BY <1>2, <1>8, <1>10
<1> QED BY <1>1, <1>6, <1>10, <1>11, <1>12, <1>13, <1>14, <1>15, SeedMoves
        DEF r

\* A server that leads is the seed, and it is in order.
LEMMA OnlySeedLeads ==
  ASSUME OneSeedInv, NEW s \in Server,
         \/ raft[s].state = "LEADER" \/ reconf[s].step # "none"
         \/ pending[s] # None
  PROVE  s = Seed
<1> SUFFICES ASSUME s # Seed PROVE FALSE
  OBVIOUS
<1>1. /\ FollowerObject(raft[s], raft[Seed])
      /\ reconf[s] = NoReconf /\ pending[s] = None
  BY FollowerParts
<1> QED BY <1>1 DEF FollowerObject, NoReconf

\* leaderDiskThreadMain takes a sync: bookkeeping of the seed.
LEMMA SeedTakeSync ==
  ASSUME OneSeedInv, NothingInFlightOvershoots', NEW s \in Server, TakeSync(s)
  PROVE  OneSeedInv' /\ AbstractStep
<1> DEFINE r == raft[Seed]
           r2 == [r EXCEPT !.logSyncQueued = FALSE, !.syncing = TRUE,
                           !.syncTerm = r.currentTerm,
                           !.syncIndex = Len(r.log)]
<1>1. /\ s = Seed /\ r.state = "LEADER"
      /\ UNCHANGED <<rpc, reconf, fs, pending, restarts>>
      /\ raft' = [raft EXCEPT ![s].logSyncQueued = FALSE, ![s].syncing = TRUE,
                              ![s].syncTerm = raft[s].currentTerm,
                              ![s].syncIndex = Len(raft[s].log)]
  <2>1. s = Seed
    BY OnlySeedLeads DEF TakeSync
  <2> QED BY <2>1 DEF TakeSync
<1>2. /\ r \in Raft /\ SeedObject(r) /\ CommitHeld(r, Stored)
      /\ Stored \in [Server -> Nat]
      /\ \A p \in Server \ {Seed} : r.lastAgree[p] <= Stored[p]
      /\ raft \in [Server -> Raft] /\ Seed \in Server
  BY SeedParts
<1>3. raft' = [raft EXCEPT ![Seed] = r2]
  BY <1>1, <1>2
<1> HIDE DEF r
<1>4. r2 \in Raft /\ SeedAlike(r, r2)
  <2>1. Len(r.log) \in Nat /\ r.currentTerm \in Nat
    BY <1>2, RaftFields
  <2> QED BY <1>2, <2>1 DEF Raft, SeedAlike
<1> HIDE DEF r2
<1>5. /\ SeedObject(r2) /\ Leads(r, r2)
      /\ CommitReached(r, r2, Stored) /\ CommitHeld(r2, Stored)
  BY <1>2, <1>4, SeedAlikeKeeps
<1>6. \A p \in Server \ {Seed} : r2.lastAgree[p] <= Stored[p]
  BY <1>2, <1>4 DEF SeedAlike
<1> QED BY <1>1, <1>3, <1>4, <1>5, <1>6, SeedMovesAlone DEF r

\* The seed changes a field or two that do not matter here, and makes no call.
LEMMA SeedAlikeMoves ==
  ASSUME OneSeedInv, NothingInFlightOvershoots', NEW r2 \in Raft,
         raft' = [raft EXCEPT ![Seed] = r2], SeedAlike(raft[Seed], r2),
         OthersRest', SeedWork', UNCHANGED rpc
  PROVE  OneSeedInv' /\ AbstractStep
<1> DEFINE r == raft[Seed]
<1>1. /\ r \in Raft /\ SeedObject(r) /\ CommitHeld(r, Stored)
      /\ Stored \in [Server -> Nat]
      /\ \A p \in Server \ {Seed} : r.lastAgree[p] <= Stored[p]
  BY SeedParts
<1> HIDE DEF r
<1>2. /\ SeedObject(r2) /\ Leads(r, r2)
      /\ CommitReached(r, r2, Stored) /\ CommitHeld(r2, Stored)
  BY <1>1, SeedAlikeKeeps DEF r
<1>3. \A p \in Server \ {Seed} : r2.lastAgree[p] <= Stored[p]
  BY <1>1 DEF SeedAlike, r
<1> QED BY <1>2, <1>3, SeedMoves DEF r

\* The sync is over: the seed counts what was on disk when it began, if it leads
\* in the term of the sync; a server that does not lead counts nothing.
LEMMA SeedSyncDone ==
  ASSUME OneSeedInv, NothingInFlightOvershoots', NEW s \in Server, SyncDone(s)
  PROVE  OneSeedInv' /\ AbstractStep
<1> DEFINE r == raft[s]
           over == SyncOver(r)
           synced == [over EXCEPT !.lastSynced = over.syncIndex]
<1>1. /\ r \in Raft /\ IndexInv(r) /\ r.syncing /\ raft \in [Server -> Raft]
      /\ UNCHANGED <<rpc, reconf, fs, pending, restarts>>
      /\ raft' = [raft EXCEPT
           ![s] = IF over.state = "LEADER" /\ over.currentTerm = over.syncTerm
                  THEN AdvancedCommittedId(synced, s) ELSE over]
  BY SeedParts, Parts DEF SyncDone
<1> HIDE DEF r
<1>2. /\ over \in Raft /\ SeedAlike(r, over)
      /\ over.phase = r.phase /\ over.lastSynced = r.lastSynced
      /\ over.syncing = FALSE /\ over.leaderId = r.leaderId
      /\ over.stored = r.stored
      /\ over.syncTerm = r.syncTerm /\ over.syncIndex = r.syncIndex
  BY <1>1 DEF SyncOver, Raft, SeedAlike
<1> HIDE DEF over
<1>3. OthersRest'
  BY <1>1, OthersStayAtRest
<1>4. CASE s = Seed /\ over.state = "LEADER" /\ over.currentTerm = over.syncTerm
  <2> DEFINE r2 == AdvancedCommittedId(synced, Seed)
  <2>1. raft' = [raft EXCEPT ![Seed] = r2]
    BY <1>1, <1>4
  <2>2. /\ SeedObject(r) /\ CommitHeld(r, Stored)
        /\ Stored \in [Server -> Nat] /\ Stored[Seed] = Len(r.log)
        /\ \A p \in Server : Stored[p] <= Len(r.log)
        /\ \A p \in Server \ {Seed} : r.lastAgree[p] <= Stored[p]
    BY <1>4, SeedParts DEF r
  <2>3. r.syncIndex \in Nat /\ r.syncIndex <= Len(r.log)
    <3>1. r.state = "LEADER" /\ r.currentTerm = r.syncTerm
      BY <1>2, <1>4 DEF SeedAlike
    <3> QED BY <1>1, <2>2, <3>1, RaftFields DEF IndexInv, SeedObject
  <2>4. /\ synced \in Raft /\ SeedAlike(r, synced) /\ synced.phase = r.phase
        /\ synced.syncing = FALSE /\ synced.lastSynced = r.syncIndex
    BY <1>2, <2>3 DEF Raft, SeedAlike
  <2> HIDE DEF synced, r2
  <2>5. /\ SeedObject(synced) /\ Leads(r, synced)
        /\ CommitReached(r, synced, Stored) /\ CommitHeld(synced, Stored)
    BY <1>1, <2>2, <2>4, SeedAlikeKeeps
  <2>6. IndexInv(synced)
    BY <1>1, <2>3, <2>4 DEF IndexInv, SeedAlike
  <2>7. synced.state = "LEADER" /\ r.state = "LEADER"
    BY <1>2, <1>4, <2>4 DEF SeedAlike
  <2>8. /\ Stored[Seed] = Len(synced.log)
        /\ \A p \in Server : Stored[p] <= Len(synced.log)
        /\ \A p \in Server \ {Seed} : synced.lastAgree[p] <= Stored[p]
    BY <2>2, <2>4 DEF SeedAlike
  <2>9. /\ r2 \in Raft /\ SeedObject(r2) /\ Leads(synced, r2)
        /\ CommitReached(synced, r2, Stored) /\ CommitHeld(r2, Stored)
        /\ r2.lastAgree = synced.lastAgree
    BY <2>2, <2>4, <2>5, <2>6, <2>7, <2>8, AdvancedAtSeed DEF r2
  <2>10. Leads(r, r2)
    BY <1>1, <2>4, <2>5, <2>9, LeadsTwice
  <2>11. CommitReached(r, r2, Stored)
    BY <2>4, <2>9 DEF CommitReached, SeedAlike
  <2> QED BY <1>1, <1>4, <2>1, <2>7, <2>8, <2>9, <2>10, <2>11, SeedMovesAlone
          DEF r
<1>5. CASE ~(over.state = "LEADER" /\ over.currentTerm = over.syncTerm)
  <2>1. raft' = [raft EXCEPT ![s] = over]
    BY <1>1, <1>5
  <2>2. CASE s = Seed
    <3>1. raft'[Seed] = over /\ SeedWork
      BY <1>1, <2>1, <2>2, SeedParts
    <3>2. SeedWork'
      BY <1>1, <1>2, <2>2, <3>1 DEF SeedWork, SeedAlike, r
    <3> QED BY <1>1, <1>2, <1>3, <2>1, <2>2, <3>2, SeedAlikeMoves DEF r
  <2>3. CASE s # Seed
    <3>1. /\ s \in Server \ {Seed} /\ FollowerObject(r, raft[Seed])
          /\ SeedCall(rpc[Seed][s], raft[Seed], Stored[s])
          /\ Stored[s] = Len(r.log)
      BY <2>3, FollowerParts DEF r
    <3>2. FollowerObject(over, raft[Seed])
      BY <1>2, <3>1 DEF FollowerObject, SeedAlike
    <3>3. IndexInv(over)
      <4>1. raft'[s] = over
        BY <1>1, <2>1
      <4> QED BY <4>1 DEF NothingInFlightOvershoots
    <3>4. /\ SamePrefix(r.log, over.log, Len(r.log))
          /\ r.commitIndex <= over.commitIndex
      BY <1>1, <1>2, RaftFields DEF SamePrefix, SeedAlike
    <3>5. SeedCall(rpc'[Seed][s], raft[Seed], Len(over.log))
      BY <1>1, <1>2, <3>1 DEF SeedAlike
    <3> QED BY <1>1, <1>2, <1>3, <2>1, <3>1, <3>2, <3>3, <3>4, <3>5,
               FollowerMoves DEF r
  <2> QED BY <2>2, <2>3
<1>6. CASE s # Seed /\ over.state = "LEADER"
  BY <1>2, <1>6, OnlySeedLeads DEF SeedAlike, r
<1> QED BY <1>4, <1>5, <1>6

\* A change on the seed's file system is about to be replicated if it leads.
LEMMA SeedClientChange ==
  ASSUME OneSeedInv, NothingInFlightOvershoots', NEW s \in Server,
         NEW v \in Value, ClientChange(s, v)
  PROVE  OneSeedInv' /\ AbstractStep
<1>1. /\ s = Seed /\ UNCHANGED <<raft, rpc, reconf, restarts>>
      /\ pending' = [pending EXCEPT
                       ![s] = IF raft[s].state = "LEADER" THEN v ELSE None]
  BY SeedAssumption DEF ClientChange
<1>2. SeedWork /\ Seed \in Server
  BY SeedParts
<1>3. pending \in [Server -> Value \cup {None}]
  BY SeedParts DEF NothingInFlightOvershoots, ServersTypeOK
<1>4. OthersRest'
  BY <1>1, <1>3, OthersStayAtRest
<1>5. SeedWork'
  BY <1>1, <1>2, <1>3 DEF SeedWork
<1> QED BY <1>1, <1>4, <1>5, SeedStays

\* An entry that is not a CONFIGURATION commits nothing by itself.
LEMMA CommitHeldByOther ==
  ASSUME NEW r \in Raft, NEW r2 \in Raft, NEW e \in Entry,
         e.body.type # "CONFIGURATION", r2.log = r.log \o <<e>>,
         r2.commitIndex = r.commitIndex, NEW stored \in [Server -> Nat],
         CommitHeld(r, stored)
  PROVE  CommitReached(r, r2, stored) /\ CommitHeld(r2, stored)
<1>1. Configuration(r2.log) = Configuration(r.log)
  BY RaftFields, ConfigurationOfAppended
<1>2. r.commitIndex \in Nat
  BY RaftFields
<1> QED BY <1>1, <1>2 DEF CommitReached, CommitHeld

\* replicate: the leading seed appends a change of its client.
LEMMA SeedReplicate ==
  ASSUME OneSeedInv, NothingInFlightOvershoots', NEW s \in Server, Replicate(s)
  PROVE  OneSeedInv' /\ AbstractStep
<1> DEFINE r == raft[Seed]
           e == [term |-> r.currentTerm,
                 body |-> [type |-> "DATA", data |-> pending[Seed]]]
           r2 == Appended(r, Seed, <<e>>)
<1>1. s = Seed /\ pending[Seed] # None
  BY OnlySeedLeads DEF Replicate
<1>2. /\ UNCHANGED <<rpc, reconf, restarts>>
      /\ pending' = [pending EXCEPT ![Seed] = None]
      /\ raft' = [raft EXCEPT ![Seed] = Appended(@, Seed, <<e>>)]
  BY <1>1 DEF Replicate
<1>3. /\ r \in Raft /\ SeedObject(r) /\ CommitHeld(r, Stored) /\ SeedWork
      /\ Stored \in [Server -> Nat] /\ raft \in [Server -> Raft]
      /\ \A p \in Server \ {Seed} : r.lastAgree[p] <= Stored[p]
      /\ Seed \in Server /\ pending \in [Server -> Value \cup {None}]
  BY SeedParts DEF NothingInFlightOvershoots, ServersTypeOK
<1>4. raft' = [raft EXCEPT ![Seed] = r2]
  BY <1>2, <1>3
<1>5. r.state = "LEADER"
  BY <1>1, <1>3 DEF SeedWork
<1>6. /\ e \in Entry /\ SeedEntry(e) /\ e.body.type # "CONFIGURATION"
  <2>1. pending[Seed] \in Value /\ r.currentTerm \in Nat
    BY <1>1, <1>3, RaftFields
  <2> QED BY <2>1 DEF Entry, Body, SeedEntry
<1> HIDE DEF r, e, r2
<1>7. /\ r2 \in Raft /\ SeedObject(r2) /\ Leads(r, r2)
      /\ r2.log = r.log \o <<e>> /\ r2.commitIndex = r.commitIndex
      /\ r2.lastAgree = r.lastAgree
  BY <1>3, <1>5, <1>6, AppendedAtSeed DEF r2
<1>8. CommitReached(r, r2, Stored) /\ CommitHeld(r2, Stored)
  BY <1>3, <1>6, <1>7, CommitHeldByOther
<1>9. \A p \in Server \ {Seed} : r2.lastAgree[p] <= Stored[p]
  BY <1>3, <1>7
<1>10. \A p \in Server \ {Seed} : pending'[p] = pending[p]
  BY <1>2, <1>3
<1> QED BY <1>2, <1>4, <1>5, <1>7, <1>8, <1>9, <1>10, SeedMovesAlone DEF r

\* setConfiguration: the leading seed learns its new peers and stages them.
LEMMA SeedSetConfiguration ==
  ASSUME OneSeedInv, NothingInFlightOvershoots', NEW s \in Server,
         NEW members \in Views, SetConfiguration(s, members)
  PROVE  OneSeedInv' /\ AbstractStep
<1> DEFINE r == raft[Seed]
           r1 == WithPeers(r, Seed, members)
           r2 == [r1 EXCEPT !.staging = members]
           call == [step |-> "staging", term |-> r.currentTerm,
                    members |-> members, index |-> 0]
<1>1. s = Seed /\ r.state = "LEADER"
  BY OnlySeedLeads DEF SetConfiguration
<1>2. /\ UNCHANGED <<rpc, fs, pending, restarts>> /\ Stable(r)
      /\ reconf' = [reconf EXCEPT ![Seed] = call]
      /\ raft' = [raft EXCEPT ![Seed] = r2]
  BY <1>1 DEF SetConfiguration
<1>3. /\ r \in Raft /\ SeedObject(r) /\ CommitHeld(r, Stored)
      /\ Stored \in [Server -> Nat] /\ raft \in [Server -> Raft]
      /\ \A p \in Server \ {Seed} : r.lastAgree[p] <= Stored[p]
      /\ Seed \in Server /\ DOMAIN reconf = Server
  BY SeedParts DEF NothingInFlightOvershoots, ServersTypeOK
<1>4. members \in SUBSET Server /\ Seed \in members
  BY ConstantsAssumption, SeedAssumption DEF ConstantsAssumption
<1>5. reconf'[Seed] = call /\ call.members = members
  BY <1>2, <1>3
<1>6. Configurations(r.log) # {}
  BY <1>2 DEF Stable
<1>7. \A p \in Server \ {Seed} : reconf'[p] = reconf[p]
  BY <1>2
<1> HIDE DEF r, call
<1>8. /\ r1 \in Raft /\ SeedObject(r1) /\ Leads(r, r1) /\ r1.log = r.log
      /\ r1.commitIndex = r.commitIndex /\ r1.lastAgree = r.lastAgree
      /\ r1.state = r.state
  BY <1>1, <1>3, <1>4, WithPeersAtSeed
<1> HIDE DEF r1
<1>9. r2 \in Raft /\ SeedAlike(r1, r2)
  BY <1>4, <1>8 DEF Raft, SeedAlike
<1> HIDE DEF r2
<1>10. SeedObject(r2) /\ Leads(r1, r2)
  BY <1>8, <1>9, SeedAlikeKeeps
<1>11. Leads(r, r2)
  BY <1>3, <1>8, <1>9, <1>10, LeadsTwice
<1>12. CommitReached(r, r2, Stored) /\ CommitHeld(r2, Stored)
  <2>1. r.commitIndex \in Nat
    BY <1>3, RaftFields
  <2> QED BY <1>3, <1>8, <1>9, <2>1 DEF CommitReached, CommitHeld, SeedAlike
<1>13. \A p \in Server \ {Seed} : r2.lastAgree[p] <= Stored[p]
  BY <1>3, <1>8, <1>9 DEF SeedAlike
<1>14. OthersRest'
  BY <1>2, <1>7, OthersStayAtRest
<1>15. SeedWork'
  <2>1. raft'[Seed] = r2
    BY <1>2, <1>3
  <2> QED BY <1>1, <1>4, <1>5, <1>6, <1>11, <2>1, SeedWorksOn DEF r
<1> QED BY <1>2, <1>9, <1>10, <1>11, <1>12, <1>13, <1>14, <1>15, SeedMoves
        DEF r

\* A setConfiguration call of the seed ends, and leaves its object alone.
LEMMA SeedCallEnds ==
  ASSUME OneSeedInv, NothingInFlightOvershoots', NEW s \in Server,
         reconf[s].step # "none", reconf' = [reconf EXCEPT ![s] = NoReconf],
         UNCHANGED <<raft, rpc, pending>>
  PROVE  OneSeedInv' /\ AbstractStep
<1>1. s = Seed
  BY OnlySeedLeads
<1>2. DOMAIN reconf = Server /\ SeedWork
  BY SeedParts DEF NothingInFlightOvershoots, ServersTypeOK
<1>3. /\ reconf'[Seed] = NoReconf
      /\ \A p \in Server \ {Seed} : reconf'[p] = reconf[p]
  BY <1>1, <1>2
<1>4. OthersRest'
  BY <1>3, OthersStayAtRest
<1>5. SeedWork'
  BY <1>2, <1>3 DEF SeedWork, NoReconf
<1> QED BY <1>4, <1>5, SeedStays

\* The deadline of a setConfiguration call passes: nobody is staged any more.
LEMMA SeedSetConfigurationTimeout ==
  ASSUME OneSeedInv, NothingInFlightOvershoots', NEW s \in Server,
         SetConfigurationTimeout(s)
  PROVE  OneSeedInv' /\ AbstractStep
<1> DEFINE r == raft[Seed]
           r2 == ResetStagingServers(r)
<1>1. s = Seed
  BY OnlySeedLeads DEF SetConfigurationTimeout
<1>2. /\ r \in Raft /\ raft \in [Server -> Raft] /\ SeedWork
      /\ DOMAIN reconf = Server /\ Seed \in Server
  BY SeedParts DEF NothingInFlightOvershoots, ServersTypeOK
<1>3. /\ UNCHANGED <<rpc, fs, pending, restarts>>
      /\ reconf' = [reconf EXCEPT ![Seed] = NoReconf]
      /\ raft' = [raft EXCEPT ![Seed] = r2]
  BY <1>1, <1>2 DEF SetConfigurationTimeout
<1>4. /\ reconf'[Seed] = NoReconf
      /\ \A p \in Server \ {Seed} : reconf'[p] = reconf[p]
  BY <1>2, <1>3
<1>5. r2 \in Raft /\ SeedAlike(r, r2) /\ r2.phase = r.phase
  <2>1. r \in Raft
    BY <1>2
  <2> HIDE DEF r
  <2> QED BY <2>1 DEF ResetStagingServers, Raft, SeedAlike
<1>6. OthersRest'
  BY <1>3, <1>4, OthersStayAtRest
<1>7. SeedWork'
  <2>1. raft'[Seed] = r2
    BY <1>2, <1>3
  <2> HIDE DEF r2
  <2> QED BY <1>2, <1>3, <1>4, <1>5, <2>1 DEF SeedWork, NoReconf, SeedAlike
<1> QED BY <1>3, <1>5, <1>6, <1>7, SeedAlikeMoves

\* replicateEntry of a transitional configuration: the servers that counted go
\* on counting, and the seed is in both of its sets.
LEMMA SeedSetConfigurationReplicate ==
  ASSUME OneSeedInv, NothingInFlightOvershoots', NEW s \in Server,
         SetConfigurationReplicate(s)
  PROVE  OneSeedInv' /\ AbstractStep
<1> DEFINE r == raft[Seed]
           c == Configuration(r.log)
           e == ConfigurationEntry(r, c.prev, reconf[Seed].members)
           r2 == Appended(r, Seed, <<e>>)
<1>1. s = Seed
  BY OnlySeedLeads DEF SetConfigurationReplicate
<1>2. /\ r \in Raft /\ SeedObject(r) /\ CommitHeld(r, Stored) /\ SeedWork
      /\ Stored \in [Server -> Nat] /\ raft \in [Server -> Raft]
      /\ \A p \in Server \ {Seed} : r.lastAgree[p] <= Stored[p]
      /\ Seed \in Server /\ DOMAIN reconf = Server
      /\ reconf \in [Server -> [step : {"none", "staging", "committing"},
                                term : Nat, members : SUBSET Server,
                                index : Nat]]
  BY SeedParts DEF NothingInFlightOvershoots, ServersTypeOK
<1>3. /\ UNCHANGED <<rpc, fs, pending, restarts>>
      /\ raft' = [raft EXCEPT ![Seed] = r2]
      /\ reconf[Seed].step = "staging"
      /\ reconf' = [reconf EXCEPT ![s].step = "committing",
                                  ![s].index = Len(raft[s].log) + 1]
  BY <1>1, <1>2 DEF SetConfigurationReplicate
<1>4. /\ r.state = "LEADER" /\ Configurations(r.log) # {}
      /\ Seed \in reconf[Seed].members
  BY <1>2, <1>3 DEF SeedWork
<1>5. /\ reconf'[Seed].step = "committing"
      /\ \A p \in Server \ {Seed} : reconf'[p] = reconf[p]
  BY <1>1, <1>2, <1>3
<1>6. reconf[Seed].members \in SUBSET Server
  BY <1>2
<1> HIDE DEF r
<1>7. c.prev \in SUBSET Server /\ Seed \in c.prev
  <2>1. /\ ConfigId(r.log) \in Configurations(r.log)
        /\ Configuration(r.log) = r.log[ConfigId(r.log)].body
    BY <1>2, <1>4, RaftFields, ConfigurationIsEntry
  <2>2. Seed \in c.prev
    BY <1>2, <2>1 DEF SeedObject
  <2> QED BY <1>2, <2>2, RaftFields, ConfigurationType
<1> HIDE DEF c
<1>8. /\ e \in Entry /\ e.body.type = "CONFIGURATION"
      /\ e.body.prev = c.prev /\ e.body.next = reconf[Seed].members
  BY <1>2, <1>6, <1>7, ConfigurationEntryFields
<1> HIDE DEF e, r2
<1>9. SeedEntry(e)
  BY <1>4, <1>7, <1>8 DEF SeedEntry
<1>10. /\ r2 \in Raft /\ SeedObject(r2) /\ Leads(r, r2)
       /\ r2.log = r.log \o <<e>> /\ r2.commitIndex = r.commitIndex
       /\ r2.lastAgree = r.lastAgree
  BY <1>2, <1>4, <1>8, <1>9, AppendedAtSeed DEF r2
<1>11. Configuration(r2.log) = e.body
  BY <1>2, <1>8, <1>10, RaftFields, ConfigurationOfAppended, SMTT(30)
<1>12. CommitHeld(r2, Stored)
  BY <1>2, <1>8, <1>10, <1>11 DEF CommitHeld, c
<1>13. CommitReached(r, r2, Stored)
  BY <1>2, <1>10, RaftFields DEF CommitReached
<1>14. \A p \in Server \ {Seed} : r2.lastAgree[p] <= Stored[p]
  BY <1>2, <1>10
<1> QED BY <1>3, <1>4, <1>5, <1>10, <1>12, <1>13, <1>14, SeedMovesAlone DEF r

\* No server of this cluster is ever a candidate, so no vote is asked for.
LEMMA SeedRequestVote ==
  ASSUME OneSeedInv, NEW s \in Server, NEW p \in Server, RequestVote(s, p)
  PROVE  FALSE
<1>1. raft[s].state = "CANDIDATE"
  BY DEF RequestVote
<1>2. CASE s = Seed
  BY <1>1, <1>2, SeedParts DEF SeedObject
<1>3. CASE s # Seed
  BY <1>1, <1>3, FollowerParts DEF FollowerObject
<1> QED BY <1>2, <1>3

\* And no request for a vote arrives.
LEMMA SeedHandleRequestVote ==
  ASSUME OneSeedInv, NEW p \in Server, NEW s \in Server, HandleRequestVote(p, s)
  PROVE  FALSE
<1>1. rpc[s][p].kind = "vote"
  BY DEF HandleRequestVote
<1>2. s = Seed /\ p \in Server \ {Seed}
  BY <1>1, OnlySeedCalls
<1> QED BY <1>1, <1>2, FollowerParts DEF SeedCall

\* appendEntries: the seed sends entries of its log, as they are there, and
\* never plans to send one that is past its end.
LEMMA SeedAppendEntries ==
  ASSUME OneSeedInv, NothingInFlightOvershoots', NEW s \in Server,
         NEW p \in Server, AppendEntries(s, p)
  PROVE  OneSeedInv' /\ AbstractStep
<1> DEFINE r == raft[Seed]
           prev == r.nextIndex[p] - 1
           last == IF Len(r.log) < prev + MaxEntries THEN Len(r.log)
                   ELSE prev + MaxEntries
           prevTerm == IF prev = 0 THEN 0 ELSE r.log[prev].term
           entries == SubSeq(r.log, prev + 1, last)
           commit == CommitSent(r, last)
           m == [kind |-> "append", term |-> r.currentTerm, prevIndex |-> prev,
                 prevTerm |-> prevTerm, entries |-> entries, commit |-> commit]
<1>1. s = Seed /\ r.state = "LEADER" /\ p \in r.known
  <2>1. s = Seed
    BY OnlySeedLeads DEF AppendEntries
  <2> QED BY <2>1 DEF AppendEntries
<1>2. /\ r \in Raft /\ SeedObject(r) /\ CommitHeld(r, Stored)
      /\ Stored \in [Server -> Nat] /\ raft \in [Server -> Raft]
      /\ \A q \in Server \ {Seed} : r.lastAgree[q] <= Stored[q]
      /\ Seed \in Server
      /\ rpc \in [Server -> [Server -> Message]]
  BY SeedParts DEF NothingInFlightOvershoots, ServersTypeOK
<1>3. p \in Server \ {Seed}
  BY <1>1, <1>2 DEF SeedObject
<1>4. /\ r.log \in Seq(Entry) /\ Len(r.log) \in Nat /\ r.commitIndex \in Nat
      /\ prev \in Nat /\ prev <= Len(r.log) /\ MaxEntries \in Nat
  <2>1. r.nextIndex[p] \in Nat \ {0}
    <3>1. r.nextIndex \in [Server -> Nat \ {0}]
      BY <1>2 DEF Raft
    <3> QED BY <3>1
  <2>2. r.log \in Seq(Entry) /\ Len(r.log) \in Nat /\ r.commitIndex \in Nat
    BY <1>2, RaftFields
  <2>3. r.nextIndex[p] <= Len(r.log) + 1
    BY <1>2 DEF SeedObject
  <2> QED BY <2>1, <2>2, <2>3, ConstantsAssumption DEF ConstantsAssumption
<1>5. /\ UNCHANGED <<raft, reconf, fs, pending, restarts>>
      /\ rpc' = [rpc EXCEPT ![Seed][p] = m]
  <2>1. ~(prev > Len(r.log))
    BY <1>4
  <2> QED BY <1>1, <2>1 DEF AppendEntries
<1> HIDE DEF r, prev
<1>6. last \in Nat /\ prev <= last /\ last <= Len(r.log)
  BY <1>4
<1> HIDE DEF last
<1>7. /\ DOMAIN entries = 1 .. (last - prev)
      /\ \A k \in 1 .. (last - prev) : entries[k] = r.log[prev + k]
  <2>1. \A i \in prev + 1 .. last : r.log[i] \in Entry
    BY <1>4, <1>6, ElementOfSeq
  <2>2. /\ entries \in Seq(Entry) /\ Len(entries) = last - prev
        /\ \A k \in 1 .. (last - prev) : entries[k] = r.log[prev + 1 + k - 1]
    BY <1>4, <1>6, <2>1, SubSeqProperties
  <2>3. DOMAIN entries = 1 .. (last - prev)
    BY <2>2, LenProperties
  <2>4. \A k \in 1 .. (last - prev) : prev + 1 + k - 1 = prev + k
    BY <1>4, <1>6
  <2> QED BY <2>2, <2>3, <2>4
<1>8. commit <= r.commitIndex
  BY <1>4, <1>6 DEF CommitSent
<1> HIDE DEF entries, commit
<1>9. SeedCall(m, r, Stored[p])
  <2>1. /\ m.kind = "append" /\ m.term = r.currentTerm /\ m.prevIndex = prev
        /\ m.prevTerm = prevTerm /\ m.entries = entries /\ m.commit = commit
    OBVIOUS
  <2>2. prev > 0 => prevTerm = r.log[prev].term
    BY <1>4
  <2> HIDE DEF m, prevTerm
  <2> QED BY <1>7, <1>8, <2>1, <2>2 DEF SeedCall
<1> HIDE DEF m
<1>10. /\ rpc'[Seed][p] = m
       /\ \A q \in Server \ {p} : rpc'[Seed][q] = rpc[Seed][q]
       /\ \A q \in Server \ {Seed} : rpc'[q] = rpc[q]
  BY <1>2, <1>3, <1>5
<1>11. /\ Leads(r, r) /\ CommitReached(r, r, Stored)
  BY <1>2, <1>4, LeadsAlike DEF CommitReached
<1>12. raft' = [raft EXCEPT ![Seed] = r]
  BY <1>2, <1>5 DEF r
<1>13. \A q \in Server \ {Seed} :
         /\ rpc'[Seed][q] = rpc[Seed][q] \/ SeedCall(rpc'[Seed][q], r, Stored[q])
         /\ reconf'[q] = reconf[q] /\ pending'[q] = pending[q]
         /\ \A t \in Server : rpc'[q][t] = rpc[q][t]
  BY <1>5, <1>9, <1>10, Zenon
<1> QED BY <1>1, <1>2, <1>5, <1>11, <1>12, <1>13, SeedMovesAlone DEF r

\* handleAppendEntries: a follower takes what its log lacks from the request, or
\* refuses it, and its answer says how much of the log it has.
LEMMA SeedHandleAppendEntries ==
  ASSUME OneSeedInv, NothingInFlightOvershoots', NEW p \in Server,
         NEW s \in Server, HandleAppendEntries(p, s)
  PROVE  /\ OneSeedInv' /\ AbstractStep
         /\ rpc'[s][p].success => Covered(rpc[s][p]) <= Len(raft'[p].log)
<1> DEFINE r == raft[p]
           m == rpc[Seed][p]
           result == Received(r, p, Seed, m)
<1>1. m.kind = "append" /\ s = Seed /\ p \in Server \ {Seed}
  <2>1. rpc[s][p].kind = "append"
    BY DEF HandleAppendEntries
  <2> QED BY <2>1, OnlySeedCalls
<1>2. /\ raft' = [raft EXCEPT ![p] = result.r]
      /\ rpc' = [rpc EXCEPT ![Seed][p] = result.answer]
      /\ UNCHANGED <<reconf, pending, restarts>>
  BY <1>1 DEF HandleAppendEntries
<1>3. /\ r \in Raft /\ IndexInv(r) /\ FollowerObject(r, raft[Seed])
      /\ m \in Message /\ CallInv(raft[Seed], p, m)
      /\ SeedCall(m, raft[Seed], Stored[p]) /\ Stored[p] = Len(r.log)
      /\ Covered(m) <= Len(raft[Seed].log) /\ raft[Seed].state = "LEADER"
  BY <1>1, FollowerParts
<1>4. /\ raft[Seed] \in Raft /\ Seed \in Server /\ raft \in [Server -> Raft]
      /\ rpc \in [Server -> [Server -> Message]]
      /\ Stored[p] <= Len(raft[Seed].log)
  BY <1>1, SeedParts DEF NothingInFlightOvershoots, ServersTypeOK
<1> HIDE DEF r, m
<1>5. /\ FollowerObject(result.r, raft[Seed])
      /\ SamePrefix(r.log, result.r.log, Len(r.log))
      /\ r.commitIndex <= result.r.commitIndex
      /\ result.answer.kind = "appended" /\ result.answer.term = m.term
      /\ result.answer.lastIndex = Len(r.log)
      /\ result.answer.covered = Covered(m)
      /\ result.answer.success => Covered(m) <= Len(result.r.log)
  <2>1. SeedCall(m, raft[Seed], Len(r.log))
    BY <1>3
  <2> QED BY <1>1, <1>3, <1>4, <2>1, ReceivedAtFollower
<1>6. result.r \in Raft /\ IndexInv(result.r)
  <2>1. m.commit <= Covered(m)
    BY <1>1, <1>3 DEF CallInv
  <2> QED BY <1>1, <1>3, <1>4, <2>1, ReceivedKeeps
<1> HIDE DEF result
<1>7. SeedCall(result.answer, raft[Seed], Len(result.r.log))
  BY <1>1, <1>3, <1>4, <1>5 DEF SeedCall
<1>8. /\ rpc'[Seed][p] = result.answer /\ raft'[p] = result.r
      /\ \A q \in Server \ {p} : rpc'[Seed][q] = rpc[Seed][q]
      /\ \A q \in Server \ {Seed} : rpc'[q] = rpc[q]
  BY <1>1, <1>2, <1>4
<1>9. OthersRest'
  BY <1>2, <1>8, OthersStayAtRest
<1>10. OneSeedInv' /\ AbstractStep
  BY <1>1, <1>2, <1>5, <1>6, <1>7, <1>8, <1>9, FollowerMoves DEF r
<1> QED BY <1>1, <1>5, <1>8, <1>10 DEF m

\* The answer of a peer reaches the seed, which leads on in the same term.
LEMMA SeedHandleAppendEntriesResponse ==
  ASSUME OneSeedInv, NothingInFlightOvershoots', NEW s \in Server,
         NEW p \in Server, HandleAppendEntriesResponse(s, p)
  PROVE  OneSeedInv' /\ AbstractStep
<1> DEFINE r == raft[Seed]
           m == rpc[Seed][p]
           r2 == Answered(r, Seed, p, m)
<1>1. m.kind = "appended" /\ s = Seed /\ p \in Server \ {Seed}
  <2>1. rpc[s][p].kind = "appended"
    BY DEF HandleAppendEntriesResponse
  <2> QED BY <2>1, OnlySeedCalls
<1>2. /\ raft' = [raft EXCEPT ![Seed] = r2]
      /\ rpc' = [rpc EXCEPT ![Seed][p] = Idle]
      /\ UNCHANGED <<reconf, fs, pending, restarts>>
  BY <1>1 DEF HandleAppendEntriesResponse
<1>3. /\ r \in Raft /\ IndexInv(r) /\ SeedObject(r) /\ CommitHeld(r, Stored)
      /\ Stored \in [Server -> Nat] /\ Stored[Seed] = Len(r.log)
      /\ \A q \in Server : Stored[q] <= Len(r.log)
      /\ \A q \in Server \ {Seed} : r.lastAgree[q] <= Stored[q]
      /\ Seed \in Server /\ rpc \in [Server -> [Server -> Message]]
  BY SeedParts DEF NothingInFlightOvershoots, ServersTypeOK
<1>4. /\ m \in Message /\ CallInv(r, p, m) /\ SeedCall(m, r, Stored[p])
      /\ r.state = "LEADER" /\ m.covered <= Len(r.log)
  BY <1>1, FollowerParts
<1>5. /\ rpc'[Seed][p] = Idle
      /\ \A q \in Server \ {p} : rpc'[Seed][q] = rpc[Seed][q]
      /\ \A q \in Server \ {Seed} : rpc'[q] = rpc[q]
  BY <1>1, <1>2, <1>3
<1> HIDE DEF r, m
<1>6. /\ p \in r.known /\ m.term = r.currentTerm /\ m.lastIndex <= Len(r.log)
      /\ m.success => m.covered <= Stored[p]
  BY <1>1, <1>4 DEF CallInv, SeedCall
<1>7. /\ r2 \in Raft /\ SeedObject(r2) /\ Leads(r, r2)
      /\ CommitReached(r, r2, Stored) /\ CommitHeld(r2, Stored)
      /\ \A q \in Server \ {Seed} : r2.lastAgree[q] <= Stored[q]
  BY <1>1, <1>3, <1>4, <1>6, AnsweredAtSeed
<1> HIDE DEF r2
<1>8. SeedCall(Idle, r2, Stored[p])
  BY DEF SeedCall, Idle
<1>9. \A q \in Server \ {Seed} :
        /\ rpc'[Seed][q] = rpc[Seed][q] \/ SeedCall(rpc'[Seed][q], r2, Stored[q])
        /\ reconf'[q] = reconf[q] /\ pending'[q] = pending[q]
        /\ \A t \in Server : rpc'[q][t] = rpc[q][t]
  BY <1>2, <1>5, <1>8, Zenon
<1> QED BY <1>2, <1>4, <1>7, <1>9, SeedMovesAlone DEF r
-----------------------------------------------------------------------------
(* The theorems.                                                            *)

\* A cluster whose servers have just been started.
LEMMA SeedInit == Init => OneSeedInv /\ Abstract!Init
<1> SUFFICES ASSUME Init PROVE OneSeedInv /\ Abstract!Init
  OBVIOUS
<1> DEFINE r == NewRaft({})
<1>1. NothingInFlightOvershoots /\ Seed \in Server
  BY InitEstablishes, SeedAssumption
<1>2. /\ \A s \in Server : raft[s] = r /\ reconf[s] = NoReconf
                           /\ pending[s] = None
      /\ \A s, p \in Server : rpc[s][p] = Idle
  BY Zenon DEF Init
<1>3. /\ r.phase = "new" /\ r.failed = "nothing" /\ r.rpcAlive = TRUE
      /\ r.currentTerm = 0 /\ r.stored = {} /\ r.state = "FOLLOWER"
      /\ r.leaderId = None /\ r.log = <<>> /\ r.commitIndex = 0
      /\ r.known = {} /\ Len(r.log) = 0
      /\ \A p \in Server : r.nextIndex[p] = 1 /\ r.lastAgree[p] = 0
  BY EmptySeq DEF NewRaft
<1>4. /\ Configurations(r.log) = {}
      /\ Configuration(r.log).prev = {} /\ Configuration(r.log).next = {}
  <2>1. Configurations(<<>>) = {}
    BY DEF Configurations
  <2> QED BY <1>3, <2>1 DEF Configuration
<1> HIDE DEF r
<1>5. SeedObject(r)
  BY <1>3, <1>4 DEF SeedObject
<1>6. FollowerObject(r, r)
  BY <1>3 DEF FollowerObject, TermHeard, SamePrefix
<1>7. SeedCall(Idle, r, 0)
  BY DEF SeedCall, Idle
<1>8. \A s \in Server : Stored[s] = 0
  BY <1>2, <1>3 DEF Stored
<1>9. SeedCounts
  BY <1>1, <1>2, <1>3, <1>8 DEF SeedCounts
<1>10. SeedWork
  BY <1>1, <1>2, <1>3 DEF SeedWork, NoReconf
<1>11. OneSeedInv
  BY <1>1, <1>2, <1>5, <1>6, <1>7, <1>8, <1>9, <1>10 DEF OneSeedInv
<1>12. /\ [s \in Server |-> raft[s].log] = [s \in Server |-> <<>>]
       /\ [s \in Server |-> raft[s].commitIndex] = [s \in Server |-> 0]
  BY <1>2, <1>3
<1>13. Abstract!Init
  BY <1>12 DEF Abstract!Init
<1> QED BY <1>11, <1>13

\* Every step, a stutter included, keeps the invariant, and is a step of the
\* replicated log or a stutter of it.
LEMMA SeedNext ==
  ASSUME OneSeedInv, [Next]_vars
  PROVE  OneSeedInv' /\ AbstractStep
<1>1. NothingInFlightOvershoots'
  BY NextKeeps DEF OneSeedInv
<1>2. CASE UNCHANGED vars
  <2>1. /\ raft' = raft /\ rpc' = rpc /\ SeedWork'
        /\ reconf' = reconf /\ pending' = pending
    BY <1>2, SeedParts DEF vars, SeedWork
  <2>2. OthersRest'
    BY <2>1, OthersStayAtRest
  <2> QED BY <1>1, <2>1, <2>2, SeedStays
<1>3. CASE Next
  <2> PICK s \in Server :
        \/ Restart(s) \/ BootstrapConfiguration(s) \/ Initialize(s)
        \/ StartNewElection(s) \/ TakeSync(s) \/ SyncDone(s)
        \/ \E v \in Value : ClientChange(s, v)
        \/ Replicate(s)
        \/ \E members \in Views : SetConfiguration(s, members)
        \/ SetConfigurationDeposed(s) \/ SetConfigurationTimeout(s)
        \/ SetConfigurationReplicate(s) \/ SetConfigurationReturn(s)
        \/ \E p \in Server : \/ RequestVote(s, p) \/ HandleRequestVote(p, s)
                             \/ AppendEntries(s, p) \/ HandleAppendEntries(p, s)
                             \/ HandleAppendEntriesResponse(s, p)
    BY <1>3, Zenon DEF Next
  <2>1. CASE Restart(s)
    BY <2>1, SeedRestart
  <2>2. CASE BootstrapConfiguration(s)
    BY <1>1, <2>2, SeedBootstrapConfiguration
  <2>3. CASE Initialize(s)
    BY <1>1, <2>3, SeedInitialize
  <2>4. CASE StartNewElection(s)
    BY <1>1, <2>4, SeedStartNewElection
  <2>5. CASE TakeSync(s)
    BY <1>1, <2>5, SeedTakeSync
  <2>6. CASE SyncDone(s)
    BY <1>1, <2>6, SeedSyncDone
  <2>7. CASE \E v \in Value : ClientChange(s, v)
    BY <1>1, <2>7, SeedClientChange
  <2>8. CASE Replicate(s)
    BY <1>1, <2>8, SeedReplicate
  <2>9. CASE \E members \in Views : SetConfiguration(s, members)
    BY <1>1, <2>9, SeedSetConfiguration
  <2>10. CASE SetConfigurationDeposed(s)
    <3>1. /\ reconf[s].step # "none" /\ UNCHANGED <<raft, rpc, pending>>
          /\ reconf' = [reconf EXCEPT ![s] = NoReconf]
      BY <2>10 DEF SetConfigurationDeposed
    <3> QED BY <1>1, <3>1, SeedCallEnds
  <2>11. CASE SetConfigurationTimeout(s)
    BY <1>1, <2>11, SeedSetConfigurationTimeout
  <2>12. CASE SetConfigurationReplicate(s)
    BY <1>1, <2>12, SeedSetConfigurationReplicate
  <2>13. CASE SetConfigurationReturn(s)
    <3>1. /\ reconf[s].step # "none" /\ UNCHANGED <<raft, rpc, pending>>
          /\ reconf' = [reconf EXCEPT ![s] = NoReconf]
      BY <2>13 DEF SetConfigurationReturn
    <3> QED BY <1>1, <3>1, SeedCallEnds
  <2>14. CASE \E p \in Server : RequestVote(s, p)
    BY <2>14, SeedRequestVote
  <2>15. CASE \E p \in Server : HandleRequestVote(p, s)
    BY <2>15, SeedHandleRequestVote
  <2>16. CASE \E p \in Server : AppendEntries(s, p)
    BY <1>1, <2>16, SeedAppendEntries
  <2>17. CASE \E p \in Server : HandleAppendEntries(p, s)
    BY <1>1, <2>17, SeedHandleAppendEntries
  <2>18. CASE \E p \in Server : HandleAppendEntriesResponse(s, p)
    BY <1>1, <2>18, SeedHandleAppendEntriesResponse
  <2> QED BY <2>1, <2>2, <2>3, <2>4, <2>5, <2>6, <2>7, <2>8, <2>9, <2>10,
             <2>11, <2>12, <2>13, <2>14, <2>15, <2>16, <2>17, <2>18
<1> QED BY <1>2, <1>3

\* In a cluster with one seed, every other server is a follower that holds a
\* prefix of the seed's log, and what the seed counts as stored is stored.
THEOREM OneSeedLeadsAll == Spec => []OneSeedInv
<1>1. Init => OneSeedInv
  BY SeedInit
<1>2. OneSeedInv /\ [Next]_vars => OneSeedInv'
  BY SeedNext
<1> QED BY <1>1, <1>2, PTL DEF Spec

\* No assertion of the consensus code fails, none of its names is missing where
\* it is needed, and no rpc thread dies: elections never meet a second server.
THEOREM NothingFails == Spec => []NeverFails
<1>1. OneSeedInv => NeverFails
  <2> SUFFICES ASSUME OneSeedInv, NEW s \in Server
               PROVE  Up(s) /\ raft[s].rpcAlive
    BY DEF NeverFails
  <2>1. CASE s = Seed
    BY <2>1, SeedParts DEF SeedObject, Up
  <2>2. CASE s # Seed
    BY <2>2, FollowerParts DEF FollowerObject, Up
  <2> QED BY <2>1, <2>2
<1> QED BY OneSeedLeadsAll, <1>1, PTL

\* What appendEntries counts as a peer's agreement is in the peer's log, entry
\* by entry as in the leader's.
THEOREM AgreementHolds == Spec => []AgreementIsReal
<1>1. OneSeedInv => AgreementIsReal
  <2> SUFFICES ASSUME OneSeedInv, NEW s \in Server, raft[s].state = "LEADER",
                      NEW p \in raft[s].known
               PROVE  SamePrefix(raft[s].log, raft[p].log, raft[s].lastAgree[p])
    BY DEF AgreementIsReal
  <2>1. s = Seed
    BY OnlySeedLeads
  <2>2. /\ raft[Seed] \in Raft /\ SeedObject(raft[Seed])
        /\ \A q \in Server \ {Seed} : raft[Seed].lastAgree[q] <= Stored[q]
    BY SeedParts
  <2>3. p \in Server \ {Seed}
    BY <2>1, <2>2, RaftFields DEF SeedObject
  <2>4. /\ raft[p] \in Raft /\ Stored[p] = Len(raft[p].log)
        /\ SamePrefix(raft[p].log, raft[Seed].log, Len(raft[p].log))
    BY <2>3, FollowerParts DEF FollowerObject
  <2>5. /\ Len(raft[p].log) \in Nat /\ Len(raft[Seed].log) \in Nat
        /\ raft[Seed].lastAgree \in [Server -> Nat]
    BY <2>2, <2>4, RaftFields
  <2>6. raft[Seed].lastAgree[p] \in Nat /\ raft[Seed].lastAgree[p] <= Len(raft[p].log)
    BY <2>2, <2>3, <2>4, <2>5
  <2> QED BY <2>1, <2>4, <2>5, <2>6, SMTT(30) DEF SamePrefix
<1> QED BY OneSeedLeadsAll, <1>1, PTL

\* What a leader has committed is in the logs of more than half of the servers
\* of its configuration, whatever reconfigurations it has been through.
THEOREM CommittedIsOnMajority == Spec => []CommittedOnMajority
<1>1. OneSeedInv => CommittedOnMajority
  <2> DEFINE r == raft[Seed]
             n == r.commitIndex
             S == Configuration(r.log).prev
             holders == {p \in S : SamePrefix(r.log, raft[p].log, n)}
  <2> SUFFICES ASSUME OneSeedInv, r.state = "LEADER", n > 0
               PROVE  2 * Cardinality(holders) > Cardinality(S)
    BY OnlySeedLeads DEF CommittedOnMajority
  <2>1. /\ r \in Raft /\ CommitHeld(r, Stored) /\ Stored \in [Server -> Nat]
        /\ IndexInv(r)
    BY SeedParts
  <2>2. /\ S \in SUBSET Server /\ n \in Nat /\ n <= Len(r.log)
        /\ Len(r.log) \in Nat
    BY <2>1, RaftFields, ConfigurationType DEF IndexInv
  <2>3. IsMajority(AtLeast(S, Stored, n), S)
    BY <2>1 DEF CommitHeld, HeldBy
  <2>4. ASSUME NEW p \in S, Stored[p] >= n
        PROVE  SamePrefix(r.log, raft[p].log, n)
    <3>1. CASE p = Seed
      BY <2>2, <3>1 DEF SamePrefix
    <3>2. CASE p # Seed
      <4>1. p \in Server \ {Seed}
        BY <2>2, <3>2
      <4>2. /\ Stored[p] = Len(raft[p].log) /\ Stored[p] \in Nat
            /\ SamePrefix(raft[p].log, r.log, Len(raft[p].log))
        BY <4>1, FollowerParts DEF FollowerObject
      <4> QED BY <2>2, <2>4, <4>2 DEF SamePrefix
    <3> QED BY <3>1, <3>2
  <2> HIDE DEF r, n, S
  <2>5. AtLeast(S, Stored, n) \subseteq holders /\ holders \in SUBSET S
    BY <2>4 DEF AtLeast
  <2>6. IsMajority(holders, S)
    <3>1. AtLeast(S, Stored, n) \in SUBSET S
      BY DEF AtLeast
    <3> HIDE DEF holders
    <3> QED BY <2>2, <2>3, <2>5, <3>1, MajorityGrows
  <2> QED BY <2>2, <2>5, <2>6, MajorityIsMoreThanHalf
<1> QED BY OneSeedLeadsAll, <1>1, PTL

\* Only handleAppendEntries answers a request.
LEMMA OnlyHandlerAnswers ==
  ASSUME OneSeedInv, [Next]_vars, NEW s \in Server, NEW p \in Server,
         rpc[s][p].kind = "append", rpc'[s][p].kind = "appended"
  PROVE  HandleAppendEntries(p, s)
<1>1. rpc \in [Server -> [Server -> Message]]
  BY DEF OneSeedInv, NothingInFlightOvershoots, ServersTypeOK
<1>2. rpc' # rpc
  OBVIOUS
<1>3. PICK t \in Server :
        \/ Restart(t) \/ BootstrapConfiguration(t) \/ Initialize(t)
        \/ StartNewElection(t) \/ TakeSync(t) \/ SyncDone(t)
        \/ \E v \in Value : ClientChange(t, v)
        \/ Replicate(t)
        \/ \E members \in Views : SetConfiguration(t, members)
        \/ SetConfigurationDeposed(t) \/ SetConfigurationTimeout(t)
        \/ SetConfigurationReplicate(t) \/ SetConfigurationReturn(t)
        \/ \E q \in Server : \/ RequestVote(t, q) \/ HandleRequestVote(q, t)
                             \/ AppendEntries(t, q) \/ HandleAppendEntries(q, t)
                             \/ HandleAppendEntriesResponse(t, q)
  BY <1>2, Zenon DEF Next, vars
<1>4. ~Restart(t)
  BY SeedRestart
<1>5. PICK q \in Server : \/ RequestVote(t, q) \/ HandleRequestVote(q, t)
                          \/ AppendEntries(t, q) \/ HandleAppendEntries(q, t)
                          \/ HandleAppendEntriesResponse(t, q)
  BY <1>2, <1>3, <1>4, Zenon
     DEF BootstrapConfiguration, Initialize, StartNewElection, TakeSync,
         SyncDone, ClientChange, Replicate, SetConfiguration,
         SetConfigurationDeposed, SetConfigurationTimeout,
         SetConfigurationReplicate, SetConfigurationReturn
<1>6. ~RequestVote(t, q) /\ ~HandleRequestVote(q, t)
  BY SeedRequestVote, SeedHandleRequestVote
<1>7. CASE AppendEntries(t, q)
  <2>1. rpc[t][q] = Idle /\ \E m : rpc' = [rpc EXCEPT ![t][q] = m]
    BY <1>2, <1>7, Zenon DEF AppendEntries
  <2>2. t # s \/ q # p
    BY <2>1 DEF Idle
  <2> QED BY <1>1, <2>1, <2>2
<1>8. CASE HandleAppendEntriesResponse(t, q)
  <2>1. /\ rpc[t][q].kind = "appended"
        /\ rpc' = [rpc EXCEPT ![t][q] = Idle]
    BY <1>8 DEF HandleAppendEntriesResponse
  <2> QED BY <1>1, <2>1
<1>9. CASE HandleAppendEntries(q, t)
  <2>1. \E m : rpc' = [rpc EXCEPT ![t][q] = m]
    BY <1>9, Zenon DEF HandleAppendEntries
  <2>2. t = s /\ q = p
    BY <1>1, <2>1
  <2> QED BY <1>9, <2>2
<1> QED BY <1>5, <1>6, <1>7, <1>8, <1>9

\* A follower that reports success has the entries of the request in its log, at
\* the places where the leader counts them.
THEOREM SuccessIsStored == Spec => SuccessMeansStored
<1>1. ASSUME OneSeedInv, [Next]_vars, NEW s \in Server, NEW p \in Server,
             rpc[s][p].kind = "append", rpc'[s][p].kind = "appended",
             rpc'[s][p].success, NEW k \in DOMAIN rpc[s][p].entries
      PROVE  /\ rpc[s][p].prevIndex + k <= Len(raft'[p].log)
             /\ raft'[p].log[rpc[s][p].prevIndex + k].term
                  = rpc[s][p].entries[k].term
  <2> DEFINE m == rpc[Seed][p]
  <2>1. s = Seed /\ p \in Server \ {Seed}
    BY <1>1, OnlySeedCalls
  <2>2. /\ m \in Message /\ m.kind = "append" /\ k \in DOMAIN m.entries
        /\ SeedCall(m, raft[Seed], Stored[p])
    BY <1>1, <2>1, FollowerParts
  <2>3. HandleAppendEntries(p, Seed)
    BY <1>1, <2>1, OnlyHandlerAnswers
  <2>4. OneSeedInv'
    BY <1>1, SeedNext
  <2>5. Covered(m) <= Len(raft'[p].log)
    <3>1. NothingInFlightOvershoots'
      BY <2>4 DEF OneSeedInv
    <3>2. Seed \in Server
      BY SeedAssumption
    <3> QED BY <1>1, <2>1, <2>3, <3>1, <3>2, SeedHandleAppendEntries
  <2>6. raft'[Seed] = raft[Seed]
    <3>1. raft \in [Server -> Raft]
      BY <1>1, SeedParts
    <3>2. \E r2 : raft' = [raft EXCEPT ![p] = r2]
      BY <2>3, Zenon DEF HandleAppendEntries
    <3> QED BY <2>1, <3>1, <3>2, SeedAssumption
  <2>7. /\ raft'[p] \in Raft
        /\ SamePrefix(raft'[p].log, raft[Seed].log, Len(raft'[p].log))
    BY <2>1, <2>4, <2>6 DEF OneSeedInv, FollowerObject,
                            NothingInFlightOvershoots, ServersTypeOK
  <2>8. /\ m.prevIndex \in Nat /\ Len(m.entries) \in Nat
        /\ DOMAIN m.entries = 1 .. Len(m.entries)
        /\ Len(raft'[p].log) \in Nat
    BY <2>2, <2>7, AppendFields, RaftFields, LenProperties
  <2>9. m.prevIndex + k \in 1 .. Len(raft'[p].log)
    <3> DEFINE n == Len(raft'[p].log)
    <3>1. m.prevIndex + Len(m.entries) <= n
      BY <2>5 DEF Covered
    <3>2. k \in 1 .. Len(m.entries)
      BY <2>2, <2>8
    <3>3. \A a, l, x \in Nat : a + l <= x => \A j \in 1 .. l : a + j \in 1 .. x
      OBVIOUS
    <3>4. m.prevIndex \in Nat /\ Len(m.entries) \in Nat /\ n \in Nat
      BY <2>8
    <3> HIDE DEF n, m
    <3>5. m.prevIndex + k \in 1 .. n
      BY <3>1, <3>2, <3>3, <3>4
    <3> QED BY <3>5 DEF n
  <2>10. m.entries[k] = raft[Seed].log[m.prevIndex + k]
    BY <2>2 DEF SeedCall
  <2>11. raft'[p].log[m.prevIndex + k] = raft[Seed].log[m.prevIndex + k]
    BY <2>7, <2>9 DEF SamePrefix
  <2> QED BY <2>1, <2>8, <2>9, <2>10, <2>11
<1>2. OneSeedInv /\ [Next]_vars =>
        [\A s, p \in Server :
           rpc[s][p].kind = "append" /\ rpc'[s][p].kind = "appended"
             /\ rpc'[s][p].success =>
             \A k \in DOMAIN rpc[s][p].entries :
               /\ rpc[s][p].prevIndex + k <= Len(raft'[p].log)
               /\ raft'[p].log[rpc[s][p].prevIndex + k].term
                    = rpc[s][p].entries[k].term]_vars
  BY <1>1
<1> QED BY OneSeedLeadsAll, <1>2, PTL DEF Spec, SuccessMeansStored

\* The consensus code of a cluster with one seed implements ReplicatedLog: the
\* retries, refusals, overlapping requests and reconfigurations of the code do
\* nothing that a primary copying its log in order to the others could not do.
THEOREM SeedImplementsReplicatedLog == Spec => ImplementsReplicatedLog
<1>1. Init => Abstract!Init
  BY SeedInit
<1>2. OneSeedInv /\ [Next]_vars => [Abstract!Next]_(Abstract!logVars)
  BY SeedNext DEF AbstractStep
<1> QED BY OneSeedLeadsAll, <1>1, <1>2, PTL
        DEF Spec, ImplementsReplicatedLog, Abstract!Spec
-----------------------------------------------------------------------------
(* The STAGING state and the call that made it.                             *)

\* A step that is no part of a setConfiguration call keeps the seed's STAGING
\* state, or ends it with a new configuration.
StagingKept == raft'[Seed].staging \in {raft[Seed].staging, {}}

\* Starting up and elections, which append the first entries of a log.
LEMMA StartStages ==
  ASSUME OneSeedInv, NEW s \in Server,
         \/ BootstrapConfiguration(s) \/ Initialize(s) \/ StartNewElection(s)
  PROVE  StagingKept
<1>1. /\ raft \in [Server -> Raft] /\ Seed \in Server
      /\ NothingInFlightOvershoots
  BY SeedParts
<1>2. CASE s # Seed
  <2>1. raft'[Seed] = raft[Seed]
    BY <1>1, <1>2 DEF BootstrapConfiguration, Initialize, StartNewElection
  <2> QED BY <2>1 DEF StagingKept
<1>3. CASE s = Seed
  <2> DEFINE r == raft[s]
  <2>1. r \in Raft /\ IndexInv(r)
    BY <1>1, Parts
  <2>2. CASE BootstrapConfiguration(s)
    <3> DEFINE r1 == SteppedDown(r, 1)
               first == ConfigurationEntry(r1, {s}, {})
               longer == Appended(r1, s, <<first>>)
               r2 == [longer EXCEPT !.phase = "bootstrapped"]
               failed == Fail(r, "bootstrapConfiguration")
    <3>1. CASE r.currentTerm = 0 /\ r.log = <<>>
      <4>1. raft'[Seed] = r2
        BY <1>1, <1>3, <2>2, <3>1 DEF BootstrapConfiguration
      <4> HIDE DEF r
      <4>2. r1 \in Raft /\ r1.staging = r.staging
        BY <2>1, <3>1, SteppedDownKeeps
      <4> HIDE DEF r1
      <4>3. <<first>> \in Seq(Entry)
        BY <4>2, ConfigurationEntryType
      <4> HIDE DEF first
      <4>4. longer \in Raft /\ longer.staging \in {r1.staging, {}}
        BY <4>2, <4>3, AppendedKeeps
      <4> HIDE DEF longer
      <4>5. r2.staging = longer.staging
        BY <4>4 DEF Raft
      <4> HIDE DEF r2
      <4> QED BY <1>3, <4>1, <4>2, <4>4, <4>5 DEF StagingKept, r
    <3>2. CASE ~(r.currentTerm = 0 /\ r.log = <<>>)
      <4>1. raft'[Seed] = failed
        BY <1>1, <1>3, <2>2, <3>2 DEF BootstrapConfiguration
      <4>2. "bootstrapConfiguration" \in Failures
        BY DEF Failures
      <4>3. failed.staging = r.staging
        BY <2>1, <4>2, FailKeeps
      <4> HIDE DEF failed
      <4> QED BY <1>3, <4>1, <4>3 DEF StagingKept
    <3> QED BY <3>1, <3>2
  <2>3. CASE Initialize(s)
    <3>1. PICK m :
            raft'[Seed] = SteppedDown([r EXCEPT !.currentTerm = m.term,
                                                !.votedFor = m.vote,
                                                !.stored = @ \cup {m},
                                                !.phase = "running"], m.term)
      BY <1>1, <1>3, <2>3 DEF Initialize
    <3> HIDE DEF r
    <3>2. raft'[Seed].staging = r.staging
      BY <2>1, <3>1 DEF SteppedDown, Raft
    <3> QED BY <1>3, <3>2 DEF StagingKept, r
  <2>4. CASE StartNewElection(s)
    <3> DEFINE term == r.currentTerm + 1
               stored == r.stored \cup {[term |-> term, vote |-> s]}
               r1 == [r EXCEPT !.currentTerm = term, !.state = "CANDIDATE",
                               !.leaderId = None, !.votedFor = s,
                               !.stored = stored]
               failed == Fail(r1, "quorumAll")
               led == BecomeLeader(r1, s)
    <3>1. \/ raft' = [raft EXCEPT ![s] = r1]
          \/ raft' = [raft EXCEPT ![s] = failed]
          \/ raft' = [raft EXCEPT ![s] = led]
      BY <2>4, Zenon DEF StartNewElection
    <3>2. r.phase = "running"
      BY <2>4 DEF StartNewElection
    <3> HIDE DEF r
    <3>3. /\ term \in Nat /\ stored \in SUBSET Metadata
          /\ r.syncTerm \in Nat /\ r.currentTerm \in Nat
      <4>1. /\ r.currentTerm \in Nat /\ r.stored \in SUBSET Metadata
            /\ r.syncTerm \in Nat
        BY <2>1, RaftFields
      <4>2. term \in Nat
        BY <4>1
      <4> HIDE DEF term
      <4>3. stored \in SUBSET Metadata
        BY <4>1, <4>2, MetadataType
      <4> QED BY <4>1, <4>2, <4>3
    <3> HIDE DEF stored
    <3>4. /\ r1 \in Raft /\ r1.currentTerm = term /\ r1.state = "CANDIDATE"
          /\ r1.log = r.log /\ r1.known = r.known /\ r1.phase = r.phase
          /\ r1.commitIndex = r.commitIndex /\ r1.lastAgree = r.lastAgree
          /\ r1.syncing = r.syncing /\ r1.syncTerm = r.syncTerm
          /\ r1.failed = r.failed /\ r1.staging = r.staging
      BY <2>1, <3>3 DEF Raft
    <3> HIDE DEF r1
    <3>5. failed.staging = r1.staging
      <4>1. "quorumAll" \in Failures
        BY DEF Failures
      <4> QED BY <3>4, <4>1, FailKeeps
    <3>6. led.staging \in {r1.staging, {}}
      <4>1. IndexInv(r1) /\ (r1.syncing => r1.syncTerm < r1.currentTerm)
        BY <2>1, <3>3, <3>4 DEF IndexInv
      <4> QED BY <3>2, <3>4, <4>1, BecomeLeaderKeeps
    <3> HIDE DEF failed, led
    <3>7. raft'[Seed] \in {r1, failed, led}
      BY <1>1, <1>3, <3>1
    <3> QED BY <1>3, <3>4, <3>5, <3>6, <3>7 DEF StagingKept, r
  <2> QED BY <2>2, <2>3, <2>4
<1> QED BY <1>2, <1>3

\* What a leader does: its disk thread, its changes and its peers' answers.
LEMMA LeaderStages ==
  ASSUME OneSeedInv, NEW s \in Server,
         \/ TakeSync(s) \/ SyncDone(s) \/ Replicate(s)
         \/ \E p \in Server : \/ AppendEntries(s, p)
                              \/ HandleAppendEntries(p, s)
                              \/ HandleAppendEntriesResponse(s, p)
  PROVE  StagingKept
<1>1. /\ raft \in [Server -> Raft] /\ Seed \in Server
      /\ NothingInFlightOvershoots /\ raft[s] \in Raft /\ IndexInv(raft[s])
      /\ RestTypeOK
  BY SeedParts, Parts
<1> DEFINE r == raft[s]
<1>2. CASE TakeSync(s)
  <2>1. raft'[Seed].staging = raft[Seed].staging
    BY <1>1, <1>2 DEF TakeSync, Raft
  <2> QED BY <2>1 DEF StagingKept
<1>3. CASE SyncDone(s)
  <2> DEFINE over == SyncOver(r)
             synced == [over EXCEPT !.lastSynced = over.syncIndex]
             counted == AdvancedCommittedId(synced, s)
  <2>1. \/ raft' = [raft EXCEPT ![s] = over]
        \/ /\ raft' = [raft EXCEPT ![s] = counted]
           /\ over.state = "LEADER" /\ over.currentTerm = over.syncTerm
    BY <1>3, Zenon DEF SyncDone
  <2>2. r.failed = "nothing" /\ r.syncing
    BY <1>3 DEF SyncDone, Up
  <2>3. r \in Raft /\ IndexInv(r)
    BY <1>1
  <2>4. r.staging \in {raft[Seed].staging} \/ s # Seed
    OBVIOUS
  <2> HIDE DEF r
  <2>5. /\ over \in Raft /\ over.log = r.log
        /\ over.commitIndex = r.commitIndex
        /\ over.currentTerm = r.currentTerm /\ over.phase = r.phase
        /\ over.known = r.known /\ over.lastAgree = r.lastAgree
        /\ over.syncing = FALSE /\ over.syncTerm = r.syncTerm
        /\ over.syncIndex = r.syncIndex
        /\ over.state = r.state /\ over.failed = r.failed
        /\ over.staging = r.staging
    BY <2>3 DEF Raft, SyncOver
  <2> HIDE DEF over
  <2>6. ASSUME over.state = "LEADER", over.currentTerm = over.syncTerm
        PROVE  counted.staging \in {r.staging, {}}
    <3>1. over.syncIndex \in Nat /\ over.syncIndex <= Len(over.log)
      BY <2>2, <2>3, <2>5, <2>6, RaftFields DEF IndexInv
    <3>2. /\ synced \in Raft /\ synced.log = over.log
          /\ synced.commitIndex = over.commitIndex
          /\ synced.currentTerm = over.currentTerm
          /\ synced.phase = over.phase
          /\ synced.known = over.known /\ synced.lastAgree = over.lastAgree
          /\ synced.syncing = over.syncing
          /\ synced.lastSynced = over.syncIndex
          /\ synced.state = over.state /\ synced.failed = over.failed
          /\ synced.staging = over.staging
      BY <2>5, <3>1 DEF Raft
    <3> HIDE DEF synced
    <3>3. IndexInv(synced)
      BY <2>3, <2>5, <3>1, <3>2 DEF IndexInv
    <3>4. counted.staging \in {synced.staging, {}}
      BY <2>2, <2>5, <3>2, <3>3, AdvancedCommittedIdKeeps
    <3> QED BY <2>5, <3>2, <3>4
  <2> HIDE DEF counted
  <2> QED BY <1>1, <2>1, <2>4, <2>5, <2>6 DEF StagingKept
<1>4. CASE Replicate(s)
  <2> DEFINE entry == [term |-> r.currentTerm,
                       body |-> [type |-> "DATA", data |-> pending[s]]]
             r2 == Appended(r, s, <<entry>>)
  <2>1. pending[s] \in Value /\ raft' = [raft EXCEPT ![s] = r2]
    BY <1>1, <1>4 DEF Replicate, RestTypeOK
  <2>2. <<entry>> \in Seq(Entry)
    <3>1. r.currentTerm \in Nat
      BY <1>1, RaftFields
    <3> QED BY <2>1, <3>1 DEF Entry, Body
  <2> HIDE DEF entry
  <2>3. r2.staging \in {r.staging, {}}
    BY <1>1, <2>2, AppendedKeeps
  <2> HIDE DEF r2
  <2> QED BY <1>1, <2>1, <2>3 DEF StagingKept
<1>5. CASE \E p \in Server : AppendEntries(s, p)
  <2> DEFINE failed == Fail(r, "prevLogIndex")
  <2>1. "prevLogIndex" \in Failures
    BY DEF Failures
  <2>2. failed.staging = r.staging
    BY <1>1, <2>1, FailKeeps
  <2>3. raft' = raft \/ raft' = [raft EXCEPT ![s] = failed]
    BY <1>5 DEF AppendEntries
  <2> HIDE DEF failed
  <2> QED BY <1>1, <2>2, <2>3 DEF StagingKept
<1>6. CASE \E p \in Server : HandleAppendEntries(p, s)
  <2> PICK p \in Server : HandleAppendEntries(p, s)
    BY <1>6
  <2>1. p # Seed
    <3>1. rpc[s][p].kind = "append"
      BY DEF HandleAppendEntries
    <3> QED BY <3>1, OnlySeedCalls
  <2>2. raft'[Seed] = raft[Seed]
    BY <1>1, <2>1 DEF HandleAppendEntries
  <2> QED BY <2>2 DEF StagingKept
<1>7. CASE \E p \in Server : HandleAppendEntriesResponse(s, p)
  <2> PICK p \in Server : HandleAppendEntriesResponse(s, p)
    BY <1>7
  <2> DEFINE m == rpc[s][p]
             r2 == Answered(r, s, p, m)
  <2>1. /\ m.kind = "appended" /\ raft' = [raft EXCEPT ![s] = r2]
        /\ r.failed = "nothing"
    BY DEF HandleAppendEntriesResponse, Up
  <2>2. m \in Message /\ CallInv(r, p, m)
    BY <1>1, Parts
  <2> HIDE DEF m
  <2>3. r2.staging \in {r.staging, {}}
    BY <1>1, <2>1, <2>2, AnsweredKeeps
  <2> HIDE DEF r2
  <2> QED BY <1>1, <2>1, <2>3 DEF StagingKept
<1> QED BY <1>2, <1>3, <1>4, <1>5, <1>6, <1>7

\* The call that made the STAGING state is the one that ends it, for the term
\* in which it began lasts.
LEMMA CallStages ==
  ASSUME StagingOwned, NEW s \in Server,
         Leads(raft[Seed], raft'[Seed]), OneSeedInv',
         \/ \E members \in Views : SetConfiguration(s, members)
         \/ SetConfigurationDeposed(s) \/ SetConfigurationTimeout(s)
         \/ SetConfigurationReplicate(s) \/ SetConfigurationReturn(s)
  PROVE  StagingOwned'
<1> DEFINE r == raft[Seed]
<1>1. /\ raft \in [Server -> Raft] /\ Seed \in Server /\ r \in Raft
      /\ OneSeedInv /\ SeedWork /\ RestTypeOK
      /\ reconf \in [Server -> [step : {"none", "staging", "committing"},
                                term : Nat, members : SUBSET Server,
                                index : Nat]]
  BY SeedParts, Parts DEF StagingOwned, RestTypeOK
<1>2. s = Seed
  <2>1. raft[s].state = "LEADER" \/ reconf[s].step # "none"
    BY DEF SetConfiguration, SetConfigurationDeposed, SetConfigurationTimeout,
           SetConfigurationReplicate, SetConfigurationReturn
  <2> QED BY <1>1, <2>1, OnlySeedLeads
<1>3. /\ r.staging # {} => /\ reconf[Seed].step = "staging"
                           /\ reconf[Seed].members = r.staging
      /\ reconf[Seed].step = "staging" =>
           reconf[Seed].term = r.currentTerm /\ r.state = "LEADER"
  BY <1>1 DEF StagingOwned, SeedWork
<1>4. NoReconf.step = "none"
  BY DEF NoReconf
<1>5. CASE \E members \in Views : SetConfiguration(s, members)
  <2> PICK members \in Views : SetConfiguration(s, members)
    BY <1>5
  <2> DEFINE peers == WithPeers(r, s, members)
             r2 == [peers EXCEPT !.staging = members]
             call == [step |-> "staging", term |-> r.currentTerm,
                      members |-> members, index |-> 0]
  <2>1. members \in SUBSET Server
    BY ConstantsAssumption DEF ConstantsAssumption
  <2>2. raft'[Seed] = r2 /\ reconf'[Seed] = call /\ r.state = "LEADER"
    BY <1>1, <1>2 DEF SetConfiguration
  <2>3. peers \in Raft
    BY <1>1, <2>1, WithPeersKeeps
  <2> HIDE DEF peers
  <2>4. r2.staging = members
    BY <2>3 DEF Raft
  <2>5. raft'[Seed].currentTerm = r.currentTerm
    BY <2>2 DEF Leads
  <2> HIDE DEF r2, r
  <2>6. /\ raft'[Seed].staging # {} =>
             /\ reconf'[Seed].step = "staging"
             /\ reconf'[Seed].members = raft'[Seed].staging
        /\ reconf'[Seed].step = "staging" =>
             reconf'[Seed].term = raft'[Seed].currentTerm
    BY <2>2, <2>4, <2>5
  <2> QED BY <2>6 DEF StagingOwned
<1>6. CASE SetConfigurationDeposed(s)
  BY <1>2, <1>3, <1>6 DEF SetConfigurationDeposed
<1>7. CASE SetConfigurationTimeout(s)
  <2>1. /\ raft'[Seed] = ResetStagingServers(r) /\ reconf'[Seed] = NoReconf
    BY <1>1, <1>2, <1>7 DEF SetConfigurationTimeout
  <2>2. ResetStagingServers(r).staging = {}
    BY <1>1 DEF ResetStagingServers, Raft
  <2> QED BY <1>4, <2>1, <2>2 DEF StagingOwned
<1>8. CASE SetConfigurationReplicate(s)
  <2> DEFINE c == Configuration(r.log)
             entry == ConfigurationEntry(r, c.prev, reconf[s].members)
             entries == <<entry>>
             r2 == Appended(r, s, entries)
  <2>1. /\ raft'[Seed] = r2 /\ reconf'[Seed].step = "committing"
    BY <1>1, <1>2, <1>8 DEF SetConfigurationReplicate
  <2>2. /\ entries \in Seq(Entry) /\ entry.body.type = "CONFIGURATION"
    <3>1. c.prev \in SUBSET Server /\ reconf[s].members \in SUBSET Server
      BY <1>1, RaftFields, ConfigurationType
    <3>2. entries \in Seq(Entry)
      BY <1>1, <3>1, ConfigurationEntryType
    <3> QED BY <3>2 DEF ConfigurationEntry
  <2> HIDE DEF entry
  <2>3. Configurations(entries) # {}
    <3>1. 1 \in DOMAIN entries /\ entries[1] = entry
      OBVIOUS
    <3> HIDE DEF entries
    <3>2. 1 \in Configurations(entries)
      BY <2>2, <3>1 DEF Configurations
    <3> QED BY <3>2
  <2> HIDE DEF entries
  <2>4. r2.staging = {}
    BY <1>1, <2>2, <2>3, AppendedKeeps
  <2> HIDE DEF r2
  <2> QED BY <2>1, <2>4 DEF StagingOwned
<1>9. CASE SetConfigurationReturn(s)
  <2>1. /\ raft'[Seed] = r /\ reconf[Seed].step = "committing"
        /\ reconf'[Seed] = NoReconf
    BY <1>1, <1>2, <1>9 DEF SetConfigurationReturn
  <2>2. r.staging = {}
    BY <1>3, <2>1
  <2> QED BY <1>4, <2>1, <2>2 DEF StagingOwned
<1> QED BY <1>5, <1>6, <1>7, <1>8, <1>9

\* Every step, a stutter included, leaves a STAGING state with its call.
LEMMA StagingNext ==
  ASSUME StagingOwned, [Next]_vars
  PROVE  StagingOwned'
<1>1. OneSeedInv' /\ OneSeedInv /\ SeedWork
  BY SeedNext, SeedParts DEF StagingOwned
<1>2. Leads(raft[Seed], raft'[Seed])
  BY SeedNext DEF AbstractStep, StagingOwned
<1>3. ASSUME StagingKept, reconf' = reconf
      PROVE  StagingOwned'
  <2>1. reconf[Seed].step = "staging" =>
          /\ raft[Seed].state = "LEADER"
          /\ reconf[Seed].term = raft[Seed].currentTerm
    BY <1>1 DEF StagingOwned, SeedWork
  <2>2. reconf[Seed].step = "staging" =>
          reconf[Seed].term = raft'[Seed].currentTerm
    BY <1>2, <2>1 DEF Leads
  <2>3. raft'[Seed].staging # {} =>
          /\ reconf[Seed].step = "staging"
          /\ reconf[Seed].members = raft'[Seed].staging
    BY <1>3 DEF StagingOwned, StagingKept
  <2> QED BY <1>1, <1>3, <2>2, <2>3 DEF StagingOwned
<1>4. CASE UNCHANGED vars
  BY <1>3, <1>4 DEF vars, StagingKept
<1>5. CASE Next
  <2> PICK s \in Server :
        \/ Restart(s) \/ BootstrapConfiguration(s) \/ Initialize(s)
        \/ StartNewElection(s) \/ TakeSync(s) \/ SyncDone(s)
        \/ \E v \in Value : ClientChange(s, v)
        \/ Replicate(s)
        \/ \E members \in Views : SetConfiguration(s, members)
        \/ SetConfigurationDeposed(s) \/ SetConfigurationTimeout(s)
        \/ SetConfigurationReplicate(s) \/ SetConfigurationReturn(s)
        \/ \E p \in Server : \/ RequestVote(s, p) \/ HandleRequestVote(p, s)
                             \/ AppendEntries(s, p) \/ HandleAppendEntries(p, s)
                             \/ HandleAppendEntriesResponse(s, p)
    BY <1>5, Zenon DEF Next
  <2>1. /\ ~Restart(s)
        /\ \A p \in Server : ~RequestVote(s, p) /\ ~HandleRequestVote(p, s)
    BY <1>1, SeedRestart, SeedRequestVote, SeedHandleRequestVote
  <2>2. CASE BootstrapConfiguration(s) \/ Initialize(s) \/ StartNewElection(s)
    <3>1. reconf' = reconf
      BY <2>2 DEF BootstrapConfiguration, Initialize, StartNewElection
    <3> QED BY <1>1, <1>3, <2>2, <3>1, StartStages
  <2>3. CASE \/ TakeSync(s) \/ SyncDone(s) \/ Replicate(s)
             \/ \E p \in Server : \/ AppendEntries(s, p)
                                  \/ HandleAppendEntries(p, s)
                                  \/ HandleAppendEntriesResponse(s, p)
    <3>1. reconf' = reconf
      BY <2>3, Zenon DEF TakeSync, SyncDone, Replicate, AppendEntries,
                  HandleAppendEntries, HandleAppendEntriesResponse
    <3> QED BY <1>1, <1>3, <2>3, <3>1, LeaderStages
  <2>4. CASE \E v \in Value : ClientChange(s, v)
    <3>1. raft' = raft /\ reconf' = reconf
      BY <2>4 DEF ClientChange
    <3> QED BY <1>3, <3>1 DEF StagingKept
  <2>5. CASE \/ \E members \in Views : SetConfiguration(s, members)
             \/ SetConfigurationDeposed(s) \/ SetConfigurationTimeout(s)
             \/ SetConfigurationReplicate(s) \/ SetConfigurationReturn(s)
    BY <1>1, <1>2, <2>5, CallStages
  <2> QED BY <2>1, <2>2, <2>3, <2>4, <2>5
<1> QED BY <1>4, <1>5

\* A setConfiguration that gives up resets the staging servers, and the term in
\* which it might leave them behind never comes: the leader's next change is not
\* blocked by a STAGING state that nobody works on.
THEOREM StagingIsOwned == Spec => []StagingHasOwner
<1>1. Init => StagingOwned
  <2> SUFFICES ASSUME Init PROVE StagingOwned
    OBVIOUS
  <2>1. raft[Seed] = NewRaft({}) /\ reconf[Seed] = NoReconf
    BY SeedAssumption, Zenon DEF Init
  <2>2. raft[Seed].staging = {} /\ reconf[Seed].step = "none"
    BY <2>1 DEF NewRaft, NoReconf
  <2> QED BY <2>2, SeedInit DEF StagingOwned
<1>2. StagingOwned /\ [Next]_vars => StagingOwned'
  BY StagingNext
<1>3. StagingOwned => StagingHasOwner
  <2> SUFFICES ASSUME StagingOwned, NEW s \in Server,
                      raft[s].state = "LEADER", raft[s].staging # {}
               PROVE  reconf[s].step = "staging"
                        /\ reconf[s].members = raft[s].staging
    BY DEF StagingHasOwner
  <2>1. s = Seed
    BY OnlySeedLeads DEF StagingOwned
  <2> QED BY <2>1 DEF StagingOwned
<1> QED BY <1>1, <1>2, <1>3, PTL DEF Spec
-----------------------------------------------------------------------------
(* What the file systems of the others have had.                            *)

\* The loop over two sequences of entries makes the changes of the first and
\* then those of the second.
LEMMA ChangesOfConcat ==
  ASSUME NEW log \in Seq(Entry), NEW new \in Seq(Entry)
  PROVE  Changes(log \o new) = Changes(log) \o Changes(new)
<1> DEFINE k == Len(log)
           n == Len(new)
<1>1. /\ k \in Nat /\ n \in Nat /\ log \o new \in Seq(Entry)
      /\ Len(log \o new) = k + n
      /\ \A i \in 1 .. k + n :
           (log \o new)[i] = IF i <= k THEN log[i] ELSE new[i - k]
  BY ConcatProperties, LenProperties
<1>2. PICK first : MadeUpTo(first, log, k) /\ Changes(log) = first[k]
  BY LoopEnds
<1>3. PICK second : MadeUpTo(second, new, n) /\ Changes(new) = second[n]
  BY LoopEnds
<1>4. PICK both : MadeUpTo(both, log \o new, k + n) /\ Changes(log \o new) = both[k + n]
  BY <1>1, LoopEnds
<1> HIDE DEF k, n
<1>5. /\ first[0] = <<>> /\ second[0] = <<>> /\ both[0] = <<>>
      /\ \A i \in 1 .. k : first[i] = IF log[i].body.type = "DATA"
                                     THEN Append(first[i - 1], log[i].body.data)
                                     ELSE first[i - 1]
      /\ \A i \in 1 .. n : second[i] = IF new[i].body.type = "DATA"
                                      THEN Append(second[i - 1], new[i].body.data)
                                      ELSE second[i - 1]
      /\ \A i \in 1 .. k + n :
           both[i] = IF (log \o new)[i].body.type = "DATA"
                     THEN Append(both[i - 1], (log \o new)[i].body.data)
                     ELSE both[i - 1]
  <2>1. k + n \in Nat
    BY <1>1
  <2> QED BY <1>1, <1>2, <1>3, <1>4, <2>1, LoopGoesOn
<1>6. /\ \A i \in 0 .. k : first[i] \in Seq(Value)
      /\ \A i \in 0 .. n : second[i] \in Seq(Value)
  BY <1>2, <1>3, LoopMakesValues DEF k, n
<1>7. \A i \in 0 .. k : both[i] = first[i]
  <2> DEFINE other == {i \in 0 .. k : both[i] # first[i]}
  <2> SUFFICES ASSUME other # {} PROVE FALSE
    OBVIOUS
  <2>1. PICK i \in other : \A j \in other : i <= j
    <3>1. other \in SUBSET Nat
      BY <1>1
    <3> HIDE DEF other
    <3> QED BY <3>1, SmallestExists
  <2>2. i \in 0 .. k /\ both[i] # first[i] /\ i # 0
    BY <1>5, <2>1
  <2>3. i - 1 \in 0 .. k /\ ~(i <= i - 1) /\ i \in 1 .. k /\ i \in 1 .. k + n
    BY <1>1, <2>2
  <2>4. i - 1 \notin other
    <3> HIDE DEF other
    <3> QED BY <2>1, <2>3
  <2>5. both[i - 1] = first[i - 1] /\ (log \o new)[i] = log[i]
    <3>1. i <= k
      BY <1>1, <2>2
    <3> QED BY <1>1, <2>3, <2>4, <3>1
  <2> HIDE DEF other
  <2> QED BY <1>5, <2>2, <2>3, <2>5
<1>8. \A i \in 0 .. n : both[k + i] = first[k] \o second[i]
  <2> DEFINE other == {i \in 0 .. n : both[k + i] # first[k] \o second[i]}
  <2>0. k \in 0 .. k /\ first[k] \in Seq(Value)
    BY <1>1, <1>6
  <2> SUFFICES ASSUME other # {} PROVE FALSE
    OBVIOUS
  <2>1. PICK i \in other : \A j \in other : i <= j
    <3>1. \A j \in 0 .. n : j \in Nat
      BY <1>1
    <3>2. other \in SUBSET Nat
      BY <3>1, Zenon
    <3> HIDE DEF other
    <3> QED BY <3>2, SmallestExists
  <2>2. i \in 0 .. n /\ both[k + i] # first[k] \o second[i]
    BY <2>1
  <2>3. i # 0
    <3>1. k + 0 = k
      BY <1>1
    <3>2. first[k] \o <<>> = first[k]
      BY <2>0, ConcatEmptySeq
    <3> QED BY <1>5, <1>7, <2>0, <2>2, <3>1, <3>2
  <2>4. /\ i - 1 \in 0 .. n /\ ~(i <= i - 1) /\ i \in 1 .. n
        /\ k + i \in 1 .. k + n /\ (k + i) - 1 = k + (i - 1)
        /\ ~(k + i <= k) /\ (k + i) - k = i
    BY <1>1, <2>2, <2>3
  <2>5. i - 1 \notin other
    <3> HIDE DEF other
    <3> QED BY <2>1, <2>4
  <2>6. both[k + (i - 1)] = first[k] \o second[i - 1]
    BY <2>4, <2>5
  <2> HIDE DEF other
  <2>7. (log \o new)[k + i] = new[i]
    BY <1>1, <2>4
  <2>8. both[k + i] = IF new[i].body.type = "DATA"
                      THEN Append(first[k] \o second[i - 1], new[i].body.data)
                      ELSE first[k] \o second[i - 1]
    BY <1>5, <2>4, <2>6, <2>7
  <2>9. second[i] = IF new[i].body.type = "DATA"
                    THEN Append(second[i - 1], new[i].body.data)
                    ELSE second[i - 1]
    BY <1>5, <2>4
  <2>10. ASSUME NEW v \in Value
         PROVE  Append(first[k] \o second[i - 1], v)
                  = first[k] \o Append(second[i - 1], v)
    <3>1. second[i - 1] \in Seq(Value) /\ <<v>> \in Seq(Value)
      BY <1>6, <2>4
    <3>2. first[k] \o second[i - 1] \in Seq(Value)
      BY <2>0, <3>1, ConcatProperties
    <3>3. /\ Append(first[k] \o second[i - 1], v) = (first[k] \o second[i - 1]) \o <<v>>
          /\ Append(second[i - 1], v) = second[i - 1] \o <<v>>
      BY <3>1, <3>2, AppendIsConcat
    <3>4. ASSUME NEW a \in Seq(Value), NEW b \in Seq(Value), NEW c \in Seq(Value)
          PROVE  (a \o b) \o c = a \o (b \o c)
      BY ConcatAssociative, SMTT(30)
    <3>5. (first[k] \o second[i - 1]) \o <<v>> = first[k] \o (second[i - 1] \o <<v>>)
      BY <2>0, <3>1, <3>4, Zenon
    <3> QED BY <3>3, <3>5, Zenon
  <2>11. new[i].body.type = "DATA" => new[i].body.data \in Value
    <3>1. new[i] \in Entry
      BY <2>4, ElementOfSeq DEF n
    <3>2. new[i].body \in Body
      BY <3>1 DEF Entry
    <3> QED BY <3>2 DEF Body
  <2> QED BY <2>2, <2>8, <2>9, <2>10, <2>11
<1>9. n \in 0 .. n
  BY <1>1
<1> QED BY <1>2, <1>3, <1>4, <1>8, <1>9

\* A step that leaves the logs and the file systems of the others alone.
OthersIdle ==
  \A p \in Server \ {Seed} : fs'[p] = fs[p] /\ raft'[p].log = raft[p].log

\* Only the handler of a request touches the log or the file system of a server
\* that is not the seed.
LEMMA OnlyRequestsChange ==
  ASSUME OneSeedInv, FilesTypeOK, NEW s \in Server,
         \/ Restart(s) \/ BootstrapConfiguration(s) \/ Initialize(s)
         \/ StartNewElection(s) \/ TakeSync(s) \/ SyncDone(s)
         \/ \E v \in Value : ClientChange(s, v)
         \/ Replicate(s)
         \/ \E members \in Views : SetConfiguration(s, members)
         \/ SetConfigurationDeposed(s) \/ SetConfigurationTimeout(s)
         \/ SetConfigurationReplicate(s) \/ SetConfigurationReturn(s)
         \/ \E p \in Server : \/ RequestVote(s, p) \/ HandleRequestVote(p, s)
                              \/ AppendEntries(s, p)
                              \/ HandleAppendEntriesResponse(s, p)
  PROVE  OthersIdle
<1>1. raft \in [Server -> Raft] /\ raft[s] \in Raft /\ Seed \in Server
  BY SeedAssumption DEF OneSeedInv, NothingInFlightOvershoots, ServersTypeOK
<1>2. ASSUME s = Seed, UNCHANGED fs, NEW r2, raft' = [raft EXCEPT ![s] = r2]
      PROVE  OthersIdle
  BY <1>1, <1>2 DEF OthersIdle
<1>3. ASSUME UNCHANGED fs, UNCHANGED raft
      PROVE  OthersIdle
  BY <1>3 DEF OthersIdle
<1>4. CASE Restart(s)
  BY <1>4, SeedRestart
<1>5. CASE BootstrapConfiguration(s)
  BY <1>2, <1>5, SeedAssumption DEF BootstrapConfiguration
<1>6. CASE Initialize(s)
  <2> PICK m \in Files(raft[s].stored \cup {[term |-> raft[s].currentTerm,
                                             vote |-> raft[s].votedFor]}) :
         raft' = [raft EXCEPT ![s] = SteppedDown(
                    [raft[s] EXCEPT !.currentTerm = m.term, !.votedFor = m.vote,
                                    !.stored = @ \cup {m}, !.phase = "running"], m.term)]
    BY <1>6 DEF Initialize
  <2> DEFINE ready == [raft[s] EXCEPT !.currentTerm = m.term, !.votedFor = m.vote,
                                      !.stored = @ \cup {m}, !.phase = "running"]
  <2>1. ready.log = raft[s].log /\ DOMAIN ready = DOMAIN raft[s]
    BY <1>1 DEF Raft
  <2>2. raft' = [raft EXCEPT ![s] = SteppedDown(ready, m.term)] /\ UNCHANGED fs
    BY <1>6 DEF Initialize
  <2>3. DOMAIN raft[s] = DOMAIN NewRaft({})
    BY <1>1 DEF Raft, NewRaft
  <2> HIDE DEF ready
  <2>4. SteppedDown(ready, m.term).log = ready.log
    BY <2>1, <2>3 DEF SteppedDown, NewRaft
  <2> QED BY <1>1, <2>1, <2>2, <2>4 DEF OthersIdle
<1>7. CASE StartNewElection(s)
  BY <1>2, <1>7, SeedAssumption DEF StartNewElection
<1>8. CASE TakeSync(s)
  <2>1. s = Seed
    BY <1>8, OnlySeedLeads DEF TakeSync
  <2> QED BY <1>1, <1>8, <2>1 DEF TakeSync, OthersIdle
<1>9. CASE SyncDone(s)
  <2>1. CASE s = Seed
    BY <1>2, <1>9, <2>1 DEF SyncDone
  <2>2. CASE s # Seed
    <3>1. raft[s].state = "FOLLOWER"
      BY <2>2, FollowerParts DEF FollowerObject
    <3>2. SyncOver(raft[s]).state = "FOLLOWER" /\ SyncOver(raft[s]).log = raft[s].log
      BY <1>1, <3>1 DEF SyncOver, Raft
    <3>3. raft' = [raft EXCEPT ![s] = SyncOver(raft[s])] /\ UNCHANGED fs
      BY <1>9, <3>2 DEF SyncDone
    <3> QED BY <1>1, <3>2, <3>3 DEF OthersIdle
  <2> QED BY <2>1, <2>2
<1>10. CASE \E v \in Value : ClientChange(s, v)
  BY <1>10, SeedAssumption DEF ClientChange, FilesTypeOK, OthersIdle
<1>11. CASE Replicate(s)
  <2>1. s = Seed
    BY <1>11, OnlySeedLeads DEF Replicate
  <2> QED BY <1>1, <1>11, <2>1 DEF Replicate, FilesTypeOK, OthersIdle
<1>12. CASE \E members \in Views : SetConfiguration(s, members)
  <2>1. s = Seed
    BY <1>12, OnlySeedLeads DEF SetConfiguration
  <2> QED BY <1>1, <1>12, <2>1 DEF SetConfiguration, OthersIdle
<1>13. CASE SetConfigurationDeposed(s) \/ SetConfigurationReturn(s)
  BY <1>3, <1>13, Zenon DEF SetConfigurationDeposed, SetConfigurationReturn
<1>14. CASE SetConfigurationTimeout(s)
  <2>1. s = Seed
    BY <1>14, OnlySeedLeads DEF SetConfigurationTimeout
  <2> QED BY <1>1, <1>14, <2>1 DEF SetConfigurationTimeout, OthersIdle
<1>15. CASE SetConfigurationReplicate(s)
  <2>1. s = Seed
    BY <1>15, OnlySeedLeads DEF SetConfigurationReplicate
  <2> QED BY <1>1, <1>15, <2>1 DEF SetConfigurationReplicate, OthersIdle
<1>16. CASE \E p \in Server : RequestVote(s, p) \/ HandleRequestVote(p, s)
  BY <1>16, SeedRequestVote, SeedHandleRequestVote
<1>17. CASE \E p \in Server : AppendEntries(s, p)
  <2> PICK p \in Server : AppendEntries(s, p)
    BY <1>17
  <2>1. s = Seed /\ UNCHANGED fs
    BY OnlySeedLeads DEF AppendEntries
  <2>2. UNCHANGED raft \/ raft' = [raft EXCEPT ![s] = Fail(raft[s], "prevLogIndex")]
    BY Zenon DEF AppendEntries
  <2> QED BY <1>2, <1>3, <2>1, <2>2
<1>18. CASE \E p \in Server : HandleAppendEntriesResponse(s, p)
  <2> PICK p \in Server : HandleAppendEntriesResponse(s, p)
    BY <1>18
  <2>1. rpc[s][p].kind # "idle" /\ UNCHANGED fs
    BY DEF HandleAppendEntriesResponse
  <2>2. s = Seed
    BY <2>1, OnlySeedCalls
  <2> QED BY <1>2, <2>1, <2>2 DEF HandleAppendEntriesResponse
<1> QED BY <1>4, <1>5, <1>6, <1>7, <1>8, <1>9, <1>10, <1>11, <1>12, <1>13, <1>14,
           <1>15, <1>16, <1>17, <1>18

\* The handler of a request makes the changes of the entries it appends.
LEMMA RequestsFollow ==
  ASSUME FilesFollow, FilesTypeOK, NEW p \in Server, NEW s \in Server,
         HandleAppendEntries(p, s), NEW q \in Server \ {Seed}
  PROVE  fs'[q] = Changes(raft'[q].log)
<1> DEFINE r == raft[p]
           m == rpc[Seed][p]
           result == Received(r, p, Seed, m)
<1>1. m.kind = "append" /\ s = Seed /\ p \in Server \ {Seed}
  <2>1. rpc[s][p].kind = "append"
    BY DEF HandleAppendEntries
  <2> QED BY <2>1, OnlySeedCalls DEF FilesFollow
<1>2. /\ raft' = [raft EXCEPT ![p] = result.r]
      /\ fs' = [fs EXCEPT ![p] = @ \o result.changes]
  BY <1>1 DEF HandleAppendEntries
<1>3. /\ r \in Raft /\ IndexInv(r) /\ FollowerObject(r, raft[Seed])
      /\ m \in Message /\ CallInv(raft[Seed], p, m)
      /\ SeedCall(m, raft[Seed], Len(r.log))
      /\ Covered(m) <= Len(raft[Seed].log) /\ raft[Seed].state = "LEADER"
  BY <1>1, FollowerParts DEF FilesFollow
<1>4. raft[Seed] \in Raft /\ raft \in [Server -> Raft]
  BY SeedParts DEF FilesFollow, OneSeedInv, NothingInFlightOvershoots, ServersTypeOK
<1> HIDE DEF r, m
<1>5. PICK new \in Seq(Entry) : /\ result.r.log = r.log \o new
                                /\ result.changes = Changes(new)
  <2>1. MakesWhatItAppends(r.log, result)
    BY <1>1, <1>3, <1>4, ReceivedAtFollower
  <2> QED BY <2>1, Zenon DEF MakesWhatItAppends
<1> HIDE DEF result
<1>6. CASE q = p
  <2>1. raft'[q].log = r.log \o new /\ fs'[q] = fs[q] \o Changes(new)
    BY <1>1, <1>2, <1>4, <1>5, <1>6 DEF FilesTypeOK
  <2>2. fs[q] = Changes(r.log) /\ r.log \in Seq(Entry)
    BY <1>3, <1>6, RaftFields DEF FilesFollow, r
  <2> QED BY <2>1, <2>2, ChangesOfConcat
<1>7. CASE q # p
  <2>1. raft'[q] = raft[q] /\ fs'[q] = fs[q]
    BY <1>2, <1>4, <1>7 DEF FilesTypeOK
  <2> QED BY <2>1 DEF FilesFollow
<1> QED BY <1>6, <1>7

\* The invariant behind ReplicaFollowsLog: each server but the seed has made the
\* changes of its log, whatever requests were repeated, refused or overlapped.
THEOREM FilesFollowLogs == Spec => []FilesFollow
<1>1. Init => FilesFollow
  <2>1. ASSUME Init PROVE \A p \in Server : fs[p] = Changes(raft[p].log)
    <3>1. \A p \in Server : fs[p] = <<>> /\ raft[p].log = <<>>
      BY <2>1 DEF Init, NewRaft
    <3> QED BY <3>1, NoChanges
  <2> QED BY <2>1, SeedInit DEF FilesFollow
<1>2. FilesTypeOK /\ FilesFollow /\ [Next]_vars => FilesFollow'
  <2> SUFFICES ASSUME FilesTypeOK, FilesFollow, [Next]_vars PROVE FilesFollow'
    OBVIOUS
  <2>1. OneSeedInv /\ OneSeedInv'
    BY SeedNext DEF FilesFollow
  <2>2. \A q \in Server \ {Seed} : fs'[q] = Changes(raft'[q].log)
    <3>1. ASSUME OthersIdle PROVE \A q \in Server \ {Seed} : fs'[q] = Changes(raft'[q].log)
      BY <3>1 DEF OthersIdle, FilesFollow
    <3>2. CASE UNCHANGED vars
      BY <3>1, <3>2 DEF vars, OthersIdle
    <3>3. CASE \E s, p \in Server : HandleAppendEntries(p, s)
      BY <3>3, RequestsFollow
    <3>4. CASE Next /\ ~\E s, p \in Server : HandleAppendEntries(p, s)
      <4>1. OthersIdle
        BY <2>1, <3>4, OnlyRequestsChange, Zenon DEF Next
      <4> QED BY <3>1, <4>1
    <3> QED BY <3>2, <3>3, <3>4
  <2> QED BY <2>1, <2>2 DEF FilesFollow
<1>3. TypeOK => FilesTypeOK
  BY DEF TypeOK, FilesTypeOK
<1> QED BY TypesAreKept, <1>1, <1>2, <1>3, PTL DEF Spec

\* The file system of a peer that the leader knows has had the changes of the
\* leader's log up to what the peer has stored: in order, none missed, none twice.
THEOREM ReplicasFollowLog == Spec => []ReplicaFollowsLog
<1>1. FilesFollow => ReplicaFollowsLog
  <2> SUFFICES ASSUME FilesFollow, NEW s \in Server, raft[s].state = "LEADER",
                      NEW p \in raft[s].known \ Writers
               PROVE  fs[p] = Changes(SubSeq(raft[s].log, 1, Len(raft[p].log)))
    BY DEF ReplicaFollowsLog
  <2>1. s = Seed /\ Writers = {Seed}
    BY OnlySeedLeads, SeedAssumption DEF FilesFollow
  <2>2. raft[Seed] \in Raft
    BY SeedParts DEF FilesFollow
  <2>3. p \in Server \ {Seed}
    BY <2>1, <2>2, RaftFields
  <2>4. /\ raft[p] \in Raft
        /\ SamePrefix(raft[p].log, raft[Seed].log, Len(raft[p].log))
    BY <2>3, FollowerParts DEF FilesFollow, FollowerObject
  <2> DEFINE log == raft[p].log
             led == raft[Seed].log
             part == SubSeq(led, 1, Len(log))
  <2>5. log \in Seq(Entry) /\ Len(log) \in Nat /\ led \in Seq(Entry) /\ Len(led) \in Nat
    BY <2>2, <2>4, RaftFields
  <2>6. Len(log) <= Len(led) /\ \A i \in 1 .. Len(log) : log[i] = led[i]
    BY <2>4 DEF SamePrefix
  <2> HIDE DEF log, led
  <2>7. \A i \in 1 .. Len(log) : led[i] \in Entry
    <3>1. \A i \in 1 .. Len(led) : led[i] \in Entry
      BY <2>5, ElementOfSeq
    <3> QED BY <2>5, <2>6, <3>1
  <2>8. /\ part \in Seq(Entry) /\ Len(part) = Len(log)
        /\ \A i \in 1 .. Len(log) : part[i] = led[i]
    <3>1. /\ part \in Seq(Entry)
          /\ Len(part) = IF 1 <= Len(log) THEN Len(log) - 1 + 1 ELSE 0
          /\ \A i \in 1 .. Len(log) - 1 + 1 : part[i] = led[1 + i - 1]
      BY <2>5, <2>7, SubSeqProperties
    <3> HIDE DEF part
    <3>2. Len(part) = Len(log)
      BY <2>5, <3>1
    <3>3. \A i \in 1 .. Len(log) : part[i] = led[i]
      BY <2>5, <3>1
    <3> QED BY <3>1, <3>2, <3>3
  <2>9. part = log
    <3> HIDE DEF part
    <3> QED BY <2>5, <2>6, <2>8, SeqEqual
  <2>10. raft[s] = raft[Seed] /\ fs[p] = Changes(raft[p].log)
    BY <2>1, <2>3 DEF FilesFollow
  <2>11. SubSeq(raft[Seed].log, 1, Len(raft[p].log)) = raft[p].log
    BY <2>9, Zenon DEF part, log, led
  <2> QED BY <2>10, <2>11, Zenon
<1> QED BY FilesFollowLogs, <1>1, PTL
=============================================================================
