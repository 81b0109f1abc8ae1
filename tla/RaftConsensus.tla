---------------------------- MODULE RaftConsensus ----------------------------
(***************************************************************************)
(* The replicated log of stolaxy: src/raft/raftconsensus.py with the peer  *)
(* and configuration objects of server.py and configuration.py, the        *)
(* in-memory log of memorylog.py, the reconfiguration loop of              *)
(* raftcluster.py, and the NFS file handle that feeds it (ReplicaHandle of *)
(* nfs4state.py).                                                          *)
(*                                                                         *)
(* Every critical section of RaftConsensus.mutex is one action; a thread   *)
(* that releases the mutex (an RPC in flight, the disk thread, a           *)
(* setConfiguration that waits) is split where it releases it.  An         *)
(* exception that escapes a critical section leaves the mutex held for     *)
(* ever: "failed" names it, and the server takes no further step.          *)
(***************************************************************************)
EXTENDS Integers, Sequences, FiniteSets

CONSTANTS Server,       \* the stolaxy servers
          None,         \* the 0 of votedFor and leaderId, and "no value"
          Value,        \* the file-system changes clients make, each made once
          Bootstraps,   \* servers that may be alone in members() when they join
          TimesOut,     \* servers whose election timer may expire
          Writers,      \* servers that NFS clients may be mounted on
          Views,        \* the values cluster.members() may have
          MaxEntries,   \* MAX_ENTRIES, entries in one AppendEntries request
          MaxTerm,      \* bound: no election is started in this term
          MaxLog,       \* bound: no reconfiguration once the log is this long
          MaxRestarts   \* bound: process restarts

ASSUME ConstantsAssumption ==
  /\ IsFiniteSet(Server)
  /\ None \notin Server /\ None \notin Value
  /\ Bootstraps \subseteq Server /\ TimesOut \subseteq Server
  /\ Writers \subseteq Server /\ Views \subseteq SUBSET Server
  /\ MaxEntries \in Nat \ {0}
  /\ MaxTerm \in Nat /\ MaxLog \in Nat /\ MaxRestarts \in Nat

VARIABLES raft,     \* the RaftConsensus object of each server
          rpc,      \* rpc[s][p]: the call that s's thread for peer p is in
          reconf,   \* the setConfiguration call of each server, if any
          fs,       \* the changes made to each server's exported file system
          pending,  \* a change whose replicate() is about to take the mutex
          restarts  \* how often a process was restarted
vars == <<raft, rpc, reconf, fs, pending, restarts>>
-----------------------------------------------------------------------------
(* Log entries, RPCs and the state of one server. *)

Body == [type : {"CONFIGURATION"}, prev : SUBSET Server, next : SUBSET Server]
          \cup [type : {"DATA"}, data : Value] \cup [type : {"NOOP"}]
Entry == [term : Nat, body : Body]
Metadata == [term : Nat, vote : Server \cup {None}]

Message ==
  [kind : {"idle", "unanswered"}]
    \cup [kind : {"append"}, term : Nat, prevIndex : Nat, prevTerm : Nat,
          entries : Seq(Entry), commit : Nat]
    \cup [kind : {"appended"}, term : Nat, success : BOOLEAN, lastIndex : Nat,
          covered : Nat]
    \cup [kind : {"vote"}, term : Nat, lastTerm : Nat, lastIndex : Nat]
Idle == [kind |-> "idle"]
Unanswered == [kind |-> "unanswered"]   \* recv() blocks for ever

\* Where an exception can escape with the mutex held: an assertion, an
\* undefined name or attribute, a dict that changes under its iterator.
Failures == {"bootstrapConfiguration", "beginLeadership", "quorumAll",
             "getLastLogTerm", "prevLogIndex", "commitIndex", "descriptions",
             "leaderId", "response.term"}

Raft ==
  [phase : {"new", "bootstrapped", "running"},
   failed : Failures \cup {"nothing"},
   rpcAlive : BOOLEAN, currentTerm : Nat, stored : SUBSET Metadata,
   state : {"FOLLOWER", "CANDIDATE", "LEADER"},
   votedFor : Server \cup {None}, leaderId : Server \cup {None},
   withhold : {"no", "days", "max"},
   log : Seq(Entry), commitIndex : Nat,
   lastSynced : Nat, logSyncQueued : BOOLEAN,
   syncing : BOOLEAN, syncTerm : Nat, syncIndex : Nat,
   staging : SUBSET Server, known : SUBSET Server, caughtUp : SUBSET Server,
   nextIndex : [Server -> Nat \ {0}], lastAgree : [Server -> Nat],
   goal : [Server -> Nat]]

\* RaftConsensus.__init__: what a fresh process knows, with the metadata file
\* an earlier process may have left in /tmp/raft.md.
NewRaft(stored) ==
  [phase |-> "new", failed |-> "nothing", rpcAlive |-> TRUE, currentTerm |-> 0,
   stored |-> stored, state |-> "FOLLOWER", votedFor |-> None,
   leaderId |-> None, withhold |-> "no", log |-> <<>>, commitIndex |-> 0,
   lastSynced |-> 0, logSyncQueued |-> FALSE,
   syncing |-> FALSE, syncTerm |-> 0, syncIndex |-> 0,
   staging |-> {}, known |-> {}, caughtUp |-> {},
   nextIndex |-> [p \in Server |-> 1], lastAgree |-> [p \in Server |-> 0],
   goal |-> [p \in Server |-> 0]]

NoReconf == [step |-> "none", term |-> 0, members |-> {}, index |-> 0]

Init ==
  /\ raft = [s \in Server |-> NewRaft({})]
  /\ rpc = [s \in Server |-> [p \in Server |-> Idle]]
  /\ reconf = [s \in Server |-> NoReconf]
  /\ fs = [s \in Server |-> <<>>]
  /\ pending = [s \in Server |-> None]
  /\ restarts = 0

\* The mutex is free: no exception has escaped a critical section.
Up(s) == raft[s].failed = "nothing"
Fail(r, what) == [r EXCEPT !.failed = what]
-----------------------------------------------------------------------------
(* Configurations.  ConfigurationManager keeps the CONFIGURATION entries of *)
(* the log in a dict and ends on the one the dict iterates last, which for  *)
(* indices below the size of a small dict (8) is the newest.                *)

Configurations(log) ==
  {i \in DOMAIN log : log[i].body.type = "CONFIGURATION"}

ConfigId(log) ==
  IF Configurations(log) = {} THEN 0
  ELSE CHOOSE i \in Configurations(log) :
         \A j \in Configurations(log) : j <= i

\* A BLANK configuration has no servers; a stable one has no next servers.
Configuration(log) ==
  IF Configurations(log) = {}
  THEN [type |-> "CONFIGURATION", prev |-> {}, next |-> {}]
  ELSE log[ConfigId(log)].body

Stable(r) ==
  /\ Configurations(r.log) # {}
  /\ Configuration(r.log).next = {}
  /\ r.staging = {}

Transitional(r) == Configuration(r.log).next # {}

\* Faulty variant of WithPeers: the next entry to send is past the log's end.
WithPeersAhead(r, s, members) ==
  LET new == members \ (r.known \cup {s})
  IN [r EXCEPT
        !.known = @ \cup new,
        !.nextIndex = [p \in Server |-> IF p \in new THEN Len(r.log) + 2
                                        ELSE @[p]]]
\* getServer: a peer object, with its thread, for each server not yet known.
WithPeers(r, s, members) ==
  LET new == members \ (r.known \cup {s})
  IN [r EXCEPT
        !.known = @ \cup new,
        !.nextIndex = [p \in Server |-> IF p \in new THEN Len(r.log) + 1
                                        ELSE @[p]],
        !.goal = [p \in Server |-> IF p \in new THEN Len(r.log) ELSE @[p]]]

\* Faulty variant of IsMajority: half the servers will do.
IsHalf(Q, S) == Cardinality(Q) >= (Cardinality(S) \div 2)
\* The servers in Q are a majority of S.
IsMajority(Q, S) == Cardinality(Q) >= (Cardinality(S) \div 2) + 1

\* quorumAll: an empty list of servers is a quorum.
QuorumAll(S, Q) == S = {} \/ IsMajority(S \cap Q, S)

\* quorumMin: the largest index that a majority of S has reached.
AtLeast(S, index, n) == {p \in S : index[p] >= n}
SimpleQuorumMin(S, index) ==
  IF S = {} THEN 0
  ELSE LET reached == {n \in {index[p] : p \in S} :
                         IsMajority(AtLeast(S, index, n), S)}
       IN CHOOSE n \in reached : \A k \in reached : k <= n

QuorumMin(r, index) ==
  LET c == Configuration(r.log)
      old == SimpleQuorumMin(c.prev, index)
      new == SimpleQuorumMin(c.next, index)
  IN IF Transitional(r) /\ new < old THEN new ELSE old
-----------------------------------------------------------------------------
(* What the methods of RaftConsensus do to the object, the mutex held. *)

\* stepDown; the call waits for the disk thread, whose sync never blocks.
SteppedDown(r, term) ==
  LET newer == r.currentTerm < term
  IN [r EXCEPT
        !.currentTerm = term,
        !.leaderId = IF newer THEN None ELSE @,
        !.votedFor = IF newer THEN None ELSE @,
        !.stored = IF newer THEN @ \cup {[term |-> term, vote |-> None]} ELSE @,
        !.state = "FOLLOWER",
        !.withhold = IF @ = "max" THEN "no" ELSE @,
        !.logSyncQueued = FALSE]

\* append: only a leader queues a sync; a CONFIGURATION takes effect at once.
Appended(r, s, entries) ==
  LET members == UNION {entries[i].body.prev \cup entries[i].body.next :
                          i \in Configurations(entries)}
      longer == [r EXCEPT
                   !.log = @ \o entries,
                   !.logSyncQueued = @ \/ r.state = "LEADER",
                   !.staging = IF Configurations(entries) = {} THEN @ ELSE {}]
  IN WithPeers(longer, s, members)

\* The loop over the entries that calls self.callback with each change, in order.
Changes(entries) ==
  LET made[n \in 0 .. Len(entries)] ==
        IF n = 0 THEN <<>>
        ELSE IF entries[n].body.type = "DATA"
        THEN Append(made[n - 1], entries[n].body.data)
        ELSE made[n - 1]
  IN made[Len(entries)]
\* The changes made to the file system: none on a leader.
Applied(r, entries) == IF r.state = "LEADER" THEN <<>> ELSE Changes(entries)

ConfigurationEntry(r, prev, next) ==
  [term |-> r.currentTerm,
   body |-> [type |-> "CONFIGURATION", prev |-> prev, next |-> next]]

\* advanceCommittedId
AdvancedCommittedId(r, s) ==
  LET n == QuorumMin(r, [r.lastAgree EXCEPT ![s] = r.lastSynced])
      c == Configuration(r.log)
      committed == [r EXCEPT !.commitIndex = n]
  IN IF r.state # "LEADER" \/ n <= r.commitIndex
       \/ r.log[n].term # r.currentTerm
     THEN r
     ELSE IF n >= ConfigId(r.log) /\ s \notin c.prev \cup c.next
     THEN SteppedDown(committed, r.currentTerm + 1)
     ELSE IF Transitional(r)
     THEN Appended(committed, s, <<ConfigurationEntry(r, c.next, {})>>)
     ELSE committed
-----------------------------------------------------------------------------
(* Start-up and restart. *)

\* What the metadata file may hold of what was written to it: term and vote are two keys,
\* set one after the other.
Files(written) == {[term |-> m.term, vote |-> n.vote] : m, n \in written}

\* A process is killed and started again: the log is in memory only, the
\* metadata is as far as it was flushed, and a request that was already
\* delivered to the old process is lost.
Restart(s) ==
  /\ restarts < MaxRestarts
  /\ raft[s].phase # "new"
  /\ restarts' = restarts + 1
  /\ \E m \in SUBSET Files(raft[s].stored) :
       /\ Cardinality(m) <= 1
       /\ raft' = [raft EXCEPT ![s] = NewRaft(m)]
  /\ \E lost \in SUBSET {q \in Server : rpc[q][s].kind \in {"append", "vote"}} :
       rpc' = [q \in Server |-> [p \in Server |->
                 IF q = s THEN Idle
                 ELSE IF p = s /\ q \in lost THEN Unanswered
                 ELSE rpc[q][p]]]
  /\ reconf' = [reconf EXCEPT ![s] = NoReconf]
  /\ pending' = [pending EXCEPT ![s] = None]
  /\ UNCHANGED fs

\* reconfigurations: s's own JOINED arrives while members() is s alone.
BootstrapConfiguration(s) ==
  /\ Up(s) /\ s \in Bootstraps /\ raft[s].phase = "new"
  /\ LET r == raft[s]
         r1 == SteppedDown(r, 1)
         first == ConfigurationEntry(r1, {s}, {})
         r2 == [Appended(r1, s, <<first>>) EXCEPT !.phase = "bootstrapped"]
     IN raft' = [raft EXCEPT
          ![s] = IF r.currentTerm = 0 /\ r.log = <<>> THEN r2
                 ELSE Fail(r, "bootstrapConfiguration")]
  /\ UNCHANGED <<rpc, reconf, fs, pending, restarts>>

\* init: the metadata is read through a second handle on the same file, which
\* sees either nothing or some value that was flushed to it.
Initialize(s) ==
  /\ Up(s) /\ raft[s].phase # "running"
  /\ \E m \in Files(raft[s].stored \cup {[term |-> raft[s].currentTerm,
                                          vote |-> raft[s].votedFor]}) :
       LET r == [raft[s] EXCEPT !.currentTerm = m.term, !.votedFor = m.vote,
                                !.stored = @ \cup {m}, !.phase = "running"]
       IN raft' = [raft EXCEPT ![s] = SteppedDown(r, m.term)]
  /\ UNCHANGED <<rpc, reconf, fs, pending, restarts>>
-----------------------------------------------------------------------------
(* Elections. *)

\* becomeLeader, in the middle of which Peer.beginLeadership raises: no peer
\* has a snapshotFile.  Only a leader without peers survives it.
BecomeLeader(r, s) ==
  LET r1 == [r EXCEPT !.state = "LEADER", !.leaderId = s, !.withhold = "max"]
      r2 == [r1 EXCEPT !.lastSynced = Len(r.log)]
      noop == [term |-> r.currentTerm, body |-> [type |-> "NOOP"]]
  IN IF r.known # {} THEN Fail(r1, "beginLeadership")
     ELSE Appended(r2, s, <<noop>>)

\* timerThreadMain and startNewElection: the only vote there ever is is the
\* candidate's own, for no RequestVote is answered.
StartNewElection(s) ==
  /\ Up(s) /\ s \in TimesOut /\ raft[s].phase = "running"
  /\ raft[s].state # "LEADER" /\ raft[s].currentTerm < MaxTerm
  /\ LET r == raft[s]
         term == r.currentTerm + 1
         r1 == [r EXCEPT !.currentTerm = term, !.state = "CANDIDATE",
                         !.leaderId = None, !.votedFor = s,
                         !.stored = @ \cup {[term |-> term, vote |-> s]}]
     IN raft' = [raft EXCEPT
          ![s] = IF ~QuorumAll(Configuration(r.log).prev, {s}) THEN r1
                 ELSE IF Transitional(r) THEN Fail(r1, "quorumAll")
                 ELSE BecomeLeader(r1, s)]
  /\ UNCHANGED <<rpc, reconf, fs, pending, restarts>>

LastTerm(log) == IF log = <<>> THEN 0 ELSE log[Len(log)].term

\* requestVote, up to the point where the peer thread waits for an answer.
RequestVote(s, p) ==
  /\ Up(s) /\ raft[s].state = "CANDIDATE"
  /\ p \in raft[s].known /\ rpc[s][p] = Idle
  /\ rpc' = [rpc EXCEPT ![s][p] =
               [kind |-> "vote", term |-> raft[s].currentTerm,
                lastTerm |-> LastTerm(raft[s].log),
                lastIndex |-> Len(raft[s].log)]]
  /\ UNCHANGED <<raft, reconf, fs, pending, restarts>>

\* A vote that is not withheld.  getLastLogTerm raises on an empty log.
Voted(r, s, m) ==
  LET r1 == IF m.term > r.currentTerm THEN SteppedDown(r, m.term) ELSE r
      logIsOk == \/ m.lastTerm > LastTerm(r.log)
                 \/ m.lastTerm = LastTerm(r.log) /\ m.lastIndex >= Len(r.log)
      r2 == [SteppedDown(r1, r1.currentTerm) EXCEPT
               !.votedFor = s,
               !.stored = @ \cup {[term |-> r1.currentTerm, vote |-> s]}]
  IN IF r.log = <<>> THEN Fail(r1, "getLastLogTerm")
     ELSE IF m.term = r1.currentTerm /\ logIsOk /\ r1.votedFor = None THEN r2
     ELSE r1

\* handleRequestVote returns nothing, so no answer is sent, and the next recv()
\* of the rpc thread raises: the thread is gone.
HandleRequestVote(p, s) ==
  /\ Up(p) /\ raft[p].rpcAlive /\ rpc[s][p].kind = "vote"
  /\ LET r == IF raft[p].withhold # "no" THEN raft[p]
              ELSE Voted(raft[p], s, rpc[s][p])
     IN raft' = [raft EXCEPT ![p] = [r EXCEPT !.rpcAlive = FALSE]]
  /\ rpc' = [rpc EXCEPT ![s][p] = Unanswered]
  /\ UNCHANGED <<reconf, fs, pending, restarts>>
-----------------------------------------------------------------------------
(* Replication. *)

\* Faulty variant of CommitSent: what the leader has committed.
CommitSentUnbounded(r, last) == r.commitIndex
\* What the request tells the follower is committed: never more than the
\* follower will hold once it has stored the entries up to last.
CommitSent(r, last) ==
  IF r.commitIndex < last THEN r.commitIndex ELSE last

\* appendEntries, up to the point where the peer thread waits for an answer.
\* The peer thread sends when p is behind and as a heartbeat.
AppendEntries(s, p) ==
  /\ Up(s) /\ raft[s].state = "LEADER"
  /\ p \in raft[s].known /\ rpc[s][p] = Idle
  /\ LET r == raft[s]
         prev == r.nextIndex[p] - 1
         last == IF Len(r.log) < prev + MaxEntries THEN Len(r.log)
                 ELSE prev + MaxEntries
     IN IF prev > Len(r.log)
        THEN /\ raft' = [raft EXCEPT ![s] = Fail(r, "prevLogIndex")]
             /\ UNCHANGED rpc
        ELSE /\ rpc' = [rpc EXCEPT ![s][p] =
                  [kind |-> "append", term |-> r.currentTerm,
                   prevIndex |-> prev,
                   prevTerm |-> IF prev = 0 THEN 0 ELSE r.log[prev].term,
                   entries |-> SubSeq(r.log, prev + 1, last),
                   commit |-> CommitSent(r, last)]]
             /\ UNCHANGED raft
  /\ UNCHANGED <<reconf, fs, pending, restarts>>

\* The indices of request m at which log holds an entry of another term.
Conflicts(log, m) ==
  {i \in m.prevIndex + 1 .. m.prevIndex + Len(m.entries) :
     i <= Len(log) /\ log[i].term # m.entries[i - m.prevIndex].term}

\* Faulty variant of TruncatedSuffix: the slice keeps an entry too few.
TruncatedSuffixShort(log, lastIndex) == SubSeq(log, 1, lastIndex - 1)
\* MemoryLog.truncateSuffix: the slice keeps up to two entries too many.
TruncatedSuffix(log, lastIndex) ==
  IF lastIndex < 1 THEN <<>>
  ELSE IF lastIndex + 2 < Len(log) THEN SubSeq(log, 1, lastIndex + 2)
  ELSE log

\* The entries of m that handleAppendEntries collects and appends, given what
\* the first conflict left of the log: those past its end and those that
\* differ in term from the entry there.
NewEntries(log, m) ==
  LET n == Len(m.entries)
      present(k) == /\ m.prevIndex + k <= Len(log)
                    /\ log[m.prevIndex + k].term = m.entries[k].term
      new == {k \in 1 .. n : ~present(k)}
      first == CHOOSE k \in new : \A j \in new : k <= j
  IN IF new = {} THEN <<>>
     ELSE IF first < n /\ present(first + 1)
     THEN <<m.entries[first]>> \o SubSeq(m.entries, first + 2, n)
     ELSE SubSeq(m.entries, first, n)

\* The loop over the entries, the append and the new commit index.  A truncation
\* runs through the configurations that are left, and two or more of them end
\* the STAGING state.
Accepted(r, p, m) ==
  LET conflicts == Conflicts(r.log, m)
      first == CHOOSE i \in conflicts : \A j \in conflicts : i <= j
      kept == IF conflicts = {} THEN r.log
              ELSE TruncatedSuffix(r.log, first - 1)
      new == NewEntries(kept, m)
      staging == IF conflicts # {} /\ Cardinality(Configurations(r.log)) > 1
                 THEN {} ELSE r.staging
      r1 == [r EXCEPT !.log = kept, !.staging = staging]
      r2 == IF new = <<>> THEN r1 ELSE Appended(r1, p, new)
  IN IF conflicts # {} /\ r.commitIndex >= first
     THEN [r |-> Fail(r, "commitIndex"), changes |-> <<>>]
     ELSE IF conflicts # {} /\ \E i \in Configurations(r.log) : i >= first
     THEN [r |-> Fail(r1, "descriptions"), changes |-> <<>>]
     ELSE [r |-> [r2 EXCEPT !.commitIndex = IF @ < m.commit THEN m.commit
                                            ELSE @],
           changes |-> Applied(r1, new)]

\* Faulty variant of Fits: a request past the end of the log fits.
FitsWithoutGapCheck(r, m) ==
  m.prevIndex \in DOMAIN r.log => r.log[m.prevIndex].term = m.prevTerm
\* The request fits the log of r: no gap before it, and the terms agree there.
Fits(r, m) ==
  /\ m.prevIndex <= Len(r.log)
  /\ m.prevIndex >= 1 => r.log[m.prevIndex].term = m.prevTerm

\* Faulty variant of Covered: one entry more than the request carries.
CoveredOffByOne(m) == m.prevIndex + Len(m.entries) + 1
\* What the caller counts as agreed when the request succeeds.
Covered(m) == m.prevIndex + Len(m.entries)

\* handleAppendEntries on p with state r, for the request m of s: the new state,
\* the changes made to the file system and the answer.
Received(r, p, s, m) ==
  LET r1 == [SteppedDown(r, m.term) EXCEPT
               !.withhold = "days",
               !.leaderId = IF @ = None THEN s ELSE @]
      answer(term, success) ==
        [kind |-> "appended", term |-> term, success |-> success,
         lastIndex |-> Len(r.log), covered |-> Covered(m)]
      accepted == Accepted(r1, p, m)
  IN IF m.term < r.currentTerm
     THEN [r |-> r, changes |-> <<>>, answer |-> answer(r.currentTerm, FALSE)]
     ELSE IF r1.leaderId # s
     THEN [r |-> Fail(r1, "leaderId"), changes |-> <<>>, answer |-> Unanswered]
     ELSE IF ~Fits(r1, m)
     THEN [r |-> r1, changes |-> <<>>, answer |-> answer(m.term, FALSE)]
     ELSE [r |-> accepted.r, changes |-> accepted.changes,
           answer |-> IF accepted.r.failed = "nothing" THEN answer(m.term, TRUE)
                      ELSE Unanswered]

HandleAppendEntries(p, s) ==
  /\ Up(p) /\ raft[p].rpcAlive /\ rpc[s][p].kind = "append"
  /\ \E result \in {Received(raft[p], p, s, rpc[s][p])} :
       /\ raft' = [raft EXCEPT ![p] = result.r]
       /\ rpc' = [rpc EXCEPT ![s][p] = result.answer]
       /\ fs' = [fs EXCEPT ![p] = @ \o result.changes]
  /\ UNCHANGED <<reconf, pending, restarts>>

\* Faulty variants of Retreat: before the first entry, and not at all.
RetreatPastStart(m) == m.lastIndex
NoRetreat(m) == m.covered + 1
\* The next entry to send to a peer that refused a request.
Retreat(m) == IF m.lastIndex > 1 THEN m.lastIndex ELSE 1

\* The rest of appendEntries, when the answer m of peer p arrives.
Answered(r, s, p, m) ==
  LET agree == IF r.lastAgree[p] > m.covered THEN r.lastAgree[p]
               ELSE m.covered
      r1 == [r EXCEPT !.lastAgree[p] = agree]
      r2 == IF r.lastAgree[p] > m.covered THEN r
            ELSE AdvancedCommittedId(r1, s)
  IN IF m.term > r.currentTerm THEN SteppedDown(r, m.term)
     ELSE IF m.term < r.currentTerm THEN Fail(r, "response.term")
     ELSE IF m.success
     THEN [r2 EXCEPT
             !.nextIndex[p] = agree + 1,
             !.caughtUp = IF r.goal[p] <= agree THEN @ \cup {p} ELSE @]
     ELSE [r EXCEPT
             !.nextIndex[p] = Retreat(m)]

HandleAppendEntriesResponse(s, p) ==
  /\ Up(s) /\ rpc[s][p].kind = "appended"
  /\ raft' = [raft EXCEPT ![s] = Answered(raft[s], s, p, rpc[s][p])]
  /\ rpc' = [rpc EXCEPT ![s][p] = Idle]
  /\ UNCHANGED <<reconf, fs, pending, restarts>>

\* leaderDiskThreadMain takes a sync, releases the mutex while it waits for the
\* disk, and counts the synced entries if it is still the leader of that term.
TakeSync(s) ==
  /\ Up(s) /\ raft[s].state = "LEADER" /\ raft[s].logSyncQueued
  /\ ~raft[s].syncing
  /\ raft' = [raft EXCEPT ![s].logSyncQueued = FALSE, ![s].syncing = TRUE,
                          ![s].syncTerm = raft[s].currentTerm,
                          ![s].syncIndex = Len(raft[s].log)]
  /\ UNCHANGED <<rpc, reconf, fs, pending, restarts>>

\* Faulty variant of SyncOver: a sync queued meanwhile is taken to be over too.
SyncOverLate(r) == [r EXCEPT !.syncing = FALSE, !.logSyncQueued = FALSE]
\* The sync is over.
SyncOver(r) == [r EXCEPT !.syncing = FALSE]
SyncDone(s) ==
  /\ Up(s) /\ raft[s].syncing
  /\ LET r == SyncOver(raft[s])
     IN raft' = [raft EXCEPT
          ![s] = IF r.state = "LEADER" /\ r.currentTerm = r.syncTerm
                 THEN AdvancedCommittedId([r EXCEPT !.lastSynced = r.syncIndex], s)
                 ELSE r]
  /\ UNCHANGED <<rpc, reconf, fs, pending, restarts>>
-----------------------------------------------------------------------------
(* Client changes: an operation of ReplicaHandle changes the file system of *)
(* its server and then calls replicate(), which asserts that the server is  *)
(* the leader before it takes the mutex.                                    *)

ClientChange(s, v) ==
  /\ s \in Writers /\ pending[s] = None
  /\ \A t \in Server : \A i \in DOMAIN fs[t] : fs[t][i] # v
  /\ fs' = [fs EXCEPT ![s] = Append(@, v)]
  /\ pending' = [pending EXCEPT ![s] = IF raft[s].state = "LEADER" THEN v
                                       ELSE None]
  /\ UNCHANGED <<raft, rpc, reconf, restarts>>

Replicate(s) ==
  /\ Up(s) /\ pending[s] # None
  /\ LET entry == [term |-> raft[s].currentTerm,
                   body |-> [type |-> "DATA", data |-> pending[s]]]
     IN /\ raft' = [raft EXCEPT ![s] = Appended(@, s, <<entry>>)]
        /\ fs' = [fs EXCEPT ![s] = @ \o Applied(raft[s], <<entry>>)]
  /\ pending' = [pending EXCEPT ![s] = None]
  /\ UNCHANGED <<rpc, reconf, restarts>>
-----------------------------------------------------------------------------
(* Membership: the reconfiguration loop calls setConfiguration with         *)
(* cluster.members() when another server JOINED, and waits in it.           *)

SetConfiguration(s, members) ==
  /\ Up(s) /\ raft[s].state = "LEADER" /\ Stable(raft[s])
  /\ reconf[s] = NoReconf /\ Len(raft[s].log) < MaxLog
  /\ raft' = [raft EXCEPT
       ![s] = [WithPeers(raft[s], s, members) EXCEPT !.staging = members]]
  /\ reconf' = [reconf EXCEPT ![s] =
                  [step |-> "staging", term |-> raft[s].currentTerm,
                   members |-> members, index |-> 0]]
  /\ UNCHANGED <<rpc, fs, pending, restarts>>

StagingCaughtUp(s) == raft[s].staging \ {s} \subseteq raft[s].caughtUp

\* The term has changed, or replicateEntry finds that s no longer leads; the
\* STAGING state stays behind.
SetConfigurationDeposed(s) ==
  /\ Up(s) /\ reconf[s].step = "staging"
  /\ \/ reconf[s].term # raft[s].currentTerm
     \/ StagingCaughtUp(s) /\ raft[s].state # "LEADER"
  /\ reconf' = [reconf EXCEPT ![s] = NoReconf]
  /\ UNCHANGED <<raft, rpc, fs, pending, restarts>>

\* Faulty variant of ResetStagingServers: it does nothing.
KeepStaging(r) == r
\* resetStagingServers: the configuration is STABLE again, with the old servers.
ResetStagingServers(r) == [r EXCEPT !.staging = {}]

\* The deadline passes before every new server has caught up.
SetConfigurationTimeout(s) ==
  /\ Up(s) /\ reconf[s].step = "staging"
  /\ reconf[s].term = raft[s].currentTerm /\ ~StagingCaughtUp(s)
  /\ raft' = [raft EXCEPT ![s] = ResetStagingServers(@)]
  /\ reconf' = [reconf EXCEPT ![s] = NoReconf]
  /\ UNCHANGED <<rpc, fs, pending, restarts>>

\* Everyone has caught up: replicateEntry appends the transitional
\* configuration and waits for it to be committed.
SetConfigurationReplicate(s) ==
  /\ Up(s) /\ reconf[s].step = "staging"
  /\ reconf[s].term = raft[s].currentTerm /\ StagingCaughtUp(s)
  /\ raft[s].state = "LEADER"
  /\ LET entry == ConfigurationEntry(raft[s], Configuration(raft[s].log).prev,
                                     reconf[s].members)
     IN raft' = [raft EXCEPT ![s] = Appended(@, s, <<entry>>)]
  /\ reconf' = [reconf EXCEPT ![s].step = "committing",
                              ![s].index = Len(raft[s].log) + 1]
  /\ UNCHANGED <<rpc, fs, pending, restarts>>

SetConfigurationReturn(s) ==
  /\ Up(s) /\ reconf[s].step = "committing"
  /\ \/ raft[s].commitIndex >= reconf[s].index
     \/ raft[s].currentTerm # reconf[s].term
  /\ reconf' = [reconf EXCEPT ![s] = NoReconf]
  /\ UNCHANGED <<raft, rpc, fs, pending, restarts>>
-----------------------------------------------------------------------------
Next ==
  \E s \in Server :
    \/ Restart(s)
    \/ BootstrapConfiguration(s)
    \/ Initialize(s)
    \/ StartNewElection(s)
    \/ TakeSync(s)
    \/ SyncDone(s)
    \/ \E v \in Value : ClientChange(s, v)
    \/ Replicate(s)
    \/ \E members \in Views : SetConfiguration(s, members)
    \/ SetConfigurationDeposed(s)
    \/ SetConfigurationTimeout(s)
    \/ SetConfigurationReplicate(s)
    \/ SetConfigurationReturn(s)
    \/ \E p \in Server : \/ RequestVote(s, p)
                         \/ HandleRequestVote(p, s)
                         \/ AppendEntries(s, p)
                         \/ HandleAppendEntries(p, s)
                         \/ HandleAppendEntriesResponse(s, p)

Spec == Init /\ [][Next]_vars
-----------------------------------------------------------------------------
(* Properties. *)

ServersTypeOK ==
  /\ raft \in [Server -> Raft]
  /\ rpc \in [Server -> [Server -> Message]]
  /\ reconf \in [Server -> [step : {"none", "staging", "committing"}, term : Nat,
                           members : SUBSET Server, index : Nat]]
  /\ pending \in [Server -> Value \cup {None}]
  /\ restarts \in 0 .. MaxRestarts

\* Every variable has the type its declaration gives it.
TypeOK == ServersTypeOK /\ fs \in [Server -> Seq(Value)]

\* The two assertions on the commit index, in handleAppendEntries and in
\* advanceCommittedId: it never passes the end of the log, whatever a
\* truncation leaves and however requests and their commit indices race.
CommitWithinLog ==
  \A s \in Server : raft[s].commitIndex <= Len(raft[s].log)

\* What a running leader believes of a peer or of its own disk never passes its
\* log: getEntry(newCommittedId) in advanceCommittedId cannot raise.
AgreementWithinLog ==
  \A s \in Server :
    Up(s) /\ raft[s].state = "LEADER" =>
      /\ raft[s].lastSynced <= Len(raft[s].log)
      /\ \A p \in raft[s].known : raft[s].lastAgree[p] <= Len(raft[s].log)

\* No entry of a leader is forgotten by its disk thread: what is not yet
\* counted as synced is queued, or part of the sync under way.
SyncAccountedFor ==
  \A s \in Server :
    LET r == raft[s]
    IN Up(s) /\ r.state = "LEADER" /\ r.lastSynced < Len(r.log) =>
         \/ r.logSyncQueued
         \/ r.syncing /\ r.syncTerm = r.currentTerm /\ r.syncIndex = Len(r.log)

\* Both logs hold n entries, and the same ones.
SamePrefix(log1, log2, n) ==
  n <= Len(log1) /\ n <= Len(log2) /\ \A i \in 1 .. n : log1[i] = log2[i]

\* A committed entry is never truncated or replaced in the log of the server
\* that committed it, short of a restart.
CommittedPrefixStable ==
  [][\A s \in Server :
       raft'[s].phase # "new" =>
         SamePrefix(raft[s].log, raft'[s].log, raft[s].commitIndex)]_vars

\* A leader in the STAGING state has a setConfiguration call at work on it: where one server
\* bootstraps, a state left behind by a call that gave up never blocks a leader's next change.
StagingHasOwner ==
  \A s \in Server :
    Up(s) /\ raft[s].state = "LEADER" /\ raft[s].staging # {} =>
      reconf[s].step = "staging" /\ reconf[s].members = raft[s].staging
-----------------------------------------------------------------------------
(* Properties of a cluster with one seed: only one server ever bootstraps   *)
(* or stands for election, because the others hear of a leader in time.     *)

\* No assertion of the consensus code fails and no thread of it dies.
NeverFails == \A s \in Server : Up(s) /\ raft[s].rpcAlive

\* What a leader believes a peer has stored, the peer has stored.
AgreementIsReal ==
  \A s \in Server : raft[s].state = "LEADER" =>
    \A p \in raft[s].known :
      SamePrefix(raft[s].log, raft[p].log, raft[s].lastAgree[p])

\* What a leader has committed is in the logs of a majority of the servers of
\* its configuration, the configuration changing under it.
CommittedOnMajority ==
  \A s \in Server : raft[s].state = "LEADER" =>
    LET r == raft[s]
        holders == {p \in Configuration(r.log).prev :
                      SamePrefix(r.log, raft[p].log, r.commitIndex)}
    IN r.commitIndex > 0 =>
         2 * Cardinality(holders) > Cardinality(Configuration(r.log).prev)

\* A replica's file system has had exactly the changes of the leader's log, up
\* to what the replica has stored: in order, none missed, none made twice.
ReplicaFollowsLog ==
  \A s \in Server : raft[s].state = "LEADER" =>
    \A p \in raft[s].known \ Writers :
      fs[p] = Changes(SubSeq(raft[s].log, 1, Len(raft[p].log)))

\* A follower that reports success has stored the entries of the request at the
\* places the leader counts them at.
SuccessMeansStored ==
  [][\A s, p \in Server :
       rpc[s][p].kind = "append" /\ rpc'[s][p].kind = "appended"
         /\ rpc'[s][p].success =>
         \A k \in DOMAIN rpc[s][p].entries :
           /\ rpc[s][p].prevIndex + k <= Len(raft'[p].log)
           /\ raft'[p].log[rpc[s][p].prevIndex + k].term
                = rpc[s][p].entries[k].term]_vars
-----------------------------------------------------------------------------
(* Why the commit index stays within the log: the inductive invariant.      *)

\* On one server: a leader's bookkeeping is about its log, and what could be
\* left over from an earlier leadership (a sync under way, the agreement of a
\* peer) is recognised by its term, or there is none.
IndexInv(r) ==
  /\ r.commitIndex <= Len(r.log)
  /\ \A p \in Server \ r.known : r.lastAgree[p] = 0
  /\ r.state = "LEADER" \/ r.syncing => r.phase = "running"
  /\ r.syncing => r.syncTerm <= r.currentTerm
  /\ r.failed = "nothing" /\ r.state = "LEADER" =>
       /\ r.lastSynced <= Len(r.log)
       /\ \A p \in Server : r.lastAgree[p] <= Len(r.log)
       /\ r.syncing /\ r.syncTerm = r.currentTerm => r.syncIndex <= Len(r.log)

\* On one call m to peer p: only a known peer is called, a follower is told to
\* commit no more than the request brings it to, and the entries in flight are
\* entries the leader still has.
CallInv(r, p, m) ==
  /\ m.kind # "idle" => p \in r.known
  /\ m.kind = "append" => m.commit <= Covered(m)
  /\ r.failed = "nothing" /\ r.state = "LEADER" =>
       /\ m.kind = "append" => Covered(m) <= Len(r.log)
       /\ m.kind = "appended" => m.covered <= Len(r.log)

\* CommitWithinLog made inductive: no request, answer or sync that is still under
\* way can later move a commit index past the end of a log.
NothingInFlightOvershoots ==
  /\ ServersTypeOK
  /\ \A s \in Server : IndexInv(raft[s])
  /\ \A s, p \in Server : CallInv(raft[s], p, rpc[s][p])

\* On one leader: a sync is queued, or the one under way will bring the disk up
\* to the log's end, or the disk is there and no sync of this term is under way
\* that could count for less.
SyncInv(r) ==
  r.failed = "nothing" /\ r.state = "LEADER" =>
    \/ r.logSyncQueued
    \/ r.syncing /\ r.syncTerm = r.currentTerm /\ r.syncIndex = Len(r.log)
    \/ ~(r.syncing /\ r.syncTerm = r.currentTerm) /\ r.lastSynced = Len(r.log)

\* SyncAccountedFor made inductive.
SyncsReachTheEnd ==
  NothingInFlightOvershoots /\ \A s \in Server : SyncInv(raft[s])
-----------------------------------------------------------------------------
(* What comments and assertions of the code say and the code does not do:   *)
(* the runs whose names begin with Finding each refute one of these.        *)

\* handleAppendEntries asserts that the leader it hears of in a term is the one
\* it knows: there are never two leaders in a term.
OneLeaderInTerm == \A s \in Server : raft[s].failed # "leaderId"
=============================================================================
