------------------------------ MODULE RaftSeed ------------------------------
(***************************************************************************)
(* A cluster with one seed implements ReplicatedLog: the seed is the only  *)
(* server that bootstraps a configuration and the only one whose election  *)
(* timer expires, as in a cluster whose servers are started one after the  *)
(* other and hear of the leader in time.                                   *)
(***************************************************************************)
EXTENDS RaftConsensus

CONSTANT Seed
ASSUME SeedAssumption ==
  /\ Seed \in Server /\ Bootstraps = {Seed} /\ TimesOut = {Seed}
  /\ Writers = {Seed} /\ MaxRestarts = 0
  /\ \A view \in Views : Seed \in view

\* What a quorum of the configuration in force should be: more than half of
\* both server sets while it is transitional, nobody while it is blank.
IsRaftQuorum(Q, log) ==
  LET c == Configuration(log)
  IN \A S \in {c.prev, c.next} \ {{}} :
       2 * Cardinality(S \cap Q) > Cardinality(S)

Abstract == INSTANCE ReplicatedLog WITH
  Primary <- Seed,
  IsQuorum <- IsRaftQuorum,
  log <- [s \in Server |-> raft[s].log],
  commit <- [s \in Server |-> raft[s].commitIndex]

\* The consensus code, with its retries, refusals and overlapping requests, does
\* nothing a primary copying its log in order to the others could not do.
ImplementsReplicatedLog == Abstract!Spec

\* The threads that exist are scheduled: the seed's peer threads send (a
\* heartbeat at the latest), the rpc threads of the others answer, and, because
\* every answer wakes it, the disk thread of a leader with peers takes the queued
\* sync.  Clients, timers and other servers' arrivals are under no obligation.
Fairness ==
  /\ WF_vars(Replicate(Seed))
  /\ WF_vars(TakeSync(Seed)) /\ WF_vars(SyncDone(Seed))
  /\ WF_vars(SetConfigurationReplicate(Seed))
  /\ WF_vars(SetConfigurationReturn(Seed))
  /\ \A p \in Server \ {Seed} : /\ WF_vars(AppendEntries(Seed, p))
                               /\ WF_vars(HandleAppendEntries(p, Seed))
                               /\ WF_vars(HandleAppendEntriesResponse(Seed, p))

FairSpec == Spec /\ Fairness

\* Every change that replicate() accepts is made on every peer known by then, and
\* a setConfiguration call does not wait for ever.
ChangesReachPeers ==
  \A v \in Value, p \in Server \ {Seed} :
    pending[Seed] = v /\ p \in raft[Seed].known
      ~> \E i \in DOMAIN fs[p] : fs[p][i] = v

ReconfigurationEnds ==
  reconf[Seed].step # "none" ~> reconf[Seed].step = "none"
-----------------------------------------------------------------------------
(* Why the seed's cluster keeps its promises: the inductive invariant.      *)

\* How much of the log each server has stored.
Stored == [p \in Server |-> Len(raft[p].log)]

\* The seed's own object, leader or not: it is in every configuration it has
\* appended, it plans to send nothing past its log's end, and before it leads it
\* has committed nothing and knows nobody.
SeedObject(r) ==
  /\ r.failed = "nothing" /\ r.rpcAlive /\ Seed \notin r.known
  /\ \A i \in Configurations(r.log) :
       /\ Seed \in r.log[i].body.prev
       /\ r.log[i].body.next # {} => Seed \in r.log[i].body.next
  /\ \A p \in Server : r.nextIndex[p] <= Len(r.log) + 1
  /\ r.state = "LEADER"
       \/ /\ r.state = "FOLLOWER" /\ r.known = {} /\ r.commitIndex = 0
          /\ Configuration(r.log).prev \subseteq {Seed}
          /\ Configuration(r.log).next = {}

\* The term the others can have heard of: none before the seed leads.
TermHeard(led) == IF led.state = "LEADER" THEN led.currentTerm ELSE 0

\* The object of another server when the seed's is led: a follower of the seed,
\* with a prefix of its log.
FollowerObject(r, led) ==
  /\ r.failed = "nothing" /\ r.rpcAlive /\ r.state = "FOLLOWER"
  /\ r.leaderId \in {None, Seed}
  /\ r.currentTerm <= TermHeard(led)
  /\ \A m \in r.stored : m.term <= TermHeard(led)
  /\ SamePrefix(r.log, led.log, Len(r.log))
  /\ r.commitIndex <= led.commitIndex

\* A call m of the seed to a server that has stored n entries: a request of this
\* term that carries entries of the seed's log, or an answer whose success means
\* that the server holds them.
SeedCall(m, led, n) ==
  /\ m.kind \in {"idle", "append", "appended"}
  /\ m.kind # "idle" => m.term = led.currentTerm
  /\ m.kind = "append" =>
       /\ m.commit <= led.commitIndex
       /\ m.prevIndex > 0 => m.prevTerm = led.log[m.prevIndex].term
       /\ \A k \in DOMAIN m.entries : m.entries[k] = led.log[m.prevIndex + k]
  /\ m.kind = "appended" =>
       /\ m.lastIndex <= Len(led.log)
       /\ m.success => m.covered <= n

\* What the seed counts as stored is stored, and what it has committed is stored
\* by a majority of its configuration.
SeedCounts ==
  LET r == raft[Seed]
      S == Configuration(r.log).prev
  IN /\ \A p \in Server \ {Seed} : r.lastAgree[p] <= Stored[p]
     /\ r.commitIndex > 0 => IsMajority(AtLeast(S, Stored, r.commitIndex), S)

\* The seed bootstraps a log it has not begun, and only while it leads has it
\* changes to replicate or a reconfiguration to make, one that keeps it in.
SeedWork ==
  LET r == raft[Seed]
  IN /\ r.phase = "new" => r.currentTerm = 0 /\ r.log = <<>>
     /\ pending[Seed] # None => r.state = "LEADER"
     /\ reconf[Seed].step = "staging" =>
          /\ r.state = "LEADER" /\ Configurations(r.log) # {}
          /\ Seed \in reconf[Seed].members

\* The properties of a cluster with one seed made inductive.
OneSeedInv ==
  /\ NothingInFlightOvershoots
  /\ SeedObject(raft[Seed]) /\ SeedCounts /\ SeedWork
  /\ \A p \in Server \ {Seed} :
       /\ FollowerObject(raft[p], raft[Seed])
       /\ SeedCall(rpc[Seed][p], raft[Seed], Stored[p])
       /\ reconf[p] = NoReconf /\ pending[p] = None
       /\ \A q \in Server : rpc[p][q] = Idle

\* ReplicaFollowsLog made inductive: the file system of every server but the seed
\* has had the changes of its own log.
FilesFollow ==
  /\ OneSeedInv
  /\ \A p \in Server \ {Seed} : fs[p] = Changes(raft[p].log)

\* StagingHasOwner made inductive: the call at work on a STAGING state began in
\* the term that lasts, so it will not give the state up, but reset or replace it.
StagingOwned ==
  LET r == raft[Seed]
  IN /\ OneSeedInv
     /\ r.staging # {} => /\ reconf[Seed].step = "staging"
                         /\ reconf[Seed].members = r.staging
     /\ reconf[Seed].step = "staging" => reconf[Seed].term = r.currentTerm
=============================================================================
