# Stolaxy in TLA+

Stolaxy exports a directory over NFSv4 from each of a few servers and replicates the changes
that clients make on one of them to the others with a Raft-like log.  Around this core the
repository keeps a management layer (applications in containers, volumes, users), an HDFS
DataNode and some system tools.  This directory is its verification project: TLA+ modules
translated from the source, TLC runs over small instances, and theorems checked by TLAPS.

## 1. Inventory

Own code is about 15,000 lines, of which 3,800 are the browser's; the rest of the tree is vendored
(`binaries`, `rws/static` but for `scripts/stomp`, `rws/cherrypy`, most of `pynfs`), generated
(`proto_compiled`, `*_pb2.py`) or packaging.

| Component | State | Operations | Interacts with | Hard behaviour | What makes it correct |
|---|---|---|---|---|---|
| **RaftConsensus** `raft/raftconsensus.py`, `configuration.py`, `server.py` | term, vote, role, log, commit index, per-peer nextIndex / lastAgreeIndex, configuration and staging, queued sync | `bootstrapConfiguration`, `init`, elections, `handleAppendEntries`, `appendEntries`, `advanceCommittedId`, `replicate`, `setConfiguration`; one thread per peer, one for the disk, one for timers, one for RPCs, all under one mutex | peers by RPC (zmq REQ/REP), the log, `callback` into NFS | the mutex is released during an RPC, a sync and a wait; exceptions leave it held; reconfiguration while entries are in flight; restarts | commit index within the log; committed entries stay; a leader counts only what peers hold; a committed entry is on a majority of each configuration |
| **MemoryLog**, **Metadata** `raft/memorylog.py`, `metadata.py` | entries; term and vote in a shelve file | append, getEntry, truncateSuffix; set/get | RaftConsensus | log lost on restart, metadata never synced, off-by-two slice | truncation removes the conflict and no committed entry |
| **Cluster** `cluster/cluster.py` | peers by uuid with expiry; queue of JOINED/LEFT | beacons every 8 s, expiry after 16 s | the loop below | lost and late beacons, a reaped self, a stopped agent, restarts | views converge; a live peer is not reaped; one JOINED per join |
| **Reconfiguration loop** `raft/raftcluster.py` | an event taken from the queue | on JOINED: bootstrap + init, or setConfiguration | Cluster, RaftConsensus | reads the agent's peers while the agent changes them; two servers alone in their own view; a leader that calls a server before that one's own JOINED | one init in a life, one bootstrap per cluster, and no assertion that ends the loop in a cluster whose beacons arrive |
| **ReplicaHandle / CallBackProxy** `nfs4state.py` 1834-2016 | the exported directory | create, write, remove, rename, ... then `replicate()`; callback on the others | RaftConsensus | the file system changes before the entry is accepted | replicas apply the leader's changes once, in order |
| **NFSv4 state of a file** `nfs4state.py` 630-1000 | share reservations per open with two summaries, byte-range locks per lock owner | open, downgrade, lock, unlock, test | NFSv4 server | summaries kept beside the list, ranges split and merged in a list under iteration | no two conflicting locks or shares; lists and summaries agree |
| **NFSv4 server** `nfs4state.py` 1-630, `nfs4server.py` | owners with seqids, cached replies, confirmation and ids, states with stateids, leases | OPEN, OPEN_CONFIRM, CLOSE, LOCK, LOCKU, LOCKT, READ, WRITE, RENEW | clients, the file above | retransmission, late duplicates, expiry in the middle of a lock, lists edited while iterated | a request is carried out once; a client has what it was told; nothing is held that nobody can release |
| **Web console** `rws/static/scripts/stomp/widgets/{groups,users}`, `rws/src/groups.py`, `users.py`, `spmc/group.py`, `user.py` | tables group and user, one database session for all requests; per page the rows, the graph, a dialog, requests under way | create, modify, delete, move users and groups | browser and server by XHR, widgets by topics | late lists, stale rows, ids used again, a failed flush, handlers that raise | what a page shows and sends is what the database holds; an overlay goes |
| **HDFS DataNode** `hdfs/datanode.py` | blocks, outstanding calls, heartbeat counter, shared connection fields | heartbeats, block reports, read/write pipeline | NameNode, clients, other DataNodes | fields shared between threads, early acknowledgement | an acknowledged packet is on the pipeline; a call's answer goes to its caller |
| **Management** `spmc/*.py` | database rows, containers, volumes, port bitmap, VIP network | create / start / stop / delete of applications and datastores | docker, LVM, database | a step of several fails; work outside the transaction | rows and outside resources agree |
| **AIO wrapper** `aio/aio.pyx` | iocb array, buffers by address | prepare, submit, reset, getevents | kernel AIO | array limit, double submission | each I/O is submitted once |
| **Daemon** `server/daemon.py` | pid file | start, stop, restart | the process table | crash, reused pid, two starts | at most one daemon |
| Storage set-up, other web pages, rsm stubs | little or none | start-up commands, request routing | LVM, mkfs | - | - |

`PROJECT.json` lists each of these with its status, and every hazard at its line.

## 2. Plan

Done, in this order: `RaftConsensus` with its abstract log, refinement and proofs;
`ClusterMembership` with the reconfiguration loop and proofs; `NFSFileState` with its abstract
table and proofs; `NFSServer` on top of it, with proofs; `WebConsole` with proofs; the refinement of
`ReplicatedLog` proved for a cluster started in order (`RaftSeedProofs`).

Left, should the project go on: the wait set of `stateChanged` and the disk thread
(`raftconsensus.py:369`), `ConfigurationManager` with the order of its dict, several files and
SETCLIENTID in `NFSServer`, the two bootstrapping servers of `ClusterMembership` composed with
`RaftConsensus`, the DataNode's write pipeline.

## 3. Modules

| Module | What it is |
|---|---|
| `RaftConsensus` | the consensus code of all servers and their NFS handle, with its properties |
| `ReplicatedLog` | what a replicated log with one primary promises: copies grow in the primary's order, the primary commits what a quorum holds, the others commit what is committed and held |
| `RaftSeed` | the assumption under which the code keeps that promise, the refinement mapping, fairness and liveness |
| `RaftConsensusProofs` | lemmas and theorems about `RaftConsensus`, whatever crashes and elections |
| `RaftSeedProofs` | lemmas and theorems about `RaftSeed`, with the refinement of `ReplicatedLog` |
| `ClusterMembership` | the agents of all servers, their beacons on the network, the clock, and the loops of reconfigurations |
| `ClusterMembershipProofs` | its lemmas and theorems |
| `NFSFileState` | NFSFileState of one file: shares with their summaries, locks as lists of ranges |
| `LockTable` | what a table of shares and locks promises: who holds which byte and mode, with no lists, ranges and summaries |
| `NFSFileStateProofs` | its lemmas and theorems, with the refinement of `LockTable` |
| `NFSServer` | NFSServerState, the operations on it, and the clients with their retransmissions; uses the operators of `NFSFileState` |
| `NFSServerSteps` | its inductive invariants, and that each method of NFSServerState keeps the one of the memory |
| `NFSServerHandlers` | that each operation keeps it, what the invariant says of requests, answers and cached replies, and the three things that can become of a request |
| `NFSServerProofs` | the clients' steps, the properties, the numbers of requests, and what clients believe |
| `WebConsole` | the pages of administrators, the handlers for users and groups, and the database |
| `WebConsoleProofs` | its lemmas and theorems |
| `MC...` | named servers, values, owners and pages, bounds by name, and symmetries, for TLC |

How they compose: `ClusterMembership` produces the calls (bootstrap, init, setConfiguration with
a view) that `RaftConsensus` accepts in any order its `Views` and `Bootstraps` allow; `OneSeed`
is what makes `SeedAssumption` of `RaftSeed` hold of a cluster that is started in order.
`NFSServer` changes its file only by `AddShares`, `DownShares`, `AddLock` and `RemoveLock` of
`NFSFileState`, whose lemmas apply there; what is not kept is the order of a test and its
change, which is why `NFSServer` states `ConflictOnlyByExpiry` anew.

### How `RaftConsensus` corresponds to the code

*Steps.*  One action is one critical section of `RaftConsensus.mutex`.  Where a method releases
the mutex it becomes two actions: `AppendEntries` and `HandleAppendEntriesResponse` (around
`callRPC`), `TakeSync` and `SyncDone` (around `sync.wait()`), `SetConfiguration` and the
actions that end it (around `stateChanged.wait`).  Between them any other thread of any server
may run.

*State.*  `raft[s]` is the RaftConsensus object of `s` with its Peer objects spread over
functions of the peer (`nextIndex`, `lastAgree`, `goal`, and the sets `known` and `caughtUp`).
`rpc[s][p]` is the call that `s`'s one thread for peer `p` is in: a REQ socket has at most one
outstanding request, so a channel is one record that is first the request, then the answer.
`reconf[s]` is the `setConfiguration` call of the reconfiguration thread, `fs[s]` the changes
made to the exported directory, `pending[s]` a change whose `replicate()` is past its assertion
and has not yet taken the mutex.

*Exceptions.*  No critical section uses `try`, so an assertion, an unknown name (`newServers`,
`lastSnapshotTerm`), a missing attribute (`snapshotFile`) or a dict changed under its iterator
leaves the mutex locked: `failed` names the place and the server takes no further step.  The rpc
thread also dies when a handler returns no response, because its REP socket may not receive
twice in a row (`rpcAlive`).

*What the code does rather than what Raft does.*  Since handleRequestVote returns nothing, only
the candidate's own vote ever counts; a server leads only if it is alone in its configuration,
or has none (a quorum of no servers is a quorum).  becomeLeader with a known peer raises.
truncateSuffix keeps up to two entries too many, and the loop of handleAppendEntries then skips
those that happen to agree.  advanceCommittedId appends the stable configuration as soon as
anything commits in the TRANSITIONAL state.  A staging deadline always resets, because
`stagingMin` starts its minimum at 0.  Votes are withheld for `timedelta(10)`, which is ten days.

*Data abstracted.*  A client change is a value of `Value`, each made once.  Snapshots are never
taken (their methods are empty), so `lastSnapshotIndex` is 0 and the log starts at 1.  Clocks are
left out: a timer may expire at any moment (`TimesOut`), a heartbeat may be due at any moment.
`ConfigurationManager`'s dict is modelled as ending on the newest configuration, which
CPython 2 guarantees for small ints below its table size of 8: `MaxLog` keeps logs below that.

*Left out here.*  `replicate(blocking = True)` (no caller), the unreachable `nextHeartBeatTime`
spelling, a second JOINED of the server itself (`ClusterMembership` shows when it cannot happen),
and connections that reappear after a crash with a late answer: a request that was delivered to the
old process is either lost or delivered again to the new one. A request of a server that crashes
goes with it: that it may be waiting in its receiver's REP socket and be handled there later is not
modelled.  The other way round, that the receiver crashes, is.

*Metadata.*  Term and vote are two keys of the shelve file, each written anew on every update.  What
a restart finds is any term that was ever written with any vote that was (`Files`), or nothing.

### How `ClusterMembership` corresponds to the code

*State.*  `peers[s]` and `ttl[s]` are the dict of Peer objects with their `expires_at`, counted
from now; `pipe[s]` is the zmq PAIR socket, `loop[s]` the thread of `raftcluster.py` by the place
it has reached, and `net` the datagrams.  A uuid is a server and the number of its start.

*Steps.*  A ping, a reap and the handling of a datagram are one callback of the agent's event loop
each.  The loop of reconfigurations is another thread: each of its reads of the agent
(`localAddress`, `isMember`, the number of members, `members`) is a step, and the agent may run
between them.  A JOINED takes `bootstrapConfiguration` and `init` in one step, since between
them nothing of this module is read.  A call of setConfiguration returns, in the model, before
the threads it starts make their calls.  A failed send escapes from the event loop and stops the
agent, while the loop and Raft go on (`mode = "stopped"`).

*The part of Raft that the loop depends on.*  bootstrapConfiguration asserts a term of 0 and an
empty log, and the thread that answers calls runs from the constructor on (`raftconsensus.py:55`),
long before init.  So a leader that has heard a server may call it before its own JOINED, and an
AppendEntries of it raises the term (`:184`).  If the server then finds itself alone in its view,
the assertion ends its loop with the mutex held.  `knownServers[t]` are the servers that the threads
of `t`'s Raft call, by address, which setConfiguration adds; `callers[s]` are the uuids of those
whose call `s` has handled.  Only a server that bootstrapped has threads: votes are not answered, so
that the others never lead with a configuration, and without a stable one setConfiguration returns
FALSE. Calls to a server that is initialised are not recorded, as no line of the loop reads the term
any more.  That a RequestVote to a server with an empty log raises and keeps the mutex
(`getLastLogTerm`) is part of `RaftConsensus`, not of this module.

*Time.*  A tick cannot begin while a timer is due or a datagram has reached `MaxDelay`, the usual
reading of timers in a model with discrete time.  `TimingAssumption` is `Interval + MaxDelay <=
Expiry`, which the code's 8 s and 16 s meet for delays of up to 8 s. Two consequences to know of:
with Expiry twice the Interval, one lost beacon and a little delay reap a live server, which is why
`Lossy` links are excepted in `LivePeersStay`; and servers that start within a beacon's delay of
each other may both bootstrap or neither (`Apart`).  A loop that has ended is excepted from
`MaxPipe`.  LEFT is read and ignored, and a setConfiguration that returns FALSE is not tried again:
both are the code's.

### How `NFSFileState`, `LockTable` and `NFSServer` correspond to the code

*A file.*  `shares` is the dict of share lists per open, `access` and `deny` the summaries that
`addshares` and `downshares` keep, `locks[id]` the list of ranges of a lock id, as a set: its order
is not observable.  Bytes are `0..MaxByte`, where `MaxByte` stands for 2^64-1 (a length of all
ones), so the ends of the range are within reach.  Modes are bits, and the combinations
that `To3` and `To2` convert are those of the code.  `LockTable` knows only sets of <<id, byte>>
pairs and modes; the refinement says that splitting, shrinking, merging and summing lose
nothing.

*A server.*  `srv` is NFSServerState: `info` its OwnerInfo objects, `state` its StateInfo objects by
id, `lease` whether a client renewed in time.  `remove_state` drops the dictionaries of a client;
the owners made later are other objects, hence `life`.  Leases expire and are renewed as often as
they like; how often `remove_state` drops a client is bounded by `MaxLives`.  One request of a
client is unanswered at a time, as in `nfs4lib.py`, and any request ever sent may be delivered
again: what a broken connection leaves behind.  `executed` is history.  An exception that nothing
catches stops the serving thread (`up`).

*Worth knowing.*  checkaccess counts an owner's own deny; a late duplicate with an old number
overwrites the cached answer, after which a real retransmission gets BAD_SEQID; reset_seqid on a
callback update would let a late duplicate run again, and is not modelled; an unconfirmed
owner's next OPEN is refused with BAD_STATEID, so the removal of its pending open is reached only
where check_seqid lets it pass.  A LOCK that conflicts with a lock of the same, expired, client
removes the state it is about to use and dies (`up = "exception"`).

*Left out.*  OPEN_DOWNGRADE above the file, SETCLIENTID and SETCLIENTID_CONFIRM, the special
stateids, more than one file, and lock ranges other than the whole file above `NFSFileState`.

### How `WebConsole` corresponds to the code

*A page.*  `rows` and `urows` are the rows that group-row.js and user-row.js made, each with the
copy of the group or user it was made with; two rows of one id are possible.  `graph` is the list
the graph was drawn from.  There is one `dialog`: every dialog has the id `"dialog"`, and dijit's
registry raises for a second one.  `post` is the request the overlay waits for, `gets` are the
lists under way, which may be served and arrive in any order.  Lists are kept as the database
they were made from, and `Offered` says what is shown of it.  `gdrift` and `udrift` are history:
what changed without this page learning of it.  Esc closes a dialog at any moment, also while the
overlay of its request is up; the answer then closes only what it finds, a dialog of the same file.

*The server.*  A handler is one step, with every outcome as a record; `session` says whether the one
SQLAlchemy session has failed in a flush, which nothing rolls back: from then on every request gets
an error.  `db` is what the session shows, with removals that are not committed; that a failed flush
loses them is never seen, since nothing is read after it.  SQLite's ids are used again, and its
foreign keys are not enforced.  What the user handlers refuse for a name or an e-mail address is a
free choice as soon as there is another user, since those are no part of the state.

*Left out.*  Roles (all users are plain users), logins and passwords, names and times in the
rows, the profile and the charts, `onChange` and `onDelete` of group-list.js (no button leads to
them), and two threads of the server inside one session.  The list that a new graph asks for is
made and shown in one step: only the newest graph is seen.

## 4. Runs

| Run | Instance | Shows |
|---|---|---|
| `RaftRestarts` | two servers that stand for election, one bootstraps, one restart of either at any point, which finds any mixture of the terms and votes it wrote, a view without the leader; 2.0 M states | `CommitWithinLog`, `AgreementWithinLog`, `CommittedPrefixStable`, the inductive invariant `NothingInFlightOvershoots` of their proofs, `SyncAccountedFor`, `StagingHasOwner` |
| `RaftSeedReplace` | a cluster that grows to two and replaces the second by a third, alike by symmetry, one entry to a request; 0.7 M states | no thread dies, `AgreementIsReal`, `CommittedOnMajority` across two changes of configuration, and the refinement `ImplementsReplicatedLog` |
| `RaftSeedWrites` | a seed, one joiner, two client changes; 0.1 M states | `ReplicaFollowsLog`, `SuccessMeansStored` |
| `RaftSeedLive` | seed and one joiner, weak fairness | `ChangesReachPeers`, `ReconfigurationEnds` |
| `Cluster` | two servers that start at any time, one of which crashes, restarts and whose agent may stop; one beacon lost in one direction; 1.2 M states | that the loop ends only in bootstrapConfiguration, where a leader called before it was heard (`LoopSurvives`), `InitOnce`, `OneSeed`, `ViewHasSelf`, `LivePeersStay`, and `ViewsConverge` under fairness |
| `NFSFile` | two opens, two lock owners, both lock types, three bytes, all modes | summaries, conflicts and canonical lists, and the refinement `ImplementsLockTable` |
| `NFSServer` | two clients with a lock owner each, seven requests that may each arrive again, one lease that expires, and again after its state was removed | `AtMostOnce`, `NoOrphans`, `LocksNeedConfirmation`, `BeliefsAreTrue`, `ConflictOnlyByExpiry` |
| `WebConsole` | one page, three clicks, two groups, two users, two spellings of a name; 0.8 M states | `RowsCurrent`, `UpdateTakesNobody`, `OnlyTogglesChange`, `ReferencesKept`, `OverlayEnds` |
| `Finding...` | the smallest bounds that show it | each refutes one thing an assertion, a comment or a test says |

*Bounds by name.*  Raft: `MaxTerm` (no election beyond it), `MaxLog` (no reconfiguration on a
longer log), `MaxRestarts`, `MaxEntries` (the code's MAX_ENTRIES, made small so that requests are
partial), and `Views`, `Bootstraps`, `TimesOut`, `Writers` for who does what.  Cluster:
`MaxLives` starts of each server, `MaxLosses` beacons, `MaxPipe` (events a loop may leave waiting
when the clock moves).  NFS: `MaxSent` requests of each client, `MaxId` ids, `MaxLives`
removals of each client's state and the clients whose lease is let run out (`Expiring`),
`SeqMod` the modulus of the sequence numbers, `MaxByte`.  Console: `MaxClicks`, `MaxGroup`,
`MaxUser` and the `Databases` to start from (well formed: see the assumption in section 5).

*Why they are enough.*  Two Raft servers and three terms give two rival leaders, a deposed one
and one that leads again, with a call left over from each; three entries with two to a request
give partial requests, gaps, conflicts in the middle and a truncation that is off by two; a third
server is needed only where a majority is not everybody, which is what the seed runs are for.
Two agents and one restart give every relation a beacon can have to its receiver: itself, a
peer, a former life of a peer; a delay of zero loses nothing, since within a tick the order is
free.  Three bytes give a range inside, at either end of, around and beside another.  Four
requests are OPEN, OPEN_CONFIRM, LOCK and one more that a duplicate of each can overtake;
the finding on `close` needs a second lock owner and has a run of its own.  With four requests a
client's state is removed once and its lease runs out again, but the second removal needs six; the
theorems cover any number.
Three clicks are a late list, the change it does not know of and its own dialog.

*Where runs stop.*  The Raft, NFS and console runs do not check for deadlock: they end where
their bounds do, or where every server has failed.  `Cluster` and `NFSFile` check it.

*The assumption of the seed runs.*  `SeedAssumption`: one server bootstraps, stands for
election and writes, and no process restarts.  That is a cluster started in order whose
followers hear of the leader within their timeout; outside it the findings apply, and the
refinement does not hold.

*Fairness.*  `RaftSeed!Fairness` is weak fairness of each thread the code has and never blocks
for good: the seed's peer threads (they wake at every heartbeat, line 416 of raftconsensus.py), the
rpc threads of the others, the setConfiguration call, and the disk thread.  The last is woken by
every `notifyAll`, and a leader with peers notifies at each answer (line 560); a leader without
peers may sleep on a queued sync, and no liveness is claimed for it.  Clients, timers, and joining
servers are not fair.  `ClusterMembership!FairSpec` is weak fairness of the timers, the sockets, the
loops and the clock together; crashes, starts, failed sends and losses are free.
`WebConsole!FairSpec` is weak fairness of the server's handling of a request and of the browser's
handling of its answer; nobody has to click, and a list need never arrive.

### Findings

1. `OneLeaderInTerm`: two servers that bootstrap alone lead in one term (`raftconsensus.py:192`).
2. `SuccessMeansStored`: after a truncation success is reported for entries stored elsewhere
   (`Raft.proto:222`, `memorylog.py:52`).
3. `ReplaysAreAnswered`: the retransmission of an open owner's LOCK ends the serving thread,
   because its cached answer lacks the body (`nfs4server.py:373`, `st_replay.py:6`).
4. `CloseReleasesLocks`: close skips every second lock owner (`nfs4state.py:372`).

Met while modelling, and visible in the models, without a run of their own: nextIndex pulled out
of the leader's log by a follower that is ahead (`raftconsensus.py:511`, `:586`); a late
answer that finds a newer term and fails an assertion (`:558`); votes that are never answered
(`:275`); a change refused by replicate() that stays in the file system (`nfs4state.py:1917`);
a grant of a lock despite a conflict after an expiry (`:572`); the assertion of
bootstrapConfiguration (`raftconsensus.py:133`) that ends the loop of a server whose leader called it
before it was heard, because a beacon was lost, the leader has crashed, the agent of either
has stopped, or the timers of the two are close; a user's dialog that opens on a
row a group dialog has outdated and takes the database session down (`user.py:82`), as does a
group's name that differs from another only by case (`group.py:57`).

## 5. Proofs

`RaftConsensusProofs`, for any finite set of servers, any values, views and bounds that satisfy
`ConstantsAssumption`: `CommitStaysWithinLog`, `AgreementStaysWithinLog`, `CommittedEntriesStay`,
`TypesAreKept`, and `NothingOvershoots`, the inductive invariant they rest on; `NoEntryForgotten`
with its inductive invariant `SyncsAlwaysReachTheEnd`.

*Argument.*  CommitWithinLog is not inductive: a request in flight may carry a commit index, an
answer in flight may raise lastAgreeIndex, a sync under way may raise lastSyncedIndex.
`NothingInFlightOvershoots` bounds each at its origin (`IndexInv`, `CallInv`).  The delicate
part is a leadership that ends while something is in flight and another that begins on the same
server with a shorter log.  A leftover sync is recognised by its term.  A leftover answer
carries the follower's term, which need not be the term it was asked in; what excludes it is that
becomeLeader survives only on a server that knows no peer, and only known peers are called.  `Keeps`
says how an object may change without hurting the calls it has under way; each method has a lemma
that it `Keeps` its object, each action has a step lemma, and `NextKeeps` combines them.
`CommittedPrefixStable` follows from the first conflict of a request lying beyond the commit index
(the code's own assertion) and from truncateSuffix keeping at least what it is asked to keep.

`SyncAccountedFor` asks of a leader only that something is queued or under way for an entry it has
not counted; a sync that is too short satisfies it and leaves the entry forgotten when it ends.
`SyncsReachTheEnd` excludes that: of a leader, a sync is queued, or the one under way is of its term
and reaches the end of the log, or the disk is at the end and no sync of this term is under way.

`RaftSeedProofs`, under `SeedAssumption` for any number of servers, values and reconfigurations:
`NothingFails`, `AgreementHolds`, `CommittedIsOnMajority`, `SuccessIsStored`, `StagingIsOwned`,
`ReplicasFollowLog` with its inductive invariant `FilesFollowLogs`, and the refinement
`SeedImplementsReplicatedLog`.

*Argument.*  `OneSeedInv` says that the seed alone has a leader's role, term and known peers; that
every other log is a prefix of the seed's, every request carries a piece of it, and every answer was
given by a log that held what the answer says; and that what the seed counts for a peer is held
there.  Nothing is truncated in such a cluster, because a prefix has no conflict.  With it each
action is either a step of `ReplicatedLog` under the mapping of `RaftSeed` or a stutter: the seed's
own append is a step of the primary, a request that arrives is a step of a copy, an answer and a
finished sync are steps of the commit index.  The quorum's part is a counting argument: quorumMin
returns the largest index that a majority has reached (`SmallestExists` and `LargestExists` give the
extremes of a bounded set of numbers, by the well-foundedness of the naturals and without an
induction over the set).  `StagingHasOwner` is proved here and not for rival leaders: there
`SetConfigurationDeposed` leaves a STAGING state behind, and what keeps its server from leading with
it again is which peers it knows by then.  `StagingOwned` adds that the waiting call began in the
term that lasts, so that it never takes that way out.

`ReplicaFollowsLog` relates a peer's file system to the leader's log; inductive is `FilesFollow`,
which relates it to the peer's own log.  A request leaves at the peer its old log with some `new`
entries behind it, whatever part of the request it held already, and the loop of `append` makes the
changes of exactly these (`ReceivedAtFollower`); and the changes of a log with entries behind it are
those of the log followed by those of the entries (`ChangesOfConcat`).  `Changes` is that loop as a
recursive function.  The provers cannot do the induction over the entries, so the lemmas about it
take the first entry at which they would be false, which `SmallestExists` gives, and look one entry
back.  The same lemmas give the type of the file systems in `TypesAreKept`.

`ClusterMembershipProofs`, for any servers, crashes, restarts and losses on `Lossy` links, under
`TimingAssumption` and `ClusterAssumption`: `ClusterTypeCorrect`, `ReconfigurationLoopSurvives`,
`RaftInitialisedOnce`, `ViewsHaveSelf`, `RunningPeersStay`, `OnlyOneSeeds`.

`ReconfigurationLoopSurvives` does not say that the loop never ends.  It says that no assertion
fails but that of bootstrapConfiguration, and this only in a server not yet initialised that a
leader has called; and that no such leader is one whose agent runs while the server's does, with
timers `Apart` and no beacon lost.

*Argument.*  `ClusterInv` has three parts.  `AgentInv` says that uuids seen are those of starts
that happened, and that a beacon is under way only to an agent that runs.  `HeardInTime` is the
timing argument: what is left of a peer's `expires_at` covers the ticks to that peer's
next beacon and the beacon's delay, so that it is never below zero when reap_peers looks.
`OwnJoinsOnce` counts a server's own JOINED: in the pipe, in the loop's hands or already an
`init`, and never more than one, because it is never reaped by itself.

`OneSeed` compares two servers, and what makes it true lies in the phases of their timers when the
later one started.  `SeedInv` keeps that relation for every pair whose timers are `Apart`, which is
itself kept as long as both run (`ApartStays`): one of the two has not bootstrapped, and either knows
the other or has not sent its own first beacon while a beacon of the other will be there sooner
(`Soon`).  When it finds itself in its view, the other is there too, and `HeardInTime`, which holds of
lossy links as well until something is lost, keeps it there.  The loop's theorem rests on the same:
`CallersAreSeeds` says that a caller that still lives has bootstrapped, so that for a server alone in
its view, about to bootstrap, `SeedInv` leaves only callers that are gone, or not `Apart`, or beacons
lost.

`NFSFileStateProofs`, for any opens, lock owners and length of the file: `FileTypeCorrect`,
`FileShareSummary`, `FileNoShareConflict`, `FileLocksCanonical`, `FileNoConflictingLocks`,
`FileImplementsLockTable`.

*Argument.*  Each operation's lemma says which bytes its list covers afterwards and that the list
stays canonical (ranges disjoint, and apart if of one type); the invariants and the refinement
mapping, which is just this covering, follow operation by operation.

`NFSServerSteps`, `NFSServerHandlers` and `NFSServerProofs`, for any clients, open and lock owners,
lock types, any number of expiries and removals, and any order of requests and late copies, under
`ServerAssumption`: `Types`, `OrphansNever`, `LocksConfirmed`, `ConflictsOnlyByExpiry`, and
`ServerInvariant`, the inductive invariant; and `ExecutedOnce` and `BeliefsTrue`, under `NoWrap`.
These are all the properties of the run.

*Argument.*  `NoOrphans` ties three structures that no line of the code ties together: the file's
locks and shares, the states by id, and the owners' dictionaries of files.  `StateInv` spells this
out in named parts (ids are given out once, a state's id is its owner's, what is on the file is
of a state that is known, a lock state has an open state that is confirmed, ...), and each method of
NFSServerState has a lemma that it keeps them, or which of them it breaks for the next call to
mend.  A handler is a chain of such methods.  Since a handler acts on what a request carries, the
invariant must also speak of requests, answers and replies in a cache: `Remembered` says that each
id in them is the id of what it was given out for, or is gone for good.  "Gone for good" is what makes
late copies harmless: `Keeps` says that ids and lives only grow.  With this `NoOrphans` holds for any
number of lock owners: the locks that `close` skips (finding 4) stay reachable from their owner.
`ConflictOnlyByExpiry` follows step by step from `LocksStep`: only add_lock adds a range, and it
does so after a test, unless an expired client was removed in between.

`AtMostOnce` needs its own invariant, `NumberInv`: the owner that an executed request goes by has
passed its number (`Past`), as long as the client lives and the owner is known.  `check_seqid` lets
an owner go on by one number only, so a copy finds its number passed.  The one way for a number to go
back is a lock owner that was never confirmed, which no executed request goes by.  Numbers must not
come round again: `NoWrap` says that a client sends fewer requests than there are numbers
(`MaxSent[c] < SeqMod`; the code's modulus is 2^32), and without it the theorem would be false, since
a copy that is late by a whole round is a new request to the server.

`BeliefsAreTrue` relates the memory of a client to that of the server, which no message compares, and
between a request's execution and the arrival of its answer it is false.  `TruthInv` says what holds
then: an answer on its way may have changed what its client knows of the open or of one lock, and the
numbers it expects next, and nothing else has (`Believes`).  For a late copy not to change it either,
each request in flight but the one that is waited for is `Spent`: its number was passed, or
check_seqid refuses it as its owner is not confirmed, or `lock_new` refuses it as its lock owner
is.  The third case is the subtle one: the copy of a LOCK that names a new lock owner goes by the
open owner's numbers, and where that owner's number has not moved on since a refusal, nothing but
the lock owner's confirmation stops it.  So that an answer from the cache can be believed, each
cached answer is true of the states of the owner that keeps it, as long as its request still goes by
that owner (`CachedTrue`).  A request is then refused, answered from the cache, or carried out
(`HandleKinds`), and each leaves alone all owners that it does not name (`Untouched`); this needs
`Siblings`, that the lock owners listed under an open are its client's own, since `close` shuts
whatever is on that list.  `Believes` is stated for clients whose state was never removed, as the
property is: after `remove_state` a client learns of its loss by the next refusal.

`WebConsoleProofs`, for any pages, names, groups, users and clicks: `ConsoleInvariant`, the
inductive invariant, and from it `ConsoleTyped`, `RowsAreCurrent`, `ReferencesAreKept`,
`TogglesOnlyChange`, `RequestsAsOffered` and `NobodyTaken`: every safety property of the run.

*Argument.* What these properties say of one step was decided several steps earlier, so `ConsoleInv`
follows a page from the click to the answer.  A request that is under way knows the two databases it
went by, the one of the click and the one its list was made from (`GetTrue`, `DialogTrue`).  What it
sends is among what that list offered, and what it has toggled is the difference to what the dialog
had checked (`PostTrue`), unless the row had drifted.  With a list of the same database as the
request finds (`Fresh`), the handlers then move nobody but those toggled, which is
`TogglesOnlyChange` and `NobodyTaken`.  The rows are the hard part: between the handler's step and
the arrival of its answer the page is wrong about exactly one id, and `ListsShow` says which and
how: no row where one is to be created, the old row, once, where one is to be changed or deleted.
That the row is there once and only once is why `RowsAreCurrent` needs its invariant, as a page can
hold two rows of one id once something has drifted.  `Dangling(d) \subseteq k.udrift` says that a
user whose group is gone has drifted on every page: `group_delete` moves its members out first, and
only a dialog that was out of date can name a group that is gone.  `RoomLeft` says that the ids,
which are used again, never run past their bound.

*Assumed.* `ConsoleAssumption` has the tables a run starts from with unique names (the column is)
and with no user in a group that is gone.  The second is needed: with such a user to start from,
`OnlyTogglesChange` is false, since a dialog then shows a group of none for him.  It is also what
the code gives: a page that starts asks `/user/list`, which looks up the group of every user and
raises for that one (`configdb.py:97-98`), so that page would have no rows.  Runs that create such a
user later are not excluded.

*Only model-checked.* All liveness (`OverlayEnds`, `ViewsConverge`, `ChangesReachPeers`,
`ReconfigurationEnds`), which is out of the prover's reach, as are ENABLED, and induction over data
by the library's theorems.  Every safety property of the passing runs is a theorem.

## 6. Not modelled

- The DataNode: its threads share fields of one object without protection, at the level of
  single attributes, and its partners are HDFS classes that are not in this repository.
- Applications, datastores, hosts and their command line: each step is a docker, LVM or ssh
  command, and what a failed one leaves behind is not written down here.
- The wrapper of asynchronous I/O, the pid file, storage set-up, the stubs of a replicated state
  machine: no state of their own that several steps relate, or no caller.
- The other pages of the web console: applications, hosts and storage repeat the shape of the
  modelled pages over data that the server makes up; charts and statistics only show.
- Vendored trees.  By lines nearly all of `src` is the dojo toolkit under `rws/static/scripts`; it
  is third-party, and only what the console relies on of it (one widget to an id) is modelled.

## 7. Files

`*.cfg` files are named after their runs; `PROJECT.json` maps every definition to the lines it
models and gives, for each property, a faulty variant of the code (the definitions commented
"Faulty variant") that violates it.
