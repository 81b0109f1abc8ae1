-------------------------- MODULE ClusterMembership --------------------------
(***************************************************************************)
(* The group membership of src/cluster/cluster.py and the loop of            *)
(* src/raft/raftcluster.py that configures Raft by it.  A server's agent     *)
(* broadcasts a beacon every Interval, expires peers that it has not heard   *)
(* for Expiry, and sends JOINED and LEFT through a pipe; the loop, another   *)
(* thread, takes an event and reads the agent's peers as they are by then.   *)
(*                                                                         *)
(* Time is counted in ticks, of which the clock starts one when the timers   *)
(* of the one before have fired.  A beacon is under way for MaxDelay ticks   *)
(* at the most; the links in Lossy may also lose it.  A uuid is a server     *)
(* and the number of times that it has been started.                        *)
(***************************************************************************)
EXTENDS Integers, Sequences, FiniteSets

CONSTANTS Server,
          Interval,   \* PING_INTERVAL
          Expiry,     \* PEER_EXPIRY
          MaxDelay,
          Lossy,      \* the links that may lose beacons
          Failing,    \* servers that may crash, and on which a send may fail
          MaxLives,   \* bound on the starts of each server
          MaxLosses,  \* bound on the beacons lost
          MaxPipe     \* bound on the events that a loop leaves waiting at a tick

ASSUME TimingAssumption ==
  /\ Interval \in Nat \ {0} /\ Expiry \in Nat /\ MaxDelay \in Nat
  /\ Interval + MaxDelay <= Expiry
ASSUME ClusterAssumption ==
  /\ Lossy \subseteq {link \in Server \X Server : link[1] # link[2]}
  /\ Failing \subseteq Server /\ MaxLives \in [Server -> Nat] /\ MaxLosses \in Nat /\ MaxPipe \in Nat

VARIABLES mode,    \* whether each server is off, on, or on with a stopped agent
          life,    \* how often it has been started
          due,     \* ticks to its next timer
          reaping, \* whether its second timer is still to fire in this tick
          peers,   \* the uuids its agent knows
          ttl,     \* expires_at of those, in ticks from now
          pipe,    \* the events its loop has not received
          loop,    \* its reconfiguration thread
          net,     \* the beacons under way
          losses,
          knownServers, \* the servers that its Raft has threads to call
          callers       \* the uuids of which its Raft has handled an AppendEntries

agent == <<mode, life, due, reaping, peers, ttl>>
raft == <<knownServers, callers>>
vars == <<mode, life, due, reaping, peers, ttl, pipe, loop, net, losses, knownServers, callers>>

Uuid == UNION {{s} \X (1..MaxLives[s]) : s \in Server}
Address(uuid) == uuid[1]
Self(s) == <<s, life[s]>>
NoEvent == [what |-> "none", uuid |-> <<>>]
Event == [what : {"JOINED", "LEFT"}, uuid : Uuid]
Idle == [pc |-> "recv", event |-> NoEvent, inits |-> 0, seed |-> FALSE]
LoopPc == {"recv", "joined", "count", "other", "members", "dead"}
-----------------------------------------------------------------------------
(* The agent *)

\* The events of a set of peers, in the order of the dict.
Announcements(what, uuids) ==
  {q \in [1..Cardinality(uuids) -> Event] :
     {q[i] : i \in DOMAIN q} = {[what |-> what, uuid |-> u] : u \in uuids}}

\* Faulty variant of Start: the agent sends its first beacon at once.
StartAtOnce(s) ==
  /\ mode[s] = "off" /\ life[s] < MaxLives[s]
  /\ mode' = [mode EXCEPT ![s] = "on"] /\ life' = [life EXCEPT ![s] = @ + 1]
  /\ due' = [due EXCEPT ![s] = 0]
  /\ UNCHANGED <<reaping, peers, ttl, pipe, loop, net, losses, raft>>
\* A server starts; its timers first fire an Interval later.
Start(s) ==
  /\ mode[s] = "off" /\ life[s] < MaxLives[s]
  /\ mode' = [mode EXCEPT ![s] = "on"] /\ life' = [life EXCEPT ![s] = @ + 1]
  /\ due' = [due EXCEPT ![s] = Interval] /\ reaping' = [reaping EXCEPT ![s] = FALSE]
  /\ UNCHANGED <<peers, ttl, pipe, loop, net, losses, raft>>

\* A crash takes the agent, the pipe, the loop, Raft and the sockets with it.
Crash(s) ==
  /\ mode[s] # "off" /\ s \in Failing
  /\ mode' = [mode EXCEPT ![s] = "off"]
  /\ peers' = [peers EXCEPT ![s] = {}] /\ pipe' = [pipe EXCEPT ![s] = <<>>]
  /\ loop' = [loop EXCEPT ![s] = Idle] /\ ttl' = [ttl EXCEPT ![s] = [u \in Uuid |-> -1]]
  /\ due' = [due EXCEPT ![s] = Interval] /\ reaping' = [reaping EXCEPT ![s] = FALSE]
  /\ net' = {b \in net : b.to # s}
  /\ knownServers' = [knownServers EXCEPT ![s] = {}] /\ callers' = [callers EXCEPT ![s] = {}]
  /\ UNCHANGED <<life, losses>>

\* send_ping: a broadcast reaches every agent that runs, the sender's included.
Ping(s) ==
  /\ mode[s] = "on" /\ due[s] = 0 /\ ~reaping[s]
  /\ net' = net \cup {[to |-> t, uuid |-> Self(s), age |-> 0] :
                      t \in {t \in Server : mode[t] = "on"}}
  /\ reaping' = [reaping EXCEPT ![s] = TRUE]
  /\ UNCHANGED <<mode, life, due, peers, ttl, pipe, loop, losses, raft>>

\* send_ping fails and stops the agent's loop.
SendFails(s) ==
  /\ mode[s] = "on" /\ due[s] = 0 /\ ~reaping[s] /\ s \in Failing
  /\ mode' = [mode EXCEPT ![s] = "stopped"] /\ net' = {b \in net : b.to # s}
  /\ UNCHANGED <<life, due, reaping, peers, ttl, pipe, loop, losses, raft>>

\* Faulty variant of Expired: a peer has to be heard in every Interval.
ExpiredEarly(s) == {u \in peers[s] : ttl[s][u] <= Expiry - Interval}
Expired(s) == {u \in peers[s] : ttl[s][u] < 0}
\* Faulty variant of ReapPeers: the timer is set an Interval too late.
ReapPeersLate(s) ==
  /\ mode[s] = "on" /\ reaping[s]
  /\ reaping' = [reaping EXCEPT ![s] = FALSE] /\ due' = [due EXCEPT ![s] = 2 * Interval]
  /\ UNCHANGED <<mode, life, peers, ttl, pipe, loop, net, losses, raft>>
\* reap_peers
ReapPeers(s) ==
  /\ mode[s] = "on" /\ reaping[s]
  /\ peers' = [peers EXCEPT ![s] = @ \ Expired(s)]
  /\ ttl' = [ttl EXCEPT ![s] = [u \in Uuid |-> IF u \in Expired(s) THEN -1 ELSE @[u]]]
  /\ \E q \in Announcements("LEFT", Expired(s)) : pipe' = [pipe EXCEPT ![s] = @ \o q]
  /\ reaping' = [reaping EXCEPT ![s] = FALSE] /\ due' = [due EXCEPT ![s] = Interval]
  /\ UNCHANGED <<mode, life, loop, net, losses, raft>>

\* Faulty variant of HandleBeacon: a known peer is not kept alive.
HandleFirstBeacon(b) ==
  /\ b \in net
  /\ net' = net \ {b}
  /\ IF b.uuid \in peers[b.to]
     THEN UNCHANGED <<ttl, peers, pipe>>
     ELSE /\ peers' = [peers EXCEPT ![b.to] = @ \cup {b.uuid}]
          /\ ttl' = [ttl EXCEPT ![b.to][b.uuid] = Expiry]
          /\ pipe' = [pipe EXCEPT ![b.to] = Append(@, [what |-> "JOINED", uuid |-> b.uuid])]
  /\ UNCHANGED <<mode, life, due, reaping, loop, losses, raft>>
\* handle_beacon.  A peer's serverId, an int, never equals that of a beacon, a str: the
\* search for a second peer of that id finds none.
HandleBeacon(b) ==
  /\ b \in net
  /\ net' = net \ {b}
  /\ ttl' = [ttl EXCEPT ![b.to][b.uuid] = Expiry]
  /\ peers' = [peers EXCEPT ![b.to] = @ \cup {b.uuid}]
  /\ pipe' = IF b.uuid \in peers[b.to] THEN pipe
             ELSE [pipe EXCEPT ![b.to] = Append(@, [what |-> "JOINED", uuid |-> b.uuid])]
  /\ UNCHANGED <<mode, life, due, reaping, loop, losses, raft>>

Lose(b) ==
  /\ b \in net /\ <<Address(b.uuid), b.to>> \in Lossy /\ losses < MaxLosses
  /\ net' = net \ {b} /\ losses' = losses + 1
  /\ UNCHANGED <<agent, pipe, loop, raft>>

\* The clock: no timer that is due and no beacon that has reached its age is left.
Tick ==
  /\ \A s \in Server : mode[s] = "on" => due[s] > 0
  /\ \A b \in net : b.age < MaxDelay
  /\ \A s \in Server : Len(pipe[s]) <= MaxPipe \/ loop[s].pc = "dead"
  /\ due' = [s \in Server |-> IF mode[s] = "on" THEN due[s] - 1 ELSE due[s]]
  /\ ttl' = [s \in Server |-> [u \in Uuid |-> IF mode[s] = "on" /\ ttl[s][u] >= 0
                                              THEN ttl[s][u] - 1 ELSE ttl[s][u]]]
  /\ net' = {[b EXCEPT !.age = @ + 1] : b \in net}
  /\ UNCHANGED <<mode, life, reaping, peers, pipe, loop, losses, raft>>
-----------------------------------------------------------------------------
(* The loop of reconfigurations: each read of the agent is a step of its own. *)

localAddress(s) == Self(s) \in peers[s]
At(s, pc) == mode[s] # "off" /\ loop[s].pc = pc
LoopStep(s, new) ==
  /\ loop' = [loop EXCEPT ![s] = new]
  /\ UNCHANGED <<agent, pipe, net, losses, raft>>

\* recv, and the comparison with localAddress(), which is None for a non-member.
Recv(s) ==
  /\ At(s, "recv") /\ pipe[s] # <<>>
  /\ pipe' = [pipe EXCEPT ![s] = Tail(@)]
  /\ LET e == Head(pipe[s])
         mine == localAddress(s) /\ Address(e.uuid) = s /\ e.what = "JOINED"
     IN loop' = [loop EXCEPT ![s].event = e, ![s].pc = IF mine THEN "joined" ELSE "other"]
  /\ UNCHANGED <<agent, net, losses, raft>>

\* assert cluster.isMember()
Joined(s) ==
  At(s, "joined") /\ LoopStep(s, [loop[s] EXCEPT !.event = NoEvent, !.pc = IF localAddress(s) THEN "count"
                                                                      ELSE "dead"])

\* What bootstrapConfiguration asserts, a term of 0 and an empty log: its Raft has not
\* bootstrapped, nor handled an AppendEntries of a leader, whose term is 2 or more.
Untouched(s) == ~loop[s].seed /\ callers[s] = {}
\* A server that is alone bootstraps; then raft.init.
Init_Raft(s) ==
  /\ At(s, "count")
  /\ LET alone == Cardinality(peers[s]) = 1
     IN IF alone /\ ~Untouched(s)
        THEN LoopStep(s, [loop[s] EXCEPT !.pc = "dead"])
        ELSE LoopStep(s, [loop[s] EXCEPT !.pc = "recv", !.seed = @ \/ alone,
                            !.inits = IF @ < 2 THEN @ + 1 ELSE @])

\* assert address != cluster.localAddress()
Other(s) ==
  LET e == loop[s].event
      clash == localAddress(s) /\ Address(e.uuid) = s
  IN At(s, "other") /\ LoopStep(s, IF clash THEN [loop[s] EXCEPT !.pc = "dead"]
                                   ELSE IF e.what = "JOINED" THEN [loop[s] EXCEPT !.pc = "members", !.event = NoEvent]
                                   ELSE [loop[s] EXCEPT !.pc = "recv", !.event = NoEvent])

\* raft.setConfiguration(1, cluster.members()), which a leader with a stable configuration
\* carries out: it gets threads for the members that it has none for.  Only a server that
\* bootstrapped has one, by its own vote.  The next recv waits until it returns.
SetConfiguration(s) ==
  /\ At(s, "members")
  /\ loop' = [loop EXCEPT ![s].pc = "recv"]
  /\ \/ UNCHANGED knownServers
     \/ /\ loop[s].seed
        /\ knownServers' = [knownServers EXCEPT ![s] = @ \cup ({Address(u) : u \in peers[s]} \ {s})]
  /\ UNCHANGED <<agent, pipe, net, losses, callers>>

\* A thread of t's Raft calls s by its address.  The Raft of s answers from its constructor
\* on, and takes over the term of the caller; only bootstrapConfiguration reads that.
AppendEntries(t, s) ==
  /\ mode[t] # "off" /\ mode[s] # "off" /\ loop[s].inits = 0 /\ s \in knownServers[t]
  /\ callers' = [callers EXCEPT ![s] = @ \cup {Self(t)}]
  /\ UNCHANGED <<agent, pipe, loop, net, losses, knownServers>>

Init ==
  /\ mode = [s \in Server |-> "off"] /\ life = [s \in Server |-> 0]
  /\ due = [s \in Server |-> Interval] /\ reaping = [s \in Server |-> FALSE]
  /\ peers = [s \in Server |-> {}] /\ ttl = [s \in Server |-> [u \in Uuid |-> -1]]
  /\ pipe = [s \in Server |-> <<>>] /\ loop = [s \in Server |-> Idle]
  /\ net = {} /\ losses = 0
  /\ knownServers = [s \in Server |-> {}] /\ callers = [s \in Server |-> {}]

LoopNext(s) == Recv(s) \/ Joined(s) \/ Init_Raft(s) \/ Other(s) \/ SetConfiguration(s)
Next ==
  \/ \E s \in Server : \/ Start(s) \/ Crash(s) \/ Ping(s) \/ SendFails(s) \/ ReapPeers(s)
                       \/ LoopNext(s) \/ \E t \in Server : AppendEntries(t, s)
  \/ \E b \in net : HandleBeacon(b) \/ Lose(b)
  \/ Tick
Spec == Init /\ [][Next]_vars

\* The agents' timers and sockets are served, the loops receive, and the clock moves on:
\* a tick has finitely many of these steps, so that fairness to one is fairness to each.
Step ==
  \/ \E s \in Server : Ping(s) \/ ReapPeers(s) \/ LoopNext(s)
  \/ \E b \in net : HandleBeacon(b)
  \/ Tick
FairSpec == Spec /\ WF_vars(Step)
-----------------------------------------------------------------------------
(* Properties *)

TypeOK ==
  /\ mode \in [Server -> {"off", "on", "stopped"}]
  /\ life \in [Server -> Nat] /\ \A s \in Server : life[s] <= MaxLives[s]
  /\ due \in [Server -> 0..Interval] /\ reaping \in [Server -> BOOLEAN]
  /\ peers \in [Server -> SUBSET Uuid] /\ ttl \in [Server -> [Uuid -> -1..Expiry]]
  /\ pipe \in [Server -> Seq(Event)]
  /\ loop \in [Server -> [pc : LoopPc, event : Event \cup {NoEvent}, inits : 0..2,
                          seed : BOOLEAN]]
  /\ net \subseteq [to : Server, uuid : Uuid, age : 0..MaxDelay]
  /\ losses \in 0..MaxLosses
  /\ knownServers \in [Server -> SUBSET Server] /\ callers \in [Server -> SUBSET Uuid]

\* Two timers are further apart than a beacon's delay.
Apart(s, t) == LET gap == (due[s] - due[t]) % Interval
               IN gap > MaxDelay /\ Interval - gap > MaxDelay

\* No assertion of reconfigurations fails, and that of bootstrapConfiguration only in a server
\* not yet initialised, because of leaders that called its Raft before it heard them: they
\* crashed, their agent or its own has stopped, a beacon was lost, or the servers' timers are
\* not further apart than a beacon's delay.
LoopSurvives ==
  [][\A s \in Server : loop[s].pc # "dead" /\ loop'[s].pc = "dead" =>
       /\ loop[s].pc = "count" /\ loop[s].inits = 0 /\ callers[s] # {}
       /\ \A t \in Server : mode[s] = "on" /\ mode[t] = "on" /\ Self(t) \in callers[s] =>
            losses > 0 \/ ~Apart(s, t)]_vars

\* raft.init, which starts threads, is called once in a server's life.
InitOnce == \A s \in Server : loop[s].inits <= 1

\* A server that has been initialised is in every view it hands to setConfiguration.
ViewHasSelf ==
  [][\A s \in Server : loop[s].pc = "members" /\ loop'[s].pc = "recv"
                         /\ loop[s].inits > 0 /\ mode'[s] # "off" => Self(s) \in peers[s]]_vars

\* reap_peers never removes a server whose agent runs and whose beacons are not lost.
Alive(uuid) == mode[Address(uuid)] = "on" /\ Self(Address(uuid)) = uuid
LivePeersStay ==
  [][\A s \in Server : mode[s] = "on" /\ mode'[s] = "on" =>
       \A u \in peers[s] \ peers'[s] : Alive(u) => <<Address(u), s>> \in Lossy]_vars

\* A server that starts while another runs hears it before its own JOINED, and does not
\* bootstrap a second cluster, as long as no beacon was lost and the servers' timers are
\* further apart than a beacon's delay.
OneSeed ==
  \A s, t \in Server : losses = 0 /\ s # t /\ mode[s] = "on" /\ mode[t] = "on" /\ Apart(s, t) =>
    ~(loop[s].seed /\ loop[t].seed)

\* Once servers stop crashing, agents failing and beacons getting lost, every agent ends
\* up with exactly the servers that run.
ViewsConverge ==
  <>[](\A s \in Server : mode[s] = "on" =>
         peers[s] = {Self(t) : t \in {t \in Server : mode[t] = "on"}})
=============================================================================
