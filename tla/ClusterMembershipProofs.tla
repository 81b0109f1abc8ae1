----------------------- MODULE ClusterMembershipProofs -----------------------
(***************************************************************************)
(* A running server whose beacons arrive is never reaped, and the loop of  *)
(* reconfigurations fails no assertion but that of bootstrapConfiguration, *)
(* for any number of servers and starts, any interval, expiry and delay    *)
(* that TimingAssumption allows, and any loss of beacons between different *)
(* servers.  As long as timers are apart and nothing is lost, that one     *)
(* fails only by leaders that are gone, and only one server bootstraps.    *)
(***************************************************************************)
EXTENDS ClusterMembership, FiniteSetTheorems, TLAPS

\* What the state of a server says of its agent, its pipe and its loop.
Started ==
  \A s \in Server :
    /\ mode[s] # "off" => life[s] >= 1
    /\ mode[s] = "off" => peers[s] = {} /\ pipe[s] = <<>> /\ loop[s] = Idle
    /\ reaping[s] => due[s] = 0
    /\ IsFiniteSet(peers[s])

\* Only uuids that were given to a server are known or under way, and of a server's own
\* only the one it has now.
UuidsAreOld ==
  /\ \A s \in Server : \A u \in peers[s] :
       u[2] <= life[Address(u)] /\ (Address(u) = s => u = Self(s))
  /\ \A b \in net : /\ mode[b.to] = "on" /\ b.uuid[2] <= life[Address(b.uuid)]
                    /\ Address(b.uuid) = b.to => b.uuid = Self(b.to)

\* No beacon from t to s is lost, or was.
Unbroken(t, s) == losses = 0 \/ <<t, s>> \notin Lossy

\* A peer that runs is heard again before it expires: either its next beacon, or one
\* that is under way, arrives in time.
NextBeacon(t) == IF reaping[t] THEN Interval ELSE due[t]
InTime(s, t) ==
  \/ ttl[s][Self(t)] >= NextBeacon(t) + MaxDelay
  \/ \E b \in net : b.to = s /\ b.uuid = Self(t) /\ ttl[s][Self(t)] >= MaxDelay - b.age
HeardInTime ==
  \A s, t \in Server :
    mode[s] = "on" /\ mode[t] = "on" /\ Unbroken(t, s) /\ Self(t) \in peers[s] =>
      InTime(s, t)

\* A server's own address is in its pipe at most once, when it has joined, and then it
\* has not been initialised.
Own(s, e) == Address(e.uuid) = s
JoinsOnce(s) ==
  /\ \A i \in 1..Len(pipe[s]) : Own(s, pipe[s][i]) =>
       /\ pipe[s][i].what = "JOINED" /\ Self(s) \in peers[s]
       /\ loop[s].inits = 0 /\ loop[s].pc \notin {"joined", "count"}
       /\ \A j \in 1..Len(pipe[s]) : Own(s, pipe[s][j]) => i = j
  /\ loop[s].pc \in {"joined", "count"} => loop[s].inits = 0 /\ Self(s) \in peers[s]
  /\ loop[s].inits > 0 => Self(s) \in peers[s]
  /\ loop[s].pc = "other" => ~Own(s, loop[s].event)
  /\ loop[s].inits <= 1
OwnJoinsOnce == \A s \in Server : JoinsOnce(s)

AgentInv == TypeOK /\ Started /\ UuidsAreOld
ClusterInv == AgentInv /\ HeardInTime /\ OwnJoinsOnce

\* A uuid is a server and one of its starts.
LEMMA UuidMembers ==
  ASSUME NEW u
  PROVE  u \in Uuid <=> \E s \in Server : \E n \in 1..MaxLives[s] : u = <<s, n>>
  BY DEF Uuid

\* The uuid of a server that has been started.
LEMMA SelfIsUuid ==
  ASSUME TypeOK, ClusterAssumption, NEW s \in Server, life[s] >= 1
  PROVE  Self(s) \in Uuid /\ Self(s)[2] = life[s] /\ Address(Self(s)) = s
  <1>1. life[s] \in 1..MaxLives[s]
    BY DEF TypeOK, ClusterAssumption
  <1> QED BY <1>1, UuidMembers DEF Self, Address

\* The parts of a uuid.
LEMMA AddressIsServer ==
  ASSUME NEW u \in Uuid
  PROVE  Address(u) \in Server /\ u = <<Address(u), u[2]>> /\ u[2] \in Int
  BY UuidMembers DEF Address

\* The announcements of a finite set of peers are a sequence of events about them.
LEMMA AnnouncedMembers ==
  ASSUME NEW what \in {"JOINED", "LEFT"}, NEW uuids \in SUBSET Uuid, IsFiniteSet(uuids),
         NEW q \in Announcements(what, uuids)
  PROVE  /\ q \in Seq(Event)
         /\ \A i \in 1..Len(q) : q[i].what = what /\ q[i].uuid \in uuids
  <1>1. Cardinality(uuids) \in Nat
    BY FS_CardinalityType
  <1>2. q \in [1..Cardinality(uuids) -> Event]
    BY DEF Announcements
  <1>3. q \in Seq(Event)
    BY <1>1, <1>2
  <1>4. ASSUME NEW i \in 1..Len(q) PROVE q[i].what = what /\ q[i].uuid \in uuids
    <2>1. i \in DOMAIN q
      BY <1>3, <1>4
    <2>2. q[i] \in {[what |-> what, uuid |-> u] : u \in uuids}
      BY <2>1 DEF Announcements
    <2> QED BY <2>2
  <1> QED BY <1>3, <1>4
-----------------------------------------------------------------------------
(* The agents *)

\* At first no server runs and no uuid is given.
LEMMA InitAgentInv == ASSUME Init, TimingAssumption, ClusterAssumption PROVE AgentInv
  <1>1. TypeOK
    BY DEF Init, TypeOK, TimingAssumption, ClusterAssumption, Idle, LoopPc
  <1>2. Started
    BY FS_EmptySet DEF Init, Started
  <1>3. UuidsAreOld
    BY DEF Init, UuidsAreOld
  <1> QED BY <1>1, <1>2, <1>3 DEF AgentInv

LoopState == [pc : LoopPc, event : Event \cup {NoEvent}, inits : 0..2, seed : BOOLEAN]

\* A step of a server's loop changes its pipe, its loop and the threads of its Raft only.
LEMMA LoopStepTypes ==
  ASSUME AgentInv, NEW s \in Server, LoopNext(s)
  PROVE  /\ UNCHANGED <<mode, life, due, reaping, peers, ttl, net, losses, callers>>
         /\ mode[s] # "off" /\ pipe' \in [Server -> Seq(Event)]
         /\ loop' \in [Server -> LoopState] /\ knownServers' \in [Server -> SUBSET Server]
         /\ \A t \in Server : t # s => pipe'[t] = pipe[t] /\ loop'[t] = loop[t]
                                       /\ knownServers'[t] = knownServers[t]
         /\ knownServers'[s] = knownServers[s] \/ loop[s].seed
  <1> DEFINE l == loop[s]
  <1>1. /\ pipe \in [Server -> Seq(Event)] /\ loop \in [Server -> LoopState]
        /\ peers \in [Server -> SUBSET Uuid] /\ knownServers \in [Server -> SUBSET Server]
    BY DEF AgentInv, TypeOK, LoopState
  <1>2. /\ l \in LoopState /\ NoEvent \in Event \cup {NoEvent}
        /\ \A pc \in LoopPc, e \in Event \cup {NoEvent} :
             [l EXCEPT !.pc = pc, !.event = e] \in LoopState
    BY <1>1 DEF LoopState
  <1>3. ASSUME NEW new \in LoopState, LoopStep(s, new), mode[s] # "off"
        PROVE  /\ UNCHANGED <<mode, life, due, reaping, peers, ttl, net, losses, callers>>
               /\ pipe' = pipe /\ knownServers' = knownServers /\ loop' = [loop EXCEPT ![s] = new]
               /\ loop' \in [Server -> LoopState]
    BY <1>1, <1>3 DEF LoopStep, agent, raft
  <1>4. CASE Recv(s)
    <2>1. Head(pipe[s]) \in Event /\ Tail(pipe[s]) \in Seq(Event)
      BY <1>1, <1>4 DEF Recv
    <2>2. \E pc \in {"joined", "other"} : 
                                    loop' = [loop EXCEPT ![s].event = Head(pipe[s]), ![s].pc = pc]
      BY <1>4 DEF Recv
    <2>3. PICK pc \in {"joined", "other"} :
             loop' = [loop EXCEPT ![s] = [l EXCEPT !.event = Head(pipe[s]), !.pc = pc]]
      BY <1>1, <2>2
    <2>8. [l EXCEPT !.event = Head(pipe[s]), !.pc = pc] \in LoopState
      BY <1>2, <2>1, ZenonT(40) DEF LoopState, LoopPc
    <2>9. loop' \in [Server -> LoopState]
      BY <1>1, <2>3, <2>8
    <2>4. pipe' = [pipe EXCEPT ![s] = Tail(@)]
      BY <1>4 DEF Recv
    <2>5. pipe' \in [Server -> Seq(Event)] /\ \A t \in Server : t # s => pipe'[t] = pipe[t]
      BY <1>1, <2>1, <2>4
    <2>6. \A t \in Server : t # s => loop'[t] = loop[t]
      BY <1>1, <2>2
    <2>7. /\ UNCHANGED <<mode, life, due, reaping, peers, ttl, net, losses, callers, knownServers>>
          /\ mode[s] # "off"
      BY <1>4 DEF Recv, At, agent, raft
    <2> QED BY <1>1, <2>5, <2>6, <2>7, <2>9
  <1>5. ASSUME \E new \in LoopState : LoopStep(s, new), mode[s] # "off"
        PROVE  /\ UNCHANGED <<mode, life, due, reaping, peers, ttl, net, losses, callers>>
               /\ mode[s] # "off" /\ pipe' \in [Server -> Seq(Event)]
               /\ loop' \in [Server -> LoopState] /\ knownServers' \in [Server -> SUBSET Server]
               /\ \A t \in Server : t # s => pipe'[t] = pipe[t] /\ loop'[t] = loop[t]
                                             /\ knownServers'[t] = knownServers[t]
               /\ knownServers'[s] = knownServers[s]
    BY <1>1, <1>3, <1>5
  <1>6. CASE Joined(s)
    <2>1. [l EXCEPT !.event = NoEvent, !.pc = IF localAddress(s) THEN "count" ELSE "dead"]
            \in LoopState
      BY <1>2 DEF LoopState, LoopPc
    <2> QED BY <1>5, <1>6, <2>1 DEF Joined, At
  <1>7. CASE Init_Raft(s)
    <2>1. /\ [l EXCEPT !.pc = "dead"] \in LoopState
          /\ \A b \in BOOLEAN, n \in 0..2 :
               [l EXCEPT !.pc = "recv", !.seed = b, !.inits = n] \in LoopState
      BY <1>2, ZenonT(40) DEF LoopState, LoopPc
    <2>2. (l.seed \/ Cardinality(peers[s]) = 1) \in BOOLEAN
      OBVIOUS
    <2>3. (IF l.inits < 2 THEN l.inits + 1 ELSE l.inits) \in 0..2
      <3>1. l.inits \in 0..2
        BY <1>2 DEF LoopState
      <3> HIDE DEF l
      <3> QED BY <3>1
    <2>4. [l EXCEPT !.pc = "recv", !.seed = @ \/ Cardinality(peers[s]) = 1,
                    !.inits = IF @ < 2 THEN @ + 1 ELSE @] \in LoopState
      BY <2>1, <2>2, <2>3, Zenon
    <2> QED BY <1>5, <1>7, <2>1, <2>4 DEF Init_Raft, At
  <1>8. CASE Other(s)
    <2>1. /\ [l EXCEPT !.pc = "dead"] \in LoopState
          /\ [l EXCEPT !.pc = "members", !.event = NoEvent] \in LoopState
          /\ [l EXCEPT !.pc = "recv", !.event = NoEvent] \in LoopState
      BY <1>2, ZenonT(40) DEF LoopState, LoopPc
    <2> QED BY <1>5, <1>8, <2>1 DEF Other, At
  <1>9. CASE SetConfiguration(s)
    <2>1. [l EXCEPT !.pc = "recv"] \in LoopState
      BY <1>2 DEF LoopState, LoopPc
    <2>2. loop' = [loop EXCEPT ![s] = [l EXCEPT !.pc = "recv"]]
      BY <1>1, <1>9 DEF SetConfiguration
    <2>3. loop' \in [Server -> LoopState] /\ \A t \in Server : t # s => loop'[t] = loop[t]
      BY <1>1, <2>1, <2>2
    <2>4. /\ UNCHANGED <<mode, life, due, reaping, peers, ttl, net, losses, callers, pipe>>
          /\ mode[s] # "off"
      BY <1>9 DEF SetConfiguration, At, agent
    <2>5. {Address(u) : u \in peers[s]} \ {s} \subseteq Server
      BY <1>1, AddressIsServer
    <2>6. /\ knownServers' \in [Server -> SUBSET Server]
          /\ \A t \in Server : t # s => knownServers'[t] = knownServers[t]
          /\ knownServers'[s] = knownServers[s] \/ loop[s].seed
      <3>1. CASE UNCHANGED knownServers
        BY <1>1, <3>1
      <3>2. CASE /\ loop[s].seed
                 /\ knownServers' = [knownServers EXCEPT
                                       ![s] = @ \cup ({Address(u) : u \in peers[s]} \ {s})]
        <4> DEFINE known == knownServers[s] \cup ({Address(u) : u \in peers[s]} \ {s})
        <4>1. known \in SUBSET Server
          BY <1>1, <2>5
        <4>2. knownServers' = [knownServers EXCEPT ![s] = known]
          BY <3>2, Zenon
        <4> HIDE DEF known
        <4> QED BY <1>1, <3>2, <4>1, <4>2
      <3> QED BY <1>9, <3>1, <3>2, Zenon DEF SetConfiguration
    <2> QED BY <1>1, <2>3, <2>4, <2>6
  <1> QED BY <1>4, <1>6, <1>7, <1>8, <1>9 DEF LoopNext

\* Only Init_Raft changes what a loop says of its bootstrap and its initialisations.
LEMMA SeedsKept ==
  ASSUME AgentInv, NEW s \in Server, LoopNext(s), ~Init_Raft(s)
  PROVE  loop'[s].seed = loop[s].seed /\ loop'[s].inits = loop[s].inits
  <1>1. loop[s] \in LoopState /\ loop \in [Server -> LoopState]
    BY DEF AgentInv, TypeOK, LoopState
  <1>2. \E e, pc : loop' = [loop EXCEPT ![s] = [loop[s] EXCEPT !.event = e, !.pc = pc]]
    <2>1. CASE Recv(s)
      <3>1. \E pc : loop' = [loop EXCEPT ![s].event = Head(pipe[s]), ![s].pc = pc]
        BY <2>1, Zenon DEF Recv
      <3> QED BY <1>1, <3>1
    <2>2. CASE Joined(s)
      <3>1. \E pc : loop' = [loop EXCEPT ![s] = [loop[s] EXCEPT !.event = NoEvent, !.pc = pc]]
        BY <2>2, Zenon DEF Joined, LoopStep
      <3> QED BY <3>1
    <2>3. CASE Other(s)
      <3>1. \/ loop' = [loop EXCEPT ![s] = [loop[s] EXCEPT !.pc = "dead"]]
            \/ \E pc : loop' = [loop EXCEPT ![s] = [loop[s] EXCEPT !.pc = pc, !.event = NoEvent]]
        BY <2>3, Zenon DEF Other, LoopStep
      <3>2. [loop[s] EXCEPT !.pc = "dead"]
              = [loop[s] EXCEPT !.event = loop[s].event, !.pc = "dead"]
        BY <1>1 DEF LoopState
      <3>3. \A pc : [loop[s] EXCEPT !.pc = pc, !.event = NoEvent]
                      = [loop[s] EXCEPT !.event = NoEvent, !.pc = pc]
        BY <1>1 DEF LoopState
      <3>4. CASE loop' = [loop EXCEPT ![s] = [loop[s] EXCEPT !.pc = "dead"]]
        BY <3>2, <3>4, Zenon
      <3>5. CASE \E pc : loop' = [loop EXCEPT ![s] = [loop[s] EXCEPT !.pc = pc, !.event = NoEvent]]
        <4>1. PICK pc : loop' = [loop EXCEPT ![s] = [loop[s] EXCEPT !.pc = pc, !.event = NoEvent]]
          BY <3>5
        <4>2. [loop[s] EXCEPT !.pc = pc, !.event = NoEvent]
                = [loop[s] EXCEPT !.event = NoEvent, !.pc = pc]
          BY <3>3
        <4> QED BY <4>1, <4>2
      <3> QED BY <3>1, <3>4, <3>5
    <2>4. CASE SetConfiguration(s)
      <3>1. loop' = [loop EXCEPT ![s] = [loop[s] EXCEPT !.pc = "recv"]]
        BY <1>1, <2>4 DEF SetConfiguration
      <3>2. [loop[s] EXCEPT !.pc = "recv"]
              = [loop[s] EXCEPT !.event = loop[s].event, !.pc = "recv"]
        BY <1>1 DEF LoopState
      <3> QED BY <3>1, <3>2, Zenon
    <2> QED BY <2>1, <2>2, <2>3, <2>4 DEF LoopNext
  <1> QED BY <1>1, <1>2 DEF LoopState

\* No step of an agent, a loop, a crash or the clock gives a server a wrong uuid.
LEMMA AgentInvStep ==
  ASSUME AgentInv, [Next]_vars, TimingAssumption, ClusterAssumption
  PROVE  AgentInv'
  <1> USE DEF AgentInv, raft
  <1>1. ASSUME NEW s \in Server, Start(s) PROVE AgentInv'
    <2>1. life' = [life EXCEPT ![s] = @ + 1] /\ life[s] + 1 \in 1..MaxLives[s]
      BY <1>1 DEF Start, TypeOK, ClusterAssumption
    <2>2. TypeOK'
      <3>1. mode' \in [Server -> {"off", "on", "stopped"}]
        BY <1>1 DEF Start, TypeOK
      <3>2. life' \in [Server -> Nat] /\ \A t \in Server : life'[t] <= MaxLives[t]
        BY <2>1 DEF TypeOK, ClusterAssumption
      <3>3. due' \in [Server -> 0..Interval] /\ reaping' \in [Server -> BOOLEAN]
        BY <1>1 DEF Start, TypeOK, TimingAssumption
      <3> QED BY <1>1, <3>1, <3>2, <3>3 DEF Start, TypeOK
    <2>3. Started'
      BY <1>1, <2>1 DEF Start, TypeOK, Started
    <2>5. ASSUME NEW r \in Server
          PROVE  /\ life[r] \in Int /\ life'[r] \in Int /\ life[r] <= life'[r]
                 /\ r # s => life'[r] = life[r]
      <3>1. life \in [Server -> Nat]
        BY DEF TypeOK
      <3>2. CASE r = s
        BY <2>1, <3>1, <3>2
      <3>3. CASE r # s
        BY <2>1, <3>1, <3>3
      <3> QED BY <3>2, <3>3
    <2>4. UuidsAreOld'
      <3>1. ASSUME NEW t \in Server, NEW u \in peers[t]
            PROVE  u[2] <= life'[Address(u)] /\ (Address(u) = t => u = Self(t)')
        <4>1. u \in Uuid /\ Address(u) \in Server /\ t # s
          BY <1>1, <3>1, AddressIsServer DEF TypeOK, Start, Started
        <4>2. u[2] <= life[Address(u)] /\ (Address(u) = t => u = Self(t)) /\ u[2] \in Int
          BY <3>1, <4>1, AddressIsServer DEF UuidsAreOld
        <4>3. life[Address(u)] <= life'[Address(u)] /\ life[Address(u)] \in Int
              /\ life'[Address(u)] \in Int /\ life'[t] = life[t]
          BY <2>5, <4>1
        <4> QED BY <4>1, <4>2, <4>3 DEF Self
      <3>2. ASSUME NEW b \in net
            PROVE  /\ mode'[b.to] = "on" /\ b.uuid[2] <= life'[Address(b.uuid)]
                   /\ Address(b.uuid) = b.to => b.uuid = Self(b.to)'
        <4>1. /\ mode[b.to] = "on" /\ b.uuid[2] <= life[Address(b.uuid)] /\ b.to \in Server
              /\ Address(b.uuid) = b.to => b.uuid = Self(b.to)
          BY <3>2 DEF UuidsAreOld, TypeOK
        <4>2. b.uuid \in Uuid /\ Address(b.uuid) \in Server /\ b.uuid[2] \in Int
          <5>1. b.uuid \in Uuid
            BY <3>2 DEF TypeOK
          <5> QED BY <5>1, AddressIsServer
        <4>3. b.to # s
          BY <1>1, <4>1 DEF Start
        <4>4. life[Address(b.uuid)] <= life'[Address(b.uuid)] /\ life[Address(b.uuid)] \in Int
              /\ life'[Address(b.uuid)] \in Int /\ life'[b.to] = life[b.to]
          BY <2>5, <4>1, <4>2, <4>3
        <4>5. mode'[b.to] = "on"
          BY <1>1, <4>1, <4>3 DEF Start, TypeOK
        <4> QED BY <4>1, <4>2, <4>4, <4>5 DEF Self
      <3> QED BY <1>1, <3>1, <3>2 DEF Start, UuidsAreOld
    <2> QED BY <2>2, <2>3, <2>4
  <1>2. ASSUME NEW s \in Server, Crash(s) PROVE AgentInv'
    <2>1. TypeOK'
      <3>1. mode' \in [Server -> {"off", "on", "stopped"}]
        BY <1>2 DEF Crash, TypeOK
      <3>2. due' \in [Server -> 0..Interval] /\ reaping' \in [Server -> BOOLEAN]
        BY <1>2 DEF Crash, TypeOK, TimingAssumption
      <3>3. peers' \in [Server -> SUBSET Uuid] /\ ttl' \in [Server -> [Uuid -> -1..Expiry]]
        BY <1>2 DEF Crash, TypeOK, TimingAssumption
      <3>4. pipe' \in [Server -> Seq(Event)]
        BY <1>2 DEF Crash, TypeOK
      <3>5. Idle \in [pc : LoopPc, event : Event \cup {NoEvent}, inits : 0..2, seed : BOOLEAN]
        BY DEF Idle, LoopPc
      <3>6. loop' \in [Server -> [pc : LoopPc, event : Event \cup {NoEvent}, inits : 0..2,
                                 seed : BOOLEAN]]
        BY <1>2, <3>5 DEF Crash, TypeOK
      <3>7. net' \subseteq [to : Server, uuid : Uuid, age : 0..MaxDelay]
        BY <1>2 DEF Crash, TypeOK
      <3>8. knownServers' \in [Server -> SUBSET Server] /\ callers' \in [Server -> SUBSET Uuid]
        BY <1>2 DEF Crash, TypeOK
      <3> QED BY <1>2, <3>1, <3>2, <3>3, <3>4, <3>6, <3>7, <3>8 DEF Crash, TypeOK
    <2>2. Started'
      BY <1>2, FS_EmptySet DEF Crash, TypeOK, Started
    <2>3. UuidsAreOld'
      BY <1>2 DEF Crash, TypeOK, UuidsAreOld, Self
    <2> QED BY <2>1, <2>2, <2>3
  <1>3. ASSUME NEW s \in Server, Ping(s) PROVE AgentInv'
    <2>1. Self(s) \in Uuid /\ Self(s)[2] = life[s] /\ Address(Self(s)) = s
      BY <1>3, SelfIsUuid DEF Ping, Started
    <2>2. TypeOK'
      <3>2. reaping' \in [Server -> BOOLEAN]
        BY <1>3 DEF Ping, TypeOK
      <3>1. \A t \in Server : [to |-> t, uuid |-> Self(s), age |-> 0]
                               \in [to : Server, uuid : Uuid, age : 0..MaxDelay]
        BY <2>1 DEF TimingAssumption
      <3>3. net' \subseteq [to : Server, uuid : Uuid, age : 0..MaxDelay]
        BY <1>3, <3>1 DEF Ping, TypeOK
      <3> QED BY <1>3, <3>2, <3>3 DEF Ping, TypeOK
    <2>3. Started'
      BY <1>3 DEF Ping, TypeOK, Started
    <2>4. UuidsAreOld'
      <3>1. ASSUME NEW b \in net'
            PROVE  /\ mode[b.to] = "on" /\ b.uuid[2] <= life[Address(b.uuid)]
                   /\ Address(b.uuid) = b.to => b.uuid = Self(b.to)
        <4>1. CASE b \in net
          BY <4>1 DEF UuidsAreOld
        <4>2. CASE \E t \in Server : mode[t] = "on" /\ b = [to |-> t, uuid |-> Self(s), age |-> 0]
          <5>1. mode[b.to] = "on" /\ b.uuid = Self(s)
            BY <4>2
          <5> QED BY <2>1, <5>1 DEF TypeOK
        <4> QED BY <1>3, <3>1, <4>1, <4>2 DEF Ping
      <3> QED BY <1>3, <3>1 DEF Ping, UuidsAreOld, Self
    <2> QED BY <2>2, <2>3, <2>4
  <1>4. ASSUME NEW s \in Server, SendFails(s) PROVE AgentInv'
    <2>1. TypeOK'
      BY <1>4 DEF SendFails, TypeOK
    <2>2. Started'
      BY <1>4 DEF SendFails, TypeOK, Started
    <2>3. UuidsAreOld'
      BY <1>4 DEF SendFails, TypeOK, UuidsAreOld, Self
    <2> QED BY <2>1, <2>2, <2>3
  <1>5. ASSUME NEW s \in Server, ReapPeers(s) PROVE AgentInv'
    <2>1. Expired(s) \in SUBSET Uuid /\ IsFiniteSet(Expired(s)) /\ IsFiniteSet(peers[s] \ Expired(s))
      BY FS_Subset DEF Expired, TypeOK, Started
    <2>2. PICK q \in Announcements("LEFT", Expired(s)) : pipe' = [pipe EXCEPT ![s] = @ \o q]
      BY <1>5 DEF ReapPeers
    <2>3. q \in Seq(Event)
      BY <2>1, <2>2, AnnouncedMembers
    <2>4. pipe' \in [Server -> Seq(Event)]
      BY <2>2, <2>3 DEF TypeOK
    <2>5. TypeOK'
      <3>1. ttl' \in [Server -> [Uuid -> -1..Expiry]]
        BY <1>5 DEF ReapPeers, TypeOK, TimingAssumption
      <3>2. due' \in [Server -> 0..Interval] /\ reaping' \in [Server -> BOOLEAN]
        BY <1>5 DEF ReapPeers, TypeOK, TimingAssumption
      <3> QED BY <1>5, <2>4, <3>1, <3>2 DEF ReapPeers, TypeOK
    <2>6. Started'
      BY <1>5, <2>1, <2>2 DEF ReapPeers, TypeOK, Started
    <2>7. UuidsAreOld'
      BY <1>5 DEF ReapPeers, TypeOK, UuidsAreOld, Self
    <2> QED BY <2>5, <2>6, <2>7
  <1>6. ASSUME NEW b \in net, HandleBeacon(b) PROVE AgentInv'
    <2>1. b.to \in Server /\ b.uuid \in Uuid
      BY DEF TypeOK
    <2>2. [what |-> "JOINED", uuid |-> b.uuid] \in Event
      BY <2>1 DEF Event
    <2>3. TypeOK'
      <3>1. ttl' \in [Server -> [Uuid -> -1..Expiry]]
        BY <1>6, <2>1 DEF HandleBeacon, TypeOK, TimingAssumption
      <3>2. pipe' \in [Server -> Seq(Event)]
        BY <1>6, <2>1, <2>2 DEF HandleBeacon, TypeOK
      <3>3. peers' \in [Server -> SUBSET Uuid] /\ net' \subseteq net
        BY <1>6, <2>1 DEF HandleBeacon, TypeOK
      <3> QED BY <1>6, <3>1, <3>2, <3>3 DEF HandleBeacon, TypeOK
    <2>4. Started'
      <3>1. IsFiniteSet(peers[b.to] \cup {b.uuid})
        BY <2>1, FS_AddElement DEF Started
      <3> QED BY <1>6, <2>1, <3>1 DEF HandleBeacon, TypeOK, Started, UuidsAreOld
    <2>5. UuidsAreOld'
      BY <1>6, <2>1 DEF HandleBeacon, TypeOK, UuidsAreOld, Self
    <2> QED BY <2>3, <2>4, <2>5
  <1>7. ASSUME NEW b \in net, Lose(b) PROVE AgentInv'
    <2>1. TypeOK'
      <3>1. losses' \in 0..MaxLosses
        BY <1>7 DEF Lose, TypeOK, ClusterAssumption
      <3> QED BY <1>7, <3>1 DEF Lose, TypeOK, agent
    <2> QED BY <1>7, <2>1 DEF Lose, Started, UuidsAreOld, Self, agent
  <1>8. ASSUME Tick PROVE AgentInv'
    <2>1. ASSUME NEW b \in net
          PROVE  /\ [b EXCEPT !.age = @ + 1] \in [to : Server, uuid : Uuid, age : 0..MaxDelay]
                 /\ [b EXCEPT !.age = @ + 1].to = b.to /\ [b EXCEPT !.age = @ + 1].uuid = b.uuid
      <3>1. b \in [to : Server, uuid : Uuid, age : 0..MaxDelay] /\ b.age < MaxDelay
        BY <1>8, <2>1 DEF Tick, TypeOK
      <3>2. b.age + 1 \in 0..MaxDelay
        BY <3>1 DEF TimingAssumption
      <3> QED BY <3>1, <3>2
    <2>2. TypeOK'
      <3>1. ttl' \in [Server -> [Uuid -> -1..Expiry]]
        BY <1>8, SMTT(30) DEF Tick, TypeOK, TimingAssumption
      <3>2. due' \in [Server -> 0..Interval]
        BY <1>8 DEF Tick, TypeOK, TimingAssumption
      <3>3. net' \subseteq [to : Server, uuid : Uuid, age : 0..MaxDelay]
        BY <1>8, <2>1 DEF Tick
      <3> QED BY <1>8, <3>1, <3>2, <3>3 DEF Tick, TypeOK
    <2>3. Started'
      BY <1>8 DEF Tick, TypeOK, Started
    <2>4. UuidsAreOld'
      <3>1. \A b \in net' : \E c \in net : b.to = c.to /\ b.uuid = c.uuid
        BY <1>8, <2>1 DEF Tick
      <3> QED BY <1>8, <3>1 DEF Tick, UuidsAreOld, Self
    <2> QED BY <2>2, <2>3, <2>4
  <1>9. ASSUME NEW s \in Server, LoopNext(s) PROVE AgentInv'
    <2>1. /\ UNCHANGED <<mode, life, due, reaping, peers, ttl, net, losses, callers>>
          /\ mode[s] # "off" /\ pipe' \in [Server -> Seq(Event)]
          /\ loop' \in [Server -> LoopState] /\ knownServers' \in [Server -> SUBSET Server]
          /\ \A t \in Server : t # s => pipe'[t] = pipe[t] /\ loop'[t] = loop[t]
      BY <1>9, LoopStepTypes
    <2>2. TypeOK'
      BY <2>1 DEF TypeOK, LoopState
    <2> QED BY <2>1, <2>2 DEF Started, UuidsAreOld, Self
  <1>11. ASSUME NEW s \in Server, NEW t \in Server, AppendEntries(t, s) PROVE AgentInv'
    <2>1. Self(t) \in Uuid
      BY <1>11, SelfIsUuid DEF AppendEntries, Started
    <2>2. TypeOK'
      <3>1. callers' \in [Server -> SUBSET Uuid]
        BY <1>11, <2>1 DEF AppendEntries, TypeOK
      <3> QED BY <1>11, <3>1 DEF AppendEntries, TypeOK, agent
    <2> QED BY <1>11, <2>2 DEF AppendEntries, Started, UuidsAreOld, Self, agent
  <1>10. CASE UNCHANGED vars
    BY <1>10 DEF vars, TypeOK, Started, UuidsAreOld, Self
  <1> QED BY <1>1, <1>2, <1>3, <1>4, <1>5, <1>6, <1>7, <1>8, <1>9, <1>10, <1>11 DEF Next

\* A loss is never undone.
LEMMA LossesOnlyGrow ==
  ASSUME AgentInv, [Next]_vars
  PROVE  losses' = losses \/ (losses' = losses + 1 /\ losses' # 0)
  <1>1. losses \in Nat
    BY DEF AgentInv, TypeOK
  <1>2. ASSUME NEW s \in Server, LoopNext(s) PROVE losses' = losses
    BY <1>2, LoopStepTypes
  <1>3. ASSUME NEW s \in Server, Start(s) \/ Crash(s) \/ Ping(s) \/ SendFails(s) \/ ReapPeers(s)
        PROVE  losses' = losses
    BY <1>3 DEF Start, Crash, Ping, SendFails, ReapPeers
  <1>4. ASSUME NEW b \in net, HandleBeacon(b) \/ Lose(b)
        PROVE  losses' = losses \/ losses' = losses + 1
    BY <1>4 DEF HandleBeacon, Lose
  <1>5. ASSUME Tick PROVE losses' = losses
    BY <1>5 DEF Tick
  <1>6. ASSUME UNCHANGED vars PROVE losses' = losses
    BY <1>6 DEF vars
  <1>9. ASSUME NEW s \in Server, NEW t \in Server, AppendEntries(t, s) PROVE losses' = losses
    BY <1>9 DEF AppendEntries
  <1>7. losses' = losses \/ losses' = losses + 1
    BY <1>2, <1>3, <1>4, <1>5, <1>6, <1>9, Zenon DEF Next
  <1>8. losses' = losses + 1 => losses' # 0
    BY <1>1
  <1> QED BY <1>7, <1>8

\* A step that keeps a peer's expiry, its sender's timers and the beacons under way
\* between the two keeps InTime.
LEMMA InTimeKept ==
  ASSUME NEW r \in Server, NEW t \in Server, InTime(r, t), Self(t)' = Self(t),
         ttl'[r][Self(t)] = ttl[r][Self(t)], NextBeacon(t)' = NextBeacon(t),
         \A b \in net : b.to = r /\ b.uuid = Self(t) => b \in net'
  PROVE  InTime(r, t)'
  BY DEF InTime

\* Whatever happens, the next beacon of a peer that runs is still in time.
LEMMA HeardInTimeStep ==
  ASSUME AgentInv, HeardInTime, [Next]_vars, TimingAssumption, ClusterAssumption
  PROVE  HeardInTime'
  <1> SUFFICES ASSUME NEW r \in Server, NEW t \in Server, mode'[r] = "on", mode'[t] = "on",
                      Unbroken(t, r)', Self(t)' \in peers'[r]
               PROVE  InTime(r, t)'
    BY DEF HeardInTime
  <1> USE DEF AgentInv
  <1>0. Unbroken(t, r)
    BY LossesOnlyGrow DEF Unbroken
  <1>1. ASSUME mode[r] = "on", mode[t] = "on", Self(t) \in peers[r]
        PROVE  /\ InTime(r, t) /\ Self(t) \in Uuid /\ life[t] >= 1
               /\ ttl[r][Self(t)] \in Int /\ due[t] \in Int /\ NextBeacon(t) \in Int
    <2>1. InTime(r, t) /\ life[t] >= 1
      BY <1>0, <1>1 DEF HeardInTime, Started
    <2>2. Self(t) \in Uuid
      BY <2>1, SelfIsUuid
    <2> QED BY <2>1, <2>2 DEF TypeOK, NextBeacon, TimingAssumption
  <1>2. ASSUME NEW s \in Server, Start(s) PROVE InTime(r, t)'
    <2>1. r # s /\ Self(t)' \in peers[r]
      BY <1>2 DEF Start, Started
    <2>2. t # s
      <3>1. ASSUME t = s PROVE FALSE
        <4>1. life'[s] = life[s] + 1 /\ life[s] \in Nat
          BY <1>2 DEF Start, TypeOK
        <4>2. Self(t)'[2] = life[s] + 1 /\ Address(Self(t)') = s
          BY <3>1, <4>1 DEF Self, Address
        <4>3. Self(t)'[2] <= life[Address(Self(t)')]
          BY <2>1 DEF UuidsAreOld
        <4> QED BY <4>1, <4>2, <4>3
      <3> QED BY <3>1
    <2>3. /\ mode[r] = "on" /\ mode[t] = "on" /\ Self(t)' = Self(t) /\ NextBeacon(t)' = NextBeacon(t)
      BY <1>2, <2>1, <2>2 DEF Start, TypeOK, Self, NextBeacon
    <2> QED BY <1>1, <1>2, <2>1, <2>3, InTimeKept DEF Start
  <1>3. ASSUME NEW s \in Server, Crash(s) PROVE InTime(r, t)'
    <2>1. r # s /\ t # s
      BY <1>3 DEF Crash, TypeOK
    <2>2. /\ mode[r] = "on" /\ mode[t] = "on" /\ Self(t)' = Self(t) /\ NextBeacon(t)' = NextBeacon(t)
          /\ Self(t) \in peers[r] /\ ttl'[r] = ttl[r]
      BY <1>3, <2>1 DEF Crash, TypeOK, Self, NextBeacon
    <2>3. \A b \in net : b.to = r => b \in net'
      BY <1>3, <2>1 DEF Crash
    <2> QED BY <1>1, <2>2, <2>3, InTimeKept
  <1>4. ASSUME NEW s \in Server, Ping(s) PROVE InTime(r, t)'
    <2>1. /\ mode[r] = "on" /\ mode[t] = "on" /\ Self(t)' = Self(t) /\ Self(t) \in peers[r]
          /\ ttl' = ttl /\ net \subseteq net' /\ due' = due
      BY <1>4 DEF Ping, Self
    <2>2. CASE t # s
      <3>1. NextBeacon(t)' = NextBeacon(t)
        BY <1>4, <2>2 DEF Ping, TypeOK, NextBeacon
      <3> QED BY <1>1, <2>1, <3>1, InTimeKept
    <2>3. CASE t = s
      <3>1. CASE ttl[r][Self(t)] >= NextBeacon(t) + MaxDelay
        <4> DEFINE c == [to |-> r, uuid |-> Self(t), age |-> 0]
        <4>1. NextBeacon(t) = 0
          BY <1>4, <2>3 DEF Ping, NextBeacon
        <4>2. c \in net' /\ ttl'[r][Self(t)'] >= MaxDelay - c.age
          BY <1>1, <1>4, <2>1, <2>3, <3>1, <4>1 DEF Ping, TimingAssumption
        <4> QED BY <2>1, <4>2 DEF InTime
      <3>2. CASE \E b \in net : b.to = r /\ b.uuid = Self(t) /\ ttl[r][Self(t)] >= MaxDelay - b.age
        BY <2>1, <3>2 DEF InTime
      <3> QED BY <1>1, <2>1, <3>1, <3>2 DEF InTime
    <2> QED BY <2>2, <2>3
  <1>5. ASSUME NEW s \in Server, SendFails(s) PROVE InTime(r, t)'
    <2>1. r # s /\ t # s
      BY <1>5 DEF SendFails, TypeOK
    <2>2. /\ mode[r] = "on" /\ mode[t] = "on" /\ Self(t)' = Self(t) /\ NextBeacon(t)' = NextBeacon(t)
          /\ Self(t) \in peers[r] /\ ttl' = ttl
      BY <1>5, <2>1 DEF SendFails, TypeOK, Self, NextBeacon
    <2>3. \A b \in net : b.to = r => b \in net'
      BY <1>5, <2>1 DEF SendFails
    <2> QED BY <1>1, <2>2, <2>3, InTimeKept
  <1>6. ASSUME NEW s \in Server, ReapPeers(s) PROVE InTime(r, t)'
    <2>1. /\ mode[r] = "on" /\ mode[t] = "on" /\ Self(t)' = Self(t) /\ net' = net
      BY <1>6 DEF ReapPeers, Self
    <2>2. NextBeacon(t)' = NextBeacon(t)
      BY <1>6 DEF ReapPeers, TypeOK, NextBeacon
    <2>3. Self(t) \in peers[r] /\ (r = s => Self(t) \notin Expired(s))
      BY <1>6, <2>1 DEF ReapPeers, TypeOK
    <2>4. ttl'[r][Self(t)] = ttl[r][Self(t)]
      BY <1>1, <1>6, <2>1, <2>3 DEF ReapPeers, TypeOK
    <2> QED BY <1>1, <2>1, <2>2, <2>3, <2>4, InTimeKept
  <1>7. ASSUME NEW b \in net, HandleBeacon(b) PROVE InTime(r, t)'
    <2>1. /\ mode[r] = "on" /\ mode[t] = "on" /\ Self(t)' = Self(t) /\ NextBeacon(t)' = NextBeacon(t)
          /\ b.to \in Server /\ b.uuid \in Uuid
      BY <1>7 DEF HandleBeacon, Self, NextBeacon, TypeOK
    <2>2. CASE b.to = r /\ b.uuid = Self(t)
      <3>1. ttl'[r][Self(t)] = Expiry
        BY <1>7, <2>1, <2>2 DEF HandleBeacon, TypeOK
      <3>2. NextBeacon(t) \in 0..Interval
        BY DEF NextBeacon, TypeOK, TimingAssumption
      <3> QED BY <2>1, <3>1, <3>2 DEF InTime, TimingAssumption
    <2>3. CASE ~(b.to = r /\ b.uuid = Self(t))
      <3>1. Self(t) \in peers[r]
        BY <1>7, <2>1, <2>3 DEF HandleBeacon, TypeOK
      <3>2. ttl'[r][Self(t)] = ttl[r][Self(t)]
        BY <1>1, <1>7, <2>1, <2>3, <3>1 DEF HandleBeacon, TypeOK
      <3>3. \A c \in net : c.to = r /\ c.uuid = Self(t) => c \in net'
        BY <1>7, <2>3 DEF HandleBeacon
      <3> QED BY <1>1, <2>1, <3>1, <3>2, <3>3, InTimeKept
    <2> QED BY <2>2, <2>3
  <1>8. ASSUME NEW b \in net, Lose(b) PROVE InTime(r, t)'
    <2>1. /\ mode[r] = "on" /\ mode[t] = "on" /\ Self(t)' = Self(t) /\ NextBeacon(t)' = NextBeacon(t)
          /\ Self(t) \in peers[r] /\ ttl' = ttl /\ net' = net \ {b}
      BY <1>8 DEF Lose, Self, NextBeacon, agent
    <2>2. Address(Self(t)) = t
      BY DEF Self, Address
    <2>3. \A c \in net : c.to = r /\ c.uuid = Self(t) => c \in net'
      <3>1. losses' = losses + 1 /\ losses \in Nat /\ <<Address(b.uuid), b.to>> \in Lossy
        BY <1>8 DEF Lose, TypeOK
      <3>2. <<t, r>> \notin Lossy
        BY <3>1 DEF Unbroken
      <3> QED BY <2>1, <2>2, <3>1, <3>2
    <2> QED BY <1>1, <2>1, <2>3, InTimeKept
  <1>9. ASSUME Tick PROVE InTime(r, t)'
    <2>1. /\ mode[r] = "on" /\ mode[t] = "on" /\ Self(t)' = Self(t) /\ Self(t) \in peers[r]
          /\ due[t] > 0 /\ due'[t] = due[t] - 1 /\ reaping' = reaping
      BY <1>9 DEF Tick, Self, TypeOK
    <2>2. ~reaping[t]
      BY <2>1 DEF Started
    <2>3. NextBeacon(t)' = NextBeacon(t) - 1 /\ NextBeacon(t) > 0
      BY <1>1, <2>1, <2>2 DEF NextBeacon
    <2>4. ttl[r][Self(t)] >= 0 => ttl'[r][Self(t)] = ttl[r][Self(t)] - 1
      BY <1>1, <1>9, <2>1 DEF Tick
    <2>5. CASE ttl[r][Self(t)] >= NextBeacon(t) + MaxDelay
      BY <1>1, <2>1, <2>3, <2>4, <2>5 DEF InTime, TimingAssumption
    <2>6. CASE \E b \in net : b.to = r /\ b.uuid = Self(t) /\ ttl[r][Self(t)] >= MaxDelay - b.age
      <3>1. PICK b \in net : b.to = r /\ b.uuid = Self(t) /\ ttl[r][Self(t)] >= MaxDelay - b.age
        BY <2>6
      <3>2. b \in [to : Server, uuid : Uuid, age : 0..MaxDelay] /\ b.age < MaxDelay
        BY <1>9, <3>1 DEF Tick, TypeOK
      <3> DEFINE c == [b EXCEPT !.age = @ + 1]
      <3>3. c \in net' /\ c.to = r /\ c.uuid = Self(t) /\ c.age = b.age + 1
        BY <1>9, <3>1, <3>2 DEF Tick
      <3>4. ttl'[r][Self(t)] >= MaxDelay - c.age
        BY <1>1, <2>1, <2>4, <3>1, <3>2, <3>3 DEF TimingAssumption
      <3> QED BY <2>1, <3>3, <3>4 DEF InTime
    <2> QED BY <1>1, <2>1, <2>5, <2>6 DEF InTime
  <1>10. ASSUME NEW s \in Server, LoopNext(s) PROVE InTime(r, t)'
    <2>1. UNCHANGED <<mode, life, due, reaping, peers, ttl, net, losses>>
      BY <1>10, LoopStepTypes
    <2> QED BY <1>1, <2>1, InTimeKept DEF Self, NextBeacon
  <1>11. CASE UNCHANGED vars
    BY <1>1, <1>11, InTimeKept DEF vars, Self, NextBeacon
  <1>12. ASSUME NEW s \in Server, NEW q \in Server, AppendEntries(q, s) PROVE InTime(r, t)'
    BY <1>1, <1>12, InTimeKept DEF AppendEntries, agent, Self, NextBeacon
  <1> QED BY <1>2, <1>3, <1>4, <1>5, <1>6, <1>7, <1>8, <1>9, <1>10, <1>11, <1>12 DEF Next

\* reap_peers finds no peer expired that runs and is heard.
LEMMA HeardIsNotExpired ==
  ASSUME AgentInv, HeardInTime, NEW r \in Server, NEW t \in Server, mode[r] = "on",
         mode[t] = "on", Unbroken(t, r), Self(t) \in peers[r],
         TimingAssumption, ClusterAssumption
  PROVE  Self(t) \notin Expired(r)
  <1>1. InTime(r, t) /\ life[t] >= 1
    BY DEF HeardInTime, AgentInv, Started
  <1>2. Self(t) \in Uuid
    BY <1>1, SelfIsUuid DEF AgentInv
  <1>3. ttl[r][Self(t)] \in Int /\ NextBeacon(t) \in Nat
    BY <1>2 DEF AgentInv, TypeOK, NextBeacon, TimingAssumption
  <1>4. \A b \in net : b.age \in 0..MaxDelay
    BY DEF AgentInv, TypeOK
  <1>5. ttl[r][Self(t)] >= 0
    BY <1>1, <1>3, <1>4 DEF InTime, TimingAssumption
  <1> QED BY <1>3, <1>5 DEF Expired
-----------------------------------------------------------------------------
(* The loops *)

\* A step that leaves a pipe and a loop alone and does not forget the server itself.
LEMMA JoinsKept ==
  ASSUME NEW r \in Server, JoinsOnce(r), pipe'[r] = pipe[r], loop'[r] = loop[r],
         Self(r)' = Self(r), Self(r) \in peers[r] => Self(r) \in peers'[r]
  PROVE  JoinsOnce(r)'
  BY DEF JoinsOnce, Own

\* A pipe that gains no event of its own server's address.
LEMMA JoinsKeptByOthers ==
  ASSUME NEW r \in Server, AgentInv, JoinsOnce(r), NEW q \in Seq(Event),
         pipe'[r] = pipe[r] \o q, \A i \in 1..Len(q) : ~Own(r, q[i]),
         loop'[r] = loop[r], Self(r)' = Self(r), Self(r) \in peers[r] => Self(r) \in peers'[r]
  PROVE  JoinsOnce(r)'
  <1>1. pipe[r] \in Seq(Event)
    BY DEF AgentInv, TypeOK
  <1>2. ASSUME NEW i \in 1..Len(pipe'[r]), Own(r, pipe'[r][i])
        PROVE  i \in 1..Len(pipe[r]) /\ pipe'[r][i] = pipe[r][i]
    <2>1. CASE i <= Len(pipe[r])
      BY <1>1, <1>2, <2>1
    <2>2. CASE i > Len(pipe[r])
      <3>1. i - Len(pipe[r]) \in 1..Len(q) /\ pipe'[r][i] = q[i - Len(pipe[r])]
        BY <1>1, <1>2, <2>2
      <3> QED BY <1>2, <3>1
    <2> QED BY <1>1, <1>2, <2>1, <2>2
  <1>3. ASSUME NEW i \in 1..Len(pipe'[r]), Own(r, pipe'[r][i])
        PROVE  /\ pipe'[r][i].what = "JOINED" /\ Self(r) \in peers'[r]
               /\ loop'[r].inits = 0 /\ loop'[r].pc \notin {"joined", "count"}
               /\ \A j \in 1..Len(pipe'[r]) : Own(r, pipe'[r][j]) => i = j
    BY <1>2, <1>3 DEF JoinsOnce
  <1> QED BY <1>3 DEF JoinsOnce, Own

\* A server hears that it has joined once in its life, because it is never reaped.
LEMMA OwnJoinsOnceStep ==
  ASSUME ClusterInv, [Next]_vars, TimingAssumption, ClusterAssumption
  PROVE  OwnJoinsOnce'
  <1> SUFFICES ASSUME NEW r \in Server PROVE JoinsOnce(r)'
    BY DEF OwnJoinsOnce
  <1> USE DEF ClusterInv, AgentInv
  <1>1. JoinsOnce(r) /\ pipe[r] \in Seq(Event) /\ loop[r] \in LoopState
    BY DEF OwnJoinsOnce, TypeOK, LoopState
  <1>2. ASSUME NEW s \in Server, Start(s) PROVE JoinsOnce(r)'
    <2>1. CASE r = s
      <3>1. pipe'[r] = <<>> /\ loop'[r] = Idle
        BY <1>2, <2>1 DEF Start, Started
      <3> QED BY <3>1 DEF JoinsOnce, Idle
    <2>2. CASE r # s
      BY <1>1, <1>2, <2>2, JoinsKept DEF Start, Self, TypeOK
    <2> QED BY <2>1, <2>2
  <1>3. ASSUME NEW s \in Server, Crash(s) PROVE JoinsOnce(r)'
    <2>1. CASE r = s
      <3>1. pipe'[r] = <<>> /\ loop'[r] = Idle
        BY <1>3, <2>1 DEF Crash, TypeOK
      <3> QED BY <3>1 DEF JoinsOnce, Idle
    <2>2. CASE r # s
      BY <1>1, <1>3, <2>2, JoinsKept DEF Crash, Self, TypeOK
    <2> QED BY <2>1, <2>2
  <1>4. ASSUME NEW s \in Server, Ping(s) \/ SendFails(s) PROVE JoinsOnce(r)'
    BY <1>1, <1>4, JoinsKept DEF Ping, SendFails, Self
  <1>5. ASSUME NEW s \in Server, ReapPeers(s) PROVE JoinsOnce(r)'
    <2>1. CASE r = s
      <3>1. Self(r) \in peers[r] => Self(r) \notin Expired(r)
        BY <1>5, <2>1, HeardIsNotExpired DEF ReapPeers, ClusterAssumption, Unbroken
      <3>2. PICK q \in Announcements("LEFT", Expired(s)) : pipe' = [pipe EXCEPT ![s] = @ \o q]
        BY <1>5 DEF ReapPeers
      <3>3. Expired(s) \in SUBSET Uuid /\ IsFiniteSet(Expired(s)) /\ Expired(s) \subseteq peers[s]
        BY FS_Subset DEF Expired, TypeOK, Started
      <3>4. q \in Seq(Event) /\ \A i \in 1..Len(q) : q[i].uuid \in Expired(s)
        BY <3>2, <3>3, AnnouncedMembers
      <3>5. \A i \in 1..Len(q) : ~Own(r, q[i])
        BY <2>1, <3>1, <3>3, <3>4 DEF Own, UuidsAreOld
      <3>6. pipe'[r] = pipe[r] \o q /\ loop' = loop /\ Self(r)' = Self(r)
            /\ peers'[r] = peers[r] \ Expired(r)
        BY <1>5, <2>1, <3>2 DEF ReapPeers, TypeOK, Self
      <3> QED BY <1>1, <3>1, <3>4, <3>5, <3>6, JoinsKeptByOthers
    <2>2. CASE r # s
      BY <1>1, <1>5, <2>2, JoinsKept DEF ReapPeers, Self, TypeOK
    <2> QED BY <2>1, <2>2
  <1>6. ASSUME NEW b \in net, HandleBeacon(b) PROVE JoinsOnce(r)'
    <2>1. /\ loop' = loop /\ Self(r)' = Self(r) /\ b.to \in Server /\ b.uuid \in Uuid
          /\ peers[r] \subseteq peers'[r] /\ (b.to = r => b.uuid \in peers'[r])
      BY <1>6 DEF HandleBeacon, Self, TypeOK
    <2>2. CASE b.to # r \/ b.uuid \in peers[r]
      <3>1. pipe'[r] = pipe[r]
        BY <1>6, <2>1, <2>2 DEF HandleBeacon, TypeOK
      <3> QED BY <1>1, <2>1, <3>1, JoinsKept
    <2>3. CASE b.to = r /\ b.uuid \notin peers[r]
      <3> DEFINE e == [what |-> "JOINED", uuid |-> b.uuid]
      <3>1. pipe'[r] = Append(pipe[r], e) /\ e \in Event
        BY <1>6, <2>1, <2>3 DEF HandleBeacon, TypeOK, Event
      <3>2. CASE Address(b.uuid) # r
        <4>1. /\ <<e>> \in Seq(Event) /\ pipe'[r] = pipe[r] \o <<e>>
              /\ \A i \in 1..Len(<<e>>) : ~Own(r, <<e>>[i])
          BY <1>1, <3>1, <3>2 DEF Own
        <4> QED BY <1>1, <2>1, <4>1, JoinsKeptByOthers
      <3>3. CASE Address(b.uuid) = r
        <4>1. b.uuid = Self(r) /\ Self(r) \notin peers[r] /\ Self(r) \in peers'[r]
          BY <2>1, <2>3, <3>3 DEF UuidsAreOld
        <4>2. /\ \A i \in 1..Len(pipe[r]) : ~Own(r, pipe[r][i])
              /\ loop[r].pc \notin {"joined", "count"} /\ loop[r].inits = 0
          BY <1>1, <4>1 DEF JoinsOnce, LoopState
        <4>3. \A i \in 1..Len(pipe'[r]) : Own(r, pipe'[r][i]) =>
                i = Len(pipe[r]) + 1 /\ pipe'[r][i] = e
          BY <1>1, <3>1, <4>2
        <4>4. ASSUME NEW i \in 1..Len(pipe'[r]), Own(r, pipe'[r][i])
              PROVE  /\ pipe'[r][i].what = "JOINED"
                     /\ \A j \in 1..Len(pipe'[r]) : Own(r, pipe'[r][j]) => i = j
          BY <4>3, <4>4
        <4>5. loop[r].pc = "other" => ~Own(r, loop[r].event)
          BY <1>1 DEF JoinsOnce
        <4> HIDE DEF e
        <4> QED BY <2>1, <4>1, <4>2, <4>4, <4>5 DEF JoinsOnce, Own
      <3> QED BY <3>2, <3>3
    <2> QED BY <2>2, <2>3
  <1>7. ASSUME NEW b \in net, Lose(b) PROVE JoinsOnce(r)'
    BY <1>1, <1>7, JoinsKept DEF Lose, Self, agent
  <1>8. CASE Tick
    BY <1>1, <1>8, JoinsKept DEF Tick, Self
  <1>9. ASSUME NEW s \in Server, LoopNext(s) PROVE JoinsOnce(r)'
    <2>1. /\ UNCHANGED <<mode, life, due, reaping, peers, ttl, net, losses>>
          /\ \A t \in Server : t # s => pipe'[t] = pipe[t] /\ loop'[t] = loop[t]
          /\ Self(r)' = Self(r)
      BY <1>9, LoopStepTypes DEF Self
    <2>2. CASE r # s
      BY <1>1, <2>1, <2>2, JoinsKept
    <2>3. CASE r = s
      <3> DEFINE l == loop[r]
      <3>1. ASSUME NEW new, LoopStep(r, new)
            PROVE  pipe'[r] = pipe[r] /\ loop'[r] = new
        BY <3>1 DEF LoopStep, TypeOK
      <3>2. CASE Recv(s)
        <4> DEFINE e == Head(pipe[r])
        <4>1. /\ pipe'[r] = Tail(pipe[r]) /\ pipe[r] # <<>>
              /\ l.pc = "recv"
          BY <2>3, <3>2 DEF Recv, At, TypeOK
        <4>2. loop'[r] = [l EXCEPT !.event = e,
                            !.pc = IF localAddress(r) /\ Address(e.uuid) = r /\ e.what = "JOINED"
                                   THEN "joined" ELSE "other"]
          BY <2>3, <3>2 DEF Recv, TypeOK
        <4>3. Own(r, e) => /\ e.what = "JOINED" /\ Self(r) \in peers[r] /\ l.inits = 0
                           /\ \A j \in 1..Len(pipe[r]) : Own(r, pipe[r][j]) => j = 1
          <5>1. 1 \in 1..Len(pipe[r]) /\ e = pipe[r][1]
            BY <1>1, <4>1
          <5> QED BY <1>1, <5>1 DEF JoinsOnce
        <4>4. \A i \in 1..Len(Tail(pipe[r])) :
                i + 1 \in 1..Len(pipe[r]) /\ Tail(pipe[r])[i] = pipe[r][i + 1]
          BY <1>1, <4>1
        <4>5. loop'[r].inits = l.inits
          BY <1>1, <4>2 DEF LoopState
        <4>6. CASE Own(r, e)
          <5>1. loop'[r].pc = "joined"
            BY <1>1, <4>2, <4>3, <4>6 DEF LoopState, localAddress, Own
          <5>2. \A i \in 1..Len(pipe'[r]) : ~Own(r, pipe'[r][i])
            BY <1>1, <4>1, <4>3, <4>4, <4>6
          <5> QED BY <2>1, <4>3, <4>5, <4>6, <5>1, <5>2 DEF JoinsOnce, Own
        <4>7. CASE ~Own(r, e)
          <5>1. loop'[r].pc = "other" /\ loop'[r].event = e
            BY <1>1, <4>2, <4>7 DEF LoopState, Own
          <5>2. ASSUME NEW i \in 1..Len(pipe'[r]), Own(r, pipe'[r][i])
                PROVE  /\ pipe'[r][i].what = "JOINED" /\ Self(r) \in peers[r] /\ l.inits = 0
                       /\ \A j \in 1..Len(pipe'[r]) : Own(r, pipe'[r][j]) => i = j
            BY <1>1, <4>1, <4>4, <5>2 DEF JoinsOnce
          <5>3. l.inits > 0 => Self(r) \in peers[r]
            BY <1>1 DEF JoinsOnce
          <5>4. l.inits <= 1
            BY <1>1 DEF JoinsOnce
          <5> HIDE DEF e
          <5> QED BY <2>1, <4>5, <4>7, <5>1, <5>2, <5>3, <5>4 DEF JoinsOnce, Own
        <4> QED BY <4>6, <4>7
      <3>3. CASE Joined(s)
        <4>1. l.pc = "joined" /\ localAddress(r)
          BY <1>1, <2>3, <3>3 DEF Joined, At, JoinsOnce, localAddress
        <4>2. pipe'[r] = pipe[r] /\ loop'[r] = [l EXCEPT !.event = NoEvent, !.pc = "count"]
          BY <2>3, <3>1, <3>3, <4>1 DEF Joined
        <4> QED BY <1>1, <2>1, <4>1, <4>2 DEF JoinsOnce, LoopState, Own
      <3>4. CASE Init_Raft(s)
        <4>1. /\ l.pc = "count" /\ l.inits = 0 /\ Self(r) \in peers[r]
              /\ \A i \in 1..Len(pipe[r]) : ~Own(r, pipe[r][i])
          BY <1>1, <2>3, <3>4 DEF Init_Raft, At, JoinsOnce
        <4>2. CASE Cardinality(peers[r]) = 1 /\ ~Untouched(r)
          <5>1. pipe'[r] = pipe[r] /\ loop'[r] = [l EXCEPT !.pc = "dead"]
            BY <2>3, <3>1, <3>4, <4>2 DEF Init_Raft
          <5>2. loop'[r].pc = "dead" /\ loop'[r].inits = 0
            BY <1>1, <4>1, <5>1 DEF LoopState
          <5> QED BY <2>1, <4>1, <5>1, <5>2 DEF JoinsOnce, Own
        <4>3. CASE ~(Cardinality(peers[r]) = 1 /\ ~Untouched(r))
          <5>1. pipe'[r] = pipe[r]
                /\ loop'[r] = [l EXCEPT !.pc = "recv", !.seed = @ \/ Cardinality(peers[r]) = 1,
                                       !.inits = IF @ < 2 THEN @ + 1 ELSE @]
            BY <2>3, <3>1, <3>4, <4>3 DEF Init_Raft
          <5>2. loop'[r].pc = "recv" /\ loop'[r].inits = 1
            BY <1>1, <4>1, <5>1 DEF LoopState
          <5> QED BY <2>1, <4>1, <5>1, <5>2 DEF JoinsOnce, Own
        <4> QED BY <4>2, <4>3
      <3>5. CASE Other(s)
        <4>1. l.pc = "other" /\ Address(l.event.uuid) # r
          BY <1>1, <2>3, <3>5 DEF Other, At, JoinsOnce, Own
        <4>2. /\ pipe'[r] = pipe[r]
              /\ \/ loop'[r] = [l EXCEPT !.pc = "members", !.event = NoEvent]
                 \/ loop'[r] = [l EXCEPT !.pc = "recv", !.event = NoEvent]
          <5>1. LoopStep(r, IF l.event.what = "JOINED" THEN [l EXCEPT !.pc = "members", !.event = NoEvent]
                                                       ELSE [l EXCEPT !.pc = "recv", !.event = NoEvent])
            BY <2>3, <3>5, <4>1 DEF Other
          <5> QED BY <3>1, <5>1
        <4>3. loop'[r].inits = l.inits /\ loop'[r].pc \in {"members", "recv"}
          BY <1>1, <4>2 DEF LoopState
        <4> QED BY <1>1, <2>1, <4>1, <4>2, <4>3 DEF JoinsOnce, Own
      <3>6. CASE SetConfiguration(s)
        <4>1. l.pc = "members" /\ pipe'[r] = pipe[r] /\ loop'[r] = [l EXCEPT !.pc = "recv"]
          BY <1>1, <2>3, <3>6 DEF SetConfiguration, At, TypeOK
        <4> QED BY <1>1, <2>1, <4>1 DEF JoinsOnce, LoopState, Own
      <3> QED BY <1>9, <3>2, <3>3, <3>4, <3>5, <3>6 DEF LoopNext
    <2> QED BY <2>2, <2>3
  <1>10. CASE UNCHANGED vars
    BY <1>1, <1>10, JoinsKept DEF vars, Self
  <1>11. ASSUME NEW s \in Server, NEW t \in Server, AppendEntries(t, s) PROVE JoinsOnce(r)'
    BY <1>1, <1>11, JoinsKept DEF AppendEntries, agent, Self
  <1> QED BY <1>2, <1>3, <1>4, <1>5, <1>6, <1>7, <1>8, <1>9, <1>10, <1>11 DEF Next
-----------------------------------------------------------------------------
(* The theorems *)

\* Nothing has been heard or sent at first.
LEMMA InitClusterInv == ASSUME Init PROVE ClusterInv
  <1>1. AgentInv
    BY InitAgentInv, TimingAssumption, ClusterAssumption
  <1>2. HeardInTime
    BY DEF Init, HeardInTime
  <1>3. OwnJoinsOnce
    BY DEF Init, OwnJoinsOnce, JoinsOnce, Idle
  <1> QED BY <1>1, <1>2, <1>3 DEF ClusterInv

\* The invariant of agents, timers and loops.
LEMMA ClusterInvHolds == Spec => []ClusterInv
  <1>1. ASSUME ClusterInv, [Next]_vars PROVE ClusterInv'
    BY <1>1, AgentInvStep, HeardInTimeStep, OwnJoinsOnceStep, TimingAssumption, ClusterAssumption
       DEF ClusterInv
  <1> QED BY <1>1, InitClusterInv, PTL DEF Spec

\* The variables of agents, loops and beacons keep their types.
THEOREM ClusterTypeCorrect == Spec => []TypeOK
  <1>1. ClusterInv => TypeOK
    BY DEF ClusterInv, AgentInv
  <1> QED BY <1>1, ClusterInvHolds, PTL

\* Raft is initialised at most once in a server's life.
THEOREM RaftInitialisedOnce == Spec => []InitOnce
  <1>1. ClusterInv => InitOnce
    BY DEF ClusterInv, OwnJoinsOnce, JoinsOnce, InitOnce
  <1> QED BY <1>1, ClusterInvHolds, PTL

\* An initialised server is a member of every view that setConfiguration gets.
THEOREM ViewsHaveSelf == Spec => ViewHasSelf
  <1>1. ASSUME ClusterInv
        PROVE  \A s \in Server : loop[s].pc = "members" /\ loop'[s].pc = "recv"
                         /\ loop[s].inits > 0 /\ mode'[s] # "off" => Self(s) \in peers[s]
    BY <1>1 DEF ClusterInv, OwnJoinsOnce, JoinsOnce
  <1> QED BY <1>1, ClusterInvHolds, PTL DEF ViewHasSelf

\* reap_peers removes a server that runs only if beacons between the two may be lost.
THEOREM RunningPeersStay == Spec => LivePeersStay
  <1>1. ASSUME ClusterInv, [Next]_vars
        PROVE  \A s \in Server : mode[s] = "on" /\ mode'[s] = "on" =>
                 \A u \in peers[s] \ peers'[s] : Alive(u) => <<Address(u), s>> \in Lossy
    <2> SUFFICES ASSUME NEW s \in Server, mode[s] = "on", mode'[s] = "on",
                        NEW u \in peers[s] \ peers'[s], Alive(u)
                 PROVE  <<Address(u), s>> \in Lossy
      OBVIOUS
    <2> USE <1>1 DEF ClusterInv, AgentInv
    <2> DEFINE t == Address(u)
    <2>1. t \in Server /\ mode[t] = "on" /\ Self(t) = u
      <3>1. u \in Uuid
        BY DEF TypeOK
      <3> QED BY <3>1, AddressIsServer DEF Alive
    <2>2. CASE ReapPeers(s)
      <3>1. u \in Expired(s)
        BY <2>2 DEF ReapPeers, TypeOK
      <3> QED BY <2>1, <3>1, HeardIsNotExpired, TimingAssumption, ClusterAssumption DEF Unbroken
    <2>3. ASSUME NEW r \in Server, r # s, ReapPeers(r) PROVE FALSE
      BY <2>3 DEF ReapPeers, TypeOK
    <2>4. ASSUME NEW r \in Server, Start(r) PROVE FALSE
      BY <2>4 DEF Start
    <2>5. ASSUME NEW r \in Server, Crash(r) PROVE FALSE
      BY <2>5 DEF Crash, TypeOK
    <2>6. ASSUME NEW r \in Server, Ping(r) \/ SendFails(r) PROVE FALSE
      BY <2>6 DEF Ping, SendFails
    <2>7. ASSUME NEW b \in net, HandleBeacon(b) PROVE FALSE
      BY <2>7 DEF HandleBeacon, TypeOK
    <2>8. ASSUME NEW b \in net, Lose(b) PROVE FALSE
      BY <2>8 DEF Lose, agent
    <2>9. ASSUME NEW r \in Server, LoopNext(r) PROVE FALSE
      <3>1. peers' = peers
        BY <2>9, LoopStepTypes
      <3> QED BY <3>1
    <2>10. CASE Tick \/ UNCHANGED vars
      BY <2>10 DEF Tick, vars
    <2>11. ASSUME NEW r \in Server, NEW q \in Server, AppendEntries(q, r) PROVE FALSE
      BY <2>11 DEF AppendEntries, agent
    <2> QED BY <2>2, <2>3, <2>4, <2>5, <2>6, <2>7, <2>8, <2>9, <2>10, <2>11 DEF Next
  <1> QED BY <1>1, ClusterInvHolds, PTL DEF Spec, LivePeersStay
-----------------------------------------------------------------------------
(* The server that starts later *)

\* A server that has neither sent nor received a beacon of its own.
Unheard(t) == /\ Self(t) \notin peers[t] /\ ~reaping[t]
              /\ \A b \in net : b.uuid # Self(t)
\* A beacon of s is at t before t sends its first.
Soon(s, t) ==
  \/ ~reaping[s] /\ due[s] + MaxDelay < due[t]
  \/ \E b \in net : b.to = t /\ b.uuid = Self(s) /\ MaxDelay - b.age < due[t]
Hears(s, t) == \/ Self(s) \in peers[t] /\ ~loop[t].seed
               \/ Unheard(t) /\ Soon(s, t)
\* Of two servers one has not bootstrapped, and knows the other or will before it can.
OneHears(s, t) ==
  losses = 0 /\ s # t /\ mode[s] = "on" /\ mode[t] = "on" /\ Apart(s, t) =>
    Hears(s, t) \/ Hears(t, s)
SeedInv == /\ ClusterInv
           /\ \A s \in Server : loop[s].seed => loop[s].inits > 0
           /\ \A s, t \in Server : OneHears(s, t)

\* Apart compares two timers as on a circle.
LEMMA ApartMeans ==
  ASSUME TimingAssumption, NEW a \in 0..Interval, NEW b \in 0..Interval
  PROVE  (a - b) % Interval > MaxDelay /\ Interval - ((a - b) % Interval) > MaxDelay <=>
           \/ MaxDelay < a - b /\ a - b < Interval - MaxDelay
           \/ MaxDelay < b - a /\ b - a < Interval - MaxDelay
  <1> DEFINE d == a - b
  <1>1. /\ d \in Int /\ -Interval <= d /\ d <= Interval /\ b - a = -d
        /\ Interval \in Nat /\ Interval > 0 /\ MaxDelay \in Nat
    BY DEF TimingAssumption
  <1> HIDE DEF d
  <1>2. d % Interval > MaxDelay /\ Interval - (d % Interval) > MaxDelay <=>
           \/ MaxDelay < d /\ d < Interval - MaxDelay
           \/ MaxDelay < -d /\ -d < Interval - MaxDelay
    <2>1. CASE d >= 0 /\ d < Interval
      <3>1. d % Interval = d
        BY <1>1, <2>1
      <3> QED BY <1>1, <2>1, <3>1
    <2>2. CASE d = Interval \/ d = -Interval
      <3>1. d % Interval = 0
        BY <1>1, <2>2
      <3> QED BY <1>1, <2>2, <3>1
    <2>3. CASE d < 0 /\ d > -Interval
      <3>1. d % Interval = d + Interval
        BY <1>1, <2>3
      <3> QED BY <1>1, <2>3, <3>1
    <2> QED BY <1>1, <2>1, <2>2, <2>3
  <1> QED BY <1>1, <1>2 DEF d

\* Beacons and timers that reach t as before.
LEMMA SoonKept ==
  ASSUME NEW s \in Server, NEW t \in Server, Soon(s, t), Self(s)' = Self(s),
         due'[s] = due[s], due'[t] = due[t], reaping'[s] = reaping[s],
         \A b \in net : b.to = t /\ b.uuid = Self(s) => b \in net'
  PROVE  Soon(s, t)'
  BY DEF Soon

\* A server that bootstraps or initialises Raft has heard itself.
LEMMA UnheardHasNoSeed ==
  ASSUME SeedInv, NEW t \in Server, Self(t) \notin peers[t]
  PROVE  ~loop[t].seed
  <1>1. loop[t].inits \in 0..2 /\ ~(loop[t].inits > 0)
    BY DEF SeedInv, ClusterInv, AgentInv, TypeOK, OwnJoinsOnce, JoinsOnce
  <1> QED BY <1>1 DEF SeedInv

\* The timers of two servers that go on running stay as far apart as they were.
LEMMA ApartStays ==
  ASSUME ClusterInv, [Next]_vars, TimingAssumption, NEW s \in Server, NEW t \in Server, s # t,
         mode[s] = "on", mode[t] = "on", mode'[s] = "on", mode'[t] = "on"
  PROVE  Apart(s, t)' <=> Apart(s, t)
  <1> USE DEF ClusterInv, AgentInv
  <1>0. /\ due \in [Server -> 0..Interval] /\ due[s] \in 0..Interval /\ due[t] \in 0..Interval
        /\ mode \in [Server -> {"off", "on", "stopped"}]
    BY DEF TypeOK
  <1>1. ASSUME due'[s] = due[s], due'[t] = due[t] PROVE Apart(s, t)' <=> Apart(s, t)
    BY <1>1 DEF Apart
  <1>2. ASSUME NEW r \in Server, Start(r) \/ Crash(r) PROVE Apart(s, t)' <=> Apart(s, t)
    <2>1. r # s /\ r # t
      BY <1>0, <1>2 DEF Start, Crash
    <2> QED BY <1>0, <1>1, <1>2, <2>1 DEF Start, Crash
  <1>3. ASSUME NEW r \in Server, Ping(r) \/ SendFails(r) PROVE Apart(s, t)' <=> Apart(s, t)
    BY <1>1, <1>3 DEF Ping, SendFails
  <1>4. ASSUME NEW r \in Server, ReapPeers(r) PROVE Apart(s, t)' <=> Apart(s, t)
    <2>1. due' = [due EXCEPT ![r] = Interval] /\ due[r] = 0
      BY <1>4 DEF ReapPeers, Started
    <2>2. Interval \in 0..Interval /\ Interval \in Nat /\ MaxDelay \in Nat
      BY DEF TimingAssumption
    <2>3. due'[s] \in 0..Interval /\ due'[t] \in 0..Interval
      BY <1>0, <2>1, <2>2
    <2>4. Apart(s, t) <=>
            \/ MaxDelay < due[s] - due[t] /\ due[s] - due[t] < Interval - MaxDelay
            \/ MaxDelay < due[t] - due[s] /\ due[t] - due[s] < Interval - MaxDelay
      BY <1>0, ApartMeans DEF Apart
    <2>5. Apart(s, t)' <=>
            \/ MaxDelay < due'[s] - due'[t] /\ due'[s] - due'[t] < Interval - MaxDelay
            \/ MaxDelay < due'[t] - due'[s] /\ due'[t] - due'[s] < Interval - MaxDelay
      BY <2>3, ApartMeans DEF Apart
    <2>6. CASE r = s
      <3>1. due[s] = 0 /\ due'[s] = Interval /\ due'[t] = due[t]
        BY <1>0, <2>1, <2>6
      <3> QED BY <1>0, <2>2, <2>4, <2>5, <3>1
    <2>7. CASE r = t
      <3>1. due[t] = 0 /\ due'[t] = Interval /\ due'[s] = due[s]
        BY <1>0, <2>1, <2>7
      <3> QED BY <1>0, <2>2, <2>4, <2>5, <3>1
    <2>8. CASE r # s /\ r # t
      BY <1>0, <1>1, <2>1, <2>8
    <2> QED BY <2>6, <2>7, <2>8
  <1>5. ASSUME NEW b \in net, HandleBeacon(b) \/ Lose(b) PROVE Apart(s, t)' <=> Apart(s, t)
    BY <1>1, <1>5 DEF HandleBeacon, Lose, agent
  <1>6. ASSUME Tick PROVE Apart(s, t)' <=> Apart(s, t)
    <2>1. due'[s] = due[s] - 1 /\ due'[t] = due[t] - 1
      BY <1>6 DEF Tick
    <2>2. due'[s] - due'[t] = due[s] - due[t]
      BY <1>0, <2>1
    <2> QED BY <2>2 DEF Apart
  <1>7. ASSUME NEW r \in Server, LoopNext(r) PROVE Apart(s, t)' <=> Apart(s, t)
    <2>1. due' = due
      BY <1>7, LoopStepTypes
    <2> QED BY <1>1, <2>1
  <1>8. ASSUME UNCHANGED vars PROVE Apart(s, t)' <=> Apart(s, t)
    BY <1>1, <1>8 DEF vars
  <1>9. ASSUME NEW r \in Server, NEW q \in Server, AppendEntries(q, r)
        PROVE  Apart(s, t)' <=> Apart(s, t)
    BY <1>1, <1>9 DEF AppendEntries, agent
  <1> QED BY <1>2, <1>3, <1>4, <1>5, <1>6, <1>7, <1>8, <1>9 DEF Next

\* Apart is symmetric, and a timer that is apart from a fresh one is near neither end.
LEMMA ApartBothWays ==
  ASSUME TimingAssumption, NEW a \in 0..Interval, NEW b \in 0..Interval,
         (a - b) % Interval > MaxDelay, Interval - ((a - b) % Interval) > MaxDelay
  PROVE  /\ (b - a) % Interval > MaxDelay /\ Interval - ((b - a) % Interval) > MaxDelay
         /\ b = Interval => a > MaxDelay /\ a < Interval - MaxDelay
  <1>1. \/ MaxDelay < a - b /\ a - b < Interval - MaxDelay
        \/ MaxDelay < b - a /\ b - a < Interval - MaxDelay
    BY ApartMeans
  <1>2. (b - a) % Interval > MaxDelay /\ Interval - ((b - a) % Interval) > MaxDelay
    BY <1>1, ApartMeans
  <1>3. b = Interval => a > MaxDelay /\ a < Interval - MaxDelay
    <2>1. a \in Int /\ b \in Int /\ a <= Interval /\ Interval \in Nat /\ MaxDelay \in Nat
      BY DEF TimingAssumption
    <2> QED BY <1>1, <2>1
  <1> QED BY <1>2, <1>3

\* Whoever has heard a server, or hears it before itself, goes on doing so.
LEMMA HearsStep ==
  ASSUME SeedInv, [Next]_vars, TimingAssumption, ClusterAssumption,
         NEW s \in Server, NEW t \in Server, s # t,
         mode[s] = "on", mode[t] = "on", mode'[s] = "on", mode'[t] = "on",
         losses = 0, losses' = 0, Hears(s, t)
  PROVE  Hears(s, t)'
  <1> ClusterInv
    BY DEF SeedInv
  <1> USE DEF ClusterInv, AgentInv
  <1>0. /\ ClusterInv /\ life[s] >= 1 /\ life[t] >= 1 /\ Self(s) # Self(t)
        /\ Self(s) \in Uuid /\ Self(t) \in Uuid
        /\ due[s] \in Int /\ due[t] \in Int /\ due[s] >= 0 /\ due[t] >= 0
        /\ MaxDelay \in Nat /\ \A b \in net : b.age \in 0..MaxDelay
    <2>1. ClusterInv /\ life[s] >= 1 /\ life[t] >= 1
      BY DEF SeedInv, Started
    <2>2. Self(s) # Self(t)
      BY DEF Self
    <2>3. Self(s) \in Uuid /\ Self(t) \in Uuid
      BY <2>1, SelfIsUuid
    <2>4. due[s] \in 0..Interval /\ due[t] \in 0..Interval /\ \A b \in net : b.age \in 0..MaxDelay
      BY DEF TypeOK
    <2>5. Interval \in Nat /\ MaxDelay \in Nat
      BY DEF TimingAssumption
    <2>6. due[s] \in Int /\ due[t] \in Int /\ due[s] >= 0 /\ due[t] >= 0
      BY <2>4, <2>5
    <2> QED BY <2>1, <2>2, <2>3, <2>4, <2>5, <2>6
  <1>1. \/ Self(s) \in peers[t] /\ ~loop[t].seed
        \/ Unheard(t) /\ Soon(s, t) /\ ~loop[t].seed
    BY UnheardHasNoSeed DEF Hears, Unheard
  <1>2. ~loop[t].seed
    BY <1>1
  <1>3. ASSUME Self(s)' = Self(s), loop'[t] = loop[t], Self(s) \in peers[t], Self(s) \in peers'[t]
        PROVE  Hears(s, t)'
    BY <1>2, <1>3 DEF Hears
  <1>4. ASSUME Self(s)' = Self(s), Self(t)' = Self(t), Unheard(t), Soon(s, t),
               peers'[t] = peers[t], reaping'[t] = reaping[t],
               \A b \in net' : b \in net \/ b.uuid # Self(t), Soon(s, t)'
        PROVE  Hears(s, t)'
    BY <1>4 DEF Hears, Unheard
  <1>5. ASSUME Self(s)' = Self(s), Self(t)' = Self(t), loop'[t] = loop[t],
               peers'[t] = peers[t], reaping'[t] = reaping[t], reaping'[s] = reaping[s],
               due'[s] = due[s], due'[t] = due[t],
               \A b \in net' : b \in net \/ b.uuid # Self(t),
               \A b \in net : b.to = t => b \in net'
        PROVE  Hears(s, t)'
    <2>1. Soon(s, t) => Soon(s, t)'
      BY <1>5, SoonKept
    <2> QED BY <1>1, <1>3, <1>4, <1>5, <2>1
  <1>6. ASSUME NEW r \in Server, Start(r) PROVE Hears(s, t)'
    <2>1. r # s /\ r # t
      BY <1>6 DEF Start
    <2>2. Self(s)' = Self(s) /\ Self(t)' = Self(t)
      BY <1>6, <2>1 DEF Start, TypeOK, Self
    <2>3. /\ loop' = loop /\ peers' = peers /\ net' = net
          /\ due'[s] = due[s] /\ due'[t] = due[t]
          /\ reaping'[s] = reaping[s] /\ reaping'[t] = reaping[t]
      BY <1>6, <2>1 DEF Start, TypeOK
    <2> QED BY <1>5, <2>2, <2>3
  <1>7. ASSUME NEW r \in Server, Crash(r) PROVE Hears(s, t)'
    <2>1. r # s /\ r # t
      BY <1>7 DEF Crash, TypeOK
    <2>2. Self(s)' = Self(s) /\ Self(t)' = Self(t)
      BY <1>7 DEF Crash, Self
    <2>3. /\ loop'[t] = loop[t] /\ peers'[t] = peers[t] /\ net' = {b \in net : b.to # r}
          /\ due'[s] = due[s] /\ due'[t] = due[t]
          /\ reaping'[s] = reaping[s] /\ reaping'[t] = reaping[t]
      BY <1>7, <2>1 DEF Crash, TypeOK
    <2>4. \A b \in net : b.to = t => b \in net'
      BY <2>1, <2>3
    <2> QED BY <1>5, <2>2, <2>3, <2>4
  <1>8. ASSUME NEW r \in Server, Ping(r) PROVE Hears(s, t)'
    <2>1. /\ Self(s)' = Self(s) /\ Self(t)' = Self(t) /\ loop' = loop /\ peers' = peers
          /\ due' = due /\ due[r] = 0 /\ net \subseteq net'
          /\ reaping' = [reaping EXCEPT ![r] = TRUE] /\ reaping \in [Server -> BOOLEAN]
      BY <1>8 DEF Ping, Self, TypeOK
    <2>2. \A b \in net' : b \in net \/ b.uuid = Self(r)
      BY <1>8 DEF Ping
    <2>3. r # t => Self(r) # Self(t) /\ reaping'[t] = reaping[t]
      BY <2>1 DEF Self
    <2>4. CASE r = t
      <3>1. ~Soon(s, t)
        BY <1>0, <2>1, <2>4 DEF Soon
      <3> QED BY <1>1, <1>3, <2>1, <3>1
    <2>5. CASE r = s
      <3>1. ASSUME Soon(s, t) PROVE Soon(s, t)'
        <4>1. CASE due[s] + MaxDelay < due[t]
          <5> DEFINE c == [to |-> t, uuid |-> Self(s), age |-> 0]
          <5>1. c \in net'
            BY <1>8, <2>5 DEF Ping
          <5>2. c.to = t /\ c.uuid = Self(s)' /\ MaxDelay - c.age < due'[t]
            BY <1>0, <2>1, <2>5, <4>1
          <5> HIDE DEF c
          <5> QED BY <5>1, <5>2 DEF Soon
        <4>2. CASE \E b \in net : b.to = t /\ b.uuid = Self(s) /\ MaxDelay - b.age < due[t]
          BY <2>1, <4>2 DEF Soon
        <4> QED BY <3>1, <4>1, <4>2 DEF Soon
      <3>2. \A b \in net' : b \in net \/ b.uuid # Self(t)
        BY <1>0, <2>2, <2>5
      <3> QED BY <1>0, <1>1, <1>3, <1>4, <2>1, <2>3, <2>5, <3>1, <3>2
    <2>6. CASE r # s /\ r # t
      <3>1. \A b \in net' : b \in net \/ b.uuid # Self(t)
        BY <2>2, <2>3, <2>6
      <3> QED BY <1>5, <2>1, <2>3, <2>6, <3>1
    <2> QED BY <2>4, <2>5, <2>6
  <1>9. ASSUME NEW r \in Server, SendFails(r) PROVE Hears(s, t)'
    <2>1. r # s /\ r # t
      BY <1>9 DEF SendFails, TypeOK
    <2>2. /\ Self(s)' = Self(s) /\ Self(t)' = Self(t) /\ loop' = loop /\ peers' = peers
          /\ due' = due /\ reaping' = reaping /\ net' = {b \in net : b.to # r}
      BY <1>9 DEF SendFails, Self
    <2>3. \A b \in net : b.to = t => b \in net'
      BY <2>1, <2>2
    <2> QED BY <1>5, <2>2, <2>3
  <1>10. ASSUME NEW r \in Server, ReapPeers(r) PROVE Hears(s, t)'
    <2>1. /\ Self(s)' = Self(s) /\ Self(t)' = Self(t) /\ loop' = loop /\ net' = net
          /\ peers' = [peers EXCEPT ![r] = @ \ Expired(r)] /\ reaping[r]
      BY <1>10 DEF ReapPeers, Self
    <2>2. Self(s) \in peers[t] => Self(s) \in peers'[t]
      <3>1. Self(s) \in peers[t] => Self(s) \notin Expired(t)
        BY <1>0, HeardIsNotExpired DEF Unbroken
      <3> QED BY <2>1, <3>1 DEF TypeOK
    <2>3. CASE Unheard(t) /\ Soon(s, t)
      <3>1. r # t
        BY <2>1, <2>3 DEF Unheard
      <3>2. /\ peers'[t] = peers[t] /\ due'[t] = due[t] /\ reaping'[t] = reaping[t]
            /\ r # s => due'[s] = due[s] /\ reaping'[s] = reaping[s]
        BY <1>10, <3>1 DEF ReapPeers, TypeOK
      <3>3. Soon(s, t)'
        <4>1. CASE r # s
          BY <2>1, <2>3, <3>2, <4>1, SoonKept
        <4>2. CASE r = s
          BY <2>1, <2>3, <3>2, <4>2 DEF Soon
        <4> QED BY <4>1, <4>2
      <3> QED BY <1>4, <2>1, <2>3, <3>2, <3>3
    <2> QED BY <1>1, <1>3, <2>1, <2>2, <2>3
  <1>11. ASSUME NEW c \in net, HandleBeacon(c) PROVE Hears(s, t)'
    <2>1. /\ Self(s)' = Self(s) /\ Self(t)' = Self(t) /\ loop' = loop /\ net' = net \ {c}
          /\ peers' = [peers EXCEPT ![c.to] = @ \cup {c.uuid}] /\ due' = due /\ reaping' = reaping
          /\ c.to \in Server
      BY <1>11 DEF HandleBeacon, Self, TypeOK
    <2>2. peers[t] \subseteq peers'[t] /\ (c.to = t => peers'[t] = peers[t] \cup {c.uuid})
          /\ (c.to # t => peers'[t] = peers[t])
      BY <2>1 DEF TypeOK
    <2>3. CASE Unheard(t) /\ Soon(s, t)
      <3>1. CASE c.to = t /\ c.uuid = Self(s)
        <4>1. Self(s)' \in peers'[t]
          BY <2>1, <2>2, <3>1
        <4> QED BY <1>2, <2>1, <4>1 DEF Hears
      <3>2. CASE ~(c.to = t /\ c.uuid = Self(s))
        <4>1. Soon(s, t)'
          BY <2>1, <2>3, <3>2, SoonKept
        <4>2. Self(t)' \notin peers'[t]
          BY <2>1, <2>2, <2>3 DEF Unheard
        <4> QED BY <2>1, <2>3, <4>1, <4>2 DEF Hears, Unheard
      <3> QED BY <3>1, <3>2
    <2> QED BY <1>1, <1>3, <2>1, <2>2, <2>3
  <1>12. ASSUME NEW c \in net, Lose(c) PROVE Hears(s, t)'
    BY <1>12 DEF Lose
  <1>13. ASSUME Tick PROVE Hears(s, t)'
    <2>1. /\ Self(s)' = Self(s) /\ Self(t)' = Self(t) /\ loop' = loop /\ peers' = peers
          /\ reaping' = reaping /\ due'[s] = due[s] - 1 /\ due'[t] = due[t] - 1
          /\ net' = {[b EXCEPT !.age = @ + 1] : b \in net}
      BY <1>13 DEF Tick, Self
    <2>2. \A b \in net : LET c == [b EXCEPT !.age = @ + 1]
                         IN c \in net' /\ c.to = b.to /\ c.uuid = b.uuid /\ c.age = b.age + 1
      BY <2>1 DEF TypeOK
    <2>3. CASE Unheard(t) /\ Soon(s, t)
      <3>1. Unheard(t)'
        <4>1. \A c \in net' : \E b \in net : c = [b EXCEPT !.age = @ + 1] /\ c.uuid = b.uuid
          BY <2>1, <2>2
        <4> QED BY <2>1, <2>3, <4>1 DEF Unheard
      <3>2. Soon(s, t)'
        <4>1. CASE ~reaping[s] /\ due[s] + MaxDelay < due[t]
          <5>1. due'[s] + MaxDelay < due'[t]
            BY <1>0, <2>1, <4>1
          <5> QED BY <2>1, <4>1, <5>1 DEF Soon
        <4>2. CASE \E b \in net : b.to = t /\ b.uuid = Self(s) /\ MaxDelay - b.age < due[t]
          <5>1. PICK b \in net : b.to = t /\ b.uuid = Self(s) /\ MaxDelay - b.age < due[t]
            BY <4>2
          <5> DEFINE c == [b EXCEPT !.age = @ + 1]
          <5>2. c \in net' /\ c.to = t /\ c.uuid = Self(s)' /\ c.age = b.age + 1
            BY <2>1, <2>2, <5>1
          <5>3. MaxDelay - c.age < due'[t]
            <6>1. b.age \in Int
              BY <1>0, <5>1
            <6> HIDE DEF c
            <6> QED BY <1>0, <2>1, <5>1, <5>2, <6>1
          <5> HIDE DEF c
          <5> QED BY <5>2, <5>3 DEF Soon
        <4> QED BY <2>3, <4>1, <4>2 DEF Soon
      <3> QED BY <3>1, <3>2 DEF Hears
    <2> QED BY <1>1, <1>3, <2>1, <2>3
  <1>14. ASSUME NEW r \in Server, LoopNext(r) PROVE Hears(s, t)'
    <2>1. /\ UNCHANGED <<mode, life, due, reaping, peers, ttl, net, losses>>
          /\ \A q \in Server : q # r => loop'[q] = loop[q]
          /\ Self(s)' = Self(s) /\ Self(t)' = Self(t)
      BY <1>14, LoopStepTypes DEF Self
    <2>2. CASE Unheard(t) /\ Soon(s, t)
      BY <1>4, <2>1, <2>2, SoonKept
    <2>3. CASE Self(s) \in peers[t]
      <3>1. loop'[t].seed = loop[t].seed
        <4>1. CASE r # t
          BY <2>1, <4>1
        <4>2. CASE r = t
          <5>1. loop[t] \in LoopState /\ loop \in [Server -> LoopState]
            BY DEF TypeOK, LoopState
          <5>2. CASE Init_Raft(t)
            <6>1. Self(t) \in peers[t] /\ loop[t].inits = 0
              BY <5>2 DEF Init_Raft, At, OwnJoinsOnce, JoinsOnce
            <6>2. Cardinality(peers[t]) # 1
              <7>1. IsFiniteSet(peers[t])
                BY DEF Started
              <7> QED BY <1>0, <2>3, <6>1, <7>1, FS_Singleton
            <6>3. \E n : loop' = [loop EXCEPT ![t] = [loop[t] EXCEPT !.pc = "recv",
                             !.seed = loop[t].seed \/ Cardinality(peers[t]) = 1, !.inits = n]]
              <7>1. ~(Cardinality(peers[t]) = 1)
                BY <6>2
              <7>2. LoopStep(t, [loop[t] EXCEPT !.pc = "recv", !.seed = @ \/ Cardinality(peers[t]) = 1,
                                   !.inits = IF @ < 2 THEN @ + 1 ELSE @])
                BY <5>2, <7>1 DEF Init_Raft
              <7> QED BY <7>2, Zenon DEF LoopStep
            <6>5. loop[t].seed = (loop[t].seed \/ Cardinality(peers[t]) = 1)
              BY <1>2, <6>2, <5>1 DEF LoopState
            <6>6. \E n : loop' = [loop EXCEPT ![t] = [loop[t] EXCEPT !.pc = "recv",
                             !.seed = loop[t].seed, !.inits = n]]
              BY <6>3, <6>5, Zenon
            <6>4. loop'[t].seed = loop[t].seed
              BY <5>1, <6>6 DEF LoopState
            <6> QED BY <1>2, <6>2, <6>4
          <5>3. CASE ~Init_Raft(t)
            BY <1>14, <4>2, <5>3, SeedsKept
          <5> QED BY <5>2, <5>3
        <4> QED BY <4>1, <4>2
      <3> QED BY <1>2, <2>1, <2>3, <3>1 DEF Hears
    <2> QED BY <1>1, <2>2, <2>3
  <1>15. ASSUME UNCHANGED vars PROVE Hears(s, t)'
    BY <1>5, <1>15 DEF vars, Self
  <1>16. ASSUME NEW r \in Server, NEW q \in Server, AppendEntries(q, r) PROVE Hears(s, t)'
    BY <1>5, <1>16 DEF AppendEntries, agent, Self
  <1> QED BY <1>6, <1>7, <1>8, <1>9, <1>10, <1>11, <1>12, <1>13, <1>14, <1>15, <1>16 DEF Next

\* A server that starts while another runs hears that one first, if their timers are apart.
LEMMA StartHears ==
  ASSUME SeedInv, TimingAssumption, ClusterAssumption, NEW s \in Server, NEW t \in Server, s # t,
         mode[s] = "on", Start(t), Apart(s, t)'
  PROVE  Hears(s, t)'
  <1> ClusterInv
    BY DEF SeedInv
  <1> USE DEF ClusterInv, AgentInv
  <1>1. /\ peers[t] = {} /\ peers' = peers /\ net' = net /\ life'[t] = life[t] + 1 /\ life[t] \in Nat
        /\ due'[s] = due[s] /\ due'[t] = Interval /\ reaping'[s] = reaping[s] /\ ~reaping'[t]
    BY DEF Start, TypeOK, Started
  <1>2. Self(t)'[2] = life[t] + 1 /\ Address(Self(t)') = t
    BY <1>1 DEF Self, Address
  <1>3. Unheard(t)'
    <2>1. ASSUME NEW b \in net', b.uuid = Self(t)' PROVE FALSE
      <3>1. b.uuid[2] <= life[Address(b.uuid)]
        BY <1>1, <2>1 DEF UuidsAreOld
      <3> QED BY <1>1, <1>2, <2>1, <3>1
    <2> QED BY <1>1, <2>1 DEF Unheard
  <1>4. Soon(s, t)'
    <2>1. due[s] \in 0..Interval /\ Interval \in 0..Interval /\ Interval \in Nat /\ MaxDelay \in Nat
      BY DEF TypeOK, TimingAssumption
    <2>2. due[s] > MaxDelay /\ due[s] < Interval - MaxDelay
      BY <1>1, <2>1, ApartBothWays DEF Apart
    <2>3. ~reaping[s]
      BY <2>1, <2>2 DEF Started
    <2>4. due'[s] + MaxDelay < due'[t]
      BY <1>1, <2>1, <2>2
    <2> QED BY <1>1, <2>3, <2>4 DEF Soon
  <1> QED BY <1>3, <1>4 DEF Hears

\* Only Start turns a server on.
LEMMA TurnedOn ==
  ASSUME AgentInv, [Next]_vars, NEW s \in Server, mode[s] # "on", mode'[s] = "on"
  PROVE  Start(s)
  <1>1. mode \in [Server -> {"off", "on", "stopped"}]
    BY DEF AgentInv, TypeOK
  <1>2. ASSUME NEW r \in Server, Start(r) PROVE Start(s)
    BY <1>1, <1>2 DEF Start
  <1>3. ASSUME NEW r \in Server, Crash(r) \/ Ping(r) \/ SendFails(r) \/ ReapPeers(r) PROVE FALSE
    BY <1>1, <1>3 DEF Crash, Ping, SendFails, ReapPeers
  <1>4. ASSUME NEW r \in Server, LoopNext(r) PROVE FALSE
    BY <1>4, LoopStepTypes
  <1>5. ASSUME NEW b \in net, HandleBeacon(b) \/ Lose(b) PROVE FALSE
    BY <1>5 DEF HandleBeacon, Lose, agent
  <1>6. ASSUME Tick PROVE FALSE
    BY <1>6 DEF Tick
  <1>7. ASSUME UNCHANGED vars PROVE FALSE
    BY <1>7 DEF vars
  <1>8. ASSUME NEW r \in Server, NEW q \in Server, AppendEntries(q, r) PROVE FALSE
    BY <1>8 DEF AppendEntries, agent
  <1> QED BY <1>2, <1>3, <1>4, <1>5, <1>6, <1>7, <1>8, Zenon DEF Next

\* A server that is a seed has been initialised.
LEMMA SeedIsInitialised ==
  ASSUME AgentInv, [Next]_vars, NEW s \in Server, loop[s].seed => loop[s].inits > 0
  PROVE  loop'[s].seed => loop'[s].inits > 0
  <1>1. loop[s] \in LoopState /\ loop \in [Server -> LoopState]
    BY DEF AgentInv, TypeOK, LoopState
  <1>2. ASSUME loop'[s] = loop[s] PROVE loop'[s].seed => loop'[s].inits > 0
    BY <1>2
  <1>3. ASSUME NEW r \in Server, LoopNext(r) PROVE loop'[s].seed => loop'[s].inits > 0
    <2>1. CASE r # s
      BY <1>2, <1>3, <2>1, LoopStepTypes
    <2>2. CASE r = s
      <3>1. CASE Init_Raft(s)
        <4>1. CASE Cardinality(peers[s]) = 1 /\ ~Untouched(s)
          <5>1. loop' = [loop EXCEPT ![s] = [loop[s] EXCEPT !.pc = "dead"]]
            BY <3>1, <4>1 DEF Init_Raft, LoopStep
          <5>2. loop'[s].seed = loop[s].seed /\ loop'[s].inits = loop[s].inits
            BY <1>1, <5>1 DEF LoopState
          <5> QED BY <5>2
        <4>2. CASE ~(Cardinality(peers[s]) = 1 /\ ~Untouched(s))
          <5> DEFINE n == IF loop[s].inits < 2 THEN loop[s].inits + 1 ELSE loop[s].inits
          <5>1. LoopStep(s, [loop[s] EXCEPT !.pc = "recv", !.seed = @ \/ Cardinality(peers[s]) = 1,
                               !.inits = IF @ < 2 THEN @ + 1 ELSE @])
            BY <3>1, <4>2, Zenon DEF Init_Raft
          <5>2. \E b : loop' = [loop EXCEPT ![s] = [loop[s] EXCEPT !.pc = "recv", !.seed = b,
                                                      !.inits = n]]
            BY <5>1, Zenon DEF LoopStep
          <5>3. loop[s].inits \in 0..2
            BY <1>1 DEF LoopState
          <5>4. n > 0
            <6> DEFINE m == loop[s].inits
            <6> HIDE DEF m
            <6>1. m \in 0..2
              BY <5>3 DEF m
            <6>2. n = IF m < 2 THEN m + 1 ELSE m
              BY DEF m
            <6> HIDE DEF n
            <6> QED BY <6>1, <6>2
          <5> HIDE DEF n
          <5>5. loop'[s].inits = n
            BY <1>1, <5>2 DEF LoopState
          <5> QED BY <5>4, <5>5
        <4> QED BY <4>1, <4>2
      <3>2. CASE ~Init_Raft(s)
        BY <1>3, <2>2, <3>2, SeedsKept
      <3> QED BY <3>1, <3>2
    <2> QED BY <2>1, <2>2
  <1>4. ASSUME NEW r \in Server, Crash(r) PROVE loop'[s].seed => loop'[s].inits > 0
    <2>1. loop' = [loop EXCEPT ![r] = Idle]
      BY <1>4 DEF Crash
    <2> QED BY <1>1, <1>2, <2>1 DEF Idle
  <1>5. ASSUME NEW r \in Server, Start(r) \/ Ping(r) \/ SendFails(r) \/ ReapPeers(r)
        PROVE  loop'[s].seed => loop'[s].inits > 0
    BY <1>2, <1>5 DEF Start, Ping, SendFails, ReapPeers
  <1>6. ASSUME NEW b \in net, HandleBeacon(b) \/ Lose(b)
        PROVE  loop'[s].seed => loop'[s].inits > 0
    BY <1>2, <1>6 DEF HandleBeacon, Lose
  <1>7. ASSUME Tick PROVE loop'[s].seed => loop'[s].inits > 0
    BY <1>2, <1>7 DEF Tick
  <1>8. ASSUME UNCHANGED vars PROVE loop'[s].seed => loop'[s].inits > 0
    BY <1>2, <1>8 DEF vars
  <1>9. ASSUME NEW r \in Server, NEW q \in Server, AppendEntries(q, r)
        PROVE  loop'[s].seed => loop'[s].inits > 0
    BY <1>2, <1>9 DEF AppendEntries
  <1> QED BY <1>3, <1>4, <1>5, <1>6, <1>7, <1>8, <1>9, Zenon DEF Next

\* Every step keeps one of two servers in hearing of the other.
LEMMA SeedInvStep ==
  ASSUME SeedInv, [Next]_vars, TimingAssumption, ClusterAssumption
  PROVE  SeedInv'
  <1>1. ClusterInv /\ AgentInv /\ AgentInv' /\ ClusterInv'
    BY AgentInvStep, HeardInTimeStep, OwnJoinsOnceStep DEF SeedInv, ClusterInv
  <1>2. \A s \in Server : loop'[s].seed => loop'[s].inits > 0
    BY <1>1, SeedIsInitialised DEF SeedInv
  <1>3. ASSUME NEW s \in Server, NEW t \in Server PROVE OneHears(s, t)'
    <2> SUFFICES ASSUME losses' = 0, s # t, mode'[s] = "on", mode'[t] = "on", Apart(s, t)'
                 PROVE  Hears(s, t)' \/ Hears(t, s)'
      BY DEF OneHears
    <2>1. losses = 0
      BY <1>1, LossesOnlyGrow
    <2>2. CASE mode[s] = "on" /\ mode[t] = "on"
      <3>1. Hears(s, t) \/ Hears(t, s)
        BY <1>1, <2>1, <2>2, ApartStays DEF SeedInv, OneHears
      <3> QED BY <2>1, <2>2, <3>1, HearsStep
    <2>3. CASE mode[t] # "on"
      <3>1. Start(t)
        BY <1>1, <2>3, TurnedOn
      <3>2. mode[s] = "on"
        BY <1>1, <3>1 DEF Start, AgentInv, TypeOK
      <3> QED BY <3>1, <3>2, StartHears
    <2>4. CASE mode[s] # "on"
      <3>1. Start(s)
        BY <1>1, <2>4, TurnedOn
      <3>2. mode[t] = "on"
        BY <1>1, <3>1 DEF Start, AgentInv, TypeOK
      <3>3. due'[s] \in 0..Interval /\ due'[t] \in 0..Interval
        BY <1>1 DEF AgentInv, TypeOK
      <3>4. Apart(t, s)'
        BY <3>3, ApartBothWays DEF Apart
      <3> QED BY <3>1, <3>2, <3>4, StartHears
    <2> QED BY <2>2, <2>3, <2>4
  <1> QED BY <1>1, <1>2, <1>3 DEF SeedInv

\* One of two servers hears the other at all times.
LEMMA SeedInvHolds == Spec => []SeedInv
  <1>1. ASSUME Init PROVE SeedInv
    <2>1. ClusterInv
      BY <1>1, InitClusterInv
    <2>2. \A s \in Server : ~loop[s].seed /\ mode[s] = "off"
      BY <1>1 DEF Init, Idle
    <2> QED BY <2>1, <2>2 DEF SeedInv, OneHears
  <1>2. ASSUME SeedInv, [Next]_vars PROVE SeedInv'
    BY <1>2, SeedInvStep, TimingAssumption, ClusterAssumption
  <1> QED BY <1>1, <1>2, PTL DEF Spec

\* Of two servers whose timers are further apart than a beacon's delay only one
\* bootstraps, as long as no beacon was lost: the one started later has heard the other
\* before it hears itself, and reap_peers does not make it forget that peer.
THEOREM OnlyOneSeeds == Spec => []OneSeed
  <1>1. ASSUME SeedInv PROVE OneSeed
    <2> SUFFICES ASSUME NEW s \in Server, NEW t \in Server, losses = 0, s # t,
                        mode[s] = "on", mode[t] = "on", Apart(s, t)
                 PROVE  ~(loop[s].seed /\ loop[t].seed)
      BY DEF OneSeed
    <2>1. Hears(s, t) \/ Hears(t, s)
      BY <1>1 DEF SeedInv, OneHears
    <2>2. Hears(s, t) => ~loop[t].seed
      BY <1>1, UnheardHasNoSeed DEF Hears, Unheard
    <2>3. Hears(t, s) => ~loop[s].seed
      BY <1>1, UnheardHasNoSeed DEF Hears, Unheard
    <2> QED BY <2>1, <2>2, <2>3
  <1> QED BY <1>1, SeedInvHolds, PTL
-----------------------------------------------------------------------------
(* The callers of a server that has not bootstrapped *)

\* Only a Raft that bootstrapped has threads that call others, and a caller that still
\* runs did so in its present life.
CallersAreSeeds ==
  \A s, t \in Server :
    /\ knownServers[t] # {} => loop[t].seed
    /\ \A u \in callers[s] : Address(u) = t =>
         u[2] <= life[t] /\ (u = Self(t) /\ mode[t] # "off" => loop[t].seed)

\* A Raft that bootstrapped has done so for the rest of its life.
LEMMA SeedsStay ==
  ASSUME AgentInv, NEW s \in Server, LoopNext(s), loop[s].seed
  PROVE  loop'[s].seed
  <1>1. loop[s] \in LoopState /\ loop \in [Server -> LoopState]
    BY DEF AgentInv, TypeOK, LoopState
  <1>2. CASE ~Init_Raft(s)
    BY <1>2, SeedsKept
  <1>3. CASE Init_Raft(s)
    <2>1. CASE Cardinality(peers[s]) = 1 /\ ~Untouched(s)
      <3>1. loop' = [loop EXCEPT ![s] = [loop[s] EXCEPT !.pc = "dead"]]
        BY <1>3, <2>1 DEF Init_Raft, LoopStep
      <3> QED BY <1>1, <3>1 DEF LoopState
    <2>2. CASE ~(Cardinality(peers[s]) = 1 /\ ~Untouched(s))
      <3>1. LoopStep(s, [loop[s] EXCEPT !.pc = "recv", !.seed = @ \/ Cardinality(peers[s]) = 1,
                           !.inits = IF @ < 2 THEN @ + 1 ELSE @])
        BY <1>3, <2>2, Zenon DEF Init_Raft
      <3>2. \E n : loop' = [loop EXCEPT ![s] = [loop[s] EXCEPT !.pc = "recv",
                              !.seed = loop[s].seed \/ Cardinality(peers[s]) = 1, !.inits = n]]
        BY <3>1, Zenon DEF LoopStep
      <3> QED BY <1>1, <3>2 DEF LoopState
    <2> QED BY <2>1, <2>2
  <1> QED BY <1>2, <1>3

\* Every step keeps callers seeds.
LEMMA CallersAreSeedsStep ==
  ASSUME AgentInv, CallersAreSeeds, [Next]_vars, ClusterAssumption
  PROVE  CallersAreSeeds'
  <1> SUFFICES ASSUME NEW s \in Server, NEW t \in Server
               PROVE  /\ knownServers'[t] # {} => loop'[t].seed
                      /\ \A u \in callers'[s] : Address(u) = t =>
                           u[2] <= life'[t] /\ (u = Self(t)' /\ mode'[t] # "off" => loop'[t].seed)
    BY DEF CallersAreSeeds
  <1> DEFINE Goal == /\ knownServers'[t] # {} => loop'[t].seed
                     /\ \A u \in callers'[s] : Address(u) = t =>
                          u[2] <= life'[t] /\ (u = Self(t)' /\ mode'[t] # "off" => loop'[t].seed)
  <1>1. /\ knownServers[t] # {} => loop[t].seed
        /\ \A u \in callers[s] : Address(u) = t =>
             u[2] <= life[t] /\ (u = Self(t) /\ mode[t] # "off" => loop[t].seed)
    BY DEF CallersAreSeeds
  <1>2. /\ mode \in [Server -> {"off", "on", "stopped"}] /\ life \in [Server -> Nat]
        /\ loop \in [Server -> LoopState] /\ callers \in [Server -> SUBSET Uuid]
        /\ knownServers \in [Server -> SUBSET Server]
    BY DEF AgentInv, TypeOK, LoopState
  <1>3. ASSUME knownServers'[t] = knownServers[t], callers'[s] \subseteq callers[s],
               life'[t] = life[t], loop[t].seed => loop'[t].seed,
               mode'[t] # "off" => mode[t] # "off"
        PROVE  Goal
    BY <1>1, <1>3 DEF Self
  <1>4. ASSUME NEW r \in Server, Start(r) PROVE Goal
    <2>1. CASE t # r
      BY <1>2, <1>3, <1>4, <2>1 DEF Start, raft
    <2>2. CASE t = r
      <3>1. /\ life'[t] = life[t] + 1 /\ life[t] \in Nat
            /\ loop' = loop /\ knownServers' = knownServers /\ callers' = callers
        BY <1>2, <1>4, <2>2 DEF Start, raft
      <3>2. ASSUME NEW u \in callers[s], Address(u) = t PROVE u[2] <= life'[t] /\ u # Self(t)'
        <4>1. u \in Uuid
          BY <1>2
        <4>2. u[2] \in Int /\ u[2] <= life[t]
          BY <1>1, <3>2, <4>1, AddressIsServer
        <4>3. Self(t)'[2] = life[t] + 1
          BY <3>1 DEF Self
        <4> QED BY <3>1, <4>2, <4>3
      <3> QED BY <1>1, <3>1, <3>2
    <2> QED BY <2>1, <2>2
  <1>5. ASSUME NEW r \in Server, Crash(r) PROVE Goal
    <2>1. callers'[s] \subseteq callers[s] /\ life' = life
      BY <1>2, <1>5 DEF Crash
    <2>2. CASE t # r
      <3>1. knownServers'[t] = knownServers[t] /\ loop'[t] = loop[t] /\ mode'[t] = mode[t]
        BY <1>2, <1>5, <2>2 DEF Crash
      <3> QED BY <1>3, <2>1, <3>1
    <2>3. CASE t = r
      <3>1. knownServers'[t] = {} /\ mode'[t] = "off"
        BY <1>2, <1>5, <2>3 DEF Crash
      <3> QED BY <1>1, <2>1, <3>1
    <2> QED BY <2>2, <2>3
  <1>6. ASSUME NEW r \in Server, Ping(r) \/ ReapPeers(r) PROVE Goal
    BY <1>3, <1>6 DEF Ping, ReapPeers, raft
  <1>7. ASSUME NEW r \in Server, SendFails(r) PROVE Goal
    <2>1. mode'[t] # "off" => mode[t] # "off"
      BY <1>2, <1>7 DEF SendFails
    <2> QED BY <1>3, <1>7, <2>1 DEF SendFails, raft
  <1>8. ASSUME NEW b \in net, HandleBeacon(b) \/ Lose(b) PROVE Goal
    BY <1>3, <1>8 DEF HandleBeacon, Lose, agent, raft
  <1>9. ASSUME Tick PROVE Goal
    BY <1>3, <1>9 DEF Tick, raft
  <1>10. ASSUME NEW r \in Server, LoopNext(r) PROVE Goal
    <2>1. /\ callers' = callers /\ life' = life /\ mode' = mode
          /\ t # r => loop'[t] = loop[t] /\ knownServers'[t] = knownServers[t]
          /\ knownServers'[r] = knownServers[r] \/ loop[r].seed
      BY <1>10, LoopStepTypes
    <2>2. loop[t].seed => loop'[t].seed
      BY <1>10, <2>1, SeedsStay
    <2> QED BY <1>1, <2>1, <2>2 DEF Self
  <1>11. ASSUME NEW r \in Server, NEW q \in Server, AppendEntries(q, r) PROVE Goal
    <2>1. /\ knownServers' = knownServers /\ life' = life /\ loop' = loop /\ mode' = mode
          /\ callers' = [callers EXCEPT ![r] = @ \cup {Self(q)}] /\ r \in knownServers[q]
      BY <1>11 DEF AppendEntries, agent
    <2>2. loop[q].seed
      BY <2>1 DEF CallersAreSeeds
    <2>3. \A u \in callers'[s] : u \in callers[s] \/ u = Self(q)
      BY <1>2, <2>1
    <2>4. Address(Self(q)) = q /\ Self(q)[2] = life[q] /\ life[q] \in Nat
      BY <1>2 DEF Self, Address
    <2>5. ASSUME NEW u \in callers'[s], Address(u) = t
          PROVE  u[2] <= life[t] /\ (u = Self(t) /\ mode[t] # "off" => loop[t].seed)
      <3>1. CASE u \in callers[s]
        BY <1>1, <2>5, <3>1
      <3>2. CASE u = Self(q)
        BY <2>2, <2>4, <2>5, <3>2
      <3> QED BY <2>3, <2>5, <3>1, <3>2
    <2> QED BY <1>1, <2>1, <2>5 DEF Self
  <1>12. ASSUME UNCHANGED vars PROVE Goal
    BY <1>3, <1>12 DEF vars
  <1> HIDE DEF Goal
  <1>13. Goal
    BY <1>4, <1>5, <1>6, <1>7, <1>8, <1>9, <1>10, <1>11, <1>12, Zenon DEF Next
  <1> QED BY <1>13 DEF Goal

\* A loop that ends does so in bootstrapConfiguration.
LEMMA DiesBootstrapping ==
  ASSUME ClusterInv, [Next]_vars, NEW s \in Server, loop[s].pc # "dead", loop'[s].pc = "dead"
  PROVE  /\ loop[s].pc = "count" /\ loop[s].inits = 0 /\ Self(s) \in peers[s]
         /\ Cardinality(peers[s]) = 1 /\ ~Untouched(s)
  <1> USE DEF ClusterInv, AgentInv
  <1>1. JoinsOnce(s) /\ loop \in [Server -> LoopState] /\ loop[s] \in LoopState
    BY DEF OwnJoinsOnce, TypeOK, LoopState
  <1>2. ASSUME loop'[s] = loop[s] PROVE FALSE
    BY <1>2
  <1>3. ASSUME NEW r \in Server, Start(r) \/ Ping(r) \/ SendFails(r) \/ ReapPeers(r) PROVE FALSE
    BY <1>2, <1>3 DEF Start, Ping, SendFails, ReapPeers
  <1>4. ASSUME NEW r \in Server, Crash(r) PROVE FALSE
    <2>1. loop' = [loop EXCEPT ![r] = Idle]
      BY <1>4 DEF Crash
    <2> QED BY <1>1, <1>2, <2>1 DEF Idle
  <1>5. ASSUME NEW b \in net, HandleBeacon(b) \/ Lose(b) PROVE FALSE
    BY <1>2, <1>5 DEF HandleBeacon, Lose
  <1>6. ASSUME Tick \/ UNCHANGED vars PROVE FALSE
    BY <1>2, <1>6 DEF Tick, vars
  <1>7. ASSUME NEW r \in Server, NEW q \in Server, AppendEntries(q, r) PROVE FALSE
    BY <1>2, <1>7 DEF AppendEntries
  <1>8. ASSUME NEW r \in Server, LoopNext(r) PROVE Init_Raft(s)
    <2>1. r = s
      BY <1>2, <1>8, LoopStepTypes
    <2>2. ASSUME Recv(s) PROVE FALSE
      <3>1. \E pc \in {"joined", "other"} :
               loop' = [loop EXCEPT ![s].event = Head(pipe[s]), ![s].pc = pc]
        BY <2>2 DEF Recv
      <3> QED BY <1>1, <3>1 DEF LoopState
    <2>3. ASSUME Joined(s) PROVE FALSE
      <3>1. localAddress(s)
        BY <1>1, <2>3 DEF Joined, At, JoinsOnce, localAddress
      <3>2. loop' = [loop EXCEPT ![s] = [loop[s] EXCEPT !.event = NoEvent, !.pc = "count"]]
        BY <2>3, <3>1 DEF Joined, LoopStep
      <3> QED BY <1>1, <3>2 DEF LoopState
    <2>4. ASSUME Other(s) PROVE FALSE
      <3>1. Address(loop[s].event.uuid) # s
        BY <1>1, <2>4 DEF Other, At, JoinsOnce, Own
      <3>2. LoopStep(s, IF loop[s].event.what = "JOINED"
                        THEN [loop[s] EXCEPT !.pc = "members", !.event = NoEvent]
                        ELSE [loop[s] EXCEPT !.pc = "recv", !.event = NoEvent])
        BY <2>4, <3>1 DEF Other
      <3>3. \E pc \in {"members", "recv"} :
               loop' = [loop EXCEPT ![s] = [loop[s] EXCEPT !.pc = pc, !.event = NoEvent]]
        BY <3>2 DEF LoopStep
      <3> QED BY <1>1, <3>3 DEF LoopState
    <2>5. ASSUME SetConfiguration(s) PROVE FALSE
      BY <1>1, <2>5 DEF SetConfiguration, LoopState
    <2> QED BY <1>8, <2>1, <2>2, <2>3, <2>4, <2>5 DEF LoopNext
  <1>9. Init_Raft(s)
    BY <1>3, <1>4, <1>5, <1>6, <1>7, <1>8, Zenon DEF Next
  <1>10. loop[s].pc = "count" /\ loop[s].inits = 0 /\ Self(s) \in peers[s]
    BY <1>1, <1>9 DEF Init_Raft, At, JoinsOnce
  <1>11. Cardinality(peers[s]) = 1 /\ ~Untouched(s)
    <2>1. SUFFICES ASSUME ~(Cardinality(peers[s]) = 1 /\ ~Untouched(s)) PROVE FALSE
      OBVIOUS
    <2>2. LoopStep(s, [loop[s] EXCEPT !.pc = "recv", !.seed = @ \/ Cardinality(peers[s]) = 1,
                         !.inits = IF @ < 2 THEN @ + 1 ELSE @])
      BY <1>9, <2>1, Zenon DEF Init_Raft
    <2>3. \E b, n : loop' = [loop EXCEPT ![s] = [loop[s] EXCEPT !.pc = "recv", !.seed = b,
                                                  !.inits = n]]
      BY <2>2, Zenon DEF LoopStep
    <2> QED BY <1>1, <2>3 DEF LoopState
  <1> QED BY <1>10, <1>11

\* The loop of reconfigurations only ends in the bootstrapConfiguration of a server that is
\* not initialised, called by a leader that it cannot have heard: while no beacon is lost, a
\* server hears a leader whose timers are apart from its own before it hears itself.
THEOREM ReconfigurationLoopSurvives == Spec => LoopSurvives
  <1>1. ASSUME Init PROVE CallersAreSeeds
    BY <1>1 DEF Init, CallersAreSeeds
  <1>2. ASSUME SeedInv, CallersAreSeeds, [Next]_vars PROVE CallersAreSeeds'
    BY <1>2, CallersAreSeedsStep, ClusterAssumption DEF SeedInv, ClusterInv
  <1>3. ASSUME SeedInv, CallersAreSeeds, [Next]_vars, NEW s \in Server, loop[s].pc # "dead",
               loop'[s].pc = "dead"
        PROVE  /\ loop[s].pc = "count" /\ loop[s].inits = 0 /\ callers[s] # {}
               /\ \A t \in Server : mode[s] = "on" /\ mode[t] = "on" /\ Self(t) \in callers[s] =>
                    losses > 0 \/ ~Apart(s, t)
    <2>1. /\ loop[s].pc = "count" /\ loop[s].inits = 0 /\ Self(s) \in peers[s]
          /\ Cardinality(peers[s]) = 1 /\ ~Untouched(s)
      BY <1>3, DiesBootstrapping DEF SeedInv
    <2>2. ~loop[s].seed
      BY <1>3, <2>1 DEF SeedInv
    <2>3. callers[s] # {}
      BY <2>1, <2>2 DEF Untouched
    <2>4. ASSUME NEW t \in Server, mode[s] = "on", mode[t] = "on", Self(t) \in callers[s],
                 losses = 0, Apart(s, t)
          PROVE  FALSE
      <3>1. loop[t].seed
        BY <1>3, <2>4 DEF CallersAreSeeds, Self, Address
      <3>2. s # t /\ Self(s) # Self(t)
        BY <2>2, <3>1 DEF Self
      <3>3. ~Hears(s, t)
        BY <1>3, <3>1, UnheardHasNoSeed DEF Hears, Unheard
      <3>4. Self(t) \in peers[s]
        BY <1>3, <2>1, <2>4, <3>2, <3>3 DEF SeedInv, OneHears, Hears, Unheard
      <3>5. IsFiniteSet(peers[s])
        BY <1>3 DEF SeedInv, ClusterInv, AgentInv, Started
      <3> QED BY <2>1, <3>2, <3>4, <3>5, FS_Singleton
    <2>5. losses \in Nat
      BY <1>3 DEF SeedInv, ClusterInv, AgentInv, TypeOK
    <2> QED BY <2>1, <2>3, <2>4, <2>5
  <1>4. ASSUME SeedInv, CallersAreSeeds, [Next]_vars
        PROVE  [\A s \in Server : loop[s].pc # "dead" /\ loop'[s].pc = "dead" =>
                  /\ loop[s].pc = "count" /\ loop[s].inits = 0 /\ callers[s] # {}
                  /\ \A t \in Server : mode[s] = "on" /\ mode[t] = "on" /\ Self(t) \in callers[s] =>
                       losses > 0 \/ ~Apart(s, t)]_vars
    BY <1>3, <1>4
  <1>5. Spec => []CallersAreSeeds
    BY <1>1, <1>2, SeedInvHolds, PTL DEF Spec
  <1> QED BY <1>4, <1>5, SeedInvHolds, PTL DEF Spec, LoopSurvives
=============================================================================
