--------------------------- MODULE NFSServerSteps ----------------------------
(***************************************************************************)
(* Lemmas about NFSServer, for any clients, owners, shares, bounds and      *)
(* numbers of requests: the invariants that NFSServerProofs proves, and     *)
(* what the elementary changes of the memory, of which the operations of    *)
(* NFSServerState are made, do to the first of them.                        *)
(***************************************************************************)
EXTENDS NFSServer, TLAPS

(* Types *)

OpenKey == Client \X (0..MaxLives)
LockKey == LockOwner \X (0..MaxLives)
Key == (Client \cup LockOwner) \X (0..MaxLives)

Stateid == [id : Nat, seqid : Nat]
Status == {"OK", "DENIED", "SHARE_DENIED", "OLD_STATEID", "BAD_STATEID", "BAD_SEQID"}
Answer == [status : Status, stateid : Stateid]
Seqid == 0..SeqMod - 1
OpenRequest == [op : {"OPEN"}, client : Client, seqid : Seqid, shares : Shares]
StateRequest == [op : {"OPEN_CONFIRM", "CLOSE", "LOCK_NEW", "LOCK", "LOCKU"}, client : Client,
                 stateid : Stateid, seqid : Seqid, owner : Client \cup LockOwner,
                 type : LockType \cup {"none"}]
Request == OpenRequest \cup StateRequest

Info == [known : BOOLEAN, confirmed : BOOLEAN, lastseqid : -1..SeqMod - 1,
         cached : {<<>>} \cup (Request \X Answer), id : {0} \cup Id,
         lockowners : Seq(LockKey), openid : Nat]
State == [owner : {<<>>} \cup Key, closed : BOOLEAN, seqid : Nat]
Server == [file : F!File, state : [Id -> State], info : [Key -> Info],
           life : [Client -> 0..MaxLives], lease : [Client -> {"live", "expired"}],
           next_id : 2..MaxId + 1, up : {"up", "replay", "exception"}]
Believed == [seqid : Seqid, count : Nat, pending : {<<>>} \cup {<<r>> : r \in Request},
             opened : Stateid, confirmed : BOOLEAN,
             locks : [LockOwner -> [stateid : Stateid, seqid : Seqid]]]
-----------------------------------------------------------------------------
(* What is true of the server's memory s *)

\* The owner is of the client's present life.
Live(s, k) == k[2] = s.life[Holder(k)]

Whole == {[type |-> type, start |-> 0, end |-> MaxByte] : type \in LockType}
WholeLocks(s) == \A id \in Id : s.file.locks[id] \subseteq Whole

\* States have ids that were given out, and owners.
Numbered(s) == \A id \in Id : s.state[id] # NoState =>
                 id < s.next_id /\ s.state[id].owner \in Key

\* An owner's entry for the file names a state of its own, while the client lives.
OwnIds(s) ==
  \A k \in Key : LET id == s.info[k].id IN id # 0 =>
    /\ id < s.next_id /\ s.info[k].known
    /\ \/ s.state[id] = NoState /\ ~Live(s, k)
       \/ s.state[id] # NoState /\ s.state[id].owner = k /\ ~s.state[id].closed

\* Open states belong to owners whose numbers have begun, one open state to an owner.
OpenStates(s) ==
  \A id \in Id : s.state[id] # NoState /\ s.state[id].owner \in OpenKey =>
    /\ s.info[s.state[id].owner].lastseqid # -1
    /\ ~s.state[id].closed => s.info[s.state[id].owner].id = id

\* What is on the file is some living owner's present entry, and confirmed if a lock.
Held(s) ==
  \A id \in Id :
    LET k == s.state[id].owner
    IN /\ s.file.locks[id] # {} =>
            k \in LockKey /\ Live(s, k) /\ s.info[k].id = id /\ s.info[k].confirmed
       /\ s.file.shares[id] # F!NoShare =>
            k \in OpenKey /\ Live(s, k) /\ s.info[k].id = id

\* The open of a lock owner is its client's, and confirmed before the lock owner is.
Openers(s) ==
  \A k \in LockKey : LET id == s.info[k].openid IN
    /\ id # 0 => id \in Id /\ id < s.next_id /\
         (s.state[id] # NoState => s.state[id].owner \in OpenKey /\
                                    s.state[id].owner[1] = ClientOf[k[1]])
    /\ s.info[k].confirmed /\ Live(s, k) =>
         id # 0 /\ s.state[id] # NoState /\ s.info[s.state[id].owner].confirmed

Unused(s) == \A k \in Key : s.life[Holder(k)] < k[2] => s.info[k] = NewOwner

\* A client that remove_state has seen as often as it may does not hold locks when expired.
Renewing(s) ==
  \A c \in Client : s.lease[c] = "expired" /\ s.life[c] = MaxLives =>
    \A id \in Id : s.file.locks[id] # {} => Holder(s.state[id].owner) # c

Known(s) == \A k \in Key : s.info[k].lastseqid # -1 => s.info[k].known

\* The lock owners listed under an open owner are its client's.
Ours(k, list) == \A i \in DOMAIN list : Holder(list[i]) = Holder(k)
Siblings(s) == \A k \in Key : Ours(k, s.info[k].lockowners)

StateInv(s) == /\ Numbered(s) /\ OwnIds(s) /\ OpenStates(s) /\ Held(s)
               /\ Openers(s) /\ Unused(s) /\ Renewing(s) /\ Known(s) /\ Siblings(s)

\* Between requests an owner whose numbers have begun has an answer to repeat, and so
\* has a confirmed lock owner.
Started(s) ==
  \A k \in Key : /\ s.info[k].lastseqid # -1 => s.info[k].cached # <<>>
                 /\ k \in LockKey /\ s.info[k].confirmed => s.info[k].lastseqid # -1

Shape(s) == s \in Server /\ WholeLocks(s) /\ Numbered(s)
-----------------------------------------------------------------------------
(* What the server may have told, and requests and clients may hold *)

OpenKnown(s, id, c) ==
  /\ id \in Id /\ id < s.next_id
  /\ s.state[id] # NoState => s.state[id].owner \in OpenKey /\ s.state[id].owner[1] = c
LockKnown(s, id, l) ==
  /\ id \in Id /\ id < s.next_id
  /\ s.state[id] # NoState =>
       LET k == s.state[id].owner
       IN k \in LockKey /\ k[1] = l /\ Live(s, k) /\ s.info[k].id = id /\ s.info[k].confirmed

Asked(s, r) ==
  /\ r.op \in {"OPEN_CONFIRM", "CLOSE", "LOCK_NEW"} => OpenKnown(s, r.stateid.id, r.client)
  /\ r.op \in {"LOCK", "LOCKU"} => LockKnown(s, r.stateid.id, r.owner)
  /\ r.op \in {"LOCK_NEW", "LOCK", "LOCKU"} => r.owner \in Owns(r.client)
  /\ r.op \in {"LOCK_NEW", "LOCK"} => r.type \in LockType
Promised(s, r, a) ==
  a.status = "OK" =>
    /\ r.op \in {"OPEN", "OPEN_CONFIRM"} => OpenKnown(s, a.stateid.id, r.client)
    /\ r.op \in {"LOCK_NEW", "LOCK", "LOCKU"} => LockKnown(s, a.stateid.id, r.owner)

\* The answers that owners have to repeat are still true.
Repeatable(s) ==
  \A k \in Key : s.info[k].cached # <<>> =>
    Promised(s, s.info[k].cached[1], s.info[k].cached[2])

Remembered(s, clients, requests) ==
  /\ \A r \in requests : Asked(s, r)
  /\ Repeatable(s)
  /\ \A c \in Client :
       /\ clients[c].opened # NoStateid => OpenKnown(s, clients[c].opened.id, c)
       /\ \A l \in Owns(c) : clients[c].locks[l].stateid # NoStateid =>
            LockKnown(s, clients[c].locks[l].stateid.id, l)

Typed == /\ Shape(srv) /\ client \in [Client -> Believed] /\ sent \subseteq Request
         /\ \A c \in Client : client[c].pending # <<>> =>
              client[c].pending[1] \in sent /\ client[c].pending[1].client = c
ServerInv == /\ Typed
             /\ srv.up = "up" => /\ StateInv(srv) /\ Started(srv)
                                 /\ Remembered(srv, client, sent)
-----------------------------------------------------------------------------
(* Numbers, where a client sends fewer requests than the numbers it has *)

NoWrap == \A c \in Client : MaxSent[c] < SeqMod

\* The request's number has been passed by the owner that it goes by.
Past(s, r) == Sequencer(s, r) # <<>> => r.seqid <= s.info[Sequencer(s, r)].lastseqid

NumberInv ==
  /\ \A c \in Client : LET k == client[c] IN
       /\ k.count <= MaxSent[c] /\ k.seqid + Len(k.pending) <= k.count
       /\ \A l \in LockOwner : k.locks[l].seqid + Len(k.pending) <= k.count
  /\ \A r \in sent : r.seqid < MaxSent[r.client]
  /\ \A e \in executed : e.times = 1 /\ e.req \in sent /\ e.life \in Nat
  /\ srv.up = "up" =>
       /\ \A k \in Key : srv.info[k].lastseqid < SeqMod - 1
       /\ \A e \in executed : /\ e.life <= srv.life[e.req.client]
                              /\ e.life = srv.life[e.req.client] => Past(srv, e.req)
-----------------------------------------------------------------------------
(* What the server's answers say of its memory *)

\* The stateid is the present one of a state that the owner has.
Valid(s, key, st) == /\ st.id \in Id /\ s.state[st.id] # NoState
                     /\ s.state[st.id].owner = key /\ s.state[st.id].seqid = st.seqid
OnFile(s, id) == id \in Id /\ s.file.shares[id] # F!NoShare

\* The answer that the owner gave to a request is true as long as it is its sequencer.
Truthful(s, key, r, a) ==
  /\ r.op # "OPEN" => r.stateid.id \in Id /\ r.stateid.id < s.next_id
  /\ a.status = "SHARE_DENIED" => r.op = "OPEN"
  /\ a.status = "DENIED" => r.op \in {"LOCK_NEW", "LOCK"}
  /\ Sequencer(s, r) = key =>
       /\ a.status = "OK" /\ r.op \in {"OPEN", "OPEN_CONFIRM", "LOCK", "LOCKU"} =>
            Valid(s, key, a.stateid)
       /\ a.status = "OK" /\ r.op = "OPEN" => OnFile(s, a.stateid.id)
       /\ a.status = "OK" /\ r.op \in {"OPEN_CONFIRM", "LOCK", "LOCKU"} =>
            a.stateid.id = r.stateid.id
       /\ a.status = "DENIED" /\ r.op = "LOCK" => Valid(s, key, r.stateid)
CachedTrue(s) ==
  \A k \in Key : s.info[k].cached # <<>> =>
    Truthful(s, k, s.info[k].cached[1], s.info[k].cached[2])

\* A step leaves the owner's states alone, unless it removes its client's.
StatesStay(s, t, k) ==
  \A id \in Id : s.state[id].owner = k =>
    \/ t.state[id] = s.state[id] /\ t.file.shares[id] = s.file.shares[id]
    \/ t.state[id] = NoState /\ t.life[Holder(k)] # s.life[Holder(k)]
StatesLast(s, t, k) ==
  \A id \in Id : s.state[id].owner = k => t.state[id] \in {s.state[id], NoState}
Untouched(s, t, k) == t.info[k].confirmed = s.info[k].confirmed /\ StatesStay(s, t, k)
-----------------------------------------------------------------------------
(* What a client may believe, while its state was never removed *)

\* The server has done with the request: its number was passed, or check_seqid refuses it,
\* or lock_new does.
Spent(s, r) ==
  LET key == Sequencer(s, r)
      n == s.info[key]
  IN key # <<>> =>
       /\ n.lastseqid # -1 /\ r.seqid <= n.lastseqid + 1
       /\ \/ r.seqid <= n.lastseqid
          \/ r.op \notin {"OPEN_CONFIRM", "LOCK", "LOCKU"} /\ ~n.confirmed
          \/ r.op = "LOCK_NEW" /\ s.info[Current(s, r.owner)].confirmed

\* The client waits for the answer to a request that was carried out.
Waits(s, k, ops) == k.pending # <<>> /\ k.pending[1].op \in ops /\ Past(s, k.pending[1])

\* The request is one that the client may send, knowing what it does.
Asks(k, r) ==
  /\ r.op = "OPEN" => k.opened = NoStateid
  /\ r.op \in {"OPEN_CONFIRM", "CLOSE", "LOCK_NEW"} =>
       k.opened # NoStateid /\ r.stateid = k.opened
  /\ r.op \notin {"LOCK", "LOCKU"} => r.seqid = k.seqid
  /\ r.op = "OPEN_CONFIRM" => ~k.confirmed
  /\ r.op = "LOCK_NEW" => k.locks[r.owner].stateid = NoStateid
  /\ r.op \in {"LOCK", "LOCKU"} =>
       /\ k.locks[r.owner].stateid # NoStateid /\ r.stateid = k.locks[r.owner].stateid
       /\ r.seqid = k.locks[r.owner].seqid

\* An answer that has not come yet may have changed what the client knows of an open or
\* of a lock, and the numbers it expects next; nothing else has.
OpenBelieved(s, k, c) ==
  /\ k.opened # NoStateid /\ ~Waits(s, k, {"OPEN_CONFIRM", "CLOSE"}) =>
       Valid(s, <<c, 0>>, k.opened) /\ (~k.confirmed => ~s.info[<<c, 0>>].confirmed)
  /\ k.opened # NoStateid /\ ~Waits(s, k, {"CLOSE"}) => OnFile(s, k.opened.id)
LockBelieved(s, k, l) ==
  k.locks[l].stateid # NoStateid =>
    /\ k.locks[l].seqid <= s.info[<<l, 0>>].lastseqid + 1
    /\ \/ Waits(s, k, {"CLOSE"})
       \/ Waits(s, k, {"LOCK", "LOCKU"}) /\ k.pending[1].owner = l
       \/ Valid(s, <<l, 0>>, k.locks[l].stateid)
Believes(s, k, c, requests) ==
  /\ k.pending # <<>> => Asks(k, k.pending[1])
  /\ k.opened = NoStateid => \A l \in Owns(c) : k.locks[l].stateid = NoStateid
  /\ k.seqid <= s.info[<<c, 0>>].lastseqid + 1
  /\ OpenBelieved(s, k, c)
  /\ \A l \in Owns(c) : LockBelieved(s, k, l)
  /\ \A r \in requests : r.client = c => k.pending = <<r>> \/ Spent(s, r)

TruthInv ==
  srv.up = "up" =>
    /\ CachedTrue(srv)
    /\ \A c \in Client : srv.life[c] = 0 => Believes(srv, client[c], c, sent)
-----------------------------------------------------------------------------
(* Keys and fields *)

\* Owners are named apart: an owner's name says whose it is, as openowners and
\* lockowners of nfs4state.py do by being two dicts.
LEMMA Keys ==
  /\ Key = OpenKey \cup LockKey /\ OpenKey \cap LockKey = {}
  /\ \A k \in OpenKey : k[1] \in Client /\ Holder(k) = k[1]
  /\ \A k \in LockKey : k[1] \in LockOwner /\ k[1] \notin Client /\
                        Holder(k) = ClientOf[k[1]] /\ Holder(k) \in Client
  /\ \A k \in Key : k = <<k[1], k[2]>> /\ k[2] \in 0..MaxLives /\ Holder(k) \in Client
  /\ <<>> \notin Key /\ MaxLives \in Nat
  BY ServerAssumption DEF Key, OpenKey, LockKey, Holder

\* The fields of the server's memory.
LEMMA ServerFields ==
  ASSUME NEW s \in Server
  PROVE  /\ s.file \in F!File /\ s.state \in [Id -> State] /\ s.info \in [Key -> Info]
         /\ s.life \in [Client -> 0..MaxLives] /\ s.lease \in [Client -> {"live", "expired"}]
         /\ s.next_id \in 2..MaxId + 1 /\ s.up \in {"up", "replay", "exception"}
  BY DEF Server

\* The current owner object of a name is that of the client's present life.
LEMMA CurrentKey ==
  ASSUME NEW s \in Server
  PROVE  /\ \A c \in Client : /\ Current(s, c) \in OpenKey /\ Live(s, Current(s, c))
                              /\ Current(s, c)[1] = c
         /\ \A l \in LockOwner : /\ Current(s, l) \in LockKey /\ Live(s, Current(s, l))
                                 /\ Current(s, l)[1] = l
         /\ \A k \in Key : Live(s, k) => k = Current(s, k[1])
  <1>1. s.life \in [Client -> 0..MaxLives]
    BY ServerFields
  <1>2. \A c \in Client : Holder(<<c>>) = c
    BY DEF Holder
  <1>3. \A l \in LockOwner : Holder(<<l>>) = ClientOf[l] /\ ClientOf[l] \in Client
    BY ServerAssumption DEF Holder
  <1>4. ASSUME NEW c \in Client
        PROVE  Current(s, c) \in OpenKey /\ Live(s, Current(s, c)) /\ Current(s, c)[1] = c
    BY <1>1, <1>2, Keys DEF Current, OpenKey, Live
  <1>5. ASSUME NEW l \in LockOwner
        PROVE  Current(s, l) \in LockKey /\ Live(s, Current(s, l)) /\ Current(s, l)[1] = l
    BY <1>1, <1>3, Keys DEF Current, LockKey, Live
  <1>6. ASSUME NEW k \in Key, Live(s, k)
        PROVE  k = Current(s, k[1])
    <2>1. CASE k \in OpenKey
      BY <1>2, <1>6, <2>1, Keys DEF Current, Live
    <2>2. CASE k \in LockKey
      BY <1>3, <1>6, <2>2, Keys DEF Current, Live
    <2> QED BY <2>1, <2>2, Keys
  <1> QED BY <1>4, <1>5, <1>6

\* What a step that leaves the named ids to their owners may do to what was told.
LockHolder(s, id) ==
  LET k == s.state[id].owner
  IN k \in LockKey /\ Live(s, k) /\ s.info[k].id = id /\ s.info[k].confirmed
Keeps(s, t) ==
  /\ s.next_id <= t.next_id /\ \A c \in Client : s.life[c] <= t.life[c]
  /\ \A id \in Id : id < s.next_id /\ t.state[id] # NoState =>
       /\ s.state[id] # NoState /\ t.state[id].owner = s.state[id].owner
       /\ LockHolder(s, id) => LockHolder(t, id)

\* A handler that changes nothing, like a refused one of nfs4state.py, keeps what was told.
LEMMA KeepsItself == ASSUME NEW s \in Server PROVE Keeps(s, s)
  <1>1. \A c \in Client : s.life[c] \in Int
    BY ServerFields, Keys
  <1> QED BY <1>1, ServerFields DEF Keeps

\* Two changes that a handler of nfs4state.py makes one after the other.
LEMMA KeepsOn ==
  ASSUME NEW s \in Server, NEW t \in Server, NEW u \in Server, Keeps(s, t), Keeps(t, u)
  PROVE  Keeps(s, u)
  <1>1. /\ s.next_id \in Int /\ t.next_id \in Int /\ u.next_id \in Int
        /\ Id \subseteq Int
    BY ServerFields, ServerAssumption DEF Id
  <1>2. \A c \in Client : s.life[c] <= u.life[c]
    <2>1. \A c \in Client : s.life[c] \in Int /\ t.life[c] \in Int /\ u.life[c] \in Int
      BY ServerFields, Keys
    <2> QED BY <2>1 DEF Keeps
  <1> QED BY <1>1, <1>2 DEF Keeps

\* Two changes that leave an owner's states alone.
LEMMA StatesStayOn ==
  ASSUME NEW s, Shape(s), NEW u \in Server, NEW t \in Server, Keeps(s, u), Keeps(u, t),
         NEW k \in Key, StatesStay(s, u, k), StatesStay(u, t, k)
  PROVE  StatesStay(s, t, k)
  <1> SUFFICES ASSUME NEW id \in Id, s.state[id].owner = k
               PROVE  \/ t.state[id] = s.state[id] /\ t.file.shares[id] = s.file.shares[id]
                      \/ t.state[id] = NoState /\ t.life[Holder(k)] # s.life[Holder(k)]
    BY DEF StatesStay
  <1>1. Holder(k) \in Client /\ k # <<>>
    BY Keys
  <1>2. /\ s.life[Holder(k)] \in Int /\ u.life[Holder(k)] \in Int /\ t.life[Holder(k)] \in Int
        /\ s.life[Holder(k)] <= u.life[Holder(k)] /\ u.life[Holder(k)] <= t.life[Holder(k)]
    BY <1>1, ServerFields, Keys DEF Shape, Keeps
  <1>3. CASE u.state[id] = s.state[id] /\ u.file.shares[id] = s.file.shares[id]
    <2>1. \/ t.state[id] = u.state[id] /\ t.file.shares[id] = u.file.shares[id]
          \/ t.state[id] = NoState /\ t.life[Holder(k)] # u.life[Holder(k)]
      BY <1>3 DEF StatesStay
    <2> QED BY <1>2, <1>3, <2>1
  <1>4. CASE u.state[id] = NoState /\ u.life[Holder(k)] # s.life[Holder(k)]
    <2>1. s.state[id] # NoState
      BY <1>1 DEF NoState
    <2>2. id < s.next_id /\ s.next_id <= u.next_id
      BY <2>1 DEF Shape, Numbered, Keeps
    <2>3. id < u.next_id
      <3>1. id \in Int /\ s.next_id \in Int /\ u.next_id \in Int
        BY ServerFields, ServerAssumption DEF Shape, Id
      <3> QED BY <2>2, <3>1
    <2>4. t.state[id] = NoState
      BY <1>4, <2>3 DEF Keeps
    <2> QED BY <1>2, <1>4, <2>4
  <1>5. \/ u.state[id] = s.state[id] /\ u.file.shares[id] = s.file.shares[id]
        \/ u.state[id] = NoState /\ u.life[Holder(k)] # s.life[Holder(k)]
    BY Zenon DEF StatesStay
  <1> QED BY <1>3, <1>4, <1>5

\* Two changes that leave an owner alone.
LEMMA UntouchedOn ==
  ASSUME NEW s, Shape(s), NEW u \in Server, NEW t \in Server, Keeps(s, u), Keeps(u, t),
         NEW k \in Key, Untouched(s, u, k), Untouched(u, t, k)
  PROVE  Untouched(s, t, k)
  <1>1. StatesStay(s, t, k)
    BY StatesStayOn DEF Untouched
  <1> QED BY <1>1 DEF Untouched

\* A change of an owner's numbers or locks leaves all states alone.
LEMMA SameStates ==
  ASSUME NEW s, NEW t, t.state = s.state, t.file.shares = s.file.shares, NEW k
  PROVE  StatesStay(s, t, k)
  BY DEF StatesStay

\* What the server has told stays true, or is gone for good: its ids are not used again.
LEMMA ToldStays ==
  ASSUME NEW s \in Server, NEW t \in Server, Keeps(s, t)
  PROVE  /\ \A id, c : OpenKnown(s, id, c) => OpenKnown(t, id, c)
         /\ \A id, l : LockKnown(s, id, l) => LockKnown(t, id, l)
  <1>1. /\ s.next_id \in Int /\ t.next_id \in Int
        /\ Id \subseteq Int
    BY ServerFields, ServerAssumption DEF Id
  <1>2. ASSUME NEW id, NEW c, OpenKnown(s, id, c)
        PROVE  OpenKnown(t, id, c)
    BY <1>1, <1>2 DEF OpenKnown, Keeps
  <1>3. ASSUME NEW id, NEW l, LockKnown(s, id, l)
        PROVE  LockKnown(t, id, l)
    <2>1. id \in Id /\ id < s.next_id /\ id < t.next_id
      BY <1>1, <1>3 DEF LockKnown, Keeps
    <2>2. ASSUME t.state[id] # NoState
          PROVE  /\ s.state[id] # NoState /\ t.state[id].owner = s.state[id].owner
                 /\ LockHolder(s, id) => LockHolder(t, id)
      BY <2>1, <2>2, Zenon DEF Keeps
    <2>3. ASSUME t.state[id] # NoState
          PROVE  LockHolder(t, id) /\ t.state[id].owner[1] = l
      BY <1>3, <2>2, <2>3 DEF LockKnown, LockHolder
    <2> QED BY <2>1, <2>3 DEF LockKnown, LockHolder
  <1> QED BY <1>2, <1>3

\* What is said of the owners' records stays true when they, the states and the lives stay.
LEMMA OwnersAlike ==
  ASSUME NEW s, StateInv(s), NEW t, t.info = s.info, t.state = s.state,
         t.next_id = s.next_id, t.life = s.life
  PROVE  Openers(t) /\ Unused(t) /\ Siblings(t)
  <1>1. Openers(s) /\ Unused(s) /\ Siblings(s)
    BY DEF StateInv
  <1>2. \A k : Live(t, k) <=> Live(s, k)
    BY DEF Live
  <1>3. Openers(t)
    BY <1>1, <1>2 DEF Openers
  <1>4. Unused(t) /\ Siblings(t)
    BY <1>1 DEF Unused, Siblings
  <1> QED BY <1>3, <1>4

\* A renewal of a lease touches nothing else.
LEMMA RenewKeeps ==
  ASSUME NEW s, Shape(s), StateInv(s), NEW c \in Client,
         NEW t, t = [s EXCEPT !.lease[c] = "live"]
  PROVE  /\ Shape(t) /\ StateInv(t) /\ Keeps(s, t)
         /\ t.info = s.info /\ t.file = s.file /\ t.life = s.life /\ t.up = s.up
         /\ t.state = s.state /\ t.next_id = s.next_id
  <1>1. s \in Server
    BY DEF Shape
  <1>2. /\ t.info = s.info /\ t.file = s.file /\ t.life = s.life /\ t.up = s.up
        /\ t.state = s.state /\ t.next_id = s.next_id
        /\ t.lease = [s.lease EXCEPT ![c] = "live"]
        /\ t \in Server
    BY <1>1 DEF Server
  <1>3. s.lease \in [Client -> {"live", "expired"}]
    BY <1>1, ServerFields
  <1>4. \A k : Live(t, k) <=> Live(s, k)
    BY <1>2 DEF Live
  <1>5. Renewing(t)
    BY <1>2, <1>3 DEF StateInv, Renewing
  <1>6. Shape(t)
    BY <1>2 DEF Shape, WholeLocks, Numbered
  <1>7. StateInv(t)
    <2>1. Numbered(t) /\ OpenStates(t) /\ Known(t)
      BY <1>2 DEF StateInv, Numbered, OpenStates, Known
    <2>2. OwnIds(t)
      BY <1>2, <1>4 DEF StateInv, OwnIds
    <2>3. Held(t)
      BY <1>2, <1>4 DEF StateInv, Held
    <2>4. Openers(t) /\ Unused(t) /\ Siblings(t)
      BY <1>2, OwnersAlike
    <2> QED BY <1>5, <2>1, <2>2, <2>3, <2>4 DEF StateInv
  <1>8. Keeps(s, t)
    BY <1>1, <1>2, <1>4, ServerFields DEF Keeps, LockHolder
  <1> QED BY <1>2, <1>6, <1>7, <1>8
-----------------------------------------------------------------------------
(* The file *)

\* The fields of a file's lock and share records.
LEMMA FileFields ==
  ASSUME NEW f \in F!File
  PROVE  /\ f.locks \in [Id -> SUBSET F!LockInfo] /\ f.shares \in [Id -> F!Share]
         /\ f.access \in SUBSET {"READ", "WRITE"} /\ f.deny \in SUBSET {"READ", "WRITE"}
  BY DEF F!File, F!Mode, F!Bits

\* close and remove_state give up all shares of an id and nothing else.
LEMMA DownSharesFile ==
  ASSUME NEW f \in F!File, NEW id \in Id, NEW g, g = F!DownShares(f, id, {}, {})
  PROVE  /\ g \in F!File /\ g.locks = f.locks /\ g.shares[id] = F!NoShare
         /\ \A i \in Id \ {id} : g.shares[i] = f.shares[i]
  <1> DEFINE shares == [f.shares EXCEPT ![id] = [access |-> F!To3({}), deny |-> F!To3({})]]
  <1>1. CASE f.shares[id] = F!NoShare
    BY <1>1 DEF F!DownShares
  <1>2. CASE f.shares[id] # F!NoShare
    <2>1. g = [f EXCEPT !.shares = shares, !.access = F!Summary(shares, "access"),
                        !.deny = F!Summary(shares, "deny")]
      BY <1>2 DEF F!DownShares
    <2>2. F!To3({}) = {}
      BY DEF F!To3
    <2>3. F!NoShare \in F!Share
      BY DEF F!NoShare, F!Share, F!Mode
    <2>4. /\ shares \in [Id -> F!Share] /\ shares[id] = F!NoShare
          /\ \A i \in Id \ {id} : shares[i] = f.shares[i]
      BY <2>2, <2>3, FileFields DEF F!NoShare
    <2> HIDE DEF shares
    <2>5. \A part \in {"access", "deny"} : F!Summary(shares, part) \in SUBSET {"READ", "WRITE"}
      <3>1. \A i \in Id : shares[i].access \in SUBSET SUBSET {"READ", "WRITE"} /\
                          shares[i].deny \in SUBSET SUBSET {"READ", "WRITE"}
        BY <2>4 DEF F!Share, F!Mode, F!Bits
      <3> QED BY <3>1 DEF F!Summary, F!To2
    <2>6. /\ g.shares = shares /\ g.locks = f.locks /\ g \in F!File
      BY <2>1, <2>4, <2>5 DEF F!File, F!Mode, F!Bits
    <2> QED BY <2>4, <2>6
  <1> QED BY <1>1, <1>2

\* open adds shares to one id.
LEMMA AddSharesFile ==
  ASSUME NEW f \in F!File, NEW id \in Id, NEW shares \in Shares,
         NEW g, g = F!AddShares(f, id, shares[1], shares[2])
  PROVE  /\ g \in F!File /\ g.locks = f.locks
         /\ \A i \in Id \ {id} : g.shares[i] = f.shares[i]
         /\ shares[1] # {} => g.shares[id] # F!NoShare
  <1> DEFINE access == shares[1]
             deny == shares[2]
             new == [f.shares EXCEPT ![id] = [access |-> @.access \cup F!To3(access),
                                              deny |-> @.deny \cup F!To3(deny)]]
  <1>1. access \in SUBSET {"READ", "WRITE"} /\ deny \in SUBSET {"READ", "WRITE"}
    BY ServerAssumption
  <1>2. F!To3(access) \in SUBSET SUBSET {"READ", "WRITE"} /\
        F!To3(deny) \in SUBSET SUBSET {"READ", "WRITE"}
    BY <1>1 DEF F!To3
  <1>3. g = [f EXCEPT !.access = @ \cup access, !.deny = @ \cup deny, !.shares = new]
    BY FileFields DEF F!AddShares, F!File
  <1>4. new \in [Id -> F!Share] /\ \A i \in Id \ {id} : new[i] = f.shares[i]
    <2>1. f.shares[id] \in F!Share
      BY FileFields
    <2>2. [access |-> f.shares[id].access \cup F!To3(access),
           deny |-> f.shares[id].deny \cup F!To3(deny)] \in F!Share
      BY <1>2, <2>1 DEF F!Share, F!Mode, F!Bits
    <2> HIDE DEF access, deny
    <2> QED BY <2>2, FileFields
  <1>6. access # {} => new[id] # F!NoShare
    <2>1. f.shares[id] \in F!Share /\ f.shares \in [Id -> F!Share]
      BY FileFields
    <2>2. new[id].access = f.shares[id].access \cup F!To3(access)
      BY <2>1 DEF F!Share
    <2>3. access # {} => access \in F!To3(access)
      BY DEF F!To3
    <2>4. F!NoShare.access = {}
      BY DEF F!NoShare
    <2> HIDE DEF new, access
    <2> QED BY <2>2, <2>3, <2>4
  <1> HIDE DEF new, access, deny
  <1>5. g \in F!File /\ g.locks = f.locks /\ g.shares = new
    BY <1>1, <1>3, <1>4 DEF F!File, F!Mode, F!Bits
  <1>7. shares[1] # {} => new[id] # F!NoShare
    BY <1>6 DEF access
  <1> QED BY <1>4, <1>5, <1>7

\* removelock of the whole file finds every lock within the range.
LEMMA WholeFile ==
  ASSUME NEW f \in F!File, NEW id \in Id, f.locks[id] \subseteq Whole
  PROVE  F!RemoveRange(f.locks[id], 0, MaxByte) = {}
  <1>1. \A l \in f.locks[id] : l.start = 0 /\ l.end = MaxByte
    BY DEF Whole
  <1>2. F!SplitAt(f.locks[id], 0) = f.locks[id]
    BY <1>1 DEF F!SplitAt
  <1>3. F!SplitAt(f.locks[id], MaxByte + 1) = f.locks[id]
    BY <1>1, ServerAssumption DEF F!SplitAt
  <1>4. \A l \in f.locks[id] : F!Overlaps(l, 0, MaxByte)
    BY <1>1, ServerAssumption DEF F!Overlaps
  <1> QED BY <1>2, <1>3, <1>4 DEF F!RemoveRange

\* addposixlock with a range that is the whole file leaves that one lock.
LEMMA AddLockFile ==
  ASSUME NEW f \in F!File, NEW id \in Id, NEW type \in LockType,
         f.locks[id] \subseteq Whole,
         NEW g, g = F!AddLock(f, id, type, 0, MaxByte)
  PROVE  /\ g \in F!File /\ g.shares = f.shares
         /\ g.locks = [f.locks EXCEPT ![id] = {[type |-> type, start |-> 0, end |-> MaxByte]}]
         /\ [type |-> type, start |-> 0, end |-> MaxByte] \in Whole
  <1> DEFINE new == [type |-> type, start |-> 0, end |-> MaxByte]
  <1>1. F!RemoveRange(f.locks[id], 0, MaxByte) = {}
    BY WholeFile
  <1>2. F!Before({}, new) = {} /\ F!After({}, new) = {}
    BY DEF F!Before, F!After
  <1>3. F!Merge({}, new) = {new}
    BY <1>2 DEF F!Merge
  <1>4. g = [f EXCEPT !.locks[id] = F!Merge(F!RemoveRange(@, 0, MaxByte), new)]
    BY DEF F!AddLock
  <1>5. g = [f EXCEPT !.locks = [f.locks EXCEPT ![id] = {new}]]
    BY <1>1, <1>3, <1>4 DEF F!File
  <1>6. new \in F!LockInfo /\ new \in Whole
    BY ServerAssumption DEF F!LockInfo, F!Byte, Whole
  <1> HIDE DEF new
  <1>7. [f.locks EXCEPT ![id] = {new}] \in [Id -> SUBSET F!LockInfo]
    BY <1>6, FileFields
  <1>8. g \in F!File /\ g.shares = f.shares /\ g.locks = [f.locks EXCEPT ![id] = {new}]
    BY <1>5, <1>7 DEF F!File
  <1> QED BY <1>6, <1>8 DEF new

\* removelock with a range that is the whole file leaves nothing.
LEMMA RemoveLockFile ==
  ASSUME NEW f \in F!File, NEW id \in Id, f.locks[id] \subseteq Whole,
         NEW g, g = F!RemoveLock(f, id, 0, MaxByte)
  PROVE  /\ g \in F!File /\ g.shares = f.shares
         /\ g.locks = [f.locks EXCEPT ![id] = {}]
  <1>1. g = [f EXCEPT !.locks = [f.locks EXCEPT ![id] = {}]]
    BY WholeFile DEF F!RemoveLock, F!File
  <1>2. [f.locks EXCEPT ![id] = {}] \in [Id -> SUBSET F!LockInfo]
    BY FileFields
  <1> QED BY <1>1, <1>2 DEF F!File

\* removelocks of a set of ids, as remove_state and close do it.
LEMMA UnlockedFile ==
  ASSUME NEW f \in F!File, NEW ids,
         NEW g, g = [f EXCEPT !.locks = [id \in Id |-> IF id \in ids THEN {} ELSE @[id]]]
  PROVE  /\ g \in F!File /\ g.shares = f.shares
         /\ \A id \in Id : g.locks[id] = IF id \in ids THEN {} ELSE f.locks[id]
  <1> DEFINE locks == [id \in Id |-> IF id \in ids THEN {} ELSE f.locks[id]]
  <1>1. g = [f EXCEPT !.locks = locks]
    OBVIOUS
  <1>2. locks \in [Id -> SUBSET F!LockInfo]
    BY FileFields
  <1>3. \A id \in Id : locks[id] = IF id \in ids THEN {} ELSE f.locks[id]
    OBVIOUS
  <1> HIDE DEF locks
  <1>4. g \in F!File /\ g.shares = f.shares /\ g.locks = locks
    BY <1>1, <1>2 DEF F!File
  <1> QED BY <1>3, <1>4
-----------------------------------------------------------------------------
(* The elementary changes of the server's memory *)

\* Empty entries and fresh owners, as __init__ of nfs4state.py's classes make them.
LEMMA StateFacts ==
  /\ NoState \in State /\ NoState.owner = <<>>
  /\ \A k \in Key : [NoState EXCEPT !.owner = k] \in State /\
                    [NoState EXCEPT !.owner = k] # NoState /\
                    [NoState EXCEPT !.owner = k].owner = k /\
                    ~[NoState EXCEPT !.owner = k].closed
  /\ Id \subseteq Nat /\ 0 \notin Id
  /\ NewOwner \in Info
  <1>1. NoState \in State /\ NoState.owner = <<>>
    BY DEF NoState, State
  <1>2. ASSUME NEW k \in Key
        PROVE  /\ [NoState EXCEPT !.owner = k] \in State
               /\ [NoState EXCEPT !.owner = k].owner = k
               /\ ~[NoState EXCEPT !.owner = k].closed
    BY DEF NoState, State
  <1>3. \A k \in Key : [NoState EXCEPT !.owner = k] # NoState
    BY <1>1, <1>2, Keys, ZenonT(40)
  <1>4. Id \subseteq Nat /\ 0 \notin Id
    BY ServerAssumption DEF Id
  <1>5. NewOwner \in Info
    <2>1. <<>> \in Seq(LockKey) /\ -1 \in -1..SeqMod - 1 /\ 0 \in Nat
      BY ServerAssumption
    <2> QED BY <2>1 DEF NewOwner, Info
  <1> QED BY <1>1, <1>2, <1>3, <1>4, <1>5

\* What __stateid does to a state.
Bumped(s, id, n) == [s EXCEPT !.state[id].seqid = n]

\* __stateid: a state's number goes up, and nothing else changes.
LEMMA BumpKeeps ==
  ASSUME NEW s, Shape(s), StateInv(s), NEW id \in Id, s.state[id] # NoState, NEW n \in Nat,
         NEW t, t = Bumped(s, id, n)
  PROVE  /\ Shape(t) /\ StateInv(t) /\ Keeps(s, t)
         /\ t.info = s.info /\ t.file = s.file /\ t.life = s.life /\ t.up = s.up
         /\ t.next_id = s.next_id /\ t.lease = s.lease
         /\ \A i \in Id : /\ t.state[i].owner = s.state[i].owner
                          /\ t.state[i] # NoState <=> s.state[i] # NoState
                          /\ t.state[i].closed = s.state[i].closed
         /\ t.state[id].seqid = n /\ \A i \in Id \ {id} : t.state[i] = s.state[i]
  <1>1. s \in Server /\ s.state \in [Id -> State]
    BY ServerFields DEF Shape
  <1> DEFINE new == [s.state[id] EXCEPT !.seqid = n]
  <1>2. s.state[id] \in State /\ s.state[id].owner \in Key
    BY <1>1 DEF Shape, Numbered
  <1>3. /\ new \in State /\ new.owner = s.state[id].owner /\ new.closed = s.state[id].closed
        /\ new # NoState /\ new.seqid = n
    BY <1>2, StateFacts, Keys DEF State
  <1>4. t = [s EXCEPT !.state = [s.state EXCEPT ![id] = new]]
    BY <1>1 DEF Server, Bumped
  <1> HIDE DEF new
  <1>5. /\ t.info = s.info /\ t.file = s.file /\ t.life = s.life /\ t.up = s.up
        /\ t.next_id = s.next_id /\ t.lease = s.lease
        /\ t.state = [s.state EXCEPT ![id] = new]
        /\ t \in Server
    BY <1>1, <1>3, <1>4 DEF Server
  <1>6. \A i \in Id : /\ t.state[i].owner = s.state[i].owner
                      /\ t.state[i] # NoState <=> s.state[i] # NoState
                      /\ t.state[i].closed = s.state[i].closed
    BY <1>1, <1>3, <1>5
  <1>7. \A k : Live(t, k) <=> Live(s, k)
    BY <1>5 DEF Live
  <1>8. Shape(t)
    BY <1>5, <1>6 DEF Shape, WholeLocks, Numbered
  <1>9. StateInv(t)
    <2>1. Numbered(t) /\ OpenStates(t) /\ Known(t) /\ Renewing(t)
      BY <1>5, <1>6 DEF StateInv, Numbered, OpenStates, Known, Renewing
    <2>2. OwnIds(t)
      <3>1. \A k \in Key : s.info[k].id # 0 => s.info[k].id \in Id
        BY <1>1, ServerFields DEF Info
      <3>2. OwnIds(s)
        BY DEF StateInv
      <3> QED BY <1>5, <1>6, <1>7, <3>1, <3>2 DEF OwnIds
    <2>3. Held(t)
      <3>1. Held(s)
        BY DEF StateInv
      <3> QED BY <1>5, <1>6, <1>7, <3>1 DEF Held
    <2>4. Openers(t)
      <3>1. Openers(s)
        BY DEF StateInv
      <3>2. ASSUME NEW k \in LockKey, s.info[k].openid # 0
            PROVE  /\ s.info[k].openid \in Id /\ s.info[k].openid < s.next_id
                   /\ t.state[s.info[k].openid] # NoState =>
                        /\ t.state[s.info[k].openid].owner \in OpenKey
                        /\ t.state[s.info[k].openid].owner[1] = ClientOf[k[1]]
        BY <1>6, <3>1, <3>2 DEF Openers
      <3>3. ASSUME NEW k \in LockKey, s.info[k].confirmed, Live(s, k)
            PROVE  /\ s.info[k].openid # 0 /\ t.state[s.info[k].openid] # NoState
                   /\ s.info[t.state[s.info[k].openid].owner].confirmed
        <4>1. /\ s.info[k].openid # 0 /\ s.state[s.info[k].openid] # NoState
              /\ s.info[s.state[s.info[k].openid].owner].confirmed
              /\ s.info[k].openid \in Id
          BY <3>1, <3>3 DEF Openers
        <4> QED BY <1>6, <4>1
      <3>4. t.info = s.info /\ t.next_id = s.next_id
        BY <1>5
      <3>5. \A k \in LockKey : t.info[k].confirmed /\ Live(t, k) => s.info[k].confirmed /\ Live(s, k)
        BY <1>7, <3>4
      <3> QED BY <3>2, <3>3, <3>4, <3>5 DEF Openers
    <2>5. Unused(t) /\ Siblings(t)
      BY <1>5 DEF StateInv, Unused, Siblings
    <2> QED BY <2>1, <2>2, <2>3, <2>4, <2>5 DEF StateInv
  <1>10. Keeps(s, t)
    <2>1. \A c \in Client : s.life[c] <= t.life[c]
      <3>1. \A c \in Client : s.life[c] \in Int
        BY <1>1, ServerFields, Keys
      <3> QED BY <1>5, <3>1
    <2>2. s.next_id <= t.next_id
      BY <1>1, <1>5, ServerFields
    <2>3. ASSUME NEW i \in Id, LockHolder(s, i) PROVE LockHolder(t, i)
      BY <1>5, <1>6, <1>7, <2>3 DEF LockHolder
    <2> QED BY <1>6, <2>1, <2>2, <2>3 DEF Keeps
  <1>11. t.state[id].seqid = n /\ \A i \in Id \ {id} : t.state[i] = s.state[i]
    BY <1>1, <1>3, <1>5
  <1> QED BY <1>5, <1>6, <1>8, <1>9, <1>10, <1>11

\* __owner2id: an owner without an entry for the file gets the next id.
LEMMA WithIdKeeps ==
  ASSUME NEW s, Shape(s), StateInv(s), s.next_id <= MaxId, NEW key \in Key, Live(s, key),
         key \in OpenKey => s.info[key].lastseqid # -1,
         NEW t, t = WithId(s, key)
  PROVE  LET id == IdOf(s, key)
         IN /\ Shape(t) /\ StateInv(t) /\ Keeps(s, t)
            /\ t.file = s.file /\ t.life = s.life /\ t.up = s.up /\ t.lease = s.lease
            /\ id \in Id /\ t.info[key].id = id /\ t.info[key].known
            /\ t.state[id] # NoState /\ t.state[id].owner = key
            /\ \A k \in Key : /\ t.info[k].cached = s.info[k].cached
                              /\ t.info[k].lastseqid = s.info[k].lastseqid
                              /\ t.info[k].confirmed = s.info[k].confirmed
                              /\ t.info[k].openid = s.info[k].openid
                              /\ k # key => t.info[k] = s.info[k]
            /\ \A i \in Id : s.state[i] # NoState => t.state[i] = s.state[i]
  <1>1. s \in Server /\ s.state \in [Id -> State] /\ s.info \in [Key -> Info]
        /\ s.next_id \in Id /\ s.next_id \in Nat /\ s.info[key].id \in {0} \cup Id
    <2>1. s \in Server
      BY DEF Shape
    <2>2. s.next_id \in 2..MaxId + 1 /\ s.info \in [Key -> Info] /\ s.state \in [Id -> State]
      BY <2>1, ServerFields
    <2>3. s.next_id \in Id /\ s.next_id \in Nat
      BY <2>2, ServerAssumption DEF Id
    <2>4. s.info[key].id \in {0} \cup Id
      BY <2>2 DEF Info
    <2> QED BY <2>1, <2>2, <2>3, <2>4
  <1>2. CASE s.info[key].id # 0
    <2>1. t = s /\ IdOf(s, key) = s.info[key].id
      BY <1>2 DEF WithId, IdOf
    <2>2. s.state[s.info[key].id] # NoState /\ s.state[s.info[key].id].owner = key
          /\ s.info[key].known
      BY <1>2 DEF StateInv, OwnIds
    <2> QED BY <1>1, <1>2, <2>1, <2>2, KeepsItself
  <1>3. CASE s.info[key].id = 0
    <2> DEFINE id == s.next_id
               own == [s.info[key] EXCEPT !.id = id, !.known = TRUE]
               new == [NoState EXCEPT !.owner = key]
    <2>1. IdOf(s, key) = id
      BY <1>3 DEF IdOf
    <2>2. s.info[key] \in Info
      BY <1>1
    <2>3. /\ own \in Info /\ own.id = id /\ own.known
          /\ own.cached = s.info[key].cached /\ own.lastseqid = s.info[key].lastseqid
          /\ own.confirmed = s.info[key].confirmed /\ own.openid = s.info[key].openid
          /\ own.lockowners = s.info[key].lockowners
      BY <1>1, <2>2 DEF Info
    <2>4. new \in State /\ new # NoState /\ new.owner = key /\ ~new.closed
      BY StateFacts
    <2>5. t = [s EXCEPT !.next_id = id + 1, !.info = [s.info EXCEPT ![key] = own],
                        !.state = [s.state EXCEPT ![id] = new]]
      <3>1. [s.info EXCEPT ![key].id = id, ![key].known = TRUE] = [s.info EXCEPT ![key] = own]
        BY <1>1
      <3>2. t = [s EXCEPT !.next_id = @ + 1, !.info[key].id = id, !.info[key].known = TRUE,
                          !.state[id] = new]
        BY <1>3 DEF WithId
      <3>3. t = [s EXCEPT !.next_id = id + 1,
                          !.info = [s.info EXCEPT ![key].id = id, ![key].known = TRUE],
                          !.state = [s.state EXCEPT ![id] = new]]
        <4> HIDE DEF own, new
        <4> QED BY <1>1, <3>2 DEF Server
      <3> QED BY <3>1, <3>3
    <2> HIDE DEF own, new
    <2>6. /\ t.file = s.file /\ t.life = s.life /\ t.up = s.up /\ t.lease = s.lease
          /\ t.info = [s.info EXCEPT ![key] = own] /\ t.state = [s.state EXCEPT ![id] = new]
          /\ t.next_id = id + 1 /\ t \in Server
      <3>1. [s.info EXCEPT ![key] = own] \in [Key -> Info]
            /\ [s.state EXCEPT ![id] = new] \in [Id -> State]
        BY <1>1, <2>3, <2>4
      <3>2. id + 1 \in 2..MaxId + 1
        BY <1>1, ServerAssumption DEF Id
      <3> QED BY <1>1, <2>5, <3>1, <3>2 DEF Server
    <2>7. /\ t.info[key] = own /\ \A k \in Key : k # key => t.info[k] = s.info[k]
          /\ t.state[id] = new /\ \A i \in Id : i # id => t.state[i] = s.state[i]
      BY <1>1, <2>6
    <2>8. s.state[id] = NoState
      BY <1>1 DEF StateInv, Numbered
    <2>9. \A k : Live(t, k) <=> Live(s, k)
      BY <2>6 DEF Live
    <2>10. /\ \A i \in Id : s.state[i] # NoState => i < id /\ i # id
           /\ \A k \in Key : s.info[k].id # 0 => s.info[k].id \in Id /\ s.info[k].id < id /\
                                                  s.info[k].id # id
      BY <1>1, StateFacts DEF StateInv, Numbered, OwnIds, Info
    <2> HIDE DEF id
    <2>11. id \in Id /\ id \in Nat /\ id # 0 /\ id < t.next_id
           /\ \A i \in Id : i < id => i < t.next_id
      BY <1>1, <2>6, StateFacts DEF id
    <2>12. Numbered(t)
      BY <2>4, <2>7, <2>10, <2>11 DEF StateInv, Numbered
    <2>13. Shape(t)
      BY <2>6, <2>12 DEF Shape, WholeLocks
    <2>14. OwnIds(t)
      <3>1. \A k \in Key : k # key /\ s.info[k].id # 0 => s.info[k].id < t.next_id
        BY <2>10, <2>11
      <3>2. ASSUME NEW k \in Key, t.info[k].id # 0
            PROVE  /\ t.info[k].id < t.next_id /\ t.info[k].known
                   /\ \/ t.state[t.info[k].id] = NoState /\ ~Live(t, k)
                      \/ /\ t.state[t.info[k].id] # NoState
                         /\ t.state[t.info[k].id].owner = k /\ ~t.state[t.info[k].id].closed
        <4>1. CASE k = key
          BY <2>3, <2>4, <2>7, <2>11, <4>1
        <4>2. CASE k # key
          <5>1. t.info[k] = s.info[k] /\ t.state[s.info[k].id] = s.state[s.info[k].id]
            BY <2>7, <2>10, <3>2, <4>2
          <5> QED BY <2>9, <3>1, <3>2, <4>2, <5>1 DEF StateInv, OwnIds
        <4> QED BY <4>1, <4>2
      <3> QED BY <3>2 DEF OwnIds
    <2>15. OpenStates(t)
      <3>1. ASSUME NEW i \in Id, t.state[i] # NoState, t.state[i].owner \in OpenKey
            PROVE  /\ t.info[t.state[i].owner].lastseqid # -1
                   /\ ~t.state[i].closed => t.info[t.state[i].owner].id = i
        <4>1. CASE i = id
          BY <2>3, <2>4, <2>7, <3>1, <4>1
        <4>2. CASE i # id
          <5>1. t.state[i] = s.state[i]
            BY <2>7, <4>2
          <5>2. /\ s.info[s.state[i].owner].lastseqid # -1
                /\ ~s.state[i].closed => s.info[s.state[i].owner].id = i
            BY <3>1, <5>1 DEF StateInv, OpenStates
          <5>3. CASE s.state[i].owner = key
            BY <1>3, <2>3, <2>7, <5>1, <5>2, <5>3, StateFacts
          <5>4. CASE s.state[i].owner # key
            BY <2>7, <3>1, <5>1, <5>2, <5>4, Keys
          <5> QED BY <5>3, <5>4
        <4> QED BY <4>1, <4>2
      <3> QED BY <3>1 DEF OpenStates
    <2>16. Held(t)
      <3>1. ASSUME NEW i \in Id, s.file.locks[i] # {} \/ s.file.shares[i] # F!NoShare
            PROVE  t.state[i] = s.state[i] /\ t.info[s.state[i].owner] = s.info[s.state[i].owner]
        <4>1. s.state[i].owner \in Key /\ s.info[s.state[i].owner].id = i
          BY <3>1, Keys DEF StateInv, Held
        <4>2. i # 0 /\ s.state[i].owner # key
          BY <1>3, <4>1, StateFacts
        <4>3. i # id
          BY <2>10, <4>1, <4>2
        <4> QED BY <2>7, <4>1, <4>2, <4>3
      <3> QED BY <2>6, <2>9, <3>1 DEF StateInv, Held
    <2>17. Openers(t)
      <3>1. ASSUME NEW k \in LockKey
            PROVE  /\ t.info[k].openid = s.info[k].openid
                   /\ t.info[k].confirmed = s.info[k].confirmed
        BY <2>3, <2>7, Keys
      <3>2. ASSUME NEW i \in Id, i < id
            PROVE  /\ t.state[i] = s.state[i] /\ i < t.next_id
        BY <2>7, <2>11, <3>2, StateFacts
      <3>3. \A k \in Key : t.info[k].confirmed = s.info[k].confirmed
        BY <2>3, <2>7
      <3>4. \A i \in Id : s.state[i] # NoState => s.state[i].owner \in Key
        BY DEF StateInv, Numbered
      <3>5. \A k \in LockKey : s.info[k].openid # 0 =>
               s.info[k].openid \in Id /\ s.info[k].openid < id
        BY DEF StateInv, Openers, id
      <3>6. ASSUME NEW k \in LockKey, s.info[k].openid # 0
            PROVE  /\ s.info[k].openid \in Id /\ s.info[k].openid < t.next_id
                   /\ t.state[s.info[k].openid] = s.state[s.info[k].openid]
        BY <3>2, <3>5, <3>6
      <3>7. ASSUME NEW k \in LockKey, t.info[k].openid # 0
            PROVE  /\ t.info[k].openid \in Id /\ t.info[k].openid < t.next_id
                   /\ t.state[t.info[k].openid] # NoState =>
                        /\ t.state[t.info[k].openid].owner \in OpenKey
                        /\ t.state[t.info[k].openid].owner[1] = ClientOf[k[1]]
        <4>1. s.info[k].openid # 0 /\ t.info[k].openid = s.info[k].openid
          BY <3>1, <3>7
        <4>2. s.state[s.info[k].openid] # NoState =>
                /\ s.state[s.info[k].openid].owner \in OpenKey
                /\ s.state[s.info[k].openid].owner[1] = ClientOf[k[1]]
          BY <4>1 DEF StateInv, Openers
        <4> QED BY <3>6, <4>1, <4>2
      <3>8. ASSUME NEW k \in LockKey, t.info[k].confirmed, Live(t, k)
            PROVE  /\ t.info[k].openid # 0 /\ t.state[t.info[k].openid] # NoState
                   /\ t.info[t.state[t.info[k].openid].owner].confirmed
        <4>1. /\ s.info[k].openid # 0 /\ s.state[s.info[k].openid] # NoState
              /\ s.info[s.state[s.info[k].openid].owner].confirmed
          BY <2>9, <3>1, <3>8 DEF StateInv, Openers
        <4> QED BY <3>1, <3>3, <3>4, <3>6, <4>1
      <3> QED BY <3>7, <3>8 DEF Openers
    <2>18. Unused(t)
      <3>1. ~(s.life[Holder(key)] < key[2])
        BY <1>1, ServerFields, Keys DEF Live
      <3> QED BY <2>6, <2>7, <3>1 DEF StateInv, Unused
    <2>19. Renewing(t)
      <3>1. \A i \in Id : s.file.locks[i] # {} => t.state[i] = s.state[i]
        <4>1. \A i \in Id : s.file.locks[i] # {} => s.state[i].owner \in LockKey /\
                                                    s.info[s.state[i].owner].id = i
          BY DEF StateInv, Held
        <4> QED BY <2>7, <2>10, <4>1, StateFacts, Keys
      <3> QED BY <2>6, <3>1 DEF StateInv, Renewing
    <2>20. Known(t)
      BY <2>3, <2>7 DEF StateInv, Known
    <2>21. Keeps(s, t)
      <3>1. ASSUME NEW i \in Id, i < s.next_id, t.state[i] # NoState
            PROVE  /\ s.state[i] # NoState /\ t.state[i].owner = s.state[i].owner
                   /\ LockHolder(s, i) => LockHolder(t, i)
        <4>1. i # id /\ t.state[i] = s.state[i]
          BY <1>1, <2>7, <3>1, StateFacts DEF id
        <4>2. ASSUME LockHolder(s, i)
              PROVE  LockHolder(t, i)
          <5>1. s.state[i].owner # key /\ s.state[i].owner \in Key
            BY <1>3, <4>2, StateFacts, Keys DEF LockHolder
          <5> QED BY <2>7, <2>9, <4>1, <4>2, <5>1 DEF LockHolder
        <4> QED BY <3>1, <4>1, <4>2
      <3>2. s.next_id <= t.next_id /\ t.life = s.life
        BY <1>1, <2>6 DEF id
      <3>3. \A c \in Client : s.life[c] \in Int
        BY <1>1, ServerFields, Keys DEF Shape
      <3>4. \A c \in Client : s.life[c] <= t.life[c]
        BY <3>2, <3>3
      <3> QED BY <3>1, <3>2, <3>4 DEF Keeps
    <2>23. Siblings(t)
      BY <2>3, <2>7 DEF StateInv, Siblings
    <2>22. StateInv(t)
      BY <2>12, <2>14, <2>15, <2>16, <2>17, <2>18, <2>19, <2>20, <2>23 DEF StateInv
    <2> QED BY <2>1, <2>3, <2>4, <2>6, <2>7, <2>8, <2>11, <2>13, <2>21, <2>22
  <1> QED BY <1>2, <1>3

\* What open does with the pending open of an owner.
Dropped(s, key) == [s EXCEPT !.file = F!DownShares(@, s.info[key].id, {}, {}),
                             !.state[s.info[key].id] = NoState, !.info[key].id = 0]

\* open throws away the pending open of an owner that never confirmed it.
LEMMA PendingKeeps ==
  ASSUME NEW s, Shape(s), StateInv(s), NEW key \in OpenKey, Live(s, key),
         ~s.info[key].confirmed, s.info[key].id # 0,
         NEW t, t = Dropped(s, key)
  PROVE  /\ Shape(t) /\ StateInv(t) /\ Keeps(s, t)
         /\ t.file.locks = s.file.locks /\ t.life = s.life /\ t.up = s.up /\ t.lease = s.lease
         /\ t.next_id = s.next_id
         /\ \A k \in Key : /\ t.info[k].cached = s.info[k].cached
                           /\ t.info[k].lastseqid = s.info[k].lastseqid
                           /\ t.info[k].confirmed = s.info[k].confirmed
                           /\ t.info[k].lockowners = s.info[k].lockowners
                           /\ k # key => t.info[k] = s.info[k]
         /\ \A i \in Id : t.state[i] # NoState => t.state[i] = s.state[i]
         /\ \A i \in Id : s.state[i].owner # key =>
              t.state[i] = s.state[i] /\ t.file.shares[i] = s.file.shares[i]
  <1> DEFINE old == s.info[key].id
             own == [s.info[key] EXCEPT !.id = 0]
             file == F!DownShares(s.file, old, {}, {})
  <1>1. /\ s \in Server /\ s.state \in [Id -> State] /\ s.info \in [Key -> Info]
        /\ s.file \in F!File /\ old \in Id /\ key \in Key /\ s.info[key] \in Info
        /\ s.state[old] # NoState /\ s.state[old].owner = key
    <2>1. s \in Server /\ key \in Key
      BY Keys DEF Shape
    <2>2. s.info \in [Key -> Info] /\ s.state \in [Id -> State] /\ s.file \in F!File
      BY <2>1, ServerFields
    <2>3. s.info[key] \in Info
      BY <2>1, <2>2
    <2>4. old \in Id
      BY <2>3 DEF Info
    <2>5. s.state[old] # NoState /\ s.state[old].owner = key
      BY <2>1 DEF StateInv, OwnIds
    <2> QED BY <2>1, <2>2, <2>3, <2>4, <2>5
  <1>2. /\ own \in Info /\ own.id = 0 /\ own.known = s.info[key].known
        /\ own.cached = s.info[key].cached /\ own.lastseqid = s.info[key].lastseqid
        /\ own.confirmed = s.info[key].confirmed /\ own.openid = s.info[key].openid
        /\ own.lockowners = s.info[key].lockowners
    BY <1>1 DEF Info
  <1>3. /\ file \in F!File /\ file.locks = s.file.locks /\ file.shares[old] = F!NoShare
        /\ \A i \in Id \ {old} : file.shares[i] = s.file.shares[i]
    BY <1>1, DownSharesFile
  <1>4. t = [s EXCEPT !.file = file, !.state = [s.state EXCEPT ![old] = NoState],
                      !.info = [s.info EXCEPT ![key] = own]]
    <2>1. t = [s EXCEPT !.file = file, !.state[old] = NoState, !.info[key].id = 0]
      BY DEF Dropped
    <2>2. [s.info EXCEPT ![key].id = 0] = [s.info EXCEPT ![key] = own]
      BY <1>1
    <2> HIDE DEF own, file, old
    <2>3. t = [s EXCEPT !.file = file, !.state = [s.state EXCEPT ![old] = NoState],
                        !.info = [s.info EXCEPT ![key].id = 0]]
      BY <1>1, <2>1 DEF Server
    <2> QED BY <2>2, <2>3
  <1>5. s.info[key].id = old
    OBVIOUS
  <1> HIDE DEF own, file, old
  <1>6. /\ t.file = file /\ t.life = s.life /\ t.up = s.up /\ t.lease = s.lease
        /\ t.info = [s.info EXCEPT ![key] = own] /\ t.state = [s.state EXCEPT ![old] = NoState]
        /\ t.next_id = s.next_id /\ t \in Server
    <2>1. [s.info EXCEPT ![key] = own] \in [Key -> Info]
          /\ [s.state EXCEPT ![old] = NoState] \in [Id -> State]
      BY <1>1, <1>2, StateFacts
    <2> QED BY <1>1, <1>3, <1>4, <2>1 DEF Server
  <1>7. /\ t.info[key] = own /\ \A k \in Key : k # key => t.info[k] = s.info[k]
        /\ t.state[old] = NoState /\ \A i \in Id : i # old => t.state[i] = s.state[i]
    BY <1>1, <1>6
  <1>8. \A k : Live(t, k) <=> Live(s, k)
    BY <1>6 DEF Live
  <1>9. /\ \A i \in Id : t.state[i] # NoState => i # old /\ t.state[i] = s.state[i] /\
                                                 s.state[i] # NoState
        /\ \A k \in Key : s.info[k].id = old => k = key
        /\ \A k \in Key : /\ t.info[k].confirmed = s.info[k].confirmed
                          /\ t.info[k].lastseqid = s.info[k].lastseqid
                          /\ t.info[k].openid = s.info[k].openid
                          /\ t.info[k].cached = s.info[k].cached
                          /\ t.info[k].known = s.info[k].known
                          /\ t.info[k].lockowners = s.info[k].lockowners
    <2>1. \A k \in Key : s.info[k].id = old => k = key
      BY <1>1, StateFacts DEF StateInv, OwnIds
    <2> QED BY <1>2, <1>7, <2>1
  <1>10. Numbered(t)
    BY <1>6, <1>9 DEF StateInv, Numbered
  <1>11. Shape(t)
    BY <1>3, <1>6, <1>10 DEF Shape, WholeLocks
  <1>12. OwnIds(t)
    <2>1. ASSUME NEW k \in Key, t.info[k].id # 0
          PROVE  k # key /\ t.info[k] = s.info[k] /\ t.state[s.info[k].id] = s.state[s.info[k].id]
      <3>1. k # key
        BY <1>2, <1>7, <2>1
      <3>2. s.info[k].id \in Id /\ s.info[k].id # old
        BY <1>1, <1>7, <1>9, <2>1, <3>1 DEF Info
      <3> QED BY <1>7, <3>1, <3>2
    <2> QED BY <1>6, <1>8, <2>1 DEF StateInv, OwnIds
  <1>13. OpenStates(t)
    <2>1. ASSUME NEW i \in Id, t.state[i] # NoState, t.state[i].owner \in OpenKey
          PROVE  /\ t.info[t.state[i].owner].lastseqid # -1
                 /\ ~t.state[i].closed => t.info[t.state[i].owner].id = i
      <3>1. /\ i # old /\ t.state[i] = s.state[i] /\ s.state[i].owner \in Key
            /\ s.info[s.state[i].owner].lastseqid # -1
            /\ ~s.state[i].closed => s.info[s.state[i].owner].id = i
        BY <1>9, <2>1, Keys DEF StateInv, OpenStates
      <3> QED BY <1>5, <1>7, <1>9, <3>1
    <2> QED BY <2>1 DEF OpenStates
  <1>14. Held(t)
    <2>1. ASSUME NEW i \in Id, file.locks[i] # {} \/ file.shares[i] # F!NoShare
          PROVE  i # old /\ t.state[i] = s.state[i] /\ s.state[i].owner # key /\
                 t.info[s.state[i].owner] = s.info[s.state[i].owner]
      <3>1. s.file.locks[i] # {} \/ s.file.shares[i] # F!NoShare
        BY <1>3, <2>1
      <3>2. s.state[i].owner \in Key /\ s.info[s.state[i].owner].id = i
        BY <3>1, Keys DEF StateInv, Held
      <3>3. i # old
        <4>1. file.locks[old] = {}
          BY <1>1, <1>3, Keys DEF StateInv, Held
        <4> QED BY <1>3, <2>1, <4>1
      <3> QED BY <1>5, <1>7, <3>2, <3>3
    <2>2. \A i \in Id : (file.locks[i] # {} => s.file.locks[i] # {}) /\
                        (file.shares[i] # F!NoShare => s.file.shares[i] # F!NoShare)
      BY <1>3
    <2> QED BY <1>6, <1>8, <2>1, <2>2 DEF StateInv, Held
  <1>15. Openers(t)
    <2>1. ASSUME NEW k \in LockKey, s.info[k].confirmed, Live(s, k)
          PROVE  /\ s.info[k].openid # 0 /\ s.info[k].openid \in Id /\ s.info[k].openid # old
                 /\ t.state[s.info[k].openid] = s.state[s.info[k].openid]
                 /\ s.state[s.info[k].openid].owner \in Key
                 /\ s.state[s.info[k].openid] # NoState
                 /\ s.info[s.state[s.info[k].openid].owner].confirmed
      <3>1. /\ s.info[k].openid # 0 /\ s.info[k].openid \in Id
            /\ s.state[s.info[k].openid].owner \in Key
            /\ s.state[s.info[k].openid] # NoState
            /\ s.info[s.state[s.info[k].openid].owner].confirmed
        BY <2>1, Keys DEF StateInv, Openers
      <3>2. s.info[k].openid # old
        BY <1>1, <3>1
      <3> QED BY <1>7, <3>1, <3>2
    <2>2. ASSUME NEW k \in LockKey
          PROVE  k \in Key
      BY Keys
    <2>3. ASSUME NEW k \in LockKey, t.info[k].openid # 0
          PROVE  /\ t.info[k].openid \in Id /\ t.info[k].openid < t.next_id
                 /\ t.state[t.info[k].openid] # NoState =>
                      /\ t.state[t.info[k].openid].owner \in OpenKey
                      /\ t.state[t.info[k].openid].owner[1] = ClientOf[k[1]]
      <3>1. t.info[k].openid = s.info[k].openid
        BY <1>9, <2>2
      <3>2. /\ s.info[k].openid \in Id /\ s.info[k].openid < s.next_id
            /\ s.state[s.info[k].openid] # NoState =>
                 /\ s.state[s.info[k].openid].owner \in OpenKey
                 /\ s.state[s.info[k].openid].owner[1] = ClientOf[k[1]]
        BY <2>3, <3>1 DEF StateInv, Openers
      <3> QED BY <1>6, <1>9, <3>1, <3>2
    <2>4. ASSUME NEW k \in LockKey, t.info[k].confirmed, Live(t, k)
          PROVE  /\ t.info[k].openid # 0 /\ t.state[t.info[k].openid] # NoState
                 /\ t.info[t.state[t.info[k].openid].owner].confirmed
      <3>1. t.info[k].openid = s.info[k].openid /\ s.info[k].confirmed /\ Live(s, k)
        BY <1>8, <1>9, <2>2, <2>4
      <3>2. /\ s.info[k].openid # 0 /\ s.state[s.info[k].openid] # NoState
            /\ t.state[s.info[k].openid] = s.state[s.info[k].openid]
            /\ s.state[s.info[k].openid].owner \in Key
            /\ s.info[s.state[s.info[k].openid].owner].confirmed
        BY <2>1, <3>1
      <3>3. t.info[s.state[s.info[k].openid].owner].confirmed
        BY <1>9, <3>2
      <3> QED BY <3>1, <3>2, <3>3
    <2> QED BY <2>3, <2>4 DEF Openers
  <1>16. Unused(t)
    <2>1. ~(s.life[Holder(key)] < key[2])
      BY <1>1, ServerFields, Keys DEF Live
    <2> QED BY <1>6, <1>7, <2>1 DEF StateInv, Unused
  <1>17. Renewing(t)
    <2>1. \A i \in Id : s.file.locks[i] # {} => t.state[i] = s.state[i]
      BY <1>1, <1>7, Keys DEF StateInv, Held
    <2> QED BY <1>3, <1>6, <2>1 DEF StateInv, Renewing
  <1>18. Known(t)
    BY <1>9 DEF StateInv, Known
  <1>19. Keeps(s, t)
    <2>1. ASSUME NEW i \in Id, t.state[i] # NoState, LockHolder(s, i)
          PROVE  LockHolder(t, i)
      <3>1. t.state[i] = s.state[i] /\ s.state[i].owner # key /\ s.state[i].owner \in Key
        BY <1>9, <2>1, Keys DEF LockHolder
      <3> QED BY <1>7, <1>8, <2>1, <3>1 DEF LockHolder
    <2> QED BY <1>1, <1>6, <1>9, <2>1, ServerFields DEF Keeps
  <1>22. Siblings(t)
    BY <1>9 DEF StateInv, Siblings
  <1>20. StateInv(t)
    BY <1>10, <1>12, <1>13, <1>14, <1>15, <1>16, <1>17, <1>18, <1>22 DEF StateInv
  <1>21. \A i \in Id : s.state[i].owner # key =>
           t.state[i] = s.state[i] /\ t.file.shares[i] = s.file.shares[i]
    BY <1>1, <1>3, <1>6, <1>7
  <1> QED BY <1>3, <1>6, <1>7, <1>9, <1>11, <1>19, <1>20, <1>21

\* What open adds to the file.
Shared(s, id, shares) == [s EXCEPT !.file = F!AddShares(@, id, shares[1], shares[2])]

\* open adds the shares to an entry that the owner has.
LEMMA ShareKeeps ==
  ASSUME NEW s, Shape(s), StateInv(s), NEW key \in OpenKey, Live(s, key), NEW id \in Id,
         s.info[key].id = id, NEW shares \in Shares,
         NEW t, t = Shared(s, id, shares)
  PROVE  /\ Shape(t) /\ StateInv(t) /\ Keeps(s, t)
         /\ t.file.locks = s.file.locks /\ t.life = s.life /\ t.up = s.up /\ t.lease = s.lease
         /\ t.next_id = s.next_id /\ t.info = s.info /\ t.state = s.state
         /\ \A i \in Id \ {id} : t.file.shares[i] = s.file.shares[i]
         /\ shares[1] # {} => t.file.shares[id] # F!NoShare
  <1> DEFINE file == F!AddShares(s.file, id, shares[1], shares[2])
  <1>1. s \in Server /\ s.file \in F!File
    BY ServerFields DEF Shape
  <1>2. /\ file \in F!File /\ file.locks = s.file.locks
        /\ \A i \in Id \ {id} : file.shares[i] = s.file.shares[i]
        /\ shares[1] # {} => file.shares[id] # F!NoShare
    BY <1>1, AddSharesFile
  <1>3. t = [s EXCEPT !.file = file]
    BY DEF Shared
  <1> HIDE DEF file
  <1>4. /\ t.file = file /\ t.life = s.life /\ t.up = s.up /\ t.lease = s.lease
        /\ t.info = s.info /\ t.state = s.state /\ t.next_id = s.next_id /\ t \in Server
    BY <1>1, <1>2, <1>3 DEF Server
  <1>5. \A k : Live(t, k) <=> Live(s, k)
    BY <1>4 DEF Live
  <1>6. s.state[id].owner = key
    BY Keys, StateFacts DEF StateInv, OwnIds
  <1>7. Held(t)
    <2>1. \A i \in Id : file.shares[i] # F!NoShare => i = id \/ s.file.shares[i] # F!NoShare
      BY <1>2
    <2> QED BY <1>2, <1>4, <1>5, <1>6, <2>1 DEF StateInv, Held
  <1>8. Shape(t)
    BY <1>2, <1>4 DEF Shape, WholeLocks, Numbered
  <1>9. StateInv(t)
    <2>1. Numbered(t) /\ OpenStates(t) /\ Known(t)
      BY <1>4 DEF StateInv, Numbered, OpenStates, Known
    <2>2. OwnIds(t)
      BY <1>4, <1>5 DEF StateInv, OwnIds
    <2>3. Renewing(t)
      BY <1>2, <1>4 DEF StateInv, Renewing
    <2>4. Openers(t) /\ Unused(t) /\ Siblings(t)
      BY <1>4, OwnersAlike
    <2> QED BY <1>7, <2>1, <2>2, <2>3, <2>4 DEF StateInv
  <1>10. Keeps(s, t)
    BY <1>1, <1>4, <1>5, ServerFields DEF Keeps, LockHolder
  <1> QED BY <1>2, <1>4, <1>8, <1>9, <1>10

\* What unlock takes from the file.
Released(s, id) == [s EXCEPT !.file = F!RemoveLock(@, id, 0, MaxByte)]

\* unlock takes the whole file from a lock owner.
LEMMA UnlockKeeps ==
  ASSUME NEW s, Shape(s), StateInv(s), NEW id \in Id,
         NEW t, t = Released(s, id)
  PROVE  /\ Shape(t) /\ StateInv(t) /\ Keeps(s, t)
         /\ t.file.locks = [s.file.locks EXCEPT ![id] = {}]
         /\ t.life = s.life /\ t.up = s.up /\ t.lease = s.lease
         /\ t.next_id = s.next_id /\ t.info = s.info /\ t.state = s.state
         /\ t.file.shares = s.file.shares
  <1> DEFINE file == F!RemoveLock(s.file, id, 0, MaxByte)
  <1>1. s \in Server /\ s.file \in F!File /\ s.file.locks \in [Id -> SUBSET F!LockInfo]
    BY ServerFields, FileFields DEF Shape
  <1>2. /\ file \in F!File /\ file.locks = [s.file.locks EXCEPT ![id] = {}]
        /\ file.shares = s.file.shares
    BY <1>1, RemoveLockFile DEF Shape, WholeLocks
  <1>3. t = [s EXCEPT !.file = file]
    BY DEF Released
  <1> HIDE DEF file
  <1>4. /\ t.file = file /\ t.life = s.life /\ t.up = s.up /\ t.lease = s.lease
        /\ t.info = s.info /\ t.state = s.state /\ t.next_id = s.next_id /\ t \in Server
    BY <1>1, <1>2, <1>3 DEF Server
  <1>5. \A k : Live(t, k) <=> Live(s, k)
    BY <1>4 DEF Live
  <1>6. \A i \in Id : file.locks[i] \subseteq s.file.locks[i]
    BY <1>1, <1>2
  <1>7. Held(t) /\ Renewing(t)
    <2>1. \A i \in Id : file.locks[i] # {} => s.file.locks[i] # {}
      BY <1>6
    <2>2. Held(t)
      <3>1. ASSUME NEW i \in Id, t.file.locks[i] # {}
            PROVE  /\ t.state[i].owner \in LockKey /\ Live(t, t.state[i].owner)
                   /\ t.info[t.state[i].owner].id = i /\ t.info[t.state[i].owner].confirmed
        BY <1>4, <1>5, <2>1, <3>1 DEF StateInv, Held
      <3>2. ASSUME NEW i \in Id, t.file.shares[i] # F!NoShare
            PROVE  /\ t.state[i].owner \in OpenKey /\ Live(t, t.state[i].owner)
                   /\ t.info[t.state[i].owner].id = i
        BY <1>2, <1>4, <1>5, <3>2 DEF StateInv, Held
      <3> QED BY <3>1, <3>2 DEF Held
    <2>3. Renewing(t)
      BY <1>4, <2>1 DEF StateInv, Renewing
    <2> QED BY <2>2, <2>3
  <1>8. Shape(t)
    BY <1>4, <1>6 DEF Shape, WholeLocks, Numbered
  <1>9. StateInv(t)
    <2>1. Numbered(t) /\ OpenStates(t) /\ Known(t)
      BY <1>4 DEF StateInv, Numbered, OpenStates, Known
    <2>2. OwnIds(t)
      BY <1>4, <1>5 DEF StateInv, OwnIds
    <2>3. Openers(t) /\ Unused(t) /\ Siblings(t)
      BY <1>4, OwnersAlike
    <2> QED BY <1>7, <2>1, <2>2, <2>3 DEF StateInv
  <1>10. Keeps(s, t)
    BY <1>1, <1>4, <1>5, ServerFields DEF Keeps, LockHolder
  <1> QED BY <1>2, <1>4, <1>8, <1>9, <1>10

\* What lock does for a lock owner, before it renews the lease.
Given(s, key, id, type) == [s EXCEPT !.file = F!AddLock(@, id, type, 0, MaxByte),
                                     !.info[key].confirmed = TRUE]

\* What is so once lock has done that.
LockGiven(s, t, key, id, type) ==
  /\ Shape(t) /\ StateInv(t) /\ Keeps(s, t)
  /\ t.file.locks = [s.file.locks EXCEPT
                       ![id] = {[type |-> type, start |-> 0, end |-> MaxByte]}]
  /\ t.life = s.life /\ t.up = s.up /\ t.lease = s.lease
  /\ t.next_id = s.next_id /\ t.state = s.state /\ t.info[key].confirmed
  /\ \A k \in Key : /\ t.info[k].cached = s.info[k].cached
                    /\ t.info[k].lastseqid = s.info[k].lastseqid
                    /\ t.info[k].id = s.info[k].id /\ t.info[k].known = s.info[k].known
                    /\ k # key => t.info[k] = s.info[k]
  /\ t.file.shares = s.file.shares

\* lock gives the whole file to a lock owner, which it confirms: the lock owner's open
\* is one of a confirmed owner, and the lease of its client is about to be renewed.
LEMMA LockKeeps ==
  ASSUME NEW s, Shape(s), StateInv(s), NEW key \in LockKey, Live(s, key), NEW id \in Id,
         s.info[key].id = id, NEW type \in LockType,
         s.lease[Holder(key)] = "live",
         s.info[key].openid # 0, s.state[s.info[key].openid] # NoState,
         s.info[s.state[s.info[key].openid].owner].confirmed,
         NEW t, t = Given(s, key, id, type)
  PROVE  LockGiven(s, t, key, id, type)
  <1> USE DEF LockGiven
  <1> DEFINE file == F!AddLock(s.file, id, type, 0, MaxByte)
             own == [s.info[key] EXCEPT !.confirmed = TRUE]
  <1>1. /\ s \in Server /\ s.file \in F!File /\ s.file.locks \in [Id -> SUBSET F!LockInfo]
        /\ s.info \in [Key -> Info] /\ key \in Key /\ s.info[key] \in Info
    <2>1. s \in Server /\ key \in Key
      BY Keys DEF Shape
    <2> QED BY <2>1, ServerFields, FileFields
  <1>2. /\ own \in Info /\ own.id = s.info[key].id /\ own.known = s.info[key].known
        /\ own.cached = s.info[key].cached /\ own.lastseqid = s.info[key].lastseqid
        /\ own.confirmed /\ own.openid = s.info[key].openid
        /\ own.lockowners = s.info[key].lockowners
    BY <1>1 DEF Info
  <1>3. /\ file \in F!File /\ file.shares = s.file.shares
        /\ file.locks = [s.file.locks EXCEPT
                           ![id] = {[type |-> type, start |-> 0, end |-> MaxByte]}]
        /\ [type |-> type, start |-> 0, end |-> MaxByte] \in Whole
    BY <1>1, AddLockFile DEF Shape, WholeLocks
  <1>4. t = [s EXCEPT !.file = file, !.info = [s.info EXCEPT ![key] = own]]
    BY <1>1 DEF Server, Given
  <1> HIDE DEF file, own
  <1>5. /\ t.file = file /\ t.life = s.life /\ t.up = s.up /\ t.lease = s.lease
        /\ t.info = [s.info EXCEPT ![key] = own] /\ t.state = s.state /\ t.next_id = s.next_id
        /\ t \in Server
    <2> DEFINE info == [s.info EXCEPT ![key] = own]
    <2>1. info \in [Key -> Info]
      BY <1>1, <1>2
    <2>2. t = [s EXCEPT !.file = file, !.info = info] /\ file \in F!File /\ s \in Server
      BY <1>1, <1>3, <1>4
    <2> HIDE DEF info
    <2>3. /\ t.file = file /\ t.life = s.life /\ t.up = s.up /\ t.lease = s.lease
          /\ t.info = info /\ t.state = s.state /\ t.next_id = s.next_id
      BY <2>2 DEF Server
    <2>4. t \in Server
      BY <2>1, <2>2 DEF Server
    <2> QED BY <2>3, <2>4 DEF info
  <1>6. /\ t.info[key] = own /\ \A k \in Key : k # key => t.info[k] = s.info[k]
    BY <1>1, <1>5
  <1>7. \A k \in Key : /\ t.info[k].id = s.info[k].id
                       /\ t.info[k].lastseqid = s.info[k].lastseqid
                       /\ t.info[k].openid = s.info[k].openid
                       /\ t.info[k].cached = s.info[k].cached
                       /\ t.info[k].known = s.info[k].known
                       /\ t.info[k].lockowners = s.info[k].lockowners
                       /\ s.info[k].confirmed => t.info[k].confirmed
    BY <1>2, <1>6
  <1>8. \A k : Live(t, k) <=> Live(s, k)
    BY <1>5 DEF Live
  <1>9. s.state[id] # NoState /\ s.state[id].owner = key
    BY <1>1, StateFacts DEF StateInv, OwnIds
  <1>10. /\ \A i \in Id : i # id => file.locks[i] = s.file.locks[i]
         /\ \A i \in Id : s.state[i] # NoState => s.state[i].owner \in Key
    BY <1>1, <1>3 DEF StateInv, Numbered
  <1>11. Numbered(t)
    BY <1>5 DEF StateInv, Numbered
  <1>12. Shape(t)
    <2>1. file.locks[id] \subseteq Whole
      BY <1>1, <1>3
    <2> QED BY <1>5, <1>10, <1>11, <2>1 DEF Shape, WholeLocks
  <1>13. OwnIds(t)
    BY <1>5, <1>7, <1>8, SMTT(30) DEF StateInv, OwnIds
  <1>14. OpenStates(t)
    BY <1>5, <1>7, <1>10, SMTT(30) DEF StateInv, OpenStates
  <1>15. Held(t)
    <2>1. ASSUME NEW i \in Id, file.locks[i] # {}
          PROVE  s.state[i].owner \in LockKey /\ Live(s, s.state[i].owner) /\
                 s.info[s.state[i].owner].id = i /\ t.info[s.state[i].owner].confirmed
      <3>1. CASE i = id
        BY <1>2, <1>6, <1>9, <3>1
      <3>2. CASE i # id
        <4>1. s.state[i].owner \in LockKey /\ Live(s, s.state[i].owner) /\
              s.info[s.state[i].owner].id = i /\ s.info[s.state[i].owner].confirmed
          BY <1>10, <2>1, <3>2 DEF StateInv, Held
        <4> QED BY <1>7, <4>1, Keys
      <3> QED BY <3>1, <3>2
    <2>2. ASSUME NEW i \in Id, file.shares[i] # F!NoShare
          PROVE  s.state[i].owner \in OpenKey /\ Live(s, s.state[i].owner) /\
                 s.info[s.state[i].owner].id = i
      BY <1>3, <2>2 DEF StateInv, Held
    <2> QED BY <1>5, <1>7, <1>8, <2>1, <2>2, Keys, SMTT(30) DEF Held
  <1>16. Openers(t)
    <2>1. ASSUME NEW k \in LockKey, t.info[k].openid # 0
          PROVE  /\ t.info[k].openid \in Id /\ t.info[k].openid < t.next_id
                 /\ t.state[t.info[k].openid] # NoState =>
                      /\ t.state[t.info[k].openid].owner \in OpenKey
                      /\ t.state[t.info[k].openid].owner[1] = ClientOf[k[1]]
      <3>1. t.info[k].openid = s.info[k].openid
        BY <1>7, Keys
      <3>2. s.info[k].openid # 0 =>
              /\ s.info[k].openid \in Id /\ s.info[k].openid < s.next_id
              /\ s.state[s.info[k].openid] # NoState =>
                   /\ s.state[s.info[k].openid].owner \in OpenKey
                   /\ s.state[s.info[k].openid].owner[1] = ClientOf[k[1]]
        <4>1. Openers(s)
          BY DEF StateInv
        <4> QED BY <4>1 DEF Openers
      <3> QED BY <1>5, <2>1, <3>1, <3>2
    <2>2. ASSUME NEW k \in LockKey, t.info[k].confirmed, Live(t, k)
          PROVE  /\ t.info[k].openid # 0 /\ t.state[t.info[k].openid] # NoState
                 /\ t.info[t.state[t.info[k].openid].owner].confirmed
      <3>1. t.info[k].openid = s.info[k].openid /\ Live(s, k) /\ k \in Key
        BY <1>7, <1>8, <2>2, Keys
      <3>2. /\ s.info[k].openid # 0 /\ s.state[s.info[k].openid] # NoState
            /\ s.info[s.state[s.info[k].openid].owner].confirmed
        <4>1. CASE k = key
          BY <4>1
        <4>2. CASE k # key
          BY <1>6, <2>2, <3>1, <4>2 DEF StateInv, Openers
        <4> QED BY <4>1, <4>2
      <3>3. s.state[s.info[k].openid].owner \in Key
        BY <3>2, Keys DEF StateInv, Openers
      <3>4. t.info[s.state[s.info[k].openid].owner].confirmed
        BY <1>7, <3>2, <3>3
      <3> QED BY <1>5, <3>1, <3>2, <3>4
    <2> QED BY <2>1, <2>2 DEF Openers
  <1>17. Unused(t)
    <2>1. ~(s.life[Holder(key)] < key[2])
      BY <1>1, ServerFields, Keys DEF Live
    <2> QED BY <1>5, <1>6, <2>1 DEF StateInv, Unused
  <1>18. Renewing(t)
    BY <1>5, <1>9, <1>10 DEF StateInv, Renewing
  <1>19. Known(t)
    BY <1>7 DEF StateInv, Known
  <1>20. Keeps(s, t)
    <2>1. ASSUME NEW i \in Id, LockHolder(s, i)
          PROVE  LockHolder(t, i)
      BY <1>5, <1>7, <1>8, <2>1, Keys, SMTT(30) DEF LockHolder
    <2> QED BY <1>1, <1>5, <2>1, ServerFields DEF Keeps
  <1>22. Siblings(t)
    BY <1>7 DEF StateInv, Siblings
  <1>21. StateInv(t)
    BY <1>11, <1>13, <1>14, <1>15, <1>16, <1>17, <1>18, <1>19, <1>22 DEF StateInv
  <1> QED BY <1>2, <1>3, <1>5, <1>6, <1>7, <1>12, <1>20, <1>21

\* remove_state: the owners of the client's new life have nothing yet, and those of the
\* one that ends nothing any more.
LEMMA RemoveStateKeeps ==
  ASSUME NEW s, Shape(s), StateInv(s), NEW c \in Client, s.life[c] < MaxLives,
         NEW t, t = remove_state(s, c)
  PROVE  /\ Shape(t) /\ StateInv(t) /\ Keeps(s, t)
         /\ t.info = s.info /\ t.up = s.up /\ t.lease = s.lease /\ t.next_id = s.next_id
         /\ t.life = [s.life EXCEPT ![c] = @ + 1]
         /\ \A i \in Id : t.file.locks[i] \subseteq s.file.locks[i]
         /\ \A i \in Id : t.state[i] # NoState => t.state[i] = s.state[i]
         /\ \A i \in Id : s.state[i] # NoState /\ Live(s, s.state[i].owner) /\
              s.info[s.state[i].owner].id = i =>
                (t.state[i] = NoState <=> Holder(s.state[i].owner) = c)
         /\ \A i \in Id : s.state[i] # NoState /\ Holder(s.state[i].owner) # c =>
                t.state[i] = s.state[i]
         /\ \A k \in Key : StatesStay(s, t, k)
  <1> DEFINE opens == {s.info[Current(s, c)].id} \ {0}
             locks == {s.info[Current(s, l)].id : l \in {l \in LockOwner : ClientOf[l] = c}}
                        \ {0}
             gone == opens \cup locks
             state == [id \in Id |-> IF id \in gone THEN NoState ELSE s.state[id]]
             unlocked == [s.file EXCEPT !.locks =
                            [id \in Id |-> IF id \in locks THEN {} ELSE @[id]]]
             file == IF opens = {} THEN unlocked
                     ELSE F!DownShares(unlocked, CHOOSE id \in opens : TRUE, {}, {})
             life == [s.life EXCEPT ![c] = @ + 1]
  <1>1. /\ s \in Server /\ s.file \in F!File /\ s.state \in [Id -> State]
        /\ s.info \in [Key -> Info] /\ s.life \in [Client -> 0..MaxLives]
    BY ServerFields DEF Shape
  <1>2. \A id : id \in opens <=> id # 0 /\ \E k \in OpenKey :
                   Live(s, k) /\ Holder(k) = c /\ s.info[k].id = id
    <2>1. Current(s, c) \in OpenKey /\ Live(s, Current(s, c)) /\ Holder(Current(s, c)) = c
      BY <1>1, CurrentKey, Keys
    <2>2. \A k \in OpenKey : Live(s, k) /\ Holder(k) = c => k = Current(s, c)
      BY <1>1, CurrentKey, Keys
    <2> QED BY <2>1, <2>2
  <1>3. \A id : id \in locks <=> id # 0 /\ \E k \in LockKey :
                   Live(s, k) /\ Holder(k) = c /\ s.info[k].id = id
    <2>1. \A l \in LockOwner : ClientOf[l] = c =>
            Current(s, l) \in LockKey /\ Live(s, Current(s, l)) /\ Holder(Current(s, l)) = c
      BY <1>1, CurrentKey, Keys
    <2>2. \A k \in LockKey : Live(s, k) /\ Holder(k) = c =>
            k[1] \in LockOwner /\ ClientOf[k[1]] = c /\ k = Current(s, k[1])
      BY <1>1, CurrentKey, Keys
    <2> QED BY <2>1, <2>2
  <1>4. \A id : id \in gone <=> id # 0 /\ \E k \in Key :
                   Live(s, k) /\ Holder(k) = c /\ s.info[k].id = id
    BY <1>2, <1>3, Keys
  <1>5. opens \subseteq Id /\ (opens # {} => opens = {CHOOSE id \in opens : TRUE})
    <2>1. opens \subseteq Id
      <3>1. \A k \in OpenKey : s.info[k].id \in {0} \cup Id
        BY <1>1, Keys DEF Info
      <3> HIDE DEF opens
      <3> QED BY <1>2, <3>1
    <2> QED BY <2>1
  <1>6. /\ file \in F!File
        /\ \A i \in Id : file.locks[i] = IF i \in locks THEN {} ELSE s.file.locks[i]
        /\ \A i \in Id : file.shares[i] # F!NoShare =>
             i \notin opens /\ s.file.shares[i] # F!NoShare
        /\ \A i \in Id \ opens : file.shares[i] = s.file.shares[i]
    <2>1. /\ unlocked \in F!File /\ unlocked.shares = s.file.shares
          /\ \A i \in Id : unlocked.locks[i] = IF i \in locks THEN {} ELSE s.file.locks[i]
      <3>1. unlocked = [s.file EXCEPT !.locks =
                          [id \in Id |-> IF id \in locks THEN {} ELSE @[id]]]
        OBVIOUS
      <3> HIDE DEF locks, unlocked
      <3> QED BY <1>1, <3>1, UnlockedFile, SMTT(30)
    <2>2. CASE opens = {}
      BY <2>1, <2>2
    <2>3. CASE opens # {}
      <3> DEFINE id == CHOOSE id \in opens : TRUE
      <3>1. id \in Id /\ opens = {id}
        BY <1>5, <2>3
      <3> HIDE DEF opens, unlocked, locks, id
      <3>2. file = F!DownShares(unlocked, id, {}, {})
        BY <2>3 DEF id
      <3> HIDE DEF file
      <3>3. /\ file \in F!File /\ file.locks = unlocked.locks /\ file.shares[id] = F!NoShare
            /\ \A i \in Id \ {id} : file.shares[i] = unlocked.shares[i]
        BY <2>1, <3>1, <3>2, DownSharesFile
      <3> QED BY <2>1, <3>1, <3>3
    <2> QED BY <2>2, <2>3
  <1>7. t = [s EXCEPT !.life = life, !.state = state, !.file = file]
    <2>1. t = [s EXCEPT !.life[c] = @ + 1, !.state = state, !.file = file]
      BY DEF remove_state
    <2> HIDE DEF state, file, gone, locks, opens, unlocked
    <2>2. t = [s EXCEPT !.life = [s.life EXCEPT ![c] = @ + 1], !.state = state, !.file = file]
      BY <1>1, <2>1 DEF Server
    <2> QED BY <2>2
  <1>8. /\ state \in [Id -> State] /\ life \in [Client -> 0..MaxLives]
        /\ \A id \in Id : state[id] = IF id \in gone THEN NoState ELSE s.state[id]
    <2>1. s.life[c] \in 0..MaxLives /\ MaxLives \in Nat
      BY <1>1, Keys
    <2>2. s.life[c] + 1 \in 0..MaxLives
      BY <2>1
    <2> QED BY <1>1, <2>2, StateFacts
  <1>9. /\ life[c] = s.life[c] + 1 /\ \A d \in Client : d # c => life[d] = s.life[d]
        /\ \A d \in Client : s.life[d] \in Int /\ s.life[d] <= life[d]
    BY <1>1, Keys
  <1> HIDE DEF state, file, gone, locks, opens, unlocked, life
  <1>10. /\ t.info = s.info /\ t.up = s.up /\ t.lease = s.lease /\ t.next_id = s.next_id
         /\ t.life = life /\ t.state = state /\ t.file = file /\ t \in Server
    BY <1>1, <1>6, <1>7, <1>8 DEF Server
  <1>11. \A id \in Id : t.state[id] # NoState => id \notin gone /\ t.state[id] = s.state[id]
    BY <1>8, <1>10
  <1>12. /\ \A k \in Key : Holder(k) # c => (Live(t, k) <=> Live(s, k))
         /\ \A k \in Key : Holder(k) = c /\ Live(t, k) => s.info[k] = NewOwner
         /\ \A k \in Key : Holder(k) = c /\ s.info[k] # NewOwner => ~Live(t, k)
    <2>1. \A k \in Key : Holder(k) # c => (Live(t, k) <=> Live(s, k))
      BY <1>9, <1>10, Keys DEF Live
    <2>2. \A k \in Key : Holder(k) = c /\ Live(t, k) => s.life[Holder(k)] < k[2]
      BY <1>9, <1>10 DEF Live
    <2>3. \A k \in Key : Holder(k) = c /\ Live(t, k) => s.info[k] = NewOwner
      BY <2>2 DEF StateInv, Unused
    <2> QED BY <2>1, <2>3
  <1>13. NewOwner.id = 0 /\ ~NewOwner.confirmed
    BY DEF NewOwner
  <1>14. \A k \in Key : s.info[k].id # 0 => s.info[k].id \in Id
    BY <1>1 DEF Info
  <1>15. \A id \in gone : s.state[id] # NoState /\ Holder(s.state[id].owner) = c
    BY <1>4 DEF StateInv, OwnIds
  <1>16. Numbered(t)
    BY <1>10, <1>11 DEF StateInv, Numbered
  <1>17. Shape(t)
    BY <1>6, <1>10, <1>16 DEF Shape, WholeLocks
  <1>18. OwnIds(t)
    <2>1. ASSUME NEW k \in Key, s.info[k].id # 0
          PROVE  /\ s.info[k].id < t.next_id /\ s.info[k].known
                 /\ \/ t.state[s.info[k].id] = NoState /\ ~Live(t, k)
                    \/ /\ t.state[s.info[k].id] # NoState
                       /\ t.state[s.info[k].id].owner = k /\ ~t.state[s.info[k].id].closed
      <3>1. /\ s.info[k].id < s.next_id /\ s.info[k].known
            /\ \/ s.state[s.info[k].id] = NoState /\ ~Live(s, k)
               \/ /\ s.state[s.info[k].id] # NoState
                  /\ s.state[s.info[k].id].owner = k /\ ~s.state[s.info[k].id].closed
        BY <2>1 DEF StateInv, OwnIds
      <3>2. CASE Holder(k) = c
        <4>1. ~Live(t, k)
          BY <1>12, <1>13, <2>1, <3>2
        <4>2. t.state[s.info[k].id] \in {NoState, s.state[s.info[k].id]}
          BY <1>8, <1>10, <1>14, <2>1
        <4> QED BY <1>10, <3>1, <4>1, <4>2
      <3>3. CASE Holder(k) # c
        <4>1. s.info[k].id \notin gone
          BY <1>15, <3>1, <3>3
        <4>2. t.state[s.info[k].id] = s.state[s.info[k].id]
          BY <1>8, <1>10, <1>14, <2>1, <4>1
        <4> QED BY <1>10, <1>12, <3>1, <3>3, <4>2
      <3> QED BY <3>2, <3>3
    <2> QED BY <1>10, <2>1 DEF OwnIds
  <1>19. OpenStates(t)
    BY <1>10, <1>11 DEF StateInv, OpenStates
  <1>20. ASSUME NEW i \in Id, t.file.locks[i] # {}
         PROVE  /\ t.state[i] = s.state[i] /\ Holder(s.state[i].owner) # c
                /\ s.state[i].owner \in LockKey /\ Live(t, s.state[i].owner)
                /\ s.info[s.state[i].owner].id = i /\ s.info[s.state[i].owner].confirmed
    <2>1. i \notin locks /\ s.file.locks[i] # {}
      BY <1>6, <1>10, <1>20
    <2>2. /\ s.state[i].owner \in LockKey /\ Live(s, s.state[i].owner)
          /\ s.info[s.state[i].owner].id = i /\ s.info[s.state[i].owner].confirmed
      BY <2>1 DEF StateInv, Held
    <2>3. i # 0
      BY StateFacts
    <2>4. Holder(s.state[i].owner) # c
      BY <1>3, <2>1, <2>2, <2>3
    <2>5. i \notin gone
      BY <1>15, <2>4
    <2> QED BY <1>8, <1>10, <1>12, <2>2, <2>4, <2>5, Keys
  <1>21. ASSUME NEW i \in Id, t.file.shares[i] # F!NoShare
         PROVE  /\ t.state[i] = s.state[i] /\ s.state[i].owner \in OpenKey
                /\ Live(t, s.state[i].owner) /\ s.info[s.state[i].owner].id = i
    <2>1. i \notin opens /\ s.file.shares[i] # F!NoShare
      BY <1>6, <1>10, <1>21
    <2>2. /\ s.state[i].owner \in OpenKey /\ Live(s, s.state[i].owner)
          /\ s.info[s.state[i].owner].id = i
      BY <2>1 DEF StateInv, Held
    <2>3. i # 0
      BY StateFacts
    <2>4. Holder(s.state[i].owner) # c
      BY <1>2, <2>1, <2>2, <2>3
    <2>5. i \notin gone
      BY <1>15, <2>4
    <2> QED BY <1>8, <1>10, <1>12, <2>2, <2>4, <2>5, Keys
  <1>22. Held(t)
    BY <1>10, <1>20, <1>21 DEF Held
  <1>23. Openers(t)
    <2>1. ASSUME NEW k \in LockKey, s.info[k].openid # 0
          PROVE  /\ s.info[k].openid \in Id /\ s.info[k].openid < t.next_id
                 /\ t.state[s.info[k].openid] # NoState =>
                      /\ t.state[s.info[k].openid].owner \in OpenKey
                      /\ t.state[s.info[k].openid].owner[1] = ClientOf[k[1]]
      BY <1>10, <1>11, <2>1 DEF StateInv, Openers
    <2>2. ASSUME NEW k \in LockKey, s.info[k].confirmed, Live(t, k)
          PROVE  /\ s.info[k].openid # 0 /\ t.state[s.info[k].openid] # NoState
                 /\ s.info[t.state[s.info[k].openid].owner].confirmed
      <3>1. Holder(k) # c /\ Live(s, k)
        BY <1>12, <1>13, <2>2, Keys
      <3>2. /\ s.info[k].openid # 0 /\ s.info[k].openid \in Id
            /\ s.state[s.info[k].openid] # NoState
            /\ s.info[s.state[s.info[k].openid].owner].confirmed
            /\ s.state[s.info[k].openid].owner \in OpenKey
            /\ s.state[s.info[k].openid].owner[1] = ClientOf[k[1]]
        BY <2>2, <3>1 DEF StateInv, Openers
      <3>3. s.info[k].openid \notin gone
        BY <1>15, <3>1, <3>2, Keys
      <3>4. t.state[s.info[k].openid] = s.state[s.info[k].openid]
        BY <1>8, <1>10, <3>2, <3>3
      <3> QED BY <3>2, <3>4
    <2> QED BY <1>10, <2>1, <2>2 DEF Openers
  <1>24. Unused(t)
    <2>1. \A k \in Key : t.life[Holder(k)] < k[2] => s.life[Holder(k)] < k[2]
      BY <1>1, <1>9, <1>10, Keys
    <2> QED BY <1>10, <2>1 DEF StateInv, Unused
  <1>25. Renewing(t)
    <2>1. ASSUME NEW d \in Client, t.lease[d] = "expired", t.life[d] = MaxLives, NEW i \in Id,
                 t.file.locks[i] # {}
          PROVE  Holder(t.state[i].owner) # d
      <3>1. CASE d = c
        BY <1>20, <2>1, <3>1
      <3>2. CASE d # c
        <4>1. s.lease[d] = "expired" /\ s.life[d] = MaxLives /\ s.file.locks[i] # {}
          BY <1>6, <1>9, <1>10, <2>1, <3>2
        <4>2. Holder(s.state[i].owner) # d
          BY <4>1 DEF StateInv, Renewing
        <4> QED BY <1>20, <2>1, <4>2
      <3> QED BY <3>1, <3>2
    <2> QED BY <2>1 DEF Renewing
  <1>26. Known(t)
    BY <1>10 DEF StateInv, Known
  <1>27. \A i \in Id : s.state[i] # NoState /\ Live(s, s.state[i].owner) /\
           s.info[s.state[i].owner].id = i =>
             (t.state[i] = NoState <=> Holder(s.state[i].owner) = c)
    <2>1. ASSUME NEW i \in Id, s.state[i] # NoState, Live(s, s.state[i].owner),
                 s.info[s.state[i].owner].id = i
          PROVE  t.state[i] = NoState <=> Holder(s.state[i].owner) = c
      <3>1. s.state[i].owner \in Key /\ i # 0
        BY <2>1, StateFacts DEF StateInv, Numbered
      <3>2. i \in gone <=> Holder(s.state[i].owner) = c
        BY <1>4, <1>15, <2>1, <3>1
      <3> QED BY <1>8, <1>10, <2>1, <3>2
    <2> QED BY <2>1
  <1>28. Keeps(s, t)
    <2>1. ASSUME NEW i \in Id, t.state[i] # NoState, LockHolder(s, i)
          PROVE  LockHolder(t, i)
      <3>1. t.state[i] = s.state[i] /\ s.state[i] # NoState
        BY <1>11, <2>1
      <3>2. Holder(s.state[i].owner) # c /\ s.state[i].owner \in Key
        BY <1>27, <2>1, <3>1, Keys DEF LockHolder
      <3> QED BY <1>10, <1>12, <2>1, <3>1, <3>2 DEF LockHolder
    <2>2. \A d \in Client : s.life[d] <= t.life[d]
      BY <1>9, <1>10
    <2>3. s.next_id <= t.next_id
      BY <1>1, <1>10, ServerFields
    <2> QED BY <1>11, <2>1, <2>2, <2>3 DEF Keeps
  <1>32. Siblings(t)
    BY <1>10 DEF StateInv, Siblings
  <1>29. StateInv(t)
    BY <1>16, <1>18, <1>19, <1>22, <1>23, <1>24, <1>25, <1>26, <1>32 DEF StateInv
  <1>30. \A i \in Id : t.file.locks[i] \subseteq s.file.locks[i]
    BY <1>6, <1>10
  <1>31. \A i \in Id : s.state[i] # NoState /\ Holder(s.state[i].owner) # c =>
           t.state[i] = s.state[i]
    BY <1>8, <1>10, <1>15
  <1>33. ASSUME NEW k \in Key PROVE StatesStay(s, t, k)
    <2>1. ASSUME NEW id \in Id, s.state[id].owner = k
          PROVE  \/ t.state[id] = s.state[id] /\ t.file.shares[id] = s.file.shares[id]
                 \/ t.state[id] = NoState /\ t.life[Holder(k)] # s.life[Holder(k)]
      <3>1. CASE id \in gone
        BY <1>8, <1>9, <1>10, <1>15, <2>1, <3>1
      <3>2. CASE id \notin gone
        <4>1. id \notin opens
          BY <3>2 DEF gone
        <4> QED BY <1>6, <1>8, <1>10, <3>2, <4>1
      <3> QED BY <3>1, <3>2
    <2> QED BY <2>1 DEF StatesStay
  <1> QED BY <1>10, <1>11, <1>17, <1>27, <1>28, <1>29, <1>30, <1>31, <1>33 DEF life

\* remove_state ends the client's life, and leaves the states of the others alone.
LEMMA RemoveStateLife ==
  ASSUME NEW s, Shape(s), StateInv(s), NEW c \in Client, s.life[c] < MaxLives
  PROVE  /\ remove_state(s, c).life = [s.life EXCEPT ![c] = @ + 1]
         /\ \A k \in Key : StatesStay(s, remove_state(s, c), k)
  <1> DEFINE t == remove_state(s, c)
  <1>1. /\ Shape(t) /\ StateInv(t) /\ Keeps(s, t)
        /\ t.info = s.info /\ t.up = s.up /\ t.lease = s.lease /\ t.next_id = s.next_id
        /\ t.life = [s.life EXCEPT ![c] = @ + 1]
        /\ \A i \in Id : t.file.locks[i] \subseteq s.file.locks[i]
        /\ \A i \in Id : t.state[i] # NoState => t.state[i] = s.state[i]
        /\ \A i \in Id : s.state[i] # NoState /\ Live(s, s.state[i].owner) /\
             s.info[s.state[i].owner].id = i =>
               (t.state[i] = NoState <=> Holder(s.state[i].owner) = c)
        /\ \A i \in Id : s.state[i] # NoState /\ Holder(s.state[i].owner) # c =>
               t.state[i] = s.state[i]
        /\ \A k \in Key : StatesStay(s, t, k)
    <2> HIDE DEF t
    <2>1. t = remove_state(s, c)
      BY DEF t
    <2> QED BY <2>1, RemoveStateKeeps
  <1> QED BY <1>1

\* What the loop of close visits and what it leaves are lock owners.
LEMMA VisitedAndSkipped ==
  ASSUME NEW list \in Seq(LockKey)
  PROVE  Visited(list) \subseteq LockKey /\ Skipped(list) \in Seq(LockKey)
  <1>1. Len(list) \in Nat /\ \A i \in 1..Len(list) : list[i] \in LockKey
    OBVIOUS
  <1>2. Visited(list) \subseteq LockKey
    BY <1>1 DEF Visited
  <1> DEFINE half == Len(list) \div 2
  <1>3. half \in Nat /\ \A i \in 1..half : 2 * i \in 1..Len(list)
    BY <1>1
  <1> HIDE DEF half
  <1>4. [i \in 1..half |-> list[2 * i]] \in Seq(LockKey)
    BY <1>1, <1>3
  <1> QED BY <1>2, <1>4 DEF Skipped, half

\* What the loop leaves are lock owners that were listed.
LEMMA SkippedOurs ==
  ASSUME NEW list \in Seq(LockKey), NEW k, Ours(k, list)
  PROVE  Ours(k, Skipped(list)) /\ \A l \in Visited(list) : Holder(l) = Holder(k)
  <1> DEFINE half == Len(list) \div 2
  <1>1. half \in Nat /\ \A i \in 1..half : 2 * i \in 1..Len(list)
    OBVIOUS
  <1> HIDE DEF half
  <1>2. Skipped(list) = [i \in 1..half |-> list[2 * i]]
    BY DEF Skipped, half
  <1>3. DOMAIN Skipped(list) = 1..half /\ DOMAIN list = 1..Len(list)
    BY <1>2
  <1>4. \A i \in 1..half : Holder(Skipped(list)[i]) = Holder(k)
    BY <1>1, <1>2 DEF Ours
  <1> QED BY <1>3, <1>4 DEF Ours, Visited

\* The effect of close on the server's memory: the loop's lock owners lose their entries
\* and locks, the open owner its entry and shares.
Shut(s, key, id) ==
  LET gone == Visited(s.info[key].lockowners)
      lockids == {s.info[l].id : l \in gone}
      unlocked == [s.file EXCEPT !.locks = [i \in Id |-> IF i \in lockids THEN {} ELSE @[i]]]
  IN [s EXCEPT
       !.file = F!DownShares(unlocked, id, {}, {}),
       !.info = [k \in DOMAIN s.info |->
                   IF k \in gone THEN [s.info[k] EXCEPT !.id = 0, !.confirmed = FALSE]
                   ELSE IF k = key THEN [s.info[k] EXCEPT !.id = 0, !.lockowners = Skipped(@)]
                   ELSE s.info[k]],
       !.state = [i \in Id |-> IF i \in lockids THEN NoState
                               ELSE IF i = id THEN [@[i] EXCEPT !.closed = TRUE]
                               ELSE @[i]]]

\* What close changes, field by field.
ShutFields(s, t, key, id, gone, lockids) ==
  /\ t \in Server /\ gone \subseteq LockKey
  /\ t.up = s.up /\ t.lease = s.lease /\ t.next_id = s.next_id /\ t.life = s.life
  /\ \A i : i \in lockids <=> \E l \in gone : s.info[l].id = i
  /\ \A i \in Id : /\ t.file.locks[i] = IF i \in lockids THEN {} ELSE s.file.locks[i]
                   /\ t.file.shares[i] # F!NoShare => s.file.shares[i] # F!NoShare /\ i # id
                   /\ i # id => t.file.shares[i] = s.file.shares[i]
                   /\ i \in lockids => t.state[i] = NoState
                   /\ i \notin lockids /\ i # id => t.state[i] = s.state[i]
                   /\ i \notin lockids /\ i = id => t.state[i].owner = key /\ t.state[i].closed
  /\ \A k \in Key : /\ t.info[k].cached = s.info[k].cached
                    /\ t.info[k].lastseqid = s.info[k].lastseqid
                    /\ t.info[k].known = s.info[k].known
                    /\ t.info[k].openid = s.info[k].openid
                    /\ k \in gone \cup {key} => t.info[k].id = 0
                    /\ k \in gone => ~t.info[k].confirmed
                    /\ k \notin gone => t.info[k].confirmed = s.info[k].confirmed
                    /\ k \notin gone \cup {key} => t.info[k] = s.info[k]
                    /\ k # key /\ s.info[k] = NewOwner => t.info[k] = NewOwner
                    /\ t.info[k].lockowners =
                         IF k = key THEN Skipped(s.info[k].lockowners)
                         ELSE s.info[k].lockowners
  /\ gone = Visited(s.info[key].lockowners)

\* The definition of close gives these fields.
LEMMA ShutHasFields ==
  ASSUME NEW s \in Server, NEW key \in OpenKey, NEW id \in Id, s.state[id].owner = key,
         NEW t, t = Shut(s, key, id)
  PROVE  LET gone == Visited(s.info[key].lockowners)
         IN ShutFields(s, t, key, id, gone, {s.info[l].id : l \in gone})
  <1> DEFINE gone == Visited(s.info[key].lockowners)
             lockids == {s.info[l].id : l \in gone}
             unlocked == [s.file EXCEPT !.locks =
                            [i \in Id |-> IF i \in lockids THEN {} ELSE @[i]]]
             file == F!DownShares(unlocked, id, {}, {})
             visited(k) == [s.info[k] EXCEPT !.id = 0, !.confirmed = FALSE]
             own == [s.info[key] EXCEPT !.id = 0, !.lockowners = Skipped(@)]
             info == [k \in Key |-> IF k \in gone THEN visited(k)
                                    ELSE IF k = key THEN own ELSE s.info[k]]
             shut == [s.state[id] EXCEPT !.closed = TRUE]
             state == [i \in Id |-> IF i \in lockids THEN NoState
                                    ELSE IF i = id THEN shut ELSE s.state[i]]
  <1>1. /\ s.file \in F!File /\ s.state \in [Id -> State]
        /\ s.info \in [Key -> Info] /\ s.life \in [Client -> 0..MaxLives] /\ key \in Key
        /\ s.info[key] \in Info /\ s.state[id] \in State
    <2>1. key \in Key
      BY Keys
    <2> QED BY <2>1, ServerFields
  <1>2. gone \subseteq LockKey /\ Skipped(s.info[key].lockowners) \in Seq(LockKey)
    <2>1. s.info[key].lockowners \in Seq(LockKey)
      BY <1>1 DEF Info
    <2> QED BY <2>1, VisitedAndSkipped
  <1>3. key \notin gone /\ gone \subseteq Key
    BY <1>2, Keys
  <1>4. \A k \in Key : /\ visited(k) \in Info /\ visited(k).id = 0 /\ ~visited(k).confirmed
                       /\ visited(k).known = s.info[k].known
                       /\ visited(k).lastseqid = s.info[k].lastseqid
                       /\ visited(k).cached = s.info[k].cached
                       /\ visited(k).openid = s.info[k].openid
                       /\ visited(k).lockowners = s.info[k].lockowners
    BY <1>1 DEF Info
  <1>5. /\ own \in Info /\ own.id = 0 /\ own.known = s.info[key].known
        /\ own.lastseqid = s.info[key].lastseqid /\ own.cached = s.info[key].cached
        /\ own.openid = s.info[key].openid /\ own.confirmed = s.info[key].confirmed
        /\ own.lockowners = Skipped(s.info[key].lockowners)
    BY <1>1, <1>2 DEF Info
  <1>6. shut \in State /\ shut.owner = key /\ shut.closed
    BY <1>1 DEF State
  <1>7. \A k : s.info[k] = NewOwner => visited(k) = NewOwner
    <2>1. [NewOwner EXCEPT !.id = 0, !.confirmed = FALSE] = NewOwner
      <3>1. NewOwner.id = 0 /\ NewOwner.confirmed = FALSE
        BY DEF NewOwner
      <3> QED BY <3>1, StateFacts DEF Info
    <2> QED BY <2>1
  <1>8. t = [s EXCEPT !.file = file, !.info = info, !.state = state]
    <2>1. DOMAIN s.info = Key
      BY <1>1
    <2>2. [k \in Key |->
             IF k \in gone THEN [s.info[k] EXCEPT !.id = 0, !.confirmed = FALSE]
             ELSE IF k = key
               THEN [s.info[k] EXCEPT !.id = 0, !.lockowners = Skipped(@)]
             ELSE s.info[k]] = info
      OBVIOUS
    <2>3. t = [s EXCEPT !.file = file, !.info = [k \in Key |->
             IF k \in gone THEN [s.info[k] EXCEPT !.id = 0, !.confirmed = FALSE]
             ELSE IF k = key
               THEN [s.info[k] EXCEPT !.id = 0, !.lockowners = Skipped(@)]
             ELSE s.info[k]], !.state = state]
      BY <2>1, Zenon DEF Shut
    <2> HIDE DEF info, state, file
    <2> QED BY <2>2, <2>3
  <1>18. \A i : i \in lockids <=> \E l \in gone : s.info[l].id = i
    OBVIOUS
  <1> HIDE DEF visited, own, shut, gone, lockids
  <1>9. /\ info \in [Key -> Info] /\ info[key] = own
        /\ \A k \in Key : k \in gone => info[k] = visited(k)
        /\ \A k \in Key : k \notin gone /\ k # key => info[k] = s.info[k]
    BY <1>1, <1>3, <1>4, <1>5
  <1>10. /\ state \in [Id -> State]
         /\ \A i \in Id : state[i] = IF i \in lockids THEN NoState
                                     ELSE IF i = id THEN shut ELSE s.state[i]
    BY <1>1, <1>6, StateFacts
  <1> HIDE DEF info, state
  <1>11. /\ unlocked \in F!File /\ unlocked.shares = s.file.shares
         /\ \A i \in Id : unlocked.locks[i] = IF i \in lockids THEN {} ELSE s.file.locks[i]
    <2>1. unlocked = [s.file EXCEPT !.locks =
                        [i \in Id |-> IF i \in lockids THEN {} ELSE @[i]]]
      OBVIOUS
    <2> HIDE DEF unlocked
    <2> QED BY <1>1, <2>1, UnlockedFile, SMTT(30)
  <1> HIDE DEF unlocked
  <1>12. file = F!DownShares(unlocked, id, {}, {})
    OBVIOUS
  <1> HIDE DEF file
  <1>13. /\ file \in F!File /\ file.locks = unlocked.locks /\ file.shares[id] = F!NoShare
         /\ \A i \in Id \ {id} : file.shares[i] = unlocked.shares[i]
    BY <1>11, <1>12, DownSharesFile
  <1>14. /\ t.up = s.up /\ t.lease = s.lease /\ t.next_id = s.next_id /\ t.life = s.life
         /\ t.file = file /\ t.info = info /\ t.state = state /\ t \in Server
    BY <1>1, <1>8, <1>9, <1>10, <1>13 DEF Server
  <1>15. \A i \in Id :
           /\ t.file.locks[i] = IF i \in lockids THEN {} ELSE s.file.locks[i]
           /\ t.file.shares[i] # F!NoShare => s.file.shares[i] # F!NoShare /\ i # id
           /\ i # id => t.file.shares[i] = s.file.shares[i]
    BY <1>11, <1>13, <1>14
  <1>16. \A i \in Id :
           /\ i \in lockids => t.state[i] = NoState
           /\ i \notin lockids /\ i # id => t.state[i] = s.state[i]
           /\ i \notin lockids /\ i = id => t.state[i].owner = key /\ t.state[i].closed
    BY <1>6, <1>10, <1>14
  <1>17. ASSUME NEW k \in Key
         PROVE  /\ t.info[k].cached = s.info[k].cached
                /\ t.info[k].lastseqid = s.info[k].lastseqid
                /\ t.info[k].known = s.info[k].known
                /\ t.info[k].openid = s.info[k].openid
                /\ k \in gone \cup {key} => t.info[k].id = 0
                /\ k \in gone => ~t.info[k].confirmed
                /\ k \notin gone => t.info[k].confirmed = s.info[k].confirmed
                /\ k \notin gone \cup {key} => t.info[k] = s.info[k]
                /\ k # key /\ s.info[k] = NewOwner => t.info[k] = NewOwner
                /\ t.info[k].lockowners = IF k = key THEN Skipped(s.info[k].lockowners)
                                          ELSE s.info[k].lockowners
    <2>1. CASE k \in gone
      <3>1. t.info[k] = visited(k) /\ k # key
        BY <1>3, <1>9, <1>14, <2>1
      <3> QED BY <1>4, <1>7, <2>1, <3>1
    <2>2. CASE k \notin gone /\ k = key
      <3>1. t.info[k] = own
        BY <1>9, <1>14, <2>2
      <3> QED BY <1>5, <2>2, <3>1
    <2>3. CASE k \notin gone /\ k # key
      BY <1>9, <1>14, <2>3
    <2> QED BY <2>1, <2>2, <2>3
  <1> QED BY <1>2, <1>14, <1>15, <1>16, <1>17, <1>18 DEF ShutFields, gone, lockids

\* close: the owner's entry goes with its shares, and so do the entries and locks of the
\* lock owners that the loop visits.
LEMMA CloseKeeps ==
  ASSUME NEW s, Shape(s), StateInv(s), NEW key \in OpenKey, NEW id \in Id,
         s.state[id] # NoState, s.state[id].owner = key, ~s.state[id].closed,
         NEW t, NEW gone, NEW lockids, ShutFields(s, t, key, id, gone, lockids)
  PROVE  /\ Shape(t) /\ StateInv(t) /\ Keeps(s, t)
         /\ t.up = s.up /\ t.lease = s.lease /\ t.next_id = s.next_id /\ t.life = s.life
         /\ \A k \in Key : /\ t.info[k].cached = s.info[k].cached
                           /\ t.info[k].lastseqid = s.info[k].lastseqid
                           /\ t.info[k].confirmed => s.info[k].confirmed
         /\ \A i \in Id : t.file.locks[i] \subseteq s.file.locks[i]
         /\ \A k \in Key : k # key /\ (k \in OpenKey \/ Holder(k) # Holder(key)) =>
              StatesStay(s, t, k) /\ t.info[k].confirmed = s.info[k].confirmed
         /\ \A k \in LockKey : StatesLast(s, t, k)
  <1>1. /\ s \in Server /\ s.file \in F!File /\ s.state \in [Id -> State]
        /\ s.info \in [Key -> Info] /\ s.life \in [Client -> 0..MaxLives] /\ key \in Key
    <2>1. s \in Server /\ key \in Key
      BY Keys DEF Shape
    <2> QED BY <2>1, ServerFields
  <1>2. gone \subseteq LockKey
    BY DEF ShutFields
  <1>3. key \notin gone /\ gone \subseteq Key
    BY <1>2, Keys
  <1>7. \A i \in Id :
          /\ t.file.locks[i] = IF i \in lockids THEN {} ELSE s.file.locks[i]
          /\ t.file.shares[i] # F!NoShare => s.file.shares[i] # F!NoShare /\ i # id
    BY DEF ShutFields
  <1>9. \A k \in Key : k \notin gone /\ k # key => t.info[k] = s.info[k]
    BY DEF ShutFields
  <1>10. \A i \in Id :
           /\ i \in lockids => t.state[i] = NoState
           /\ i \notin lockids /\ i # id => t.state[i] = s.state[i]
           /\ i \notin lockids /\ i = id => t.state[i].owner = key /\ t.state[i].closed
    BY DEF ShutFields
  <1>11. /\ t.up = s.up /\ t.lease = s.lease /\ t.next_id = s.next_id /\ t.life = s.life
         /\ t \in Server
    BY DEF ShutFields
  <1>12. \A k : Live(t, k) <=> Live(s, k)
    BY <1>11 DEF Live
  <1>13. \A k \in Key : /\ t.info[k].cached = s.info[k].cached
                        /\ t.info[k].lastseqid = s.info[k].lastseqid
                        /\ t.info[k].known = s.info[k].known
                        /\ t.info[k].openid = s.info[k].openid
                        /\ t.info[k].confirmed => s.info[k].confirmed /\ k \notin gone
                        /\ k \notin gone => t.info[k].confirmed = s.info[k].confirmed
                        /\ t.info[k].id # 0 => k \notin gone /\ k # key /\ t.info[k] = s.info[k]
    BY DEF ShutFields
  <1>14. s.info[key].id = id
    BY DEF StateInv, OpenStates
  <1>15. \A i \in Id : s.state[i] # NoState => s.state[i].owner \in Key
    BY DEF StateInv, Numbered
  <1>16. \A i \in Id : i \in lockids /\ s.state[i] # NoState =>
           s.state[i].owner \in gone /\ s.info[s.state[i].owner].id = i
    <2>1. ASSUME NEW l \in gone, s.info[l].id \in Id, s.state[s.info[l].id] # NoState
          PROVE  s.state[s.info[l].id].owner = l
      <3>1. l \in Key /\ s.info[l].id # 0
        BY <1>3, <2>1, StateFacts
      <3> QED BY <2>1, <3>1 DEF StateInv, OwnIds
    <2>2. \A i : i \in lockids <=> \E l \in gone : s.info[l].id = i
      BY DEF ShutFields
    <2> QED BY <2>1, <2>2
  <1>17. \A l \in gone : s.info[l].id \in lockids
    BY DEF ShutFields
  <1>18. id \notin lockids
    BY <1>3, <1>16
  <1>19. \A i \in Id : t.state[i] # NoState =>
           /\ i \notin lockids /\ s.state[i] # NoState /\ t.state[i].owner = s.state[i].owner
           /\ t.state[i].closed \/ i # id
           /\ i # id => t.state[i] = s.state[i]
    BY <1>10
  <1>20. \A i \in Id : s.state[i] # NoState /\ i \notin lockids =>
           /\ t.state[i] # NoState /\ t.state[i].owner = s.state[i].owner
           /\ i # id => t.state[i] = s.state[i]
    BY <1>10, StateFacts, Keys
  <1>21. Numbered(t)
    BY <1>11, <1>19 DEF StateInv, Numbered
  <1>22. Shape(t)
    BY <1>7, <1>11, <1>21 DEF Shape, WholeLocks
  <1>23. OwnIds(t)
    <2>1. ASSUME NEW k \in Key, t.info[k].id # 0
          PROVE  /\ t.info[k].id < t.next_id /\ t.info[k].known
                 /\ \/ t.state[t.info[k].id] = NoState /\ ~Live(t, k)
                    \/ /\ t.state[t.info[k].id] # NoState
                       /\ t.state[t.info[k].id].owner = k /\ ~t.state[t.info[k].id].closed
      <3> DEFINE j == s.info[k].id
      <3>1. k \notin gone /\ k # key /\ t.info[k] = s.info[k] /\ j # 0
        BY <1>13, <2>1
      <3>2. /\ j < s.next_id /\ s.info[k].known
            /\ \/ s.state[j] = NoState /\ ~Live(s, k)
               \/ s.state[j] # NoState /\ s.state[j].owner = k /\ ~s.state[j].closed
        BY <3>1 DEF StateInv, OwnIds
      <3>3. j \in Id
        BY <1>1, <3>1 DEF Info
      <3>4. CASE s.state[j] = NoState /\ ~Live(s, k)
        <4>1. t.state[j] = NoState
          BY <1>19, <3>3, <3>4
        <4> QED BY <1>11, <1>12, <3>1, <3>2, <3>4, <4>1
      <3>5. CASE s.state[j] # NoState /\ s.state[j].owner = k /\ ~s.state[j].closed
        <4>1. j \notin lockids /\ j # id
          BY <1>16, <3>1, <3>3, <3>5
        <4>2. t.state[j] = s.state[j]
          BY <1>20, <3>3, <3>5, <4>1
        <4> QED BY <1>11, <3>1, <3>2, <3>5, <4>2
      <3> QED BY <3>2, <3>4, <3>5
    <2> QED BY <2>1 DEF OwnIds
  <1>24. OpenStates(t)
    <2>1. ASSUME NEW i \in Id, t.state[i] # NoState, t.state[i].owner \in OpenKey
          PROVE  /\ t.info[t.state[i].owner].lastseqid # -1
                 /\ ~t.state[i].closed => t.info[t.state[i].owner].id = i
      <3>1. /\ s.state[i] # NoState /\ t.state[i].owner = s.state[i].owner
            /\ t.state[i].closed \/ i # id
            /\ i # id => t.state[i] = s.state[i]
        BY <1>19, <2>1
      <3>2. /\ s.info[s.state[i].owner].lastseqid # -1
            /\ ~s.state[i].closed => s.info[s.state[i].owner].id = i
            /\ s.state[i].owner \in Key /\ s.state[i].owner \notin gone
        BY <1>2, <2>1, <3>1, Keys DEF StateInv, OpenStates
      <3>3. ASSUME ~t.state[i].closed
            PROVE  t.info[t.state[i].owner].id = i
        <4>1. i # id /\ s.info[s.state[i].owner].id = i
          BY <3>1, <3>2, <3>3
        <4>2. s.state[i].owner # key
          BY <1>14, <4>1
        <4> QED BY <1>9, <1>11, <3>1, <3>2, <4>1, <4>2
      <3> QED BY <1>13, <3>1, <3>2, <3>3
    <2> QED BY <2>1 DEF OpenStates
  <1>25. ASSUME NEW i \in Id, t.file.locks[i] # {}
         PROVE  /\ t.state[i] = s.state[i] /\ s.state[i].owner \in LockKey
                /\ Live(t, s.state[i].owner)
                /\ t.info[s.state[i].owner].id = i /\ t.info[s.state[i].owner].confirmed
                /\ s.file.locks[i] # {}
    <2>1. i \notin lockids /\ s.file.locks[i] # {}
      BY <1>7, <1>11, <1>25
    <2>2. /\ s.state[i].owner \in LockKey /\ Live(s, s.state[i].owner)
          /\ s.info[s.state[i].owner].id = i /\ s.info[s.state[i].owner].confirmed
      BY <2>1 DEF StateInv, Held
    <2>3. /\ s.state[i].owner \notin gone /\ s.state[i].owner # key /\ i # id
          /\ s.state[i].owner \in Key /\ s.state[i] # NoState
      BY <1>17, <2>1, <2>2, Keys, StateFacts
    <2> QED BY <1>9, <1>11, <1>12, <1>20, <2>1, <2>2, <2>3
  <1>26. ASSUME NEW i \in Id, t.file.shares[i] # F!NoShare
         PROVE  /\ t.state[i] = s.state[i] /\ s.state[i].owner \in OpenKey
                /\ Live(t, s.state[i].owner) /\ t.info[s.state[i].owner].id = i
    <2>1. i # id /\ s.file.shares[i] # F!NoShare
      BY <1>7, <1>11, <1>26
    <2>2. /\ s.state[i].owner \in OpenKey /\ Live(s, s.state[i].owner)
          /\ s.info[s.state[i].owner].id = i
      BY <2>1 DEF StateInv, Held
    <2>3. /\ s.state[i].owner \notin gone /\ s.state[i].owner # key
          /\ s.state[i].owner \in Key /\ s.state[i] # NoState
      BY <1>2, <1>14, <2>1, <2>2, Keys, StateFacts
    <2>4. i \notin lockids
      BY <1>16, <2>3
    <2> QED BY <1>9, <1>11, <1>12, <1>20, <2>1, <2>2, <2>3, <2>4
  <1>27. Held(t)
    BY <1>25, <1>26 DEF Held
  <1>28. Openers(t)
    <2>1. ASSUME NEW k \in LockKey
          PROVE  k \in Key
      BY Keys
    <2>2. ASSUME NEW k \in LockKey, s.info[k].openid # 0
          PROVE  /\ s.info[k].openid \in Id /\ s.info[k].openid < t.next_id
                 /\ t.state[s.info[k].openid] # NoState =>
                      /\ t.state[s.info[k].openid].owner \in OpenKey
                      /\ t.state[s.info[k].openid].owner[1] = ClientOf[k[1]]
      <3>1. /\ s.info[k].openid \in Id /\ s.info[k].openid < s.next_id
            /\ s.state[s.info[k].openid] # NoState =>
                 /\ s.state[s.info[k].openid].owner \in OpenKey
                 /\ s.state[s.info[k].openid].owner[1] = ClientOf[k[1]]
        BY <2>2 DEF StateInv, Openers
      <3> QED BY <1>11, <1>19, <3>1
    <2>3. ASSUME NEW k \in LockKey, t.info[k].confirmed, Live(t, k)
          PROVE  /\ s.info[k].openid # 0 /\ t.state[s.info[k].openid] # NoState
                 /\ t.info[t.state[s.info[k].openid].owner].confirmed
      <3>1. s.info[k].confirmed /\ Live(s, k)
        BY <1>12, <1>13, <2>1, <2>3
      <3>2. /\ s.info[k].openid # 0 /\ s.info[k].openid \in Id
            /\ s.state[s.info[k].openid] # NoState
            /\ s.info[s.state[s.info[k].openid].owner].confirmed
            /\ s.state[s.info[k].openid].owner \in OpenKey
        BY <3>1 DEF StateInv, Openers
      <3>3. s.state[s.info[k].openid].owner \notin gone /\
            s.state[s.info[k].openid].owner \in Key
        BY <1>2, <3>2, Keys
      <3>4. s.info[k].openid \notin lockids
        BY <1>16, <3>2, <3>3
      <3>5. /\ t.state[s.info[k].openid] # NoState
            /\ t.state[s.info[k].openid].owner = s.state[s.info[k].openid].owner
        BY <1>20, <3>2, <3>4
      <3> QED BY <1>13, <3>2, <3>3, <3>5
    <2>4. \A k \in LockKey : t.info[k].openid = s.info[k].openid
      BY <1>13, <2>1
    <2> QED BY <2>2, <2>3, <2>4 DEF Openers
  <1>29. Unused(t)
    <2>1. ASSUME NEW k \in Key, s.life[Holder(k)] < k[2]
          PROVE  t.info[k] = NewOwner
      <3>1. s.info[k] = NewOwner
        BY <2>1 DEF StateInv, Unused
      <3>2. k # key
        BY <1>14, <3>1, StateFacts DEF NewOwner
      <3> QED BY <2>1, <3>1, <3>2 DEF ShutFields
    <2> QED BY <1>11, <2>1 DEF Unused
  <1>30. Renewing(t)
    BY <1>11, <1>25 DEF StateInv, Renewing
  <1>31. Known(t)
    BY <1>13 DEF StateInv, Known
  <1>32. Keeps(s, t)
    <2>1. ASSUME NEW i \in Id, t.state[i] # NoState, LockHolder(s, i)
          PROVE  LockHolder(t, i)
      <3>1. i \notin lockids /\ s.state[i] # NoState /\ t.state[i].owner = s.state[i].owner
        BY <1>19, <2>1
      <3>2. s.state[i].owner \notin gone /\ s.state[i].owner # key /\ s.state[i].owner \in Key
        BY <1>17, <2>1, <3>1, Keys DEF LockHolder
      <3>3. t.info[s.state[i].owner] = s.info[s.state[i].owner]
        BY <1>9, <1>11, <3>2
      <3> QED BY <1>12, <2>1, <3>1, <3>3 DEF LockHolder
    <2> QED BY <1>1, <1>11, <1>19, <2>1, ServerFields DEF Keeps
  <1>35. s.info[key].lockowners \in Seq(LockKey) /\ Ours(key, s.info[key].lockowners)
    BY <1>1 DEF StateInv, Siblings, Info
  <1>36. Siblings(t)
    <2>1. ASSUME NEW k \in Key
          PROVE  t.info[k].lockowners = IF k = key THEN Skipped(s.info[k].lockowners)
                                        ELSE s.info[k].lockowners
      BY DEF ShutFields
    <2>2. Ours(key, Skipped(s.info[key].lockowners))
      BY <1>35, SkippedOurs
    <2> QED BY <2>1, <2>2 DEF StateInv, Siblings
  <1>33. StateInv(t)
    BY <1>21, <1>23, <1>24, <1>27, <1>28, <1>29, <1>30, <1>31, <1>36 DEF StateInv
  <1>34. \A i \in Id : t.file.locks[i] \subseteq s.file.locks[i]
    BY <1>7, <1>11
  <1>37. ASSUME NEW k \in Key, k # key, k \in OpenKey \/ Holder(k) # Holder(key)
         PROVE  StatesStay(s, t, k) /\ t.info[k].confirmed = s.info[k].confirmed
    <2>1. gone = Visited(s.info[key].lockowners)
      BY DEF ShutFields
    <2>2. k \notin gone
      BY <1>2, <1>35, <1>37, <2>1, SkippedOurs, Keys
    <2>3. ASSUME NEW i \in Id, s.state[i].owner = k
          PROVE  t.state[i] = s.state[i] /\ t.file.shares[i] = s.file.shares[i]
      <3>1. i # id /\ s.state[i] # NoState
        BY <1>37, <2>3, StateFacts, Keys
      <3>2. i \notin lockids
        BY <1>16, <2>2, <2>3, <3>1
      <3> QED BY <1>20, <3>1, <3>2 DEF ShutFields
    <2>4. t.info[k].confirmed = s.info[k].confirmed
      BY <1>13, <2>2
    <2> QED BY <2>3, <2>4 DEF StatesStay
  <1>38. ASSUME NEW k \in LockKey
         PROVE  StatesLast(s, t, k)
    <2>1. ASSUME NEW i \in Id, s.state[i].owner = k
          PROVE  t.state[i] \in {s.state[i], NoState}
      <3>1. i # id
        BY <2>1, Keys
      <3> QED BY <1>19, <3>1
    <2> QED BY <2>1 DEF StatesLast
  <1> QED BY <1>11, <1>13, <1>22, <1>32, <1>33, <1>34, <1>37, <1>38
=============================================================================
