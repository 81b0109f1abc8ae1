-------------------------- MODULE NFSServerProofs ---------------------------
(***************************************************************************)
(* Theorems about NFSServer, for any clients, owners, shares, bounds and    *)
(* numbers of requests: nothing on the file is without an owner that can    *)
(* release it, locks need a confirmed open, locks come to conflict by an    *)
(* expiry alone, no request is carried out twice, and clients hold what     *)
(* they believe to hold.  They follow from ServerInv, the last two from     *)
(* NumberInv too, and the last one from TruthInv, all of NFSServerSteps.    *)
(***************************************************************************)
EXTENDS NFSServerHandlers, FiniteSetTheorems

(* Operations that go by no sequence number *)

\* What such an operation may do to the server's memory.
Quiet(s, t) ==
  /\ Shape(t) /\ StateInv(t) /\ Keeps(s, t) /\ LocksStep(s, t) /\ t.up = s.up
  /\ \A k \in Key : /\ t.info[k].cached = s.info[k].cached
                    /\ t.info[k].lastseqid = s.info[k].lastseqid
                    /\ t.info[k].confirmed = s.info[k].confirmed
                    /\ StatesStay(s, t, k)

\* Two such operations in a row, if the first leaves the file and the clients' lives alone.
LEMMA QuietOn ==
  ASSUME NEW s, Shape(s), NEW u, NEW t, Quiet(s, u), Quiet(u, t),
         u.file = s.file, u.life = s.life
  PROVE  Quiet(s, t)
  <1>1. s \in Server /\ u \in Server /\ t \in Server
    BY DEF Quiet, Shape
  <1>2. Keeps(s, t)
    BY <1>1, KeepsOn DEF Quiet
  <1>3. LocksStep(s, t)
    <2>1. LocksStep(u, t)
      BY DEF Quiet
    <2> QED BY <2>1, SameLocksStep
  <1>4. ASSUME NEW k \in Key
        PROVE  StatesStay(s, t, k)
    <2>1. Keeps(s, u) /\ Keeps(u, t) /\ StatesStay(s, u, k) /\ StatesStay(u, t, k)
      BY DEF Quiet
    <2> QED BY <1>1, <2>1, StatesStayOn
  <1> QED BY <1>2, <1>3, <1>4 DEF Quiet

\* __testlock removes the state of an expired client, or does nothing.
LEMMA TestLockQuiet ==
  ASSUME NEW s, Shape(s), StateInv(s), NEW ids, NEW type, NEW t \in TestLock(s, ids, type)
  PROVE  Quiet(s, t.s)
  <1>1. \/ t.s = s
        \/ \E c \in Client : s.life[c] < MaxLives /\ t.s = remove_state(s, c)
    BY TestLockOutcome
  <1>2. CASE t.s = s
    <2>1. s \in Server
      BY DEF Shape
    <2>2. Keeps(s, s) /\ LocksStep(s, s)
      BY <2>1, KeepsItself DEF LocksStep
    <2> QED BY <1>2, <2>2, SameStates DEF Quiet
  <1>3. ASSUME NEW c \in Client, s.life[c] < MaxLives, t.s = remove_state(s, c)
        PROVE  Quiet(s, t.s)
    <2> DEFINE u == t.s
    <2>1. u = remove_state(s, c)
      BY <1>3
    <2> HIDE DEF u
    <2>2. /\ Shape(u) /\ StateInv(u) /\ Keeps(s, u) /\ u.info = s.info /\ u.up = s.up
          /\ \A i \in Id : u.file.locks[i] \subseteq s.file.locks[i]
      <3>1. /\ Shape(u) /\ StateInv(u) /\ Keeps(s, u)
            /\ u.info = s.info /\ u.up = s.up /\ u.lease = s.lease /\ u.next_id = s.next_id
            /\ u.life = [s.life EXCEPT ![c] = @ + 1]
            /\ \A i \in Id : u.file.locks[i] \subseteq s.file.locks[i]
            /\ \A i \in Id : u.state[i] # NoState => u.state[i] = s.state[i]
            /\ \A i \in Id : s.state[i] # NoState /\ Live(s, s.state[i].owner) /\
                 s.info[s.state[i].owner].id = i =>
                   (u.state[i] = NoState <=> Holder(s.state[i].owner) = c)
            /\ \A i \in Id : s.state[i] # NoState /\ Holder(s.state[i].owner) # c =>
                   u.state[i] = s.state[i]
        BY <1>3, <2>1, RemoveStateKeeps
      <3> QED BY <3>1
    <2>3. LocksStep(s, u)
      BY <2>2 DEF LocksStep
    <2>4. \A k \in Key : StatesStay(s, u, k)
      <3>1. /\ remove_state(s, c).life = [s.life EXCEPT ![c] = @ + 1]
            /\ \A k \in Key : StatesStay(s, remove_state(s, c), k)
        BY <1>3, RemoveStateLife
      <3> QED BY <2>1, <3>1
    <2> QED BY <2>2, <2>3, <2>4 DEF Quiet, u
  <1> QED BY <1>1, <1>2, <1>3

\* op_renew, and the renewal of a lease by any other operation.
LEMMA RenewQuiet ==
  ASSUME NEW s, Shape(s), StateInv(s), NEW c \in Client,
         NEW t, t = [s EXCEPT !.lease[c] = "live"]
  PROVE  Quiet(s, t) /\ t.file = s.file /\ t.life = s.life
  <1>1. /\ Shape(t) /\ StateInv(t) /\ Keeps(s, t)
        /\ t.info = s.info /\ t.file = s.file /\ t.life = s.life /\ t.up = s.up
        /\ t.state = s.state /\ t.next_id = s.next_id
    BY RenewKeeps
  <1>2. LocksStep(s, t)
    BY <1>1 DEF LocksStep
  <1> QED BY <1>1, <1>2, SameStates DEF Quiet

\* fattr4_lease_time passes.
LEMMA ExpireQuiet ==
  ASSUME NEW s, Shape(s), StateInv(s), NEW c \in Client, s.life[c] < MaxLives,
         NEW t, t = [s EXCEPT !.lease[c] = "expired"]
  PROVE  Quiet(s, t)
  <1>1. s \in Server /\ s.lease \in [Client -> {"live", "expired"}]
    BY ServerFields DEF Shape
  <1>2. /\ t.info = s.info /\ t.file = s.file /\ t.life = s.life /\ t.up = s.up
        /\ t.state = s.state /\ t.next_id = s.next_id
        /\ t.lease = [s.lease EXCEPT ![c] = "expired"]
        /\ t \in Server
    BY <1>1 DEF Server
  <1>3. \A k : Live(t, k) <=> Live(s, k)
    BY <1>2 DEF Live
  <1>4. Renewing(t)
    <2>1. s.life[c] # MaxLives
      BY <1>1, ServerFields, Keys
    <2> QED BY <1>1, <1>2, <2>1 DEF StateInv, Renewing
  <1>5. Shape(t)
    BY <1>2 DEF Shape, WholeLocks, Numbered
  <1>6. StateInv(t)
    <2>1. Numbered(t) /\ OpenStates(t) /\ Known(t)
      BY <1>2 DEF StateInv, Numbered, OpenStates, Known
    <2>2. OwnIds(t)
      BY <1>2, <1>3 DEF StateInv, OwnIds
    <2>3. Held(t)
      BY <1>2, <1>3 DEF StateInv, Held
    <2>4. Openers(t) /\ Unused(t) /\ Siblings(t)
      BY <1>2, OwnersAlike
    <2> QED BY <1>4, <2>1, <2>2, <2>3, <2>4 DEF StateInv
  <1>7. Keeps(s, t)
    BY <1>1, <1>2, <1>3, ServerFields DEF Keeps, LockHolder
  <1>8. LocksStep(s, t)
    BY <1>2 DEF LocksStep
  <1> QED BY <1>2, <1>5, <1>6, <1>7, <1>8, SameStates DEF Quiet

\* op_lockt: its owner becomes known and gets an id, before the file's locks are tested.
LEMMA LocktQuiet ==
  ASSUME NEW s, Shape(s), StateInv(s), s.next_id <= MaxId, NEW l \in LockOwner, NEW type,
         NEW key, key = Current(s, l), NEW t \in TestLock(WithId(s, key), {IdOf(s, key)}, type)
  PROVE  Quiet(s, t.s)
  <1> DEFINE u == WithId(s, key)
  <1>1. s \in Server /\ key \in LockKey /\ Live(s, key) /\ key \in Key /\ key \notin OpenKey
    <2>1. s \in Server
      BY DEF Shape
    <2> QED BY <2>1, CurrentKey, Keys
  <1>2. u = WithId(s, key)
    OBVIOUS
  <1> HIDE DEF u
  <1>3. /\ Shape(u) /\ StateInv(u) /\ Keeps(s, u)
        /\ u.file = s.file /\ u.life = s.life /\ u.up = s.up
        /\ \A k \in Key : /\ u.info[k].cached = s.info[k].cached
                          /\ u.info[k].lastseqid = s.info[k].lastseqid
                          /\ u.info[k].confirmed = s.info[k].confirmed
        /\ \A i \in Id : s.state[i] # NoState => u.state[i] = s.state[i]
    BY <1>1, <1>2, WithIdKeeps
  <1>4. Quiet(s, u)
    <2>1. LocksStep(s, u)
      BY <1>3 DEF LocksStep
    <2>2. \A k \in Key : StatesStay(s, u, k)
      BY <1>3, StateFacts, Keys DEF StatesStay
    <2> QED BY <1>3, <2>1, <2>2 DEF Quiet
  <1>5. Quiet(u, t.s)
    BY <1>2, <1>3, TestLockQuiet
  <1> QED BY <1>1, <1>3, <1>4, <1>5, QuietOn

\* check_read and check_write: a renewal and a test of the locks.
LEMMA ReadWriteQuiet ==
  ASSUME NEW s, Shape(s), StateInv(s), NEW id \in Id, s.state[id].owner # <<>>,
         NEW t, \/ t = Renewed(s, id)
                \/ \E ids, type : \E x \in TestLock(Renewed(s, id), ids, type) : t = x.s
  PROVE  Quiet(s, t)
  <1> DEFINE u == Renewed(s, id)
             c == Holder(s.state[id].owner)
  <1>1. s \in Server
    BY DEF Shape
  <1>2. c \in Client
    <2>1. s.state[id] # NoState
      BY StateFacts
    <2> QED BY <2>1, Keys DEF Shape, Numbered
  <1>3. u = [s EXCEPT !.lease[c] = "live"]
    BY DEF Renewed
  <1> HIDE DEF u, c
  <1>4. Quiet(s, u) /\ u.file = s.file /\ u.life = s.life
    BY <1>2, <1>3, RenewQuiet
  <1>5. CASE t = u
    BY <1>4, <1>5
  <1>6. ASSUME NEW ids, NEW type, NEW x \in TestLock(u, ids, type), t = x.s
        PROVE  Quiet(s, t)
    <2>1. Quiet(u, t)
      BY <1>4, <1>6, TestLockQuiet DEF Quiet
    <2> QED BY <1>1, <1>4, <2>1, QuietOn
  <1>7. t = u \/ \E ids, type : \E x \in TestLock(u, ids, type) : t = x.s
    BY DEF u
  <1> QED BY <1>5, <1>6, <1>7
-----------------------------------------------------------------------------
(* The invariant *)

\* A new server and new clients.
LEMMA InitServerInv == Init => ServerInv
  <1> SUFFICES ASSUME Init PROVE ServerInv
    OBVIOUS
  <1>1. /\ srv.file = F!NewFile /\ srv.state = [id \in Id |-> NoState]
        /\ srv.info = [k \in Key |-> NewOwner] /\ srv.life = [c \in Client |-> 0]
        /\ srv.lease = [c \in Client |-> "live"] /\ srv.next_id = 2 /\ srv.up = "up"
        /\ srv = [file |-> srv.file, state |-> srv.state, info |-> srv.info,
                  life |-> srv.life, lease |-> srv.lease, next_id |-> srv.next_id,
                  up |-> srv.up]
    BY DEF Init, Key
  <1>2. /\ F!NewFile \in F!File /\ \A id \in Id : F!NewFile.locks[id] = {} /\
                                                 F!NewFile.shares[id] = F!NoShare
    BY DEF F!NewFile, F!File, F!Mode, F!Bits, F!Share, F!NoShare
  <1>3. /\ NewOwner \in Info /\ NewOwner.id = 0 /\ NewOwner.lastseqid = -1
        /\ NewOwner.openid = 0 /\ ~NewOwner.confirmed /\ NewOwner.cached = <<>>
    BY StateFacts DEF NewOwner
  <1>4. /\ \A id \in Id : srv.state[id] = NoState
        /\ \A k \in Key : srv.info[k] = NewOwner
        /\ \A c \in Client : srv.life[c] = 0 /\ srv.lease[c] = "live"
    BY <1>1
  <1>5. srv \in Server
    <2>1. 2 \in 2..MaxId + 1
      BY ServerAssumption
    <2>2. srv.state \in [Id -> State] /\ srv.info \in [Key -> Info]
      BY <1>1, <1>3, StateFacts
    <2>3. srv.life \in [Client -> 0..MaxLives]
      <3>1. 0 \in 0..MaxLives
        BY Keys
      <3> QED BY <1>1, <3>1
    <2> QED BY <1>1, <1>2, <2>1, <2>2, <2>3 DEF Server
  <1>6. Shape(srv)
    BY <1>1, <1>2, <1>4, <1>5 DEF Shape, WholeLocks, Numbered
  <1>7. StateInv(srv)
    <2>1. Numbered(srv) /\ OwnIds(srv) /\ OpenStates(srv) /\ Known(srv)
      BY <1>3, <1>4 DEF Numbered, OwnIds, OpenStates, Known
    <2>2. Held(srv) /\ Renewing(srv)
      BY <1>1, <1>2 DEF Held, Renewing
    <2>3. Openers(srv) /\ Unused(srv) /\ Siblings(srv)
      <3>1. NewOwner.lockowners = <<>>
        BY DEF NewOwner
      <3> QED BY <1>3, <1>4, <3>1, Keys, SMTT(30) DEF Openers, Unused, Siblings, Ours
    <2> QED BY <2>1, <2>2, <2>3 DEF StateInv
  <1>8. Started(srv) /\ Repeatable(srv)
    BY <1>3, <1>4, Keys DEF Started, Repeatable
  <1>9. /\ sent = {} /\ \A c \in Client : /\ client[c] \in Believed /\ client[c].pending = <<>>
                                          /\ client[c].opened = NoStateid
                                          /\ \A l \in LockOwner :
                                               client[c].locks[l].stateid = NoStateid
        /\ client \in [Client -> Believed]
    <2>1. 0 \in Seqid /\ NoStateid \in Stateid
      BY ServerAssumption, OutcomeFields DEF Seqid
    <2>2. /\ Unlocked \in [LockOwner -> [stateid : Stateid, seqid : Seqid]]
          /\ \A l \in LockOwner : Unlocked[l].stateid = NoStateid
      BY <2>1 DEF Unlocked
    <2>3. sent = {} /\ client = [c \in Client |->
                         [seqid |-> 0, count |-> 0, pending |-> <<>>,
                          opened |-> NoStateid, confirmed |-> FALSE, locks |-> Unlocked]]
      BY DEF Init
    <2> QED BY <2>1, <2>2, <2>3 DEF Believed
  <1>10. Typed
    BY <1>6, <1>9 DEF Typed
  <1>11. Remembered(srv, client, sent)
    BY <1>8, <1>9, Keys DEF Remembered, Owns
  <1> QED BY <1>7, <1>8, <1>10, <1>11 DEF ServerInv

\* A step that leaves the clients and the requests alone, and the owners' numbers.
LEMMA QuietKeepsInv ==
  ASSUME ServerInv, srv.up = "up", Quiet(srv, srv'), UNCHANGED <<sent, client>>
  PROVE  ServerInv' /\ LocksStep(srv, srv')
  <1>1. /\ Shape(srv) /\ StateInv(srv) /\ Started(srv) /\ Remembered(srv, client, sent)
        /\ srv \in Server /\ srv' \in Server
    BY DEF ServerInv, Typed, Quiet, Shape
  <1>2. /\ \A id, c : OpenKnown(srv, id, c) => OpenKnown(srv', id, c)
        /\ \A id, l : LockKnown(srv, id, l) => LockKnown(srv', id, l)
    BY <1>1, ToldStays DEF Quiet
  <1>3. \A k \in Key : /\ srv'.info[k].cached = srv.info[k].cached
                       /\ srv'.info[k].lastseqid = srv.info[k].lastseqid
                       /\ srv'.info[k].confirmed = srv.info[k].confirmed
    BY DEF Quiet
  <1>4. Started(srv')
    BY <1>1, <1>3 DEF Started
  <1>5. \A r, a : Promised(srv, r, a) => Promised(srv', r, a)
    BY <1>2 DEF Promised
  <1>6. \A r : Asked(srv, r) => Asked(srv', r)
    BY <1>2 DEF Asked
  <1>7. Repeatable(srv')
    BY <1>1, <1>3, <1>5 DEF Remembered, Repeatable
  <1>8. Remembered(srv', client, sent)
    BY <1>1, <1>2, <1>6, <1>7 DEF Remembered
  <1>9. Typed'
    <2>1. Shape(srv)'
      BY DEF Quiet
    <2> QED BY <2>1 DEF ServerInv, Typed
  <1> QED BY <1>4, <1>8, <1>9 DEF ServerInv, Quiet
-----------------------------------------------------------------------------
(* The steps *)

\* What open_file, confirm, close_file, lock_file, relock_file and unlock_file ask for.
LEMMA RequestsKnown ==
  ASSUME Typed, NEW c \in Client, NEW r \in Requests(c)
  PROVE  /\ r \in Request /\ r.client = c
         /\ srv.up = "up" /\ Remembered(srv, client, sent) => Asked(srv, r)
         /\ \/ r.seqid = client[c].seqid
            \/ \E l \in LockOwner : r.seqid = client[c].locks[l].seqid
  <1> DEFINE k == client[c]
             free == {l \in Owns(c) : k.locks[l].stateid = NoStateid}
             ask(op, stateid, seqid, owner, type) ==
               [op |-> op, client |-> c, stateid |-> stateid, seqid |-> seqid,
                owner |-> owner, type |-> type]
  <1>1. /\ k.seqid \in Seqid /\ k.opened \in Stateid
        /\ \A l \in LockOwner : k.locks[l].stateid \in Stateid /\ k.locks[l].seqid \in Seqid
    <2>1. k \in Believed
      BY DEF Typed
    <2> QED BY <2>1 DEF Believed
  <1>2. \/ r \in {[op |-> "OPEN", client |-> c, seqid |-> k.seqid, shares |-> shares]
                  : shares \in Shares}
        \/ k.opened # NoStateid /\ \E op \in {"OPEN_CONFIRM", "CLOSE"} :
             r = ask(op, k.opened, k.seqid, c, "none")
        \/ k.opened # NoStateid /\ \E l \in Owns(c), type \in LockType :
             r = ask("LOCK_NEW", k.opened, k.seqid, l, type)
        \/ \E l \in Owns(c) \ free, type \in LockType :
             r = ask("LOCK", k.locks[l].stateid, k.locks[l].seqid, l, type)
        \/ \E l \in Owns(c) \ free :
             r = ask("LOCKU", k.locks[l].stateid, k.locks[l].seqid, l, "none")
    BY DEF Requests
  <1>3. ASSUME NEW op \in {"OPEN_CONFIRM", "CLOSE", "LOCK_NEW", "LOCK", "LOCKU"},
               NEW stateid \in Stateid, NEW seqid \in Seqid, NEW owner \in Client \cup LockOwner,
               NEW type \in LockType \cup {"none"}, r = ask(op, stateid, seqid, owner, type)
        PROVE  /\ r \in Request /\ r.client = c /\ r.op = op /\ r.stateid = stateid
               /\ r.seqid = seqid /\ r.owner = owner /\ r.type = type
    <2>1. r \in StateRequest
      BY <1>3 DEF StateRequest
    <2> QED BY <1>3, <2>1 DEF Request
  <1> HIDE DEF ask
  <1>4. Remembered(srv, client, sent) =>
          /\ k.opened # NoStateid => OpenKnown(srv, k.opened.id, c)
          /\ \A l \in Owns(c) \ free : LockKnown(srv, k.locks[l].stateid.id, l)
    BY DEF Remembered
  <1>5. CASE r \in {[op |-> "OPEN", client |-> c, seqid |-> k.seqid, shares |-> shares]
                    : shares \in Shares}
    <2>1. r \in OpenRequest /\ r.client = c /\ r.seqid = k.seqid /\ r.op = "OPEN"
      BY <1>1, <1>5 DEF OpenRequest
    <2> QED BY <2>1 DEF Request, Asked
  <1>6. ASSUME k.opened # NoStateid, NEW op \in {"OPEN_CONFIRM", "CLOSE"},
               r = ask(op, k.opened, k.seqid, c, "none")
        PROVE  /\ r \in Request /\ r.client = c /\ r.seqid = k.seqid
               /\ Remembered(srv, client, sent) => Asked(srv, r)
    <2>1. /\ r \in Request /\ r.client = c /\ r.op = op /\ r.stateid = k.opened
          /\ r.seqid = k.seqid
      BY <1>1, <1>3, <1>6
    <2> QED BY <1>4, <1>6, <2>1 DEF Asked
  <1>7. ASSUME k.opened # NoStateid, NEW l \in Owns(c), NEW type \in LockType,
               r = ask("LOCK_NEW", k.opened, k.seqid, l, type)
        PROVE  /\ r \in Request /\ r.client = c /\ r.seqid = k.seqid
               /\ Remembered(srv, client, sent) => Asked(srv, r)
    <2>1. l \in Client \cup LockOwner /\ type \in LockType \cup {"none"}
      BY DEF Owns
    <2>2. /\ r \in Request /\ r.client = c /\ r.op = "LOCK_NEW" /\ r.stateid = k.opened
          /\ r.seqid = k.seqid /\ r.owner = l /\ r.type = type
      BY <1>1, <1>3, <1>7, <2>1
    <2> QED BY <1>4, <1>7, <2>2 DEF Asked
  <1>8. ASSUME NEW l \in Owns(c) \ free, NEW op \in {"LOCK", "LOCKU"},
               NEW type \in LockType \cup {"none"}, op = "LOCK" => type \in LockType,
               r = ask(op, k.locks[l].stateid, k.locks[l].seqid, l, type)
        PROVE  /\ r \in Request /\ r.client = c /\ l \in LockOwner
               /\ r.seqid = k.locks[l].seqid
               /\ Remembered(srv, client, sent) => Asked(srv, r)
    <2>1. l \in Client \cup LockOwner /\ l \in LockOwner /\ l \in Owns(c)
      BY DEF Owns
    <2>2. /\ r \in Request /\ r.client = c /\ r.op = op
          /\ r.stateid = k.locks[l].stateid
          /\ r.seqid = k.locks[l].seqid /\ r.owner = l /\ r.type = type
      BY <1>1, <1>3, <1>8, <2>1
    <2> QED BY <1>4, <1>8, <2>1, <2>2 DEF Asked
  <1> HIDE DEF k, free
  <1> QED BY <1>2, <1>5, <1>6, <1>7, <1>8 DEF k

\* A request is sent: the server has not heard of it yet.
LEMMA SendKeeps ==
  ASSUME ServerInv, NEW c \in Client, Send(c)
  PROVE  ServerInv' /\ LocksStep(srv, srv')
  <1>1. Typed /\ client \in [Client -> Believed]
    BY DEF ServerInv, Typed
  <1>2. PICK r \in Requests(c) :
          /\ sent' = sent \cup {r}
          /\ client' = [client EXCEPT ![c].pending = <<r>>, ![c].count = @ + 1]
    BY DEF Send
  <1>3. /\ r \in Request /\ r.client = c
        /\ srv.up = "up" /\ Remembered(srv, client, sent) => Asked(srv, r)
    BY <1>1, RequestsKnown
  <1> DEFINE n == [client[c] EXCEPT !.pending = <<r>>, !.count = @ + 1]
  <1>4. /\ n \in Believed /\ n.pending = <<r>> /\ n.opened = client[c].opened
        /\ n.locks = client[c].locks
    <2> DEFINE k == client[c]
               asked == <<r>>
               count == k.count + 1
    <2>1. k \in Believed
      BY <1>1
    <2>2. asked \in {<<>>} \cup {<<x>> : x \in Request} /\ count \in Nat
      BY <1>3, <2>1 DEF Believed
    <2>3. n = [k EXCEPT !.pending = asked, !.count = count]
      OBVIOUS
    <2>4. asked = <<r>>
      OBVIOUS
    <2> HIDE DEF asked, count, n, k
    <2>5. n \in Believed /\ n.pending = <<r>> /\ n.opened = k.opened /\ n.locks = k.locks
      BY <2>1, <2>2, <2>3, <2>4 DEF Believed
    <2> QED BY <2>5 DEF k
  <1>5. client' = [client EXCEPT ![c] = n]
    BY <1>1, <1>2
  <1> HIDE DEF n
  <1>6. client'[c] = n /\ \A d \in Client : d # c => client'[d] = client[d]
    BY <1>1, <1>5
  <1>7. srv' = srv
    BY DEF Send
  <1>8. Typed'
    <2>1. client' \in [Client -> Believed] /\ sent' \subseteq Request
      <3>1. sent' \subseteq Request
        BY <1>1, <1>2, <1>3 DEF Typed
      <3> QED BY <1>1, <1>4, <1>5, <3>1
    <2>2. ASSUME NEW d \in Client, client'[d].pending # <<>>
          PROVE  client'[d].pending[1] \in sent' /\ client'[d].pending[1].client = d
      <3>1. CASE d = c
        <4>1. client'[d].pending[1] = r
          BY <1>4, <1>6, <3>1
        <4> QED BY <1>2, <1>3, <3>1, <4>1
      <3>2. CASE d # c
        BY <1>1, <1>2, <1>6, <2>2, <3>2 DEF Typed
      <3> QED BY <3>1, <3>2
    <2>3. Shape(srv)'
      BY <1>1, <1>7 DEF Typed
    <2> QED BY <2>1, <2>2, <2>3 DEF Typed
  <1>9. ASSUME srv.up = "up"
        PROVE  StateInv(srv) /\ Started(srv) /\ Remembered(srv, client', sent')
    <2>1. StateInv(srv) /\ Started(srv) /\ Remembered(srv, client, sent)
      BY <1>9 DEF ServerInv
    <2>2. ASSUME NEW d \in Client
          PROVE  client'[d].opened = client[d].opened /\ client'[d].locks = client[d].locks
      BY <1>4, <1>6
    <2> QED BY <1>2, <1>3, <1>9, <2>1, <2>2 DEF Remembered
  <1> QED BY <1>7, <1>8, <1>9 DEF ServerInv, LocksStep

\* op_renew renews the lease and does nothing else.
LEMMA RENEWSteps ==
  ASSUME ServerInv, srv.up = "up", NEW c \in Client, RENEW(c)
  PROVE  Quiet(srv, srv')
  <1>1. Shape(srv) /\ StateInv(srv) /\ srv \in Server /\ Remembered(srv, client, sent)
    BY DEF ServerInv, Typed, Shape
  <1> QED BY <1>1, RenewQuiet DEF RENEW

\* op_lockt tests the locks for an owner that holds none.
LEMMA LOCKTSteps ==
  ASSUME ServerInv, srv.up = "up", NEW l \in LockOwner, NEW type \in LockType, LOCKT(l, type)
  PROVE  Quiet(srv, srv')
  <1>1. Shape(srv) /\ StateInv(srv) /\ srv \in Server /\ Remembered(srv, client, sent)
    BY DEF ServerInv, Typed, Shape
  <1> DEFINE key == Current(srv, l)
  <1>2. /\ srv.next_id <= MaxId
        /\ \E t \in TestLock(WithId(srv, key), {IdOf(srv, key)}, type) : srv' = t.s
    BY DEF LOCKT
  <1>3. key = Current(srv, l)
    OBVIOUS
  <1> HIDE DEF key
  <1>4. PICK t \in TestLock(WithId(srv, key), {IdOf(srv, key)}, type) : srv' = t.s
    BY <1>2
  <1>5. Quiet(srv, t.s)
    BY <1>1, <1>2, <1>3, LocktQuiet
  <1> QED BY <1>4, <1>5

\* The lease time of a client passes.
LEMMA ExpireSteps ==
  ASSUME ServerInv, srv.up = "up", NEW c \in Client, Expire(c)
  PROVE  Quiet(srv, srv')
  <1>1. Shape(srv) /\ StateInv(srv) /\ srv \in Server /\ Remembered(srv, client, sent)
    BY DEF ServerInv, Typed, Shape
  <1>2. srv.life[c] < MaxLives /\ srv' = [srv EXCEPT !.lease[c] = "expired"]
    BY DEF Expire
  <1> QED BY <1>1, <1>2, ExpireQuiet

\* op_read, op_write and op_setattr with the stateid of an open or of a lock.
LEMMA ReadWriteSteps ==
  ASSUME ServerInv, srv.up = "up", NEW c \in Client, NEW mode,
         NEW st \in {client[c].opened} \cup {client[c].locks[l].stateid : l \in Owns(c)},
         ReadWrite(c, st, mode)
  PROVE  Quiet(srv, srv')
  <1>1. Shape(srv) /\ StateInv(srv) /\ srv \in Server /\ Remembered(srv, client, sent)
    BY DEF ServerInv, Typed, Shape
  <1>2. st.id # 0 /\ srv.state[st.id].owner # <<>>
    BY DEF ReadWrite
  <1>3. st # NoStateid
    BY <1>2 DEF NoStateid
  <1>4. st.id \in Id
    <2>1. CASE st = client[c].opened
      BY <1>1, <1>3, <2>1 DEF Remembered, OpenKnown
    <2>2. CASE \E l \in Owns(c) : st = client[c].locks[l].stateid
      BY <1>1, <1>3, <2>2 DEF Remembered, LockKnown
    <2> QED BY <2>1, <2>2
  <1>5. \/ srv' = Renewed(srv, st.id)
        \/ \E ids, type : \E x \in TestLock(Renewed(srv, st.id), ids, type) : srv' = x.s
    <2> DEFINE key == srv.state[st.id].owner
               openid == IF key[1] \in LockOwner THEN srv.info[key].openid ELSE st.id
               opener == srv.info[key].lockowners
               tested == IF openid # st.id THEN {st.id}
                         ELSE {srv.info[opener[i]].id :
                               i \in {i \in 1..Len(opener) : srv.info[opener[i]].openid = openid}}
               access == F!To2(srv.file.shares[openid].access)
               renewed == Renewed(srv, st.id)
    <2>1. IF mode \in access /\ mode \notin srv.file.deny
          THEN \E x \in TestLock(renewed, tested, mode) : srv' = x.s
          ELSE srv' = renewed
      BY DEF ReadWrite
    <2> HIDE DEF renewed, access, tested
    <2>2. \/ srv' = renewed
          \/ \E ids, type : \E x \in TestLock(renewed, ids, type) : srv' = x.s
      BY <2>1, Zenon
    <2> QED BY <2>2 DEF renewed
  <1> QED BY <1>1, <1>2, <1>4, <1>5, ReadWriteQuiet

\* A request, or a late copy of one, is handled, and its answer may reach the client.
LEMMA DeliverKeeps ==
  ASSUME ServerInv, NEW r \in sent, Deliver(r)
  PROVE  ServerInv' /\ LocksStep(srv, srv')
  <1>1. /\ srv.up = "up" /\ srv.next_id <= MaxId /\ Typed /\ Shape(srv) /\ StateInv(srv)
        /\ Started(srv) /\ Remembered(srv, client, sent) /\ Repeatable(srv)
        /\ r \in Request /\ Asked(srv, r) /\ client \in [Client -> Believed]
        /\ srv \in Server
    BY DEF Deliver, ServerInv, Typed, Remembered, Shape
  <1>2. PICK o \in Handle(srv, r) :
          /\ srv' = o.s
          /\ \/ client' = client
             \/ /\ client[r.client].pending = <<r>> /\ o.s.up = "up"
                /\ LET owner == Current(o.s, r.client)
                       told == [status |-> o.status, stateid |-> o.stateid,
                                confirmed |-> o.s.info[owner].confirmed]
                   IN client' = [client EXCEPT ![r.client] = Learn(@, r, told)]
    BY DEF Deliver
  <1>3. Handled(srv, r, o)
    BY <1>1, HandleAnswers
  <1>4. /\ Shape(srv') /\ srv' \in Server /\ o.stateid \in Stateid /\ LocksStep(srv, srv')
        /\ srv'.up = "up" => /\ StateInv(srv') /\ Started(srv') /\ Repeatable(srv')
                             /\ Keeps(srv, srv') /\ Promised(srv', r, o)
    BY <1>2, <1>3 DEF Handled, Shape
  <1>5. sent' = sent
    BY DEF Deliver
  <1>6. r.client \in Client /\ r.op \in {"OPEN", "OPEN_CONFIRM", "CLOSE", "LOCK_NEW", "LOCK", "LOCKU"}
    BY <1>1 DEF Request, OpenRequest, StateRequest
  <1>7. ASSUME srv'.up = "up"
        PROVE  /\ \A id, c : OpenKnown(srv, id, c) => OpenKnown(srv', id, c)
               /\ \A id, l : LockKnown(srv, id, l) => LockKnown(srv', id, l)
    BY <1>1, <1>4, <1>7, ToldStays
  <1>8. Shape(srv)'
    BY <1>4
  <1>9. ASSUME srv'.up = "up", \A c \in Client :
                 /\ client'[c].opened # NoStateid => OpenKnown(srv', client'[c].opened.id, c)
                 /\ \A l \in Owns(c) : client'[c].locks[l].stateid # NoStateid =>
                      LockKnown(srv', client'[c].locks[l].stateid.id, l)
        PROVE  Remembered(srv', client', sent')
    <2>1. \A q \in sent : Asked(srv', q)
      BY <1>1, <1>7, <1>9 DEF Remembered, Asked
    <2> QED BY <1>4, <1>5, <1>9, <2>1 DEF Remembered
  <1>10. CASE client' = client
    <2>1. Typed'
      BY <1>1, <1>5, <1>8, <1>10 DEF Typed
    <2>2. ASSUME srv'.up = "up"
          PROVE  Remembered(srv', client', sent')
      BY <1>1, <1>7, <1>9, <1>10, <2>2 DEF Remembered
    <2> QED BY <1>4, <2>1, <2>2 DEF ServerInv
  <1>11. CASE client' # client
    <2> DEFINE k == client[r.client]
               told == [status |-> o.status, stateid |-> o.stateid,
                        confirmed |-> o.s.info[Current(o.s, r.client)].confirmed]
               n == Learn(k, r, told)
    <2>1. srv'.up = "up" /\ client' = [client EXCEPT ![r.client] = n]
      BY <1>2, <1>11
    <2>2. /\ told.status = o.status /\ told.stateid = o.stateid /\ told.stateid \in Stateid
          /\ told.confirmed \in BOOLEAN
      <3>1. Current(o.s, r.client) \in Key /\ o.s.info \in [Key -> Info]
        BY <1>2, <1>4, <1>6, CurrentKey, ServerFields, Keys
      <3> QED BY <1>4, <3>1 DEF Info
    <2>3. r.op \in {"LOCK_NEW", "LOCK", "LOCKU"} => r.owner \in LockOwner
      BY <1>1 DEF Asked, Owns
    <2>4. n = Learn(k, r, told) /\ k \in Believed
      BY <1>1, <1>6
    <2> HIDE DEF n, told
    <2>5. /\ n \in Believed /\ n.pending = <<>>
          /\ \/ n.opened \in {k.opened, NoStateid}
             \/ /\ told.status = "OK" /\ r.op \in {"OPEN", "OPEN_CONFIRM"}
                /\ n.opened = told.stateid
          /\ \A l \in LockOwner :
               \/ n.locks[l].stateid \in {k.locks[l].stateid, NoStateid}
               \/ /\ told.status = "OK" /\ r.op \in {"LOCK_NEW", "LOCK", "LOCKU"}
                  /\ l = r.owner /\ n.locks[l].stateid = told.stateid
      <3> HIDE DEF k
      <3> QED BY <1>1, <2>2, <2>3, <2>4, LearnFields
    <2>6. client'[r.client] = n /\ \A c \in Client : c # r.client => client'[c] = client[c]
      BY <1>1, <1>6, <2>1
    <2>7. Typed'
      <3>1. client' \in [Client -> Believed]
        BY <1>1, <2>1, <2>5
      <3>2. \A c \in Client : client'[c].pending # <<>> =>
              client'[c].pending[1] \in sent' /\ client'[c].pending[1].client = c
        BY <1>1, <1>5, <2>5, <2>6 DEF Typed
      <3> QED BY <1>1, <1>5, <1>8, <3>1, <3>2 DEF Typed
    <2>8. Promised(srv', r, o)
      BY <1>4, <2>1
    <2>9. ASSUME NEW c \in Client
          PROVE  /\ client'[c].opened # NoStateid => OpenKnown(srv', client'[c].opened.id, c)
                 /\ \A l \in Owns(c) : client'[c].locks[l].stateid # NoStateid =>
                      LockKnown(srv', client'[c].locks[l].stateid.id, l)
      <3>1. /\ client[c].opened # NoStateid => OpenKnown(srv', client[c].opened.id, c)
            /\ \A l \in Owns(c) : client[c].locks[l].stateid # NoStateid =>
                 LockKnown(srv', client[c].locks[l].stateid.id, l)
        BY <1>1, <1>7, <2>1 DEF Remembered
      <3>2. CASE c # r.client
        BY <2>6, <3>1, <3>2
      <3>3. CASE c = r.client
        <4>1. n.opened # NoStateid => OpenKnown(srv', n.opened.id, c)
          BY <2>2, <2>5, <2>8, <3>1, <3>3 DEF Promised
        <4>2. ASSUME NEW l \in Owns(c), n.locks[l].stateid # NoStateid
              PROVE  LockKnown(srv', n.locks[l].stateid.id, l)
          <5>1. l \in LockOwner
            BY DEF Owns
          <5> QED BY <2>2, <2>5, <2>8, <3>1, <3>3, <4>2, <5>1 DEF Promised
        <4> QED BY <2>6, <3>3, <4>1, <4>2
      <3> QED BY <3>2, <3>3
    <2>10. Remembered(srv', client', sent')
      BY <1>9, <2>1, <2>9
    <2> QED BY <1>4, <2>1, <2>7, <2>10 DEF ServerInv
  <1> QED BY <1>10, <1>11

\* Every step of the server and its clients.
LEMMA NextKeeps ==
  ASSUME ServerInv, [Next]_vars
  PROVE  ServerInv' /\ LocksStep(srv, srv')
  <1>1. ASSUME NEW r \in sent, Deliver(r)
        PROVE  ServerInv' /\ LocksStep(srv, srv')
    BY <1>1, DeliverKeeps
  <1>2. ASSUME NEW l \in LockOwner, NEW type \in LockType, LOCKT(l, type)
        PROVE  ServerInv' /\ LocksStep(srv, srv')
    <2>1. srv.up = "up" /\ UNCHANGED <<sent, client>>
      BY <1>2 DEF LOCKT
    <2> QED BY <1>2, <2>1, LOCKTSteps, QuietKeepsInv
  <1>3. ASSUME NEW c \in Client, Send(c)
        PROVE  ServerInv' /\ LocksStep(srv, srv')
    BY <1>3, SendKeeps
  <1>4. ASSUME NEW c \in Client, RENEW(c)
        PROVE  ServerInv' /\ LocksStep(srv, srv')
    <2>1. srv.up = "up" /\ UNCHANGED <<sent, client>>
      BY <1>4 DEF RENEW
    <2> QED BY <1>4, <2>1, RENEWSteps, QuietKeepsInv
  <1>5. ASSUME NEW c \in Client, Expire(c)
        PROVE  ServerInv' /\ LocksStep(srv, srv')
    <2>1. srv.up = "up" /\ UNCHANGED <<sent, client>>
      BY <1>5 DEF Expire
    <2> QED BY <1>5, <2>1, ExpireSteps, QuietKeepsInv
  <1>6. ASSUME NEW c \in Client, NEW mode,
               NEW st \in {client[c].opened} \cup {client[c].locks[l].stateid : l \in Owns(c)},
               ReadWrite(c, st, mode)
        PROVE  ServerInv' /\ LocksStep(srv, srv')
    <2>1. srv.up = "up" /\ UNCHANGED <<sent, client>>
      BY <1>6 DEF ReadWrite
    <2>2. Quiet(srv, srv')
      BY <1>6, <2>1, ReadWriteSteps
    <2> QED BY <2>1, <2>2, QuietKeepsInv
  <1>7. ASSUME UNCHANGED vars
        PROVE  ServerInv' /\ LocksStep(srv, srv')
    <2>1. srv' = srv /\ sent' = sent /\ client' = client
      BY <1>7 DEF vars
    <2>2. Shape(srv)' /\ StateInv(srv') = StateInv(srv) /\ Started(srv') = Started(srv)
      BY <2>1 DEF ServerInv, Typed
    <2>3. Typed'
      BY <2>1, <2>2 DEF ServerInv, Typed
    <2> QED BY <2>1, <2>3 DEF ServerInv, LocksStep
  <1> QED BY <1>1, <1>2, <1>3, <1>4, <1>5, <1>6, <1>7 DEF Next

\* NFSServerState and its clients: whatever is sent, lost, resent and late, the entries of
\* owners, the states of ids and what is on the file belong together, and what the server
\* has told stays true of them.
THEOREM ServerInvariant == Spec => []ServerInv
  <1>1. ServerInv /\ [Next]_vars => ServerInv'
    BY NextKeeps
  <1> QED BY <1>1, InitServerInv, PTL DEF Spec
-----------------------------------------------------------------------------
(* What follows from the invariant *)

\* The memory of NFSServerState is well formed, and every state has an owner.
THEOREM Types == Spec => []TypeOK
  <1>1. ServerInv => TypeOK
    <2> SUFFICES ASSUME ServerInv PROVE TypeOK
      OBVIOUS
    <2>1. srv \in Server /\ Numbered(srv)
      BY DEF ServerInv, Typed, Shape
    <2>2. \A k \in Key : srv.info[k] \in Info
      BY <2>1, ServerFields
    <2>3. \A k \in Key : srv.info[k].lastseqid \in -1..SeqMod - 1 /\
                         srv.info[k].id \in Id \cup {0}
      BY <2>2 DEF Info
    <2> QED BY <2>1, <2>3, ServerFields DEF TypeOK, Numbered
  <1> QED BY <1>1, ServerInvariant, PTL

\* close, expiry and new_lockowner leave nothing on the file that its owner's files do not
\* lead to.
THEOREM OrphansNever == Spec => []NoOrphans
  <1>1. ServerInv => NoOrphans
    <2> SUFFICES ASSUME ServerInv, srv.up = "up", NEW id \in Id,
                        srv.file.locks[id] # {} \/ srv.file.shares[id] # F!NoShare,
                        NEW key, key = srv.state[id].owner
                 PROVE  /\ srv.state[id] # NoState /\ ~srv.state[id].closed
                        /\ srv.info[key].id = id /\ key[2] = srv.life[Holder(key)]
      BY DEF NoOrphans
    <2>1. Held(srv) /\ OwnIds(srv)
      BY DEF ServerInv, StateInv
    <2>2. key \in Key /\ Live(srv, key) /\ srv.info[key].id = id
      BY <2>1, Keys DEF Held
    <2>3. id # 0
      BY StateFacts
    <2>4. srv.state[id] # NoState /\ ~srv.state[id].closed
      BY <2>1, <2>2, <2>3 DEF OwnIds
    <2> QED BY <2>2, <2>4 DEF Live
  <1> QED BY <1>1, ServerInvariant, PTL

\* A copy of an OPEN that any number may start gets shares and no locks.
THEOREM LocksConfirmed == Spec => []LocksNeedConfirmation
  <1>1. ServerInv => LocksNeedConfirmation
    <2> SUFFICES ASSUME ServerInv, srv.up = "up", NEW id \in Id, srv.file.locks[id] # {},
                        NEW key, key = srv.state[id].owner
                 PROVE  srv.info[srv.state[srv.info[key].openid].owner].confirmed
      BY DEF LocksNeedConfirmation
    <2>1. Held(srv) /\ Openers(srv)
      BY DEF ServerInv, StateInv
    <2>2. key \in LockKey /\ Live(srv, key) /\ srv.info[key].confirmed
      BY <2>1 DEF Held
    <2> QED BY <2>1, <2>2 DEF Openers
  <1> QED BY <1>1, ServerInvariant, PTL

\* __testlock denies every lock that others hold something against, unless it removes the
\* state of an expired client.
THEOREM ConflictsOnlyByExpiry == Spec => ConflictOnlyByExpiry
  <1>1. ASSUME ServerInv, [Next]_vars, srv'.life = srv.life, NEW p \in Conflicting'
        PROVE  p \in Conflicting
    <2> DEFINE a == srv.file.locks
               b == srv'.file.locks
    <2>1. LocksStep(srv, srv') /\ WholeLocks(srv) /\ Shape(srv)
      BY <1>1, NextKeeps DEF ServerInv, Typed, Shape
    <2>2. /\ a \in [Id -> SUBSET F!LockInfo]
          /\ \A i \in Id : a[i] \subseteq Whole
      BY <2>1, ServerFields, FileFields DEF Shape, WholeLocks
    <2>3. p \in Id \X Id /\ p[1] # p[2]
      BY <1>1 DEF Conflicting
    <2>4. PICK l \in b[p[1]], m \in b[p[2]] :
            F!Overlaps(l, m.start, m.end) /\ ~(F!IsRead(l.type) /\ F!IsRead(m.type))
      BY <1>1 DEF Conflicting
    <2>5. \/ \A i \in Id : b[i] \subseteq a[i]
          \/ \E id \in Id, type \in LockType :
               /\ F!Conflicts(srv.file, {id}, type, 0, MaxByte) = {}
               /\ b = [a EXCEPT ![id] = {[type |-> type, start |-> 0, end |-> MaxByte]}]
      BY <1>1, <2>1 DEF LocksStep
    <2> HIDE DEF b
    <2>6. CASE l \in a[p[1]] /\ m \in a[p[2]]
      BY <2>3, <2>4, <2>6 DEF Conflicting
    <2>7. CASE ~(l \in a[p[1]] /\ m \in a[p[2]])
      <3>1. PICK id \in Id, type \in LockType :
              /\ F!Conflicts(srv.file, {id}, type, 0, MaxByte) = {}
              /\ b = [a EXCEPT ![id] = {[type |-> type, start |-> 0, end |-> MaxByte]}]
        BY <2>3, <2>4, <2>5, <2>7
      <3>2. ASSUME NEW j \in Id, j # id, NEW x \in a[j]
            PROVE  F!IsRead(type) /\ F!IsRead(x.type)
        <4>1. x.start = 0 /\ x.end = MaxByte
          BY <2>2 DEF Whole
        <4>2. F!Overlaps(x, 0, MaxByte)
          BY <4>1, ServerAssumption DEF F!Overlaps
        <4>3. F!Conflicts(srv.file, {id}, type, 0, MaxByte) =
                {i \in Id \ {id} : \E y \in a[i] :
                   F!Overlaps(y, 0, MaxByte) /\ (~F!IsRead(type) \/ ~F!IsRead(y.type))}
          BY DEF F!Conflicts
        <4> QED BY <3>1, <3>2, <4>2, <4>3
      <3>3. /\ b[id] = {[type |-> type, start |-> 0, end |-> MaxByte]}
            /\ \A i \in Id : i # id => b[i] = a[i]
        BY <2>2, <3>1
      <3> HIDE DEF a
      <3>4. CASE p[1] = id
        <4>1. l.type = type /\ m \in a[p[2]]
          BY <2>3, <2>4, <3>3, <3>4
        <4> QED BY <2>3, <2>4, <3>2, <3>4, <4>1
      <3>5. CASE p[2] = id
        <4>1. m.type = type /\ l \in a[p[1]]
          BY <2>3, <2>4, <3>3, <3>5
        <4> QED BY <2>3, <2>4, <3>2, <3>5, <4>1
      <3>6. CASE p[1] # id /\ p[2] # id
        BY <2>3, <2>4, <2>7, <3>3, <3>6
      <3> QED BY <3>4, <3>5, <3>6
    <2> QED BY <2>6, <2>7
  <1>2. ServerInv /\ [Next]_vars => [srv'.life = srv.life => Conflicting' \subseteq Conflicting]_vars
    BY <1>1
  <1> QED BY <1>2, ServerInvariant, PTL DEF Spec, ConflictOnlyByExpiry
-----------------------------------------------------------------------------
(* No request is carried out twice *)

\* The owner that a request goes by is one of the owners, or unknown; it is a lock owner
\* only for LOCK and LOCKU, which name a confirmed one.
LEMMA SequencerKnown ==
  ASSUME NEW s, Shape(s), NEW q \in Request, Asked(s, q),
         NEW k, k = Sequencer(s, q), k # <<>>
  PROVE  k \in Key /\ (k \in LockKey => s.info[k].confirmed)
  <1>1. q.op \in {"OPEN", "OPEN_CONFIRM", "CLOSE", "LOCK_NEW", "LOCK", "LOCKU"} /\ q.client \in Client
    BY DEF Request, OpenRequest, StateRequest
  <1>2. CASE q.op = "OPEN"
    <2>1. k \in OpenKey
      BY <1>1, <1>2, CurrentKey DEF Shape, Sequencer
    <2> QED BY <2>1, Keys
  <1>3. CASE q.op \in {"OPEN_CONFIRM", "CLOSE", "LOCK_NEW"}
    <2>1. OpenKnown(s, q.stateid.id, q.client)
      BY <1>3 DEF Asked
    <2>2. k = s.state[q.stateid.id].owner /\ s.state[q.stateid.id] # NoState
      BY <1>3, StateFacts DEF Sequencer
    <2>3. k \in OpenKey
      BY <2>1, <2>2 DEF OpenKnown
    <2> QED BY <2>3, Keys
  <1>4. CASE q.op \in {"LOCK", "LOCKU"}
    <2>1. LockKnown(s, q.stateid.id, q.owner)
      BY <1>4 DEF Asked
    <2>2. k = s.state[q.stateid.id].owner /\ s.state[q.stateid.id] # NoState
      BY <1>4, StateFacts DEF Sequencer
    <2>3. k \in LockKey /\ s.info[k].confirmed
      BY <2>1, <2>2 DEF LockKnown
    <2> QED BY <2>3, Keys
  <1> QED BY <1>1, <1>2, <1>3, <1>4

\* A number that was passed stays passed: the numbers of owners that are confirmed, or not
\* lock owners, only grow.
LEMMA PastKept ==
  ASSUME NEW s, Shape(s), NEW t \in Server, Keeps(s, t), NEW q \in Request, Asked(s, q),
         t.life[q.client] = s.life[q.client], Past(s, q),
         \A k \in Key : \/ s.info[k].lastseqid <= t.info[k].lastseqid
                        \/ k \in LockKey /\ ~s.info[k].confirmed
                        \/ s.info[k].lastseqid = -1
  PROVE  Past(t, q)
  <1> SUFFICES ASSUME NEW k, k = Sequencer(t, q), k # <<>>
               PROVE  q.seqid <= t.info[k].lastseqid
    BY DEF Past
  <1>1. k = Sequencer(s, q)
    BY SequencerKept
  <1>2. k \in Key /\ (k \in LockKey => s.info[k].confirmed)
    BY <1>1, SequencerKnown
  <1>3. q.seqid <= s.info[k].lastseqid
    BY <1>1 DEF Past
  <1>4. q.seqid \in 0..SeqMod - 1 /\ SeqMod \in Nat
    BY ServerAssumption DEF Request, OpenRequest, StateRequest, Seqid
  <1>5. s.info[k].lastseqid \in -1..SeqMod - 1 /\ t.info[k].lastseqid \in -1..SeqMod - 1
    BY <1>2, ServerFields DEF Shape, Info
  <1> QED BY <1>2, <1>3, <1>4, <1>5

\* An operation without a sequence number passes no number and carries nothing out.
LEMMA QuietNumbers ==
  ASSUME ServerInv, NumberInv, srv.up = "up", Quiet(srv, srv'),
         UNCHANGED <<sent, client, executed>>
  PROVE  NumberInv'
  <1>1. /\ Shape(srv) /\ Remembered(srv, client, sent) /\ srv \in Server /\ srv' \in Server
        /\ sent \subseteq Request /\ Keeps(srv, srv')
    BY DEF ServerInv, Typed, Quiet, Shape
  <1>2. \A k \in Key : srv'.info[k].lastseqid = srv.info[k].lastseqid
    BY DEF Quiet
  <1>3. \A k \in Key : srv.info[k].lastseqid \in Int
    BY <1>1, ServerFields DEF Info
  <1>4. ASSUME NEW e \in executed
        PROVE  /\ e.life <= srv'.life[e.req.client]
               /\ e.life = srv'.life[e.req.client] => Past(srv', e.req)
    <2>1. /\ e.req \in Request /\ Asked(srv, e.req) /\ e.life <= srv.life[e.req.client]
          /\ e.life = srv.life[e.req.client] => Past(srv, e.req)
          /\ e.life \in Nat
      BY <1>1 DEF NumberInv, Remembered
    <2>2. e.req.client \in Client
      BY <2>1 DEF Request, OpenRequest, StateRequest
    <2>3. /\ srv.life[e.req.client] \in Int /\ srv'.life[e.req.client] \in Int
          /\ srv.life[e.req.client] <= srv'.life[e.req.client]
      BY <1>1, <2>2, ServerFields, Keys DEF Keeps
    <2>4. e.life <= srv'.life[e.req.client]
      BY <2>1, <2>3
    <2>5. ASSUME e.life = srv'.life[e.req.client] PROVE Past(srv', e.req)
      <3>1. srv'.life[e.req.client] = srv.life[e.req.client] /\ Past(srv, e.req)
        BY <2>1, <2>3, <2>5
      <3> QED BY <1>1, <1>2, <1>3, <2>1, <3>1, PastKept
    <2> QED BY <2>4, <2>5
  <1> QED BY <1>2, <1>4 DEF NumberInv

\* A client's next request bears a number that is smaller than the count of its requests.
LEMMA SendNumbers ==
  ASSUME ServerInv, NumberInv, NEW c \in Client, Send(c)
  PROVE  NumberInv'
  <1>1. Typed /\ client \in [Client -> Believed]
    BY DEF ServerInv, Typed
  <1>2. PICK r \in Requests(c) :
          /\ sent' = sent \cup {r}
          /\ client' = [client EXCEPT ![c].pending = <<r>>, ![c].count = @ + 1]
    BY DEF Send
  <1>3. /\ r.client = c
        /\ \/ r.seqid = client[c].seqid
           \/ \E l \in LockOwner : r.seqid = client[c].locks[l].seqid
    BY <1>1, RequestsKnown
  <1> DEFINE k == client[c]
             n == [k EXCEPT !.pending = <<r>>, !.count = @ + 1]
  <1>4. client' = [client EXCEPT ![c] = n]
    BY <1>1, <1>2
  <1>5. /\ k.count \in Nat /\ k.seqid \in Nat /\ k.pending = <<>> /\ k.count < MaxSent[c]
        /\ \A l \in LockOwner : k.locks[l].seqid \in Nat
        /\ MaxSent[c] \in Nat
    BY <1>1, ServerAssumption DEF Send, Believed, Seqid
  <1>6. n.pending = <<r>> /\ n.count = k.count + 1 /\ n.seqid = k.seqid /\ n.locks = k.locks
    BY <1>1 DEF Believed
  <1>7. /\ k.seqid + Len(k.pending) <= k.count
        /\ \A l \in LockOwner : k.locks[l].seqid + Len(k.pending) <= k.count
    BY DEF NumberInv
  <1> HIDE DEF n
  <1>8. client'[c] = n /\ \A d \in Client : d # c => client'[d] = client[d]
    BY <1>1, <1>4
  <1>9. /\ k.seqid <= k.count /\ \A l \in LockOwner : k.locks[l].seqid <= k.count
    BY <1>5, <1>7
  <1>10. ASSUME NEW d \in Client
         PROVE  /\ client'[d].count <= MaxSent[d]
                /\ client'[d].seqid + Len(client'[d].pending) <= client'[d].count
                /\ \A l \in LockOwner :
                     client'[d].locks[l].seqid + Len(client'[d].pending) <= client'[d].count
    <2>1. CASE d # c
      BY <1>8, <2>1 DEF NumberInv
    <2>2. CASE d = c
      <3>1. Len(n.pending) = 1
        BY <1>6
      <3>2. client'[d] = n
        BY <1>8, <2>2
      <3>3. n.count <= MaxSent[c] /\ n.seqid + 1 <= n.count
        BY <1>5, <1>6, <1>9
      <3>4. ASSUME NEW l \in LockOwner
            PROVE  n.locks[l].seqid + 1 <= n.count
        <4>1. n.locks[l].seqid \in Nat /\ n.locks[l].seqid <= k.count
          BY <1>5, <1>6, <1>9
        <4> QED BY <1>5, <1>6, <4>1
      <3> QED BY <2>2, <3>1, <3>2, <3>3, <3>4
    <2> QED BY <2>1, <2>2
  <1>11. \A q \in sent' : q.seqid < MaxSent[q.client]
    <2>1. r.seqid < MaxSent[r.client]
      BY <1>3, <1>5, <1>9
    <2> QED BY <1>2, <2>1 DEF NumberInv
  <1>12. srv' = srv /\ executed' = executed
    BY DEF Send
  <1>13. \A e \in executed' : e.times = 1 /\ e.req \in sent' /\ e.life \in Nat
    BY <1>2, <1>12 DEF NumberInv
  <1> QED BY <1>10, <1>11, <1>12, <1>13 DEF NumberInv

\* The numbers of the owners after a request: they do not wrap, only an unconfirmed lock
\* owner starts over, and an owner goes on to the number of the request it let go on.
LEMMA HandledNumbers ==
  ASSUME NoWrap, NEW s, Shape(s), NEW r \in Request, r.seqid < MaxSent[r.client],
         \A k \in Key : s.info[k].lastseqid < SeqMod - 1,
         NEW o, Handled(s, r, o), o.s.up = "up"
  PROVE  /\ mod32(r.seqid) = r.seqid
         /\ \A k \in Key : /\ o.s.info[k].lastseqid < SeqMod - 1
                           /\ \/ s.info[k].lastseqid <= o.s.info[k].lastseqid
                              \/ k \in LockKey /\ ~s.info[k].confirmed
                              \/ s.info[k].lastseqid = -1
  <1>1. /\ r.client \in Client /\ r.seqid \in 0..SeqMod - 1 /\ SeqMod \in Nat /\ SeqMod > 1
        /\ MaxSent[r.client] \in Nat /\ MaxSent[r.client] < SeqMod
    BY ServerAssumption DEF Request, OpenRequest, StateRequest, Seqid, NoWrap
  <1>2. mod32(r.seqid) = r.seqid /\ r.seqid < SeqMod - 1
    BY <1>1, Modulus
  <1>3. ASSUME NEW k \in Key
        PROVE  /\ o.s.info[k].lastseqid < SeqMod - 1
               /\ \/ s.info[k].lastseqid <= o.s.info[k].lastseqid
                  \/ k \in LockKey /\ ~s.info[k].confirmed
                  \/ s.info[k].lastseqid = -1
    <2> DEFINE m == s.info[k].lastseqid
               n == o.s.info[k].lastseqid
    <2>1. m \in -1..SeqMod - 1 /\ m < SeqMod - 1
      BY ServerFields DEF Shape, Info
    <2>2. \/ InTurn(s, k, r) /\ n = r.seqid
          \/ n = m
          \/ k \in LockKey /\ ~s.info[k].confirmed /\ n \in {-1, 0}
      BY <1>2 DEF Handled
    <2>3. InTurn(s, k, r) /\ m # -1 => mod32(m + 1) = r.seqid
      BY DEF InTurn
    <2>4. m # -1 => mod32(m + 1) = m + 1
      <3> HIDE DEF m
      <3> QED BY <1>1, <2>1, Modulus
    <2> HIDE DEF m, n
    <2>5. n < SeqMod - 1 /\ (m <= n \/ (k \in LockKey /\ ~s.info[k].confirmed) \/ m = -1)
      BY <1>1, <1>2, <2>1, <2>2, <2>3, <2>4
    <2> QED BY <2>5 DEF m, n
  <1> QED BY <1>2, <1>3

\* A request that is carried out was not carried out before in its client's present life:
\* its owner waits for a number that no request before it had.
LEMMA FirstTime ==
  ASSUME NoWrap, NumberInv, srv.up = "up", Shape(srv), NEW r \in sent, r \in Request,
         Asked(srv, r), NEW o, Handled(srv, r, o), o.done
  PROVE  {e \in executed : e.req = r /\ e.life = srv.life[r.client]} = {}
  <1> SUFFICES ASSUME NEW e \in executed, e.req = r, e.life = srv.life[r.client]
               PROVE  FALSE
    OBVIOUS
  <1> DEFINE key == Sequencer(srv, r)
             m == srv.info[key].lastseqid
  <1>1. key # <<>> /\ InTurn(srv, key, r)
    BY DEF Handled
  <1>2. /\ r.client \in Client /\ r.seqid \in 0..SeqMod - 1 /\ SeqMod \in Nat
        /\ r.op \in {"OPEN", "OPEN_CONFIRM", "CLOSE", "LOCK_NEW", "LOCK", "LOCKU"}
    BY ServerAssumption DEF Request, OpenRequest, StateRequest, Seqid
  <1>3. key \in Key
    BY <1>1, SequencerKnown
  <1>4. r.seqid <= m
    BY <1>1 DEF NumberInv, Past
  <1>5. m \in -1..SeqMod - 1 /\ m < SeqMod - 1
    BY <1>3, ServerFields DEF Shape, Info, NumberInv
  <1>6. m # -1 => mod32(m + 1) = r.seqid
    BY <1>1 DEF InTurn
  <1> HIDE DEF m
  <1>7. m # -1 => mod32(m + 1) = m + 1
    BY <1>2, <1>5, Modulus
  <1> QED BY <1>2, <1>4, <1>5, <1>6, <1>7

\* A request, or a late copy of one, is handled, and its answer may reach the client.
LEMMA DeliverNumbers ==
  ASSUME NoWrap, ServerInv, NumberInv, NEW r \in sent, Deliver(r)
  PROVE  NumberInv'
  <1>1. /\ srv.up = "up" /\ srv.next_id <= MaxId /\ Typed /\ Shape(srv) /\ StateInv(srv)
        /\ Started(srv) /\ Remembered(srv, client, sent) /\ Repeatable(srv)
        /\ r \in Request /\ Asked(srv, r) /\ client \in [Client -> Believed]
        /\ srv \in Server /\ sent' = sent /\ sent \subseteq Request
    BY DEF Deliver, ServerInv, Typed, Remembered, Shape
  <1> DEFINE life == srv.life[r.client]
             times == Cardinality({e \in executed : e.req = r /\ e.life = life})
  <1>2. PICK o \in Handle(srv, r) :
          /\ srv' = o.s
          /\ executed' = IF o.done
                         THEN executed \cup {[req |-> r, life |-> life, times |-> times + 1]}
                         ELSE executed
          /\ \/ client' = client
             \/ /\ client[r.client].pending = <<r>> /\ o.s.up = "up"
                /\ LET owner == Current(o.s, r.client)
                       told == [status |-> o.status, stateid |-> o.stateid,
                                confirmed |-> o.s.info[owner].confirmed]
                   IN client' = [client EXCEPT ![r.client] = Learn(@, r, told)]
    BY DEF Deliver
  <1>3. Handled(srv, r, o)
    BY <1>1, HandleAnswers
  <1>4. /\ r.client \in Client /\ life \in Nat /\ r.seqid < MaxSent[r.client]
        /\ srv' \in Server
    <2>1. r.client \in Client
      BY <1>1 DEF Request, OpenRequest, StateRequest
    <2> QED BY <1>1, <1>2, <1>3, <2>1, ServerFields, Keys DEF Handled, Shape, NumberInv
  <1>5. o.done => times = 0
    <2>1. ASSUME o.done PROVE {e \in executed : e.req = r /\ e.life = life} = {}
      BY <1>1, <1>3, <2>1, FirstTime
    <2> QED BY <2>1, FS_EmptySet
  <1> HIDE DEF times
  <1>6. \A e \in executed' : \/ e \in executed
                             \/ o.done /\ e = [req |-> r, life |-> life, times |-> 1]
    BY <1>2, <1>5
  <1>7. \A e \in executed' : e.times = 1 /\ e.req \in sent' /\ e.life \in Nat
    BY <1>1, <1>4, <1>6 DEF NumberInv
  <1>8. ASSUME srv'.up = "up"
        PROVE  /\ \A k \in Key : srv'.info[k].lastseqid < SeqMod - 1
               /\ \A e \in executed' :
                    /\ e.life <= srv'.life[e.req.client]
                    /\ e.life = srv'.life[e.req.client] => Past(srv', e.req)
    <2>1. /\ mod32(r.seqid) = r.seqid
          /\ \A k \in Key : /\ srv'.info[k].lastseqid < SeqMod - 1
                            /\ \/ srv.info[k].lastseqid <= srv'.info[k].lastseqid
                               \/ k \in LockKey /\ ~srv.info[k].confirmed
                               \/ srv.info[k].lastseqid = -1
      <3>1. \A k \in Key : srv.info[k].lastseqid < SeqMod - 1
        BY <1>1 DEF NumberInv
      <3>2. /\ mod32(r.seqid) = r.seqid
            /\ \A k \in Key : /\ o.s.info[k].lastseqid < SeqMod - 1
                              /\ \/ srv.info[k].lastseqid <= o.s.info[k].lastseqid
                                 \/ k \in LockKey /\ ~srv.info[k].confirmed
                                 \/ srv.info[k].lastseqid = -1
        BY <1>1, <1>2, <1>3, <1>4, <1>8, <3>1, HandledNumbers
      <3> QED BY <1>2, <3>2
    <2>2. Keeps(srv, srv')
      BY <1>2, <1>3, <1>8 DEF Handled
    <2>3. ASSUME NEW c \in Client
          PROVE  /\ srv.life[c] \in Int /\ srv'.life[c] \in Int
                 /\ srv.life[c] <= srv'.life[c]
      BY <1>1, <1>4, <2>2, ServerFields, Keys DEF Keeps
    <2>4. ASSUME NEW e \in executed
          PROVE  /\ e.life <= srv'.life[e.req.client]
                 /\ e.life = srv'.life[e.req.client] => Past(srv', e.req)
      <3>1. /\ e.req \in Request /\ Asked(srv, e.req) /\ e.life <= srv.life[e.req.client]
            /\ e.life = srv.life[e.req.client] => Past(srv, e.req)
            /\ e.life \in Nat
        BY <1>1 DEF NumberInv, Remembered
      <3>2. e.req.client \in Client
        BY <3>1 DEF Request, OpenRequest, StateRequest
      <3>3. e.life <= srv'.life[e.req.client]
        BY <2>3, <3>1, <3>2
      <3>4. ASSUME e.life = srv'.life[e.req.client] PROVE Past(srv', e.req)
        <4>1. srv'.life[e.req.client] = srv.life[e.req.client] /\ Past(srv, e.req)
          BY <2>3, <3>1, <3>2, <3>4
        <4> QED BY <1>1, <1>4, <2>1, <2>2, <3>1, <4>1, PastKept
      <3> QED BY <3>3, <3>4
    <2>5. ASSUME NEW e, o.done, e = [req |-> r, life |-> life, times |-> 1]
          PROVE  /\ e.life <= srv'.life[e.req.client]
                 /\ e.life = srv'.life[e.req.client] => Past(srv', e.req)
      <3>1. e.req = r /\ e.life = life
        BY <2>5
      <3>2. e.life <= srv'.life[e.req.client]
        BY <1>4, <2>3, <3>1
      <3>3. Past(srv', r)
        <4> SUFFICES ASSUME Sequencer(srv', r) # <<>>
                     PROVE  r.seqid <= srv'.info[Sequencer(srv', r)].lastseqid
          BY DEF Past
        <4>1. srv'.info[Sequencer(srv', r)].lastseqid = mod32(r.seqid)
          BY <1>2, <1>3, <1>8, <2>5 DEF Handled
        <4>2. r.seqid \in Nat
          BY <1>1 DEF Request, OpenRequest, StateRequest, Seqid
        <4> QED BY <2>1, <4>1, <4>2
      <3> QED BY <3>1, <3>2, <3>3
    <2> QED BY <1>6, <2>1, <2>4, <2>5
  <1>9. \A c \in Client :
          /\ client'[c].count <= MaxSent[c]
          /\ client'[c].seqid + Len(client'[c].pending) <= client'[c].count
          /\ \A l \in LockOwner :
               client'[c].locks[l].seqid + Len(client'[c].pending) <= client'[c].count
    <2>1. CASE client' = client
      BY <2>1 DEF NumberInv
    <2>2. CASE client' # client
      <3> DEFINE k == client[r.client]
                 told == [status |-> o.status, stateid |-> o.stateid,
                          confirmed |-> o.s.info[Current(o.s, r.client)].confirmed]
                 n == Learn(k, r, told)
      <3>1. k.pending = <<r>> /\ srv'.up = "up" /\ client' = [client EXCEPT ![r.client] = n]
        BY <1>2, <2>2
      <3>2. /\ told.stateid \in Stateid /\ told.confirmed \in BOOLEAN
        <4>1. Current(o.s, r.client) \in Key /\ o.s.info \in [Key -> Info]
          BY <1>2, <1>4, CurrentKey, ServerFields, Keys
        <4> QED BY <1>3, <4>1 DEF Info, Handled
      <3>3. r.op \in {"LOCK_NEW", "LOCK", "LOCKU"} => r.owner \in LockOwner
        BY <1>1 DEF Asked, Owns
      <3>4. n = Learn(k, r, told) /\ k \in Believed
        BY <1>1, <1>4
      <3> HIDE DEF n, told
      <3>5. /\ n \in Believed /\ n.pending = <<>> /\ n.count = k.count
            /\ n.seqid \in {k.seqid, mod32(k.seqid + 1)}
            /\ \A l \in LockOwner :
                 n.locks[l].seqid \in {0, 1, k.locks[l].seqid, mod32(k.locks[l].seqid + 1)}
        <4> HIDE DEF k
        <4> QED BY <1>1, <3>2, <3>3, <3>4, LearnFields
      <3>6. /\ k.count <= MaxSent[r.client] /\ k.seqid + 1 <= k.count /\ k.count \in Nat
            /\ k.seqid \in Nat
            /\ \A l \in LockOwner : k.locks[l].seqid \in Nat /\ k.locks[l].seqid + 1 <= k.count
        <4>1. /\ k.count <= MaxSent[r.client] /\ k.seqid + Len(k.pending) <= k.count
              /\ \A l \in LockOwner : k.locks[l].seqid + Len(k.pending) <= k.count
          BY <1>4 DEF NumberInv
        <4>2. Len(k.pending) = 1
          BY <3>1
        <4>3. k.count \in Nat /\ k.seqid \in Nat /\ \A l \in LockOwner : k.locks[l].seqid \in Nat
          BY <3>4 DEF Believed, Seqid
        <4> HIDE DEF k
        <4> QED BY <4>1, <4>2, <4>3
      <3> HIDE DEF k
      <3>7. \A m \in Nat : mod32(m + 1) \in Int /\ mod32(m + 1) <= m + 1
        <4>1. ASSUME NEW m \in Nat
              PROVE  mod32(m + 1) \in Int /\ mod32(m + 1) <= m + 1
          <5>1. m + 1 \in Nat /\ m + 1 \in Int
            OBVIOUS
          <5>2. mod32(m + 1) \in 0..SeqMod - 1 /\ mod32(m + 1) <= m + 1
            BY <5>1, Modulus
          <5> QED BY <5>2
        <4> QED BY <4>1
      <3>8. n.seqid + 0 <= n.count
        BY <3>5, <3>6, <3>7
      <3>9. ASSUME NEW l \in LockOwner
            PROVE  n.locks[l].seqid + 0 <= n.count
        <4>1. n.locks[l].seqid <= k.locks[l].seqid + 1 /\ n.locks[l].seqid \in Int
          <5> DEFINE m == k.locks[l].seqid
          <5>1. m \in Nat /\ m + 1 <= k.count /\ n.locks[l].seqid \in {0, 1, m, mod32(m + 1)}
            BY <3>5, <3>6
          <5> HIDE DEF m
          <5>2. n.locks[l].seqid <= m + 1 /\ n.locks[l].seqid \in Int
            BY <3>7, <5>1
          <5> QED BY <5>2 DEF m
        <4> QED BY <3>5, <3>6, <4>1
      <3>10. client'[r.client] = n /\ \A c \in Client : c # r.client => client'[c] = client[c]
        BY <1>1, <1>4, <3>1
      <3>11. Len(n.pending) = 0
        BY <3>5
      <3>12. n.count <= MaxSent[r.client]
        BY <3>5, <3>6
      <3>13. ASSUME NEW c \in Client
             PROVE  /\ client'[c].count <= MaxSent[c]
                    /\ client'[c].seqid + Len(client'[c].pending) <= client'[c].count
                    /\ \A l \in LockOwner :
                         client'[c].locks[l].seqid + Len(client'[c].pending) <= client'[c].count
        <4>1. CASE c = r.client
          BY <3>8, <3>9, <3>10, <3>11, <3>12, <4>1
        <4>2. CASE c # r.client
          BY <3>10, <4>2 DEF NumberInv
        <4> QED BY <4>1, <4>2
      <3> QED BY <3>13
    <2> QED BY <2>1, <2>2
  <1>10. \A q \in sent' : q.seqid < MaxSent[q.client]
    BY <1>1 DEF NumberInv
  <1> QED BY <1>7, <1>8, <1>9, <1>10 DEF NumberInv

\* Every step of the server and its clients, while no client's numbers wrap around.
LEMMA NextNumbers ==
  ASSUME NoWrap, ServerInv, NumberInv, [Next]_vars
  PROVE  NumberInv'
  <1>1. ASSUME NEW r \in sent, Deliver(r)
        PROVE  NumberInv'
    BY <1>1, DeliverNumbers
  <1>2. ASSUME NEW l \in LockOwner, NEW type \in LockType, LOCKT(l, type)
        PROVE  NumberInv'
    <2>1. srv.up = "up" /\ UNCHANGED <<sent, client, executed>>
      BY <1>2 DEF LOCKT
    <2> QED BY <1>2, <2>1, LOCKTSteps, QuietNumbers
  <1>3. ASSUME NEW c \in Client, Send(c)
        PROVE  NumberInv'
    BY <1>3, SendNumbers
  <1>4. ASSUME NEW c \in Client, RENEW(c)
        PROVE  NumberInv'
    <2>1. srv.up = "up" /\ UNCHANGED <<sent, client, executed>>
      BY <1>4 DEF RENEW
    <2> QED BY <1>4, <2>1, RENEWSteps, QuietNumbers
  <1>5. ASSUME NEW c \in Client, Expire(c)
        PROVE  NumberInv'
    <2>1. srv.up = "up" /\ UNCHANGED <<sent, client, executed>>
      BY <1>5 DEF Expire
    <2> QED BY <1>5, <2>1, ExpireSteps, QuietNumbers
  <1>6. ASSUME NEW c \in Client, NEW mode,
               NEW st \in {client[c].opened} \cup {client[c].locks[l].stateid : l \in Owns(c)},
               ReadWrite(c, st, mode)
        PROVE  NumberInv'
    <2>1. srv.up = "up" /\ UNCHANGED <<sent, client, executed>>
      BY <1>6 DEF ReadWrite
    <2>2. Quiet(srv, srv')
      BY <1>6, <2>1, ReadWriteSteps
    <2> QED BY <2>1, <2>2, QuietNumbers
  <1>7. ASSUME UNCHANGED vars
        PROVE  NumberInv'
    <2>1. srv' = srv /\ sent' = sent /\ client' = client /\ executed' = executed
      BY <1>7 DEF vars
    <2> QED BY <2>1 DEF NumberInv
  <1> QED BY <1>1, <1>2, <1>3, <1>4, <1>5, <1>6, <1>7 DEF Next

\* The numbers of requests and owners go together, while no client's wrap around.
LEMMA Numbers == ASSUME NoWrap PROVE Spec => []NumberInv
  <1>1. Init => NumberInv
    <2> SUFFICES ASSUME Init PROVE NumberInv
      OBVIOUS
    <2>1. /\ srv.info = [k \in Key |-> NewOwner] /\ sent = {} /\ executed = {}
          /\ client = [c \in Client |-> [seqid |-> 0, count |-> 0, pending |-> <<>>,
                         opened |-> NoStateid, confirmed |-> FALSE, locks |-> Unlocked]]
      BY DEF Init, Key
    <2>2. \A k \in Key : srv.info[k].lastseqid = -1
      BY <2>1 DEF NewOwner
    <2>3. -1 < SeqMod - 1
      BY ServerAssumption
    <2>4. \A l \in LockOwner : Unlocked[l].seqid = 0
      BY DEF Unlocked
    <2>5. \A c \in Client : MaxSent[c] \in Nat
      BY ServerAssumption
    <2>6. \A c \in Client :
            /\ client[c].count = 0 /\ client[c].seqid = 0 /\ client[c].pending = <<>>
            /\ \A l \in LockOwner : client[c].locks[l].seqid = 0
      BY <2>1, <2>4
    <2>7. Len(<<>>) = 0
      OBVIOUS
    <2> QED BY <2>1, <2>2, <2>3, <2>5, <2>6, <2>7 DEF NumberInv
  <1>2. ServerInv /\ NumberInv /\ [Next]_vars => NumberInv'
    BY NextNumbers
  <1> QED BY <1>1, <1>2, ServerInvariant, PTL DEF Spec

\* check_seqid: however often a request arrives, and in whatever order with others, the
\* server carries it out once, if the client does not send as many requests as it has
\* numbers for.
THEOREM ExecutedOnce == ASSUME NoWrap PROVE Spec => []AtMostOnce
  <1>1. NumberInv => AtMostOnce
    BY DEF NumberInv, AtMostOnce
  <1> QED BY <1>1, Numbers, PTL
-----------------------------------------------------------------------------
(* What the answers that owners repeat say stays true *)

\* An answer that says something of the owner's states: they stay what they are, or go for
\* good, and then the request that the answer is for has no owner any more.
LEMMA TruthfulLasts ==
  ASSUME NEW s, Shape(s), StateInv(s), NEW t \in Server, Keeps(s, t), NEW k \in Key,
         s.info[k].cached # <<>>, NEW q \in Request, NEW a, Truthful(s, k, q, a),
         StatesStay(s, t, k) \/ (k \in LockKey /\ StatesLast(s, t, k))
  PROVE  Truthful(t, k, q, a)
  <1>1. /\ q.op \in {"OPEN", "OPEN_CONFIRM", "CLOSE", "LOCK_NEW", "LOCK", "LOCKU"}
        /\ q.client \in Client /\ Holder(<<q.client>>) = q.client /\ k # <<>>
    BY Keys DEF Request, OpenRequest, StateRequest, Holder
  <1>2. /\ s.next_id \in Int /\ t.next_id \in Int /\ s.next_id <= t.next_id /\ Id \subseteq Int
        /\ s \in Server
    BY ServerFields, ServerAssumption DEF Shape, Keeps, Id
  <1>3. q.op # "OPEN" => q.stateid.id \in Id /\ q.stateid.id < s.next_id
    BY DEF Truthful
  <1>4. q.op # "OPEN" => q.stateid.id \in Id /\ q.stateid.id < t.next_id
    <2>1. \A id \in Id : id < s.next_id => id < t.next_id
      BY <1>2
    <2> QED BY <1>3, <2>1
  <1>5. ASSUME Sequencer(t, q) = k, q.op = "OPEN"
        PROVE  /\ a.status = "OK" => Valid(t, k, a.stateid) /\ OnFile(t, a.stateid.id)
    <2>1. k = <<q.client, t.life[q.client]>> /\ k \in OpenKey /\ Holder(k) = q.client
      BY <1>1, <1>5, CurrentKey, Keys DEF Sequencer, Current
    <2>2. t.life[q.client] = s.life[q.client]
      <3>1. /\ s.life[q.client] <= t.life[q.client]
            /\ s.life[q.client] \in Int /\ t.life[q.client] \in Int
        BY <1>1, <1>2, ServerFields, Keys DEF Keeps
      <3>2. ~(s.life[Holder(k)] < k[2])
        <4>1. NewOwner.cached = <<>>
          BY DEF NewOwner
        <4> QED BY <4>1 DEF StateInv, Unused
      <3> QED BY <2>1, <3>1, <3>2
    <2>3. Sequencer(s, q) = k
      BY <1>1, <1>5, <2>1, <2>2 DEF Sequencer, Current
    <2>4. StatesStay(s, t, k)
      BY <2>1, Keys
    <2>5. a.status = "OK" => Valid(s, k, a.stateid) /\ OnFile(s, a.stateid.id)
      BY <1>5, <2>3 DEF Truthful
    <2> QED BY <2>1, <2>2, <2>4, <2>5 DEF Valid, OnFile, StatesStay
  <1>6. ASSUME Sequencer(t, q) = k, q.op # "OPEN"
        PROVE  /\ a.status = "OK" /\ q.op \in {"OPEN_CONFIRM", "LOCK", "LOCKU"} =>
                    Valid(t, k, a.stateid) /\ a.stateid.id = q.stateid.id
               /\ a.status = "DENIED" /\ q.op = "LOCK" => Valid(t, k, q.stateid)
    <2> DEFINE id == q.stateid.id
    <2>1. id \in Id /\ id < s.next_id /\ t.state[id].owner = k
      BY <1>3, <1>6 DEF Sequencer
    <2>2. t.state[id] # NoState
      BY <1>1, <2>1, StateFacts
    <2>3. s.state[id].owner = k /\ Sequencer(s, q) = k
      BY <1>6, <2>1, <2>2 DEF Keeps, Sequencer
    <2>4. t.state[id] = s.state[id]
      BY <2>1, <2>2, <2>3 DEF StatesStay, StatesLast
    <2> HIDE DEF id
    <2>5. \A st : st.id = id /\ Valid(s, k, st) => Valid(t, k, st)
      BY <2>1, <2>4 DEF Valid
    <2> QED BY <1>6, <2>3, <2>5 DEF Truthful, id
  <1>7. /\ a.status = "SHARE_DENIED" => q.op = "OPEN"
        /\ a.status = "DENIED" => q.op \in {"LOCK_NEW", "LOCK"}
    BY DEF Truthful
  <1> QED BY <1>1, <1>4, <1>5, <1>6, <1>7 DEF Truthful

\* The request and the answer that an owner has to repeat.
LEMMA CachedFields ==
  ASSUME NEW s \in Server, NEW k \in Key, s.info[k].cached # <<>>
  PROVE  s.info[k].cached[1] \in Request /\ s.info[k].cached[2] \in Answer
  <1>1. s.info[k].cached \in Request \X Answer
    BY ServerFields DEF Info
  <1> QED BY <1>1

\* An operation that goes by no number leaves the answers alone that owners repeat.
LEMMA QuietCached ==
  ASSUME NEW s, Shape(s), StateInv(s), CachedTrue(s), NEW t, Quiet(s, t)
  PROVE  CachedTrue(t)
  <1>1. s \in Server /\ t \in Server /\ Keeps(s, t)
    BY DEF Shape, Quiet
  <1> SUFFICES ASSUME NEW k \in Key, t.info[k].cached # <<>>
               PROVE  Truthful(t, k, t.info[k].cached[1], t.info[k].cached[2])
    BY DEF CachedTrue
  <1>2. t.info[k].cached = s.info[k].cached /\ StatesStay(s, t, k)
    BY DEF Quiet
  <1>3. /\ s.info[k].cached[1] \in Request
        /\ Truthful(s, k, s.info[k].cached[1], s.info[k].cached[2])
    BY <1>1, <1>2, CachedFields DEF CachedTrue
  <1> QED BY <1>1, <1>2, <1>3, TruthfulLasts

\* The answer of an operation joins them, and is true.
LEMMA HandleCached ==
  ASSUME NEW s, Shape(s), StateInv(s), CachedTrue(s), NEW r \in Request, Asked(s, r),
         NEW o, o.s \in Server, Keeps(s, o.s),
         Refused(s, r, o) \/ Replayed(s, r, o) \/ Executed(s, r, o)
  PROVE  CachedTrue(o.s)
  <1> DEFINE t == o.s
             a == [status |-> o.status, stateid |-> o.stateid]
  <1>1. s \in Server /\ s.next_id <= t.next_id /\ s.next_id \in Int /\ t.next_id \in Int
    <2>1. s \in Server /\ s.next_id <= t.next_id
      BY DEF Shape, Keeps
    <2>2. s.next_id \in 2..MaxId + 1 /\ t.next_id \in 2..MaxId + 1
      BY <2>1, ServerFields
    <2> QED BY <2>1, <2>2, ServerAssumption
  <1>2. r.op # "OPEN" => r.stateid.id \in Id /\ r.stateid.id < t.next_id
    <2>1. r.op \in {"OPEN", "OPEN_CONFIRM", "CLOSE", "LOCK_NEW", "LOCK", "LOCKU"}
      BY DEF Request, OpenRequest, StateRequest
    <2>2. r.op # "OPEN" => r.stateid.id \in Id /\ r.stateid.id < s.next_id
      BY <2>1 DEF Asked, OpenKnown, LockKnown
    <2>3. \A id \in Id : id < s.next_id => id < t.next_id
      <3>1. Id \subseteq Int
        BY ServerAssumption DEF Id
      <3> QED BY <1>1, <3>1
    <2> QED BY <2>2, <2>3
  <1> SUFFICES ASSUME NEW k \in Key, t.info[k].cached # <<>>
               PROVE  Truthful(t, k, t.info[k].cached[1], t.info[k].cached[2])
    BY DEF CachedTrue
  <1>3. a.status = o.status /\ a.stateid = o.stateid
    OBVIOUS
  <1> HIDE DEF a
  <1>4. ASSUME t.info[k].cached = s.info[k].cached,
               StatesStay(s, t, k) \/ (k \in LockKey /\ StatesLast(s, t, k))
        PROVE  Truthful(t, k, t.info[k].cached[1], t.info[k].cached[2])
    <2>1. /\ s.info[k].cached[1] \in Request /\ s.info[k].cached # <<>>
          /\ Truthful(s, k, s.info[k].cached[1], s.info[k].cached[2])
      BY <1>1, <1>4, CachedFields DEF CachedTrue
    <2>2. Truthful(t, k, s.info[k].cached[1], s.info[k].cached[2])
      BY <1>4, <2>1, TruthfulLasts
    <2> QED BY <1>4, <2>2
  <1>5. ASSUME t.info[k].cached = <<r, a>>, Truthful(t, k, r, a)
        PROVE  Truthful(t, k, t.info[k].cached[1], t.info[k].cached[2])
    BY <1>5
  <1>6. CASE Refused(s, r, o)
    <2>1. StatesStay(s, t, k)
      BY <1>6, SameStates DEF Refused
    <2>2. a.status \notin {"OK", "DENIED", "SHARE_DENIED"}
      BY <1>3, <1>6 DEF Refused, NotAdvancing
    <2>3. Truthful(t, k, r, a)
      BY <1>2, <2>2 DEF Truthful
    <2>4. t.info[k].cached = s.info[k].cached \/ t.info[k].cached = <<r, a>>
      BY <1>6 DEF Refused, a
    <2> QED BY <1>4, <1>5, <2>1, <2>3, <2>4
  <1>7. CASE Replayed(s, r, o)
    BY <1>7 DEF Replayed, CachedTrue
  <1>8. CASE Executed(s, r, o)
    <2> DEFINE key == Sequencer(s, r)
    <2>1. /\ Effect(s, r, o) /\ key \in Key
          /\ \A x \in Key \ Named(s, r) : t.info[x].cached = s.info[x].cached
          /\ \A x \in Named(s, r) : t.info[x].cached = <<r, a>>
      BY <1>8 DEF Executed, a
    <2>2. CASE k \in Named(s, r)
      <3>1. Truthful(t, key, r, o) /\ Sequencer(t, r) = key
        BY <2>1 DEF Effect
      <3>2. Truthful(t, k, r, a)
        <4>1. Truthful(t, key, r, a)
          BY <1>3, <3>1 DEF Truthful
        <4>2. CASE k # key
          BY <3>1, <4>1, <4>2 DEF Truthful
        <4> QED BY <4>1, <4>2
      <3> QED BY <1>5, <2>1, <2>2, <3>2
    <2>3. CASE k \notin Named(s, r)
      <3>1. k \notin Touched(s, r) => StatesStay(s, t, k)
        BY <2>1 DEF Effect, Untouched
      <3>2. k \in Touched(s, r) => r.op = "CLOSE" /\ k \in LockKey
        BY <2>3 DEF Touched, Named
      <3>3. k \in Touched(s, r) => StatesLast(s, t, k)
        BY <2>1, <3>2 DEF Effect
      <3> QED BY <1>4, <2>1, <2>3, <3>1, <3>2, <3>3
    <2> QED BY <2>2, <2>3
  <1> QED BY <1>6, <1>7, <1>8
-----------------------------------------------------------------------------
(* What a step that leaves a client's owners alone does to what the client believes *)

\* Until the client's state is removed, its requests go by its first owners.
LEMMA SequencerOfLife ==
  ASSUME NEW s, Shape(s), StateInv(s), NEW r \in Request, Asked(s, r), s.life[r.client] = 0,
         Sequencer(s, r) # <<>>
  PROVE  /\ Sequencer(s, r) \in Key /\ Holder(Sequencer(s, r)) = r.client
         /\ r.op \in {"LOCK", "LOCKU"} => /\ Sequencer(s, r) = <<r.owner, 0>>
                                          /\ Sequencer(s, r) \in LockKey
                                          /\ s.info[Sequencer(s, r)].confirmed
         /\ r.op \notin {"LOCK", "LOCKU"} => /\ Sequencer(s, r) = <<r.client, 0>>
                                             /\ Sequencer(s, r) \in OpenKey
  <1> DEFINE key == Sequencer(s, r)
  <1>1. /\ key \in Key
        /\ r.op = "OPEN" => key = Current(s, r.client) /\ key \in OpenKey
        /\ r.op # "OPEN" => /\ r.stateid.id \in Id /\ s.state[r.stateid.id] # NoState
                            /\ key = s.state[r.stateid.id].owner
        /\ r.op \in {"OPEN_CONFIRM", "CLOSE", "LOCK_NEW"} => key \in OpenKey /\ key[1] = r.client
        /\ r.op \in {"LOCK", "LOCKU"} => LockHolder(s, r.stateid.id) /\ key[1] = r.owner
        /\ r.op \in {"OPEN", "OPEN_CONFIRM", "CLOSE", "LOCK_NEW", "LOCK", "LOCKU"}
    BY SequencerKind
  <1>2. r.client \in Client /\ Holder(<<r.client>>) = r.client
    BY DEF Request, OpenRequest, StateRequest, Holder
  <1> HIDE DEF key
  <1>3. CASE r.op = "OPEN"
    <2>1. key = <<r.client, 0>>
      BY <1>1, <1>2, <1>3 DEF Current
    <2> QED BY <1>1, <1>3, <2>1, Keys DEF key
  <1>4. CASE r.op \in {"OPEN_CONFIRM", "CLOSE", "LOCK_NEW"}
    <2>1. key = <<r.client, key[2]>> /\ key[2] \in 0..MaxLives /\ Holder(key) = r.client
      BY <1>1, <1>4, Keys
    <2>2. s.info[key].lastseqid # -1
      BY <1>1, <1>4 DEF StateInv, OpenStates
    <2>3. ~(s.life[Holder(key)] < key[2])
      <3>1. NewOwner.lastseqid = -1
        BY DEF NewOwner
      <3> QED BY <1>1, <2>2, <3>1 DEF StateInv, Unused
    <2>4. key[2] = 0
      BY <2>1, <2>3
    <2> QED BY <1>1, <1>4, <2>1, <2>4 DEF key
  <1>5. CASE r.op \in {"LOCK", "LOCKU"}
    <2>1. key \in LockKey /\ Live(s, key) /\ s.info[key].confirmed
      BY <1>1, <1>5 DEF LockHolder
    <2>2. key = <<r.owner, key[2]>> /\ Holder(key) = ClientOf[r.owner]
      BY <1>1, <1>5, <2>1, Keys
    <2>3. ClientOf[r.owner] = r.client
      BY <1>5 DEF Asked, Owns
    <2>4. key[2] = 0
      BY <2>1, <2>2, <2>3 DEF Live
    <2> QED BY <1>1, <1>5, <2>1, <2>2, <2>3, <2>4 DEF key
  <1> QED BY <1>1, <1>3, <1>4, <1>5

\* Owners that are left alone keep their states, while their client's are not removed.
LEMMA ValidStays ==
  ASSUME NEW s, NEW t, NEW k \in Key, StatesStay(s, t, k), t.life[Holder(k)] = s.life[Holder(k)]
  PROVE  /\ \A st : Valid(s, k, st) => Valid(t, k, st)
         /\ \A id : OnFile(s, id) /\ s.state[id].owner = k => OnFile(t, id)
  BY DEF Valid, OnFile, StatesStay

\* The owner of the open that a client knows of, as long as its shares are on the file.
LEMMA OpenerOfLife ==
  ASSUME NEW s, Shape(s), StateInv(s), NEW c \in Client, s.life[c] = 0, NEW id,
         OpenKnown(s, id, c), OnFile(s, id)
  PROVE  s.state[id].owner = <<c, 0>>
  <1> DEFINE k == s.state[id].owner
  <1>1. id \in Id /\ k \in OpenKey /\ Live(s, k)
    BY DEF OnFile, StateInv, Held
  <1>2. s.state[id] # NoState
    BY <1>1, Keys, StateFacts
  <1>3. k[1] = c
    BY <1>2 DEF OpenKnown
  <1> HIDE DEF k
  <1>4. k = <<c, k[2]>> /\ Holder(k) = c
    BY <1>1, <1>3, Keys
  <1> QED BY <1>1, <1>4 DEF Live, k

\* The first owners of a client and of its lock owners.
LEMMA OwnersOf ==
  ASSUME NEW c \in Client
  PROVE  /\ <<c, 0>> \in OpenKey /\ <<c, 0>> \in Key /\ Holder(<<c, 0>>) = c
         /\ \A l \in Owns(c) : /\ <<l, 0>> \in LockKey /\ <<l, 0>> \in Key
                               /\ Holder(<<l, 0>>) = c /\ l \in LockOwner
  BY Keys, ServerAssumption DEF OpenKey, LockKey, Owns

\* A request that the server has done with stays so, where the owners of its client keep
\* their numbers and confirmations.
LEMMA SpentStays ==
  ASSUME NEW s, Shape(s), StateInv(s), NEW t \in Server, Keeps(s, t),
         NEW q \in Request, Asked(s, q), s.life[q.client] = 0, t.life[q.client] = 0,
         \A x \in Key : Holder(x) = q.client =>
           Untouched(s, t, x) /\ t.info[x].lastseqid = s.info[x].lastseqid,
         Spent(s, q)
  PROVE  Spent(t, q)
  <1> DEFINE key == Sequencer(s, q)
             owner == Current(s, q.owner)
  <1> SUFFICES ASSUME Sequencer(t, q) # <<>> PROVE Spent(t, q)
    BY DEF Spent
  <1>1. Sequencer(t, q) = key /\ key # <<>>
    BY SequencerKept
  <1>2. key \in Key /\ Holder(key) = q.client
    BY <1>1, SequencerOfLife
  <1>3. /\ t.info[key].lastseqid = s.info[key].lastseqid
        /\ t.info[key].confirmed = s.info[key].confirmed
    BY <1>2 DEF Untouched
  <1>4. q.op = "LOCK_NEW" => /\ Current(t, q.owner) = owner
                             /\ t.info[owner].confirmed = s.info[owner].confirmed
    <2> SUFFICES ASSUME q.op = "LOCK_NEW"
                 PROVE  /\ Current(t, q.owner) = owner
                        /\ t.info[owner].confirmed = s.info[owner].confirmed
      OBVIOUS
    <2>1. q.owner \in Owns(q.client) /\ q.client \in Client
      BY DEF Asked, Request, OpenRequest, StateRequest
    <2>2. q.owner \in LockOwner /\ Holder(<<q.owner>>) = q.client
      BY <2>1, ServerAssumption DEF Owns, Holder
    <2>3. owner = <<q.owner, 0>> /\ Current(t, q.owner) = <<q.owner, 0>>
      BY <2>2 DEF Current
    <2>4. owner \in Key /\ Holder(owner) = q.client
      BY <2>1, <2>3, OwnersOf
    <2> QED BY <2>3, <2>4 DEF Untouched
  <1> QED BY <1>1, <1>3, <1>4 DEF Spent

\* The same of a request that was carried out.
LEMMA PastStays ==
  ASSUME NEW s, Shape(s), StateInv(s), NEW t \in Server, Keeps(s, t),
         NEW q \in Request, Asked(s, q), s.life[q.client] = 0, t.life[q.client] = 0,
         \A x \in Key : Holder(x) = q.client => t.info[x].lastseqid = s.info[x].lastseqid,
         Past(s, q)
  PROVE  Past(t, q)
  <1> SUFFICES ASSUME Sequencer(t, q) # <<>> PROVE Past(t, q)
    BY DEF Past
  <1>1. Sequencer(t, q) = Sequencer(s, q) /\ Sequencer(s, q) # <<>>
    BY SequencerKept
  <1>2. Sequencer(s, q) \in Key /\ Holder(Sequencer(s, q)) = q.client
    BY <1>1, SequencerOfLife
  <1> QED BY <1>1, <1>2 DEF Past

\* What the client knows is something that the server told it.
ToldTo(s, k, c, requests) ==
  /\ requests \subseteq Request /\ \A r \in requests : Asked(s, r)
  /\ k.pending # <<>> => k.pending[1] \in requests /\ k.pending[1].client = c
  /\ k.opened # NoStateid => OpenKnown(s, k.opened.id, c)

\* A step that leaves all owners of a client alone leaves what it believes true.
LEMMA BelievesStays ==
  ASSUME NEW s, Shape(s), StateInv(s), NEW t \in Server, Keeps(s, t),
         NEW c \in Client, s.life[c] = 0, t.life[c] = 0, NEW k, NEW requests,
         ToldTo(s, k, c, requests),
         \A x \in Key : Holder(x) = c =>
           Untouched(s, t, x) /\ t.info[x].lastseqid = s.info[x].lastseqid,
         Believes(s, k, c, requests)
  PROVE  Believes(t, k, c, requests)
  <1> DEFINE key == <<c, 0>>
  <1>1. /\ key \in Key /\ Holder(key) = c
        /\ \A l \in Owns(c) : <<l, 0>> \in Key /\ Holder(<<l, 0>>) = c
    BY OwnersOf
  <1>2. /\ Untouched(s, t, key) /\ t.info[key].lastseqid = s.info[key].lastseqid
        /\ \A l \in Owns(c) : /\ Untouched(s, t, <<l, 0>>)
                              /\ t.info[<<l, 0>>].lastseqid = s.info[<<l, 0>>].lastseqid
    BY <1>1
  <1>3. \A ops : Waits(s, k, ops) => Waits(t, k, ops)
    <2>1. k.pending # <<>> /\ Past(s, k.pending[1]) => Past(t, k.pending[1])
      BY PastStays DEF ToldTo
    <2> QED BY <2>1 DEF Waits
  <1>4. /\ \A st : Valid(s, key, st) => Valid(t, key, st)
        /\ \A l \in Owns(c) : \A st : Valid(s, <<l, 0>>, st) => Valid(t, <<l, 0>>, st)
    BY <1>1, <1>2, ValidStays DEF Untouched
  <1>5. k.opened # NoStateid /\ OnFile(s, k.opened.id) => OnFile(t, k.opened.id)
    <2> SUFFICES ASSUME k.opened # NoStateid, OnFile(s, k.opened.id) PROVE OnFile(t, k.opened.id)
      OBVIOUS
    <2>1. s.state[k.opened.id].owner = key
      BY OpenerOfLife DEF ToldTo
    <2> QED BY <1>1, <1>2, <2>1, ValidStays DEF Untouched
  <1>6. t.info[key].confirmed = s.info[key].confirmed
    BY <1>2 DEF Untouched
  <1> HIDE DEF key
  <1>7. OpenBelieved(t, k, c)
    <2>1. OpenBelieved(s, k, c)
      BY DEF Believes
    <2> QED BY <1>3, <1>4, <1>5, <1>6, <2>1 DEF OpenBelieved, key
  <1>8. ASSUME NEW l \in Owns(c) PROVE LockBelieved(t, k, l)
    <2>1. LockBelieved(s, k, l)
      BY DEF Believes
    <2> QED BY <1>2, <1>3, <1>4, <2>1 DEF LockBelieved
  <1>9. ASSUME NEW q \in requests, q.client = c PROVE k.pending = <<q>> \/ Spent(t, q)
    <2>1. k.pending = <<q>> \/ Spent(s, q)
      BY <1>9 DEF Believes
    <2>2. q \in Request /\ Asked(s, q)
      BY DEF ToldTo
    <2>3. Spent(s, q) => Spent(t, q)
      BY <1>9, <2>2, SpentStays
    <2> QED BY <2>1, <2>3
  <1> QED BY <1>2, <1>7, <1>8, <1>9 DEF Believes, key
-----------------------------------------------------------------------------
(* What a client keeps of an answer *)

\* What a client keeps of the answer o to its request r.
Noted(k, r, o, n) ==
  /\ n.pending = <<>>
  /\ n.seqid = IF r.op \in {"LOCK", "LOCKU"} \/ o.status \in NotAdvancing
               THEN k.seqid ELSE mod32(k.seqid + 1)
  /\ o.status = "OK" /\ r.op = "OPEN" =>
       n.opened = o.stateid /\ n.confirmed = o.confirmed /\ n.locks = k.locks
  /\ o.status = "OK" /\ r.op = "OPEN_CONFIRM" =>
       n.opened = o.stateid /\ n.confirmed = TRUE /\ n.locks = k.locks
  /\ o.status = "OK" /\ r.op \in {"LOCK_NEW", "LOCK", "LOCKU"} =>
       /\ n.opened = k.opened /\ n.confirmed = k.confirmed
       /\ \A l \in LockOwner :
            IF l = r.owner
            THEN /\ n.locks[l].stateid = o.stateid
                 /\ n.locks[l].seqid = IF r.op = "LOCK_NEW" THEN 1
                                       ELSE mod32(k.locks[l].seqid + 1)
            ELSE n.locks[l] = k.locks[l]
  /\ o.status = "SHARE_DENIED" \/ (o.status = "DENIED" /\ r.op # "LOCK") =>
       n.opened = k.opened /\ n.confirmed = k.confirmed /\ n.locks = k.locks
  /\ o.status = "DENIED" /\ r.op = "LOCK" =>
       /\ n.opened = k.opened /\ n.confirmed = k.confirmed
       /\ \A l \in LockOwner :
            /\ n.locks[l].stateid = k.locks[l].stateid
            /\ n.locks[l].seqid = IF l = r.owner THEN mod32(k.locks[l].seqid + 1)
                                  ELSE k.locks[l].seqid
  /\ o.status \notin {"OK", "SHARE_DENIED", "DENIED"} \/ (o.status = "OK" /\ r.op = "CLOSE") =>
       n.opened = NoStateid /\ \A l \in LockOwner : n.locks[l].stateid = NoStateid

LEMMA LearnNotes ==
  ASSUME NEW k \in Believed, NEW r \in Request, NEW o, NEW n, n = Learn(k, r, o)
  PROVE  Noted(k, r, o, n)
  <1> USE DEF Noted
  <1> DEFINE seqid == IF r.op \in {"LOCK", "LOCKU"} \/ o.status \in NotAdvancing
                      THEN k.seqid ELSE mod32(k.seqid + 1)
             next == [k EXCEPT !.pending = <<>>,
                        !.seqid = IF r.op \in {"LOCK", "LOCKU"} \/ o.status \in NotAdvancing
                                  THEN @ ELSE mod32(@ + 1)]
             forgotten == [next EXCEPT !.opened = NoStateid, !.confirmed = FALSE,
                                       !.locks = Unlocked]
             Note == [seqid : {seqid}, count : {k.count}, pending : {<<>>}, opened : {k.opened},
                      confirmed : {k.confirmed}, locks : {k.locks}]
  <1>1. k.locks \in [LockOwner -> [stateid : Stateid, seqid : Seqid]]
    BY DEF Believed
  <1>2. next \in Note
    <2>1. next = [k EXCEPT !.pending = <<>>, !.seqid = seqid]
      OBVIOUS
    <2> HIDE DEF seqid, next
    <2> QED BY <2>1 DEF Believed
  <1>3. seqid = IF r.op \in {"LOCK", "LOCKU"} \/ o.status \in NotAdvancing
                THEN k.seqid ELSE mod32(k.seqid + 1)
    OBVIOUS
  <1> HIDE DEF next, seqid
  <1>4. \A l \in LockOwner : Unlocked[l].stateid = NoStateid
    BY DEF Unlocked
  <1>5. r.op \in {"OPEN", "OPEN_CONFIRM", "CLOSE", "LOCK_NEW", "LOCK", "LOCKU"}
    BY DEF Request, OpenRequest, StateRequest
  <1>6. CASE o.status = "OK" /\ r.op = "OPEN"
    <2>1. n = [next EXCEPT !.opened = o.stateid, !.confirmed = o.confirmed]
      BY <1>6 DEF Learn, next
    <2>2. /\ n.pending = <<>> /\ n.seqid = seqid /\ n.opened = o.stateid
          /\ n.confirmed = o.confirmed /\ n.locks = k.locks
      BY <1>2, <2>1
    <2> QED BY <1>3, <1>6, <2>2
  <1>7. CASE o.status = "OK" /\ r.op = "OPEN_CONFIRM"
    <2>1. n = [next EXCEPT !.opened = o.stateid, !.confirmed = TRUE]
      BY <1>7 DEF Learn, next
    <2>2. /\ n.pending = <<>> /\ n.seqid = seqid /\ n.opened = o.stateid
          /\ n.confirmed = TRUE /\ n.locks = k.locks
      BY <1>2, <2>1
    <2> QED BY <1>3, <1>7, <2>2
  <1>8. CASE o.status = "OK" /\ r.op \in {"LOCK_NEW", "LOCK", "LOCKU"}
    <2> DEFINE taken == [stateid |-> o.stateid,
                         seqid |-> IF r.op = "LOCK_NEW" THEN 1
                                   ELSE mod32(next.locks[r.owner].seqid + 1)]
               locks == [next.locks EXCEPT ![r.owner] = taken]
    <2>1. n = [next EXCEPT !.locks[r.owner] =
                 [stateid |-> o.stateid,
                  seqid |-> IF r.op = "LOCK_NEW" THEN 1 ELSE mod32(@.seqid + 1)]]
      BY <1>8 DEF Learn, next
    <2>2. n = [next EXCEPT !.locks = locks]
      BY <2>1
    <2>3. /\ taken.stateid = o.stateid /\ next.locks = k.locks
          /\ taken.seqid = IF r.op = "LOCK_NEW" THEN 1 ELSE mod32(k.locks[r.owner].seqid + 1)
      BY <1>2
    <2> HIDE DEF taken
    <2>4. \A l \in LockOwner : locks[l] = IF l = r.owner THEN taken ELSE k.locks[l]
      BY <1>1, <2>3
    <2> HIDE DEF locks
    <2>5. /\ n.pending = <<>> /\ n.seqid = seqid /\ n.opened = k.opened
          /\ n.confirmed = k.confirmed /\ n.locks = locks
      BY <1>2, <2>2
    <2> QED BY <1>3, <1>8, <2>3, <2>4, <2>5
  <1>9. CASE o.status = "SHARE_DENIED" \/ (o.status = "DENIED" /\ r.op # "LOCK")
    <2>1. n = next
      BY <1>9 DEF Learn, next
    <2>2. /\ n.pending = <<>> /\ n.seqid = seqid /\ n.opened = k.opened
          /\ n.confirmed = k.confirmed /\ n.locks = k.locks
      BY <1>2, <2>1
    <2> QED BY <1>3, <1>9, <2>2
  <1>10. CASE o.status = "DENIED" /\ r.op = "LOCK"
    <2> DEFINE denied == [next.locks[r.owner] EXCEPT !.seqid = mod32(@ + 1)]
               locks == [next.locks EXCEPT ![r.owner] = denied]
    <2>1. n = [next EXCEPT !.locks[r.owner].seqid = mod32(@ + 1)]
      BY <1>10 DEF Learn, next
    <2>2. n = [next EXCEPT !.locks = locks]
      BY <2>1
    <2>3. next.locks = k.locks
      BY <1>2
    <2>4. ASSUME NEW l \in LockOwner
          PROVE  /\ locks[l].stateid = k.locks[l].stateid
                 /\ locks[l].seqid = IF l = r.owner THEN mod32(k.locks[l].seqid + 1)
                                     ELSE k.locks[l].seqid
      <3>1. k.locks[l] \in [stateid : Stateid, seqid : Seqid]
        BY <1>1
      <3>2. locks[l] = IF l = r.owner THEN [k.locks[l] EXCEPT !.seqid = mod32(@ + 1)]
                       ELSE k.locks[l]
        BY <1>1, <2>3
      <3> HIDE DEF locks
      <3> QED BY <3>1, <3>2
    <2> HIDE DEF locks
    <2>5. /\ n.pending = <<>> /\ n.seqid = seqid /\ n.opened = k.opened
          /\ n.confirmed = k.confirmed /\ n.locks = locks
      BY <1>2, <2>2
    <2> QED BY <1>3, <1>10, <2>4, <2>5
  <1>11. CASE \/ o.status \notin {"OK", "SHARE_DENIED", "DENIED"}
              \/ o.status = "OK" /\ r.op = "CLOSE"
    <2>1. n = forgotten
      BY <1>11 DEF Learn, next
    <2>2. /\ n.pending = <<>> /\ n.seqid = seqid /\ n.opened = NoStateid
          /\ n.locks = Unlocked
      BY <1>2, <2>1
    <2> QED BY <1>3, <1>4, <1>11, <2>2
  <1> QED BY <1>5, <1>6, <1>7, <1>8, <1>9, <1>10, <1>11

\* What the client learns is true, and what it knew stays true, when it is told of a
\* request that the server has done with.
LEMMA LearnBelieved ==
  ASSUME NEW t, Shape(t), StateInv(t), NEW c \in Client, t.life[c] = 0,
         NEW k \in Believed, NEW requests, NEW r, k.pending = <<r>>, r.client = c,
         ToldTo(t, k, c, requests), Believes(t, k, c, requests),
         NEW o, o.confirmed = t.info[<<c, 0>>].confirmed,
         Truthful(t, Sequencer(t, r), r, o), Spent(t, r),
         o.status \notin NotAdvancing => Sequencer(t, r) # <<>> /\ Past(t, r),
         r.op = "LOCK_NEW" /\ o.status = "OK" =>
           Valid(t, <<r.owner, 0>>, o.stateid) /\ t.info[<<r.owner, 0>>].lastseqid # -1,
         NEW n, n = Learn(k, r, o)
  PROVE  Believes(t, n, c, requests)
  <1> DEFINE key == <<c, 0>>
             lockkey == <<r.owner, 0>>
             seq == Sequencer(t, r)
  <1>1. /\ r \in Request /\ Asked(t, r) /\ Asks(k, r)
        /\ r.op \in {"OPEN", "OPEN_CONFIRM", "CLOSE", "LOCK_NEW", "LOCK", "LOCKU"}
        /\ r.op \in {"LOCK_NEW", "LOCK", "LOCKU"} => r.owner \in Owns(c)
    <2>1. r \in Request /\ Asked(t, r)
      BY DEF ToldTo
    <2>2. Asks(k, r)
      BY DEF Believes
    <2> QED BY <2>1, <2>2 DEF Asked, Request, OpenRequest, StateRequest
  <1>2. /\ key \in Key /\ t.info \in [Key -> Info]
        /\ \A l \in Owns(c) : <<l, 0>> \in Key /\ l \in LockOwner
    BY OwnersOf, ServerFields DEF Shape
  <1>3. /\ t.info[key].lastseqid \in Int
        /\ \A l \in Owns(c) : t.info[<<l, 0>>].lastseqid \in -1..SeqMod - 1
    BY <1>2 DEF Info
  <1>4. /\ k.seqid \in Nat /\ \A l \in LockOwner : k.locks[l].seqid \in Nat
    BY DEF Believed, Seqid
  <1>5. \A m \in Nat : mod32(m + 1) \in Int /\ mod32(m + 1) <= m + 1
    <2>1. ASSUME NEW m \in Nat
          PROVE  mod32(m + 1) \in Int /\ mod32(m + 1) <= m + 1
      <3>1. m + 1 \in Nat /\ m + 1 \in Int
        OBVIOUS
      <3>2. mod32(m + 1) \in 0..SeqMod - 1 /\ mod32(m + 1) <= m + 1
        BY <3>1, Modulus
      <3> QED BY <3>2
    <2> QED BY <2>1
  <1>6. seq # <<>> => /\ r.op \in {"LOCK", "LOCKU"} => seq = lockkey
                      /\ r.op \notin {"LOCK", "LOCKU"} => seq = key
    BY <1>1, SequencerOfLife
  <1>7. \A ops : Waits(t, k, ops) => r.op \in ops
    BY DEF Waits
  <1>8. /\ k.opened = NoStateid => \A l \in Owns(c) : k.locks[l].stateid = NoStateid
        /\ k.seqid <= t.info[key].lastseqid + 1
        /\ k.opened # NoStateid /\ r.op \notin {"OPEN_CONFIRM", "CLOSE"} =>
             Valid(t, key, k.opened) /\ (~k.confirmed => ~t.info[key].confirmed)
        /\ k.opened # NoStateid /\ r.op # "CLOSE" => OnFile(t, k.opened.id)
        /\ \A l \in Owns(c) : k.locks[l].stateid # NoStateid =>
             /\ k.locks[l].seqid <= t.info[<<l, 0>>].lastseqid + 1
             /\ r.op # "CLOSE" /\ ~(r.op \in {"LOCK", "LOCKU"} /\ r.owner = l) =>
                  Valid(t, <<l, 0>>, k.locks[l].stateid)
    <2>1. OpenBelieved(t, k, c) /\ \A l \in Owns(c) : LockBelieved(t, k, l)
      BY DEF Believes
    <2>2. /\ k.opened # NoStateid /\ r.op \notin {"OPEN_CONFIRM", "CLOSE"} =>
               Valid(t, key, k.opened) /\ (~k.confirmed => ~t.info[key].confirmed)
          /\ k.opened # NoStateid /\ r.op # "CLOSE" => OnFile(t, k.opened.id)
      BY <1>7, <2>1 DEF OpenBelieved
    <2>3. \A l \in Owns(c) : k.locks[l].stateid # NoStateid =>
             /\ k.locks[l].seqid <= t.info[<<l, 0>>].lastseqid + 1
             /\ r.op # "CLOSE" /\ ~(r.op \in {"LOCK", "LOCKU"} /\ r.owner = l) =>
                  Valid(t, <<l, 0>>, k.locks[l].stateid)
      <3>1. k.pending[1] = r
        OBVIOUS
      <3> QED BY <1>7, <2>1, <3>1 DEF LockBelieved
    <2> QED BY <2>2, <2>3 DEF Believes
  <1>9. o.status \notin NotAdvancing =>
          /\ r.op \notin {"LOCK", "LOCKU"} =>
               mod32(k.seqid + 1) <= t.info[key].lastseqid + 1
          /\ r.op \in {"LOCK", "LOCKU"} =>
               mod32(k.locks[r.owner].seqid + 1) <= t.info[lockkey].lastseqid + 1
    <2> SUFFICES ASSUME o.status \notin NotAdvancing
                 PROVE  /\ r.op \notin {"LOCK", "LOCKU"} =>
                             mod32(k.seqid + 1) <= t.info[key].lastseqid + 1
                        /\ r.op \in {"LOCK", "LOCKU"} =>
                             mod32(k.locks[r.owner].seqid + 1) <= t.info[lockkey].lastseqid + 1
      OBVIOUS
    <2>1. seq # <<>> /\ r.seqid <= t.info[seq].lastseqid
      BY DEF Past
    <2>2. CASE r.op \notin {"LOCK", "LOCKU"}
      <3>1. k.seqid <= t.info[key].lastseqid
        BY <1>1, <1>6, <2>1, <2>2 DEF Asks
      <3>2. mod32(k.seqid + 1) \in Int /\ mod32(k.seqid + 1) <= k.seqid + 1
        BY <1>4, <1>5
      <3> QED BY <1>3, <1>4, <2>2, <3>1, <3>2
    <2>3. CASE r.op \in {"LOCK", "LOCKU"}
      <3> DEFINE m == k.locks[r.owner].seqid
      <3>1. m <= t.info[lockkey].lastseqid
        BY <1>1, <1>6, <2>1, <2>3 DEF Asks
      <3>2. m \in Nat /\ t.info[lockkey].lastseqid \in -1..SeqMod - 1
        BY <1>1, <1>2, <1>3, <1>4, <2>3
      <3> HIDE DEF m
      <3>3. mod32(m + 1) \in Int /\ mod32(m + 1) <= m + 1
        BY <1>5, <3>2
      <3>4. mod32(m + 1) <= t.info[lockkey].lastseqid + 1
        BY <3>1, <3>2, <3>3, ServerAssumption
      <3> QED BY <2>3, <3>4 DEF m
    <2> QED BY <2>2, <2>3
  <1>10. /\ o.status = "SHARE_DENIED" => r.op = "OPEN"
         /\ o.status = "DENIED" => r.op \in {"LOCK_NEW", "LOCK"}
         /\ o.status = "OK" /\ r.op \in {"OPEN", "OPEN_CONFIRM", "LOCK", "LOCKU"} =>
              Valid(t, seq, o.stateid)
         /\ o.status = "OK" /\ r.op = "OPEN" => OnFile(t, o.stateid.id)
         /\ o.status = "OK" /\ r.op = "OPEN_CONFIRM" => o.stateid.id = r.stateid.id
         /\ o.status = "DENIED" /\ r.op = "LOCK" => Valid(t, seq, r.stateid)
         /\ o.status \in {"OK", "DENIED", "SHARE_DENIED"} => seq # <<>>
    BY DEF Truthful, NotAdvancing
  <1>0. Noted(k, r, o, n)
    BY <1>1, LearnNotes
  <1>11. /\ n.pending = <<>>
         /\ n.seqid = IF r.op \in {"LOCK", "LOCKU"} \/ o.status \in NotAdvancing
                      THEN k.seqid ELSE mod32(k.seqid + 1)
         /\ o.status = "OK" /\ r.op = "OPEN" =>
              n.opened = o.stateid /\ n.confirmed = o.confirmed /\ n.locks = k.locks
         /\ o.status = "OK" /\ r.op = "OPEN_CONFIRM" =>
              n.opened = o.stateid /\ n.confirmed = TRUE /\ n.locks = k.locks
         /\ o.status = "OK" /\ r.op \in {"LOCK_NEW", "LOCK", "LOCKU"} =>
              /\ n.opened = k.opened /\ n.confirmed = k.confirmed
              /\ \A l \in LockOwner :
                   IF l = r.owner
                   THEN /\ n.locks[l].stateid = o.stateid
                        /\ n.locks[l].seqid = IF r.op = "LOCK_NEW" THEN 1
                                              ELSE mod32(k.locks[l].seqid + 1)
                   ELSE n.locks[l] = k.locks[l]
         /\ o.status = "SHARE_DENIED" \/ (o.status = "DENIED" /\ r.op # "LOCK") =>
              n.opened = k.opened /\ n.confirmed = k.confirmed /\ n.locks = k.locks
         /\ o.status = "DENIED" /\ r.op = "LOCK" =>
              /\ n.opened = k.opened /\ n.confirmed = k.confirmed
              /\ \A l \in LockOwner :
                   /\ n.locks[l].stateid = k.locks[l].stateid
                   /\ n.locks[l].seqid = IF l = r.owner THEN mod32(k.locks[l].seqid + 1)
                                         ELSE k.locks[l].seqid
         /\ o.status \notin {"OK", "SHARE_DENIED", "DENIED"} \/ (o.status = "OK" /\ r.op = "CLOSE") =>
              n.opened = NoStateid /\ \A l \in LockOwner : n.locks[l].stateid = NoStateid
    BY <1>0 DEF Noted
  <1> HIDE DEF key, lockkey, seq
  <1>12. n.seqid <= t.info[key].lastseqid + 1
    BY <1>8, <1>9, <1>11
  <1>13. ASSUME n.opened = NoStateid => \A l \in Owns(c) : n.locks[l].stateid = NoStateid,
                n.opened # NoStateid =>
                  /\ Valid(t, key, n.opened) /\ OnFile(t, n.opened.id)
                  /\ ~n.confirmed => ~t.info[key].confirmed,
                \A l \in Owns(c) : n.locks[l].stateid # NoStateid =>
                  /\ n.locks[l].seqid <= t.info[<<l, 0>>].lastseqid + 1
                  /\ Valid(t, <<l, 0>>, n.locks[l].stateid)
         PROVE  Believes(t, n, c, requests)
    <2>1. OpenBelieved(t, n, c) /\ \A l \in Owns(c) : LockBelieved(t, n, l)
      BY <1>13 DEF OpenBelieved, LockBelieved, key
    <2>2. ASSUME NEW q \in requests, q.client = c PROVE Spent(t, q)
      <3>1. k.pending = <<q>> => q = r
        OBVIOUS
      <3> QED BY <2>2, <3>1 DEF Believes
    <2> QED BY <1>11, <1>12, <1>13, <2>1, <2>2 DEF Believes, key
  <1>14. CASE o.status = "OK" /\ r.op = "OPEN"
    BY <1>1, <1>6, <1>8, <1>10, <1>11, <1>13, <1>14 DEF Asks, key
  <1>15. CASE o.status = "OK" /\ r.op = "OPEN_CONFIRM"
    <2>1. /\ n.opened = o.stateid /\ n.confirmed = TRUE /\ n.locks = k.locks
          /\ Valid(t, key, o.stateid) /\ o.stateid.id = r.stateid.id
          /\ r.stateid = k.opened /\ k.opened # NoStateid
      BY <1>1, <1>6, <1>10, <1>11, <1>15 DEF Asks
    <2>2. n.opened # NoStateid
      BY <2>1, StateFacts DEF Valid, NoStateid
    <2> QED BY <1>8, <1>13, <1>15, <2>1, <2>2
  <1>16. CASE o.status = "OK" /\ r.op \in {"LOCK_NEW", "LOCK", "LOCKU"}
    <2>1. /\ n.opened = k.opened /\ n.confirmed = k.confirmed
          /\ \A l \in LockOwner :
               IF l = r.owner
               THEN /\ n.locks[l].stateid = o.stateid
                    /\ n.locks[l].seqid = IF r.op = "LOCK_NEW" THEN 1
                                          ELSE mod32(k.locks[l].seqid + 1)
               ELSE n.locks[l] = k.locks[l]
          /\ o.status \notin NotAdvancing
      BY <1>11, <1>16 DEF NotAdvancing
    <2>2. k.opened # NoStateid
      BY <1>1, <1>8, <1>16 DEF Asks
    <2>3. ASSUME NEW l \in Owns(c), n.locks[l].stateid # NoStateid
          PROVE  /\ n.locks[l].seqid <= t.info[<<l, 0>>].lastseqid + 1
                 /\ Valid(t, <<l, 0>>, n.locks[l].stateid)
      <3>1. l \in LockOwner
        BY <1>2
      <3>2. CASE l # r.owner
        BY <1>8, <1>16, <2>1, <2>3, <3>1, <3>2
      <3>3. CASE l = r.owner /\ r.op = "LOCK_NEW"
        <4>1. t.info[<<l, 0>>].lastseqid \in -1..SeqMod - 1 /\ t.info[<<l, 0>>].lastseqid # -1
          BY <1>3, <1>16, <3>3
        <4>2. 1 <= t.info[<<l, 0>>].lastseqid + 1
          BY <4>1, ServerAssumption
        <4> QED BY <1>16, <2>1, <3>1, <3>3, <4>2
      <3>4. CASE l = r.owner /\ r.op # "LOCK_NEW"
        BY <1>6, <1>9, <1>10, <1>16, <2>1, <3>1, <3>4 DEF lockkey
      <3> QED BY <3>2, <3>3, <3>4
    <2> QED BY <1>8, <1>13, <1>16, <2>1, <2>2, <2>3
  <1>17. CASE o.status = "SHARE_DENIED" \/ (o.status = "DENIED" /\ r.op # "LOCK")
    <2>1. n.opened = k.opened /\ n.confirmed = k.confirmed /\ n.locks = k.locks
      BY <1>11, <1>17
    <2>2. r.op \in {"OPEN", "LOCK_NEW"}
      BY <1>10, <1>17
    <2> QED BY <1>8, <1>13, <2>1, <2>2
  <1>18. CASE o.status = "DENIED" /\ r.op = "LOCK"
    <2>1. /\ n.opened = k.opened /\ n.confirmed = k.confirmed
          /\ \A l \in LockOwner :
               /\ n.locks[l].stateid = k.locks[l].stateid
               /\ n.locks[l].seqid = IF l = r.owner THEN mod32(k.locks[l].seqid + 1)
                                     ELSE k.locks[l].seqid
          /\ o.status \notin NotAdvancing
      BY <1>11, <1>18 DEF NotAdvancing
    <2>2. k.opened # NoStateid
      BY <1>1, <1>8, <1>18 DEF Asks
    <2>3. ASSUME NEW l \in Owns(c), n.locks[l].stateid # NoStateid
          PROVE  /\ n.locks[l].seqid <= t.info[<<l, 0>>].lastseqid + 1
                 /\ Valid(t, <<l, 0>>, n.locks[l].stateid)
      <3>1. l \in LockOwner
        BY <1>2
      <3>2. CASE l # r.owner
        BY <1>8, <1>18, <2>1, <2>3, <3>1, <3>2
      <3>3. CASE l = r.owner
        BY <1>1, <1>6, <1>9, <1>10, <1>18, <2>1, <3>1, <3>3 DEF lockkey, Asks
      <3> QED BY <3>2, <3>3
    <2> QED BY <1>8, <1>13, <1>18, <2>1, <2>2, <2>3
  <1>19. CASE \/ o.status \notin {"OK", "SHARE_DENIED", "DENIED"}
              \/ o.status = "OK" /\ r.op = "CLOSE"
    <2>1. n.opened = NoStateid /\ \A l \in LockOwner : n.locks[l].stateid = NoStateid
      BY <1>11, <1>19
    <2> QED BY <1>2, <1>13, <2>1
  <1> QED BY <1>1, <1>14, <1>15, <1>16, <1>17, <1>18, <1>19
-----------------------------------------------------------------------------
(* What a request does to what clients believe *)

\* What is known of the memory before and after a request is handled.
Delivered(s, r, o) ==
  /\ Shape(s) /\ StateInv(s) /\ CachedTrue(s) /\ r \in Request /\ Asked(s, r)
  /\ Shape(o.s) /\ o.s \in Server /\ Keeps(s, o.s)
  /\ \A k \in Key : s.info[k].lastseqid < SeqMod - 1
  /\ Refused(s, r, o) \/ Replayed(s, r, o) \/ Executed(s, r, o)

\* The next number of an owner, where numbers do not wrap around.
LEMMA NextNumber ==
  ASSUME NEW s \in Server, NEW k \in Key, s.info[k].lastseqid < SeqMod - 1
  PROVE  /\ s.info[k].lastseqid \in -1..SeqMod - 1
         /\ s.info[k].lastseqid # -1 =>
              mod32(s.info[k].lastseqid + 1) = s.info[k].lastseqid + 1
  <1> DEFINE m == s.info[k].lastseqid
  <1>1. m \in -1..SeqMod - 1 /\ m < SeqMod - 1
    BY ServerFields DEF Info
  <1> HIDE DEF m
  <1>2. m # -1 => mod32(m + 1) = m + 1
    BY <1>1, Modulus, ServerAssumption
  <1> QED BY <1>1, <1>2 DEF m

\* An operation touches owners of its client only.
LEMMA TouchedOwners ==
  ASSUME NEW s, Shape(s), NEW r \in Request, Asked(s, r), Sequencer(s, r) # <<>>
  PROVE  /\ r.client \in Client /\ Sequencer(s, r) \in Key
         /\ \A k \in Named(s, r) \cup Touched(s, r) : Holder(k) = r.client
  <1> DEFINE key == Sequencer(s, r)
  <1>1. /\ key \in Key
        /\ r.op = "OPEN" => key = Current(s, r.client)
        /\ r.op \in {"OPEN_CONFIRM", "CLOSE", "LOCK_NEW"} => key \in OpenKey /\ key[1] = r.client
        /\ r.op \in {"LOCK", "LOCKU"} => LockHolder(s, r.stateid.id) /\ key[1] = r.owner
        /\ r.op # "OPEN" => key = s.state[r.stateid.id].owner
        /\ r.op \in {"OPEN", "OPEN_CONFIRM", "CLOSE", "LOCK_NEW", "LOCK", "LOCKU"}
    BY SequencerKind
  <1>2. r.client \in Client /\ Holder(<<r.client>>) = r.client
    BY DEF Request, OpenRequest, StateRequest, Holder
  <1>3. r.op \in {"LOCK_NEW", "LOCK", "LOCKU"} =>
          r.owner \in LockOwner /\ r.owner \notin Client /\ ClientOf[r.owner] = r.client
    BY ServerAssumption DEF Asked, Owns
  <1> HIDE DEF key
  <1>4. Holder(key) = r.client
    <2>1. CASE r.op = "OPEN"
      BY <1>1, <1>2, <2>1 DEF Current, Holder
    <2>2. CASE r.op \in {"OPEN_CONFIRM", "CLOSE", "LOCK_NEW"}
      BY <1>1, <1>2, <2>2 DEF Holder
    <2>3. CASE r.op \in {"LOCK", "LOCKU"}
      BY <1>1, <1>3, <2>3 DEF Holder
    <2> QED BY <1>1, <2>1, <2>2, <2>3
  <1>5. r.op = "LOCK_NEW" => Holder(Current(s, r.owner)) = r.client
    BY <1>3 DEF Current, Holder
  <1> QED BY <1>1, <1>2, <1>4, <1>5 DEF Named, Touched, key

\* A request of another client, or one that the server has done with, leaves the owners
\* of a client alone.
LEMMA CopyAside ==
  ASSUME NEW s, NEW r, NEW o, Delivered(s, r, o), NEW c \in Client, s.life[c] = 0,
         \/ c # r.client
         \/ Refused(s, r, o) \/ Replayed(s, r, o)
         \/ Spent(s, r),
         NEW x \in Key, Holder(x) = c
  PROVE  Untouched(s, o.s, x) /\ o.s.info[x].lastseqid = s.info[x].lastseqid
  <1>1. CASE Refused(s, r, o)
    BY <1>1 DEF Refused, Untouched, StatesStay
  <1>2. CASE Replayed(s, r, o)
    BY <1>2 DEF Replayed, Untouched, StatesStay
  <1>3. CASE Executed(s, r, o) /\ ~Refused(s, r, o) /\ ~Replayed(s, r, o)
    <2> DEFINE key == Sequencer(s, r)
               owner == Current(s, r.owner)
    <2>1. /\ Shape(s) /\ StateInv(s) /\ r \in Request /\ Asked(s, r) /\ s \in Server
      BY DEF Delivered, Shape
    <2>2. key \in Key /\ key # <<>>
      BY <1>3, Keys DEF Executed
    <2>3. \A k \in Named(s, r) \cup Touched(s, r) : Holder(k) = r.client
      BY <2>1, <2>2, TouchedOwners
    <2>4. /\ \A k \in Key \ Touched(s, r) : Untouched(s, o.s, k)
          /\ \A k \in Key \ Named(s, r) : o.s.info[k].lastseqid = s.info[k].lastseqid
      BY <1>3, Zenon DEF Executed, Effect
    <2>5. CASE c # r.client
      BY <2>3, <2>4, <2>5
    <2>6. CASE c = r.client
      <3>1. Spent(s, r)
        BY <1>3, <2>6
      <3>2. /\ r.op \in {"LOCK", "LOCKU"} => key \in LockKey
            /\ r.op \notin {"LOCK", "LOCKU"} => key \in OpenKey
        BY <2>1, <2>2, <2>6, SequencerOfLife
      <3>3. /\ s.info[key].lastseqid # -1
            /\ \/ r.seqid <= s.info[key].lastseqid
               \/ r.op \notin {"OPEN_CONFIRM", "LOCK", "LOCKU"} /\ ~s.info[key].confirmed
               \/ r.op = "LOCK_NEW" /\ s.info[owner].confirmed
        BY <2>2, <3>1, Zenon DEF Spent
      <3>4. /\ mod32(s.info[key].lastseqid + 1) = r.seqid
            /\ s.info[key].confirmed \/ r.op = "OPEN_CONFIRM" \/ key \in LockKey
        BY <1>3, <3>3, Zenon DEF Executed
      <3>5. /\ s.info[key].lastseqid \in -1..SeqMod - 1
            /\ mod32(s.info[key].lastseqid + 1) = s.info[key].lastseqid + 1
        BY <2>1, <2>2, <3>3, NextNumber DEF Delivered
      <3>6. ~(r.seqid <= s.info[key].lastseqid)
        BY <3>4, <3>5
      <3>7. r.op = "LOCK_NEW" /\ s.info[owner].confirmed
        BY <3>2, <3>3, <3>4, <3>6, Keys
      <3>8. o.status \in NotAdvancing
        BY <1>3, <3>7, Zenon DEF Executed
      <3>9. \A k \in Key : Untouched(s, o.s, k)
        BY <1>3, <3>7, <3>8, Zenon DEF Executed, Effect
      <3>10. \A k \in Named(s, r) : o.s.info[k].lastseqid = s.info[k].lastseqid
        <4>1. /\ o.s.info[key].lastseqid = s.info[key].lastseqid
              /\ o.s.info[owner].lastseqid = s.info[owner].lastseqid
          BY <1>3, <3>7, <3>8 DEF Executed
        <4> QED BY <3>7, <4>1 DEF Named
      <3> QED BY <2>4, <3>9, <3>10
    <2> QED BY <2>5, <2>6
  <1> QED BY <1>1, <1>2, <1>3 DEF Delivered

\* What the server refuses or answers from memory, it has done with.
LEMMA AsideSpent ==
  ASSUME NEW s, NEW r, NEW o, Delivered(s, r, o), s.life[r.client] = 0,
         Refused(s, r, o) \/ Replayed(s, r, o),
         NEW k, NEW requests, ToldTo(s, k, r.client, requests), k.pending = <<r>>,
         Believes(s, k, r.client, requests)
  PROVE  Spent(s, r)
  <1> DEFINE key == Sequencer(s, r)
             m == s.info[key].lastseqid
  <1> SUFFICES ASSUME key # <<>>
               PROVE  /\ m # -1 /\ r.seqid <= m + 1
                      /\ \/ r.seqid <= m
                         \/ r.op \notin {"OPEN_CONFIRM", "LOCK", "LOCKU"} /\ ~s.info[key].confirmed
    BY Zenon DEF Spent
  <1>1. /\ Shape(s) /\ StateInv(s) /\ r \in Request /\ Asked(s, r) /\ s \in Server
        /\ \A x \in Key : s.info[x].lastseqid < SeqMod - 1
    BY DEF Delivered, Shape
  <1>2. /\ r.seqid \in 0..SeqMod - 1 /\ SeqMod \in Nat /\ r.client \in Client
        /\ r.op \in {"OPEN", "OPEN_CONFIRM", "CLOSE", "LOCK_NEW", "LOCK", "LOCKU"}
        /\ r.op \in {"LOCK", "LOCKU"} => r.owner \in Owns(r.client)
    BY <1>1, ServerAssumption DEF Request, OpenRequest, StateRequest, Seqid, Asked
  <1>3. /\ key \in Key
        /\ r.op \in {"LOCK", "LOCKU"} => key = <<r.owner, 0>> /\ key \in LockKey
        /\ r.op \notin {"LOCK", "LOCKU"} => key = <<r.client, 0>>
    BY <1>1, SequencerOfLife
  <1>4. Asks(k, r)
    BY DEF Believes
  <1>5. r.seqid <= m + 1
    <2>1. CASE r.op \notin {"LOCK", "LOCKU"}
      BY <1>3, <1>4, <2>1 DEF Asks, Believes
    <2>2. CASE r.op \in {"LOCK", "LOCKU"}
      <3>1. LockBelieved(s, k, r.owner)
        BY <1>2, <2>2 DEF Believes
      <3> QED BY <1>3, <1>4, <2>2, <3>1 DEF Asks, LockBelieved
    <2> QED BY <2>1, <2>2
  <1>6. /\ m \in -1..SeqMod - 1
        /\ m # -1 => mod32(m + 1) = m + 1
    BY <1>1, <1>3, NextNumber
  <1>7. CASE Refused(s, r, o)
    <2>1. /\ m # -1 /\ m # r.seqid
          /\ \/ ~s.info[key].confirmed /\ r.op # "OPEN_CONFIRM" /\ key \in OpenKey
             \/ mod32(m + 1) # r.seqid
      BY <1>7 DEF Refused
    <2>2. key \in OpenKey => r.op \notin {"LOCK", "LOCKU"}
      BY <1>3, Keys
    <2> HIDE DEF m, key
    <2> QED BY <1>2, <1>5, <1>6, <2>1, <2>2
  <1>8. CASE Replayed(s, r, o)
    <2>1. r.seqid = m
      BY <1>8 DEF Replayed
    <2> HIDE DEF m, key
    <2> QED BY <1>2, <2>1
  <1> QED BY <1>7, <1>8

\* A request that is carried out for the client that waits for it, and was not before, is
\* one that the server accepts: its owner's number goes on to the request's.
LEMMA FreshAdvances ==
  ASSUME NEW s, NEW r, NEW o, Delivered(s, r, o), s.life[r.client] = 0,
         Executed(s, r, o), ~Spent(s, r),
         NEW k, NEW requests, ToldTo(s, k, r.client, requests), k.pending = <<r>>,
         Believes(s, k, r.client, requests)
  PROVE  /\ o.status \notin NotAdvancing
         /\ r.op # "OPEN" => ~Past(s, r)
  <1> DEFINE key == Sequencer(s, r)
             m == s.info[key].lastseqid
             c == r.client
  <1>1. /\ Shape(s) /\ StateInv(s) /\ r \in Request /\ Asked(s, r) /\ s \in Server
        /\ \A x \in Key : s.info[x].lastseqid < SeqMod - 1
    BY DEF Delivered, Shape
  <1>2. /\ r.seqid \in 0..SeqMod - 1 /\ SeqMod \in Nat /\ c \in Client
        /\ r.op \in {"OPEN", "OPEN_CONFIRM", "CLOSE", "LOCK_NEW", "LOCK", "LOCKU"}
        /\ r.op \in {"LOCK", "LOCKU"} => r.owner \in Owns(c)
    BY <1>1, ServerAssumption DEF Request, OpenRequest, StateRequest, Seqid, Asked
  <1>3. key \in Key /\ key # <<>>
    BY Keys DEF Executed
  <1>4. /\ r.op \in {"LOCK", "LOCKU"} => key = <<r.owner, 0>> /\ key \in LockKey
        /\ r.op \notin {"LOCK", "LOCKU"} => key = <<c, 0>> /\ key \in OpenKey
    BY <1>1, <1>3, SequencerOfLife
  <1>5. /\ m \in -1..SeqMod - 1
        /\ m # -1 => mod32(m + 1) = m + 1
    BY <1>1, <1>3, NextNumber
  <1>6. Asks(k, r)
    BY DEF Believes
  <1>7. CASE r.op = "OPEN"
    BY <1>7 DEF Executed
  <1>8. CASE r.op # "OPEN"
    <2>1. r.seqid = m + 1
      BY <1>5, <1>8 DEF Executed
    <2>2. ~Past(s, r)
      <3>1. ~(r.seqid <= m)
        <4> HIDE DEF m
        <4> QED BY <1>5, <2>1
      <3> QED BY <1>3, <3>1 DEF Past
    <2>3. \A ops : ~Waits(s, k, ops)
      BY <2>2 DEF Waits
    <2>4. CASE r.op = "LOCK_NEW"
      <3>1. m # -1 /\ r.seqid <= m + 1
        <4>1. m # -1
          BY <1>8 DEF Executed
        <4> QED BY <1>5, <2>1, <4>1
      <3>2. ~s.info[Current(s, r.owner)].confirmed
        BY <2>4, <3>1, Zenon DEF Spent
      <3>3. o.status \in NotAdvancing => s.info[Current(s, r.owner)].confirmed
        BY <2>4, Zenon DEF Executed, Effect
      <3> QED BY <2>2, <3>2, <3>3
    <2>5. CASE r.op \in {"OPEN_CONFIRM", "CLOSE"}
      <3>1. k.opened # NoStateid /\ r.stateid = k.opened
        BY <1>6, <2>5 DEF Asks
      <3>2. /\ Valid(s, key, r.stateid) /\ (~k.confirmed => ~s.info[key].confirmed)
            /\ OnFile(s, r.stateid.id)
        BY <1>4, <2>3, <2>5, <3>1 DEF Believes, OpenBelieved
      <3>3. r.op = "OPEN_CONFIRM" => ~s.info[key].confirmed
        BY <1>6, <3>2 DEF Asks
      <3>4. ~s.state[r.stateid.id].closed
        <4> DEFINE id == r.stateid.id
        <4>1. id \in Id /\ s.state[id] # NoState /\ s.state[id].owner = key
          BY <3>2 DEF Valid
        <4>2. s.info[key].id = id
          BY <1>1, <3>2, <4>1 DEF StateInv, Held, OnFile
        <4>3. id # 0
          BY <4>1 DEF Id
        <4> QED BY <1>1, <1>3, <4>1, <4>2, <4>3 DEF StateInv, OwnIds
      <3>5. Willing(s, r)
        BY <2>5, <3>2, <3>3, <3>4 DEF Willing
      <3> QED BY <2>2, <3>5, Zenon DEF Executed, Effect
    <2>6. CASE r.op \in {"LOCK", "LOCKU"}
      <3>1. k.locks[r.owner].stateid # NoStateid /\ r.stateid = k.locks[r.owner].stateid
        BY <1>6, <2>6 DEF Asks
      <3>2. LockBelieved(s, k, r.owner)
        BY <1>2, <2>6 DEF Believes
      <3>3. Valid(s, key, r.stateid)
        BY <1>4, <2>3, <2>6, <3>1, <3>2 DEF LockBelieved
      <3>4. Willing(s, r)
        BY <2>6, <3>3 DEF Willing
      <3> QED BY <2>2, <3>4, Zenon DEF Executed, Effect
    <2> QED BY <1>2, <1>8, <2>4, <2>5, <2>6
  <1> QED BY <1>7, <1>8

\* A request that is carried out leaves those spent that its owners have done with.
LEMMA SpentLasts ==
  ASSUME NEW s, NEW r, NEW o, Delivered(s, r, o), Executed(s, r, o),
         o.status \notin NotAdvancing, s.life[r.client] = 0, o.s.life[r.client] = 0,
         NEW q \in Request, Asked(s, q), q.client = r.client, Spent(s, q)
  PROVE  Spent(o.s, q)
  <1> DEFINE t == o.s
             key == Sequencer(s, q)
             seq == Sequencer(s, r)
             owner == Current(s, q.owner)
             named == Current(s, r.owner)
             c == r.client
  <1> SUFFICES ASSUME Sequencer(t, q) # <<>> PROVE Spent(t, q)
    BY DEF Spent
  <1>1. /\ Shape(s) /\ StateInv(s) /\ r \in Request /\ Asked(s, r) /\ s \in Server
        /\ t \in Server /\ Keeps(s, t) /\ \A x \in Key : s.info[x].lastseqid < SeqMod - 1
    BY DEF Delivered, Shape
  <1>2. Sequencer(t, q) = key /\ key # <<>>
    BY <1>1, SequencerKept
  <1>3. /\ key \in Key /\ Holder(key) = c
        /\ q.op \in {"LOCK", "LOCKU"} => key \in LockKey /\ s.info[key].confirmed
        /\ q.op \notin {"LOCK", "LOCKU"} => key = <<c, 0>> /\ key \in OpenKey
    BY <1>1, <1>2, SequencerOfLife
  <1>4. seq \in Key /\ seq # <<>>
    BY Keys DEF Executed
  <1>5. /\ r.op \in {"LOCK", "LOCKU"} => seq \in LockKey
        /\ r.op \notin {"LOCK", "LOCKU"} => seq = <<c, 0>> /\ seq \in OpenKey
    BY <1>1, <1>4, SequencerOfLife
  <1>6. /\ c \in Client /\ r.seqid \in Nat /\ q.seqid \in Nat
        /\ q.op \in {"OPEN", "OPEN_CONFIRM", "CLOSE", "LOCK_NEW", "LOCK", "LOCKU"}
        /\ q.op = "LOCK_NEW" => q.owner \in Owns(c)
        /\ r.op = "LOCK_NEW" => r.owner \in Owns(c)
    BY <1>1 DEF Request, OpenRequest, StateRequest, Seqid, Asked
  <1>7. \A l \in Owns(c) : /\ Current(s, l) = <<l, 0>> /\ Current(t, l) = <<l, 0>>
                           /\ <<l, 0>> \in LockKey /\ <<l, 0>> \in Key
    <2>1. ASSUME NEW l \in Owns(c) PROVE Holder(<<l>>) = c
      BY <2>1, ServerAssumption DEF Owns, Holder
    <2> QED BY <1>6, <2>1, OwnersOf DEF Current
  <1>8. /\ s.info[key].lastseqid # -1 /\ q.seqid <= s.info[key].lastseqid + 1
        /\ \/ q.seqid <= s.info[key].lastseqid
           \/ q.op \notin {"OPEN_CONFIRM", "LOCK", "LOCKU"} /\ ~s.info[key].confirmed
           \/ q.op = "LOCK_NEW" /\ s.info[owner].confirmed
    BY <1>2, Zenon DEF Spent
  <1>9. s.info[key].lastseqid \in -1..SeqMod - 1
    BY <1>1, <1>3, NextNumber
  <1>10. CASE key = seq
    <2>1. r.seqid = s.info[key].lastseqid + 1
      <3>1. mod32(s.info[key].lastseqid + 1) = r.seqid
        BY <1>8, <1>10 DEF Executed
      <3> QED BY <1>1, <1>3, <1>8, <3>1, NextNumber
    <2>2. t.info[key].lastseqid = r.seqid
      BY <1>10 DEF Executed
    <2>3. t.info[key].lastseqid # -1 /\ q.seqid <= t.info[key].lastseqid
          /\ q.seqid <= t.info[key].lastseqid + 1
      <3> HIDE DEF key, t
      <3> QED BY <1>6, <1>8, <1>9, <2>1, <2>2, SMTT(30)
    <2> QED BY <1>2, <2>3, Zenon DEF Spent
  <1>11. CASE key # seq
    <2>1. r.op = "LOCK_NEW" => named # key
      <3> SUFFICES ASSUME r.op = "LOCK_NEW", named = key PROVE FALSE
        OBVIOUS
      <3>1. ~s.info[named].confirmed
        BY Zenon DEF Executed
      <3>2. named \in LockKey
        BY <1>6, <1>7
      <3>3. key \in LockKey => s.info[key].confirmed
        BY <1>3, Keys
      <3> QED BY <3>1, <3>2, <3>3
    <2>2. key \notin Named(s, r)
      BY <1>11, <2>1 DEF Named
    <2>3. t.info[key].lastseqid = s.info[key].lastseqid
      BY <1>3, <2>2, Zenon DEF Executed
    <2>4. q.op \notin {"LOCK", "LOCKU"} => t.info[key].confirmed = s.info[key].confirmed
      <3> SUFFICES ASSUME q.op \notin {"LOCK", "LOCKU"} PROVE key \notin Touched(s, r)
        BY <1>3, Zenon DEF Executed, Effect, Untouched
      <3>1. key \in OpenKey /\ key \notin LockKey
        BY <1>3, Keys
      <3> QED BY <1>11, <2>1, <3>1 DEF Touched
    <2>5. q.op = "LOCK_NEW" =>
            Current(t, q.owner) = owner /\ (s.info[owner].confirmed => t.info[owner].confirmed)
      <3> SUFFICES ASSUME q.op = "LOCK_NEW"
                   PROVE  Current(t, q.owner) = owner /\
                          (s.info[owner].confirmed => t.info[owner].confirmed)
        OBVIOUS
      <3>1. Current(t, q.owner) = owner /\ owner \in Key
        BY <1>6, <1>7
      <3>2. r.op # "CLOSE"
        BY <1>3, <1>5, <1>11
      <3> QED BY <3>1, <3>2, Zenon DEF Executed, Effect
    <2>6. /\ t.info[key].lastseqid # -1 /\ q.seqid <= t.info[key].lastseqid + 1
          /\ \/ q.seqid <= t.info[key].lastseqid
             \/ q.op \notin {"OPEN_CONFIRM", "LOCK", "LOCKU"} /\ ~t.info[key].confirmed
             \/ q.op = "LOCK_NEW" /\ t.info[Current(t, q.owner)].confirmed
      <3> HIDE DEF key, t, owner
      <3> QED BY <1>8, <2>3, <2>4, <2>5
    <2> QED BY <1>2, <2>6, Zenon DEF Spent
  <1> QED BY <1>10, <1>11

\* While the answer to a request that was carried out is on its way, the client's
\* knowledge is out of date in what the answer says, and in nothing else.
LEMMA FreshBelieved ==
  ASSUME NEW s, NEW r, NEW o, Delivered(s, r, o), s.life[r.client] = 0,
         o.s.life[r.client] = 0, Executed(s, r, o), ~Spent(s, r),
         NEW k, NEW requests, ToldTo(s, k, r.client, requests), k.pending = <<r>>,
         Believes(s, k, r.client, requests)
  PROVE  Believes(o.s, k, r.client, requests) /\ Spent(o.s, r)
  <1> DEFINE t == o.s
             seq == Sequencer(s, r)
             c == r.client
             key == <<c, 0>>
  <1>1. /\ Shape(s) /\ StateInv(s) /\ r \in Request /\ Asked(s, r) /\ s \in Server
        /\ t \in Server /\ Keeps(s, t) /\ \A x \in Key : s.info[x].lastseqid < SeqMod - 1
    BY DEF Delivered, Shape
  <1>2. /\ r.seqid \in 0..SeqMod - 1 /\ SeqMod \in Nat /\ c \in Client
        /\ r.op \in {"OPEN", "OPEN_CONFIRM", "CLOSE", "LOCK_NEW", "LOCK", "LOCKU"}
        /\ r.op \in {"LOCK_NEW", "LOCK", "LOCKU"} => r.owner \in Owns(c)
    BY <1>1, ServerAssumption DEF Request, OpenRequest, StateRequest, Seqid, Asked
  <1>3. seq \in Key /\ seq # <<>>
    BY Keys DEF Executed
  <1>4. /\ r.op \in {"LOCK", "LOCKU"} => seq = <<r.owner, 0>> /\ seq \in LockKey
        /\ r.op \notin {"LOCK", "LOCKU"} => seq = key /\ seq \in OpenKey
    BY <1>1, <1>3, SequencerOfLife
  <1>5. /\ o.status \notin NotAdvancing
        /\ r.op # "OPEN" => ~Past(s, r)
    BY FreshAdvances
  <1>6. Sequencer(t, r) = seq /\ t.info[seq].lastseqid = r.seqid
    BY <1>5, Zenon DEF Executed, Effect
  <1>7. Past(t, r)
    BY <1>2, <1>6 DEF Past
  <1>8. Spent(t, r)
    <2>1. /\ t.info[seq].lastseqid # -1 /\ r.seqid <= t.info[seq].lastseqid + 1
          /\ r.seqid <= t.info[seq].lastseqid
      BY <1>2, <1>6
    <2> QED BY <1>6, <2>1, Zenon DEF Spent
  <1>9. Asks(k, r)
    BY DEF Believes
  <1>10. /\ \A ops : r.op \in ops => Waits(t, k, ops)
         /\ r.op # "OPEN" => \A ops : ~Waits(s, k, ops)
    BY <1>5, <1>7 DEF Waits
  <1>11. /\ key \in Key /\ key \in OpenKey /\ key \notin LockKey /\ Holder(key) = c
         /\ \A l \in Owns(c) : /\ <<l, 0>> \in Key /\ <<l, 0>> \in LockKey
                               /\ Holder(<<l, 0>>) = c /\ <<l, 0>> # key
    BY <1>2, OwnersOf, Keys
  <1>12. r.op = "LOCK_NEW" => Current(s, r.owner) = <<r.owner, 0>>
    <2>1. r.op = "LOCK_NEW" => Holder(<<r.owner>>) = c
      BY <1>2, ServerAssumption DEF Owns, Holder
    <2> QED BY <2>1 DEF Current
  <1>13. /\ Named(s, r) = IF r.op = "LOCK_NEW" THEN {key, <<r.owner, 0>>} ELSE {seq}
         /\ r.op = "LOCK_NEW" => Touched(s, r) = {<<r.owner, 0>>}
         /\ r.op \in {"OPEN", "OPEN_CONFIRM", "LOCK", "LOCKU"} => Touched(s, r) = {seq}
    BY <1>4, <1>12 DEF Named, Touched
  <1>14. /\ \A x \in Key \ Touched(s, r) : Untouched(s, t, x)
         /\ \A x \in Key \ Named(s, r) : t.info[x].lastseqid = s.info[x].lastseqid
         /\ r.op = "OPEN_CONFIRM" => t.file.shares = s.file.shares
    BY Zenon DEF Executed, Effect
  <1>15. ASSUME NEW x \in Key, x \notin Touched(s, r), Holder(x) = c
         PROVE  /\ \A st : Valid(s, x, st) => Valid(t, x, st)
                /\ \A id : OnFile(s, id) /\ s.state[id].owner = x => OnFile(t, id)
                /\ t.info[x].confirmed = s.info[x].confirmed
    <2>1. Untouched(s, t, x)
      BY <1>14, <1>15
    <2>2. t.life[Holder(x)] = s.life[Holder(x)]
      BY <1>15
    <2> QED BY <2>1, <2>2, ValidStays DEF Untouched
  <1> HIDE DEF seq, t, key
  <1>16. k.opened = NoStateid => \A l \in Owns(c) : k.locks[l].stateid = NoStateid
    BY DEF Believes
  <1>17. k.seqid <= t.info[key].lastseqid + 1
    <2>1. CASE r.op \notin {"LOCK", "LOCKU"}
      BY <1>2, <1>4, <1>6, <1>9, <2>1 DEF Asks
    <2>2. CASE r.op \in {"LOCK", "LOCKU"}
      <3>1. key \notin Named(s, r)
        BY <1>4, <1>11, <1>13, <2>2
      <3> QED BY <1>11, <1>14, <3>1 DEF Believes, key
    <2> QED BY <2>1, <2>2
  <1>18. OpenBelieved(t, k, c)
    <2>1. OpenBelieved(s, k, c)
      BY DEF Believes
    <2>2. CASE r.op = "OPEN"
      BY <1>9, <2>2 DEF Asks, OpenBelieved
    <2>3. CASE r.op = "CLOSE"
      <3>1. Waits(t, k, {"OPEN_CONFIRM", "CLOSE"}) /\ Waits(t, k, {"CLOSE"})
        BY <1>10, <2>3
      <3> QED BY <3>1 DEF OpenBelieved
    <2>4. CASE r.op = "OPEN_CONFIRM"
      BY <1>10, <1>14, <2>1, <2>4 DEF OpenBelieved, OnFile
    <2>5. CASE r.op \in {"LOCK_NEW", "LOCK", "LOCKU"}
      <3>1. key \notin Touched(s, r)
        BY <1>2, <1>4, <1>11, <1>13, <2>5
      <3>2. /\ \A st : Valid(s, key, st) => Valid(t, key, st)
            /\ \A id : OnFile(s, id) /\ s.state[id].owner = key => OnFile(t, id)
            /\ t.info[key].confirmed = s.info[key].confirmed
        BY <1>11, <1>15, <3>1
      <3>3. k.opened # NoStateid =>
              /\ Valid(s, key, k.opened) /\ (~k.confirmed => ~s.info[key].confirmed)
              /\ OnFile(s, k.opened.id)
        BY <1>10, <2>1, <2>5 DEF OpenBelieved, key
      <3>4. k.opened # NoStateid => s.state[k.opened.id].owner = key
        BY <3>3 DEF Valid
      <3>5. k.opened # NoStateid =>
              /\ Valid(t, key, k.opened) /\ (~k.confirmed => ~t.info[key].confirmed)
              /\ OnFile(t, k.opened.id)
        BY <3>2, <3>3, <3>4
      <3> QED BY <3>5 DEF OpenBelieved, key
    <2> QED BY <1>2, <2>2, <2>3, <2>4, <2>5
  <1>19. ASSUME NEW l \in Owns(c) PROVE LockBelieved(t, k, l)
    <2>1. LockBelieved(s, k, l)
      BY DEF Believes
    <2> SUFFICES ASSUME k.locks[l].stateid # NoStateid
                 PROVE  /\ k.locks[l].seqid <= t.info[<<l, 0>>].lastseqid + 1
                        /\ \/ Waits(t, k, {"CLOSE"})
                           \/ Waits(t, k, {"LOCK", "LOCKU"}) /\ k.pending[1].owner = l
                           \/ Valid(t, <<l, 0>>, k.locks[l].stateid)
      BY DEF LockBelieved
    <2>2. k.pending[1] = r
      OBVIOUS
    <2>3. r.op # "OPEN" /\ (r.op = "LOCK_NEW" => l # r.owner)
      BY <1>9, <1>16 DEF Asks
    <2>4. CASE r.op \in {"LOCK", "LOCKU"} /\ r.owner = l
      <3>1. k.locks[l].seqid = r.seqid /\ t.info[<<l, 0>>].lastseqid = r.seqid
        BY <1>4, <1>6, <1>9, <2>4 DEF Asks
      <3>2. k.locks[l].seqid <= t.info[<<l, 0>>].lastseqid + 1
        BY <1>2, <3>1
      <3> QED BY <1>10, <2>2, <2>4, <3>2
    <2>5. CASE ~(r.op \in {"LOCK", "LOCKU"} /\ r.owner = l)
      <3>1. <<l, 0>> \notin Named(s, r)
        BY <1>2, <1>4, <1>11, <1>13, <2>3, <2>5
      <3>2. k.locks[l].seqid <= t.info[<<l, 0>>].lastseqid + 1
        BY <1>11, <1>14, <2>1, <3>1 DEF LockBelieved
      <3>3. CASE r.op = "CLOSE"
        BY <1>10, <3>2, <3>3
      <3>4. CASE r.op # "CLOSE"
        <4>1. Valid(s, <<l, 0>>, k.locks[l].stateid)
          BY <1>10, <2>1, <2>3 DEF LockBelieved
        <4>2. <<l, 0>> \notin Touched(s, r)
          BY <1>2, <1>4, <1>11, <1>13, <2>3, <2>5, <3>4
        <4>3. Valid(t, <<l, 0>>, k.locks[l].stateid)
          BY <1>11, <1>15, <4>1, <4>2
        <4> QED BY <3>2, <4>3
      <3> QED BY <3>3, <3>4
    <2> QED BY <2>4, <2>5
  <1>20. ASSUME NEW q \in requests, q.client = c PROVE k.pending = <<q>> \/ Spent(t, q)
    <2>1. CASE q = r
      BY <2>1
    <2>2. CASE q # r
      <3>1. Spent(s, q)
        <4>1. <<r>> # <<q>>
          BY <2>2
        <4> QED BY <1>20, <4>1 DEF Believes
      <3>2. q \in Request /\ Asked(s, q)
        BY DEF ToldTo
      <3> QED BY <1>5, <1>20, <3>1, <3>2, SpentLasts DEF t
    <2> QED BY <2>1, <2>2
  <1>21. k.pending # <<>> => Asks(k, k.pending[1])
    BY DEF Believes
  <1> QED BY <1>8, <1>16, <1>17, <1>18, <1>19, <1>20, <1>21 DEF Believes, key, t

\* The answer that a client of the first life gets is true when it comes.
LEMMA TruthfulAnswer ==
  ASSUME NEW s, NEW r, NEW o, Delivered(s, r, o), s.life[r.client] = 0, Asked(o.s, r)
  PROVE  /\ Truthful(o.s, Sequencer(o.s, r), r, o)
         /\ o.status \notin NotAdvancing => Sequencer(o.s, r) # <<>> /\ Past(o.s, r)
         /\ r.op = "LOCK_NEW" /\ o.status = "OK" =>
              Valid(o.s, <<r.owner, 0>>, o.stateid) /\ o.s.info[<<r.owner, 0>>].lastseqid # -1
  <1> DEFINE t == o.s
             seq == Sequencer(s, r)
  <1>1. /\ Shape(s) /\ StateInv(s) /\ r \in Request /\ Asked(s, r) /\ s \in Server
        /\ t \in Server /\ Keeps(s, t) /\ CachedTrue(s)
    BY DEF Delivered, Shape
  <1>2. /\ r.seqid \in 0..SeqMod - 1 /\ SeqMod \in Nat /\ r.client \in Client
        /\ r.op \in {"OPEN", "OPEN_CONFIRM", "CLOSE", "LOCK_NEW", "LOCK", "LOCKU"}
        /\ r.op \in {"LOCK_NEW", "LOCK", "LOCKU"} => r.owner \in Owns(r.client)
    BY <1>1, ServerAssumption DEF Request, OpenRequest, StateRequest, Seqid, Asked
  <1>3. r.op # "OPEN" => r.stateid.id \in Id /\ r.stateid.id < t.next_id
    BY <1>2 DEF Asked, OpenKnown, LockKnown
  <1>4. CASE o.status \in NotAdvancing
    <2>1. o.status \notin {"OK", "DENIED", "SHARE_DENIED"}
      BY <1>4 DEF NotAdvancing
    <2> QED BY <1>3, <1>4, <2>1 DEF Truthful
  <1>5. CASE Replayed(s, r, o) /\ o.status \notin NotAdvancing
    <2>1. /\ seq \in Key /\ r.seqid = s.info[seq].lastseqid /\ t = s
          /\ s.info[seq].cached # <<>> /\ s.info[seq].cached[1] = r
          /\ o.status = s.info[seq].cached[2].status /\ o.stateid = s.info[seq].cached[2].stateid
          /\ r.op = "LOCK_NEW" => o.status \notin {"OK", "DENIED"}
      BY <1>5 DEF Replayed, NotAdvancing
    <2>2. Truthful(s, seq, r, s.info[seq].cached[2])
      BY <1>1, <2>1 DEF CachedTrue
    <2>3. Truthful(s, seq, r, o)
      BY <2>1, <2>2 DEF Truthful
    <2>4. seq # <<>>
      BY <2>1, Keys
    <2>5. Past(t, r)
      BY <1>2, <2>1 DEF Past
    <2> QED BY <2>1, <2>3, <2>4, <2>5
  <1>6. CASE Executed(s, r, o) /\ o.status \notin NotAdvancing
    <2>1. /\ seq # <<>> /\ Sequencer(t, r) = seq /\ Truthful(t, seq, r, o)
          /\ t.info[seq].lastseqid = r.seqid
      <3>1. seq \in Key /\ t.info[seq].lastseqid = r.seqid
        BY <1>6, Zenon DEF Executed
      <3>2. Sequencer(t, r) = seq /\ Truthful(t, seq, r, o)
        BY <1>6, Zenon DEF Executed, Effect
      <3> QED BY <3>1, <3>2, Keys
    <2>2. Past(t, r)
      BY <1>2, <2>1 DEF Past
    <2>3. ASSUME r.op = "LOCK_NEW", o.status = "OK"
          PROVE  Valid(t, <<r.owner, 0>>, o.stateid) /\ t.info[<<r.owner, 0>>].lastseqid # -1
      <3>1. Current(s, r.owner) = <<r.owner, 0>>
        <4>1. Holder(<<r.owner>>) = r.client
          BY <1>2, <2>3, ServerAssumption DEF Owns, Holder
        <4> QED BY <4>1 DEF Current
      <3>2. Valid(t, Current(s, r.owner), o.stateid)
        BY <1>6, <2>3, Zenon DEF Executed, Effect
      <3>3. t.info[Current(s, r.owner)].lastseqid = 0
        BY <1>6, <2>3, Zenon DEF Executed
      <3> QED BY <3>1, <3>2, <3>3
    <2> QED BY <2>1, <2>2, <2>3
  <1>7. CASE Refused(s, r, o)
    BY <1>4, <1>7 DEF Refused
  <1> QED BY <1>4, <1>5, <1>6, <1>7 DEF Delivered

\* What a client of the first life believes while its request is handled.
LEMMA PendingBelieved ==
  ASSUME NEW s, NEW r, NEW o, Delivered(s, r, o), s.life[r.client] = 0,
         o.s.life[r.client] = 0,
         NEW k, NEW requests, ToldTo(s, k, r.client, requests), k.pending = <<r>>,
         Believes(s, k, r.client, requests)
  PROVE  Believes(o.s, k, r.client, requests) /\ Spent(o.s, r)
  <1>1. /\ Shape(s) /\ StateInv(s) /\ r \in Request /\ Asked(s, r)
        /\ o.s \in Server /\ Keeps(s, o.s) /\ r.client \in Client
    BY DEF Delivered, Request, OpenRequest, StateRequest
  <1>2. CASE Spent(s, r)
    <2>1. \A x \in Key : Holder(x) = r.client =>
            Untouched(s, o.s, x) /\ o.s.info[x].lastseqid = s.info[x].lastseqid
      BY <1>1, <1>2, CopyAside
    <2>2. Spent(o.s, r)
      BY <1>1, <1>2, <2>1, SpentStays
    <2>3. Believes(o.s, k, r.client, requests)
      BY <1>1, <2>1, BelievesStays
    <2> QED BY <2>2, <2>3
  <1>3. CASE ~Spent(s, r)
    <2>1. Executed(s, r, o)
      BY <1>3, AsideSpent DEF Delivered
    <2> QED BY <1>3, <2>1, FreshBelieved
  <1> QED BY <1>2, <1>3

\* A request, or a late copy of one, is handled, and its answer may reach the client.
LEMMA DeliverTruth ==
  ASSUME NoWrap, ServerInv, ServerInv', NumberInv, TruthInv, NEW r \in sent, Deliver(r)
  PROVE  TruthInv'
  <1> SUFFICES ASSUME srv'.up = "up" PROVE TruthInv'
    BY DEF TruthInv
  <1>1. /\ srv.up = "up" /\ srv.next_id <= MaxId /\ Typed /\ Shape(srv) /\ StateInv(srv)
        /\ Started(srv) /\ Remembered(srv, client, sent) /\ CachedTrue(srv)
        /\ Repeatable(srv)
        /\ r \in Request /\ Asked(srv, r) /\ client \in [Client -> Believed]
        /\ srv \in Server /\ sent' = sent /\ sent \subseteq Request
    BY DEF Deliver, ServerInv, Typed, Remembered, Shape, TruthInv
  <1>2. PICK o \in Handle(srv, r) :
          /\ srv' = o.s
          /\ \/ client' = client
             \/ /\ client[r.client].pending = <<r>> /\ o.s.up = "up"
                /\ LET owner == Current(o.s, r.client)
                       told == [status |-> o.status, stateid |-> o.stateid,
                                confirmed |-> o.s.info[owner].confirmed]
                   IN client' = [client EXCEPT ![r.client] = Learn(@, r, told)]
    BY DEF Deliver
  <1>3. Handled(srv, r, o)
    BY <1>1, HandleAnswers
  <1>4. /\ Shape(o.s) /\ o.s \in Server /\ StateInv(o.s) /\ Keeps(srv, o.s) /\ o.s.up = "up"
        /\ Remembered(o.s, client', sent)
    BY <1>1, <1>2, <1>3 DEF Handled, Shape, ServerInv
  <1>5. Refused(srv, r, o) \/ Replayed(srv, r, o) \/ Executed(srv, r, o)
    BY <1>1, <1>4, HandleKinds
  <1>6. Delivered(srv, r, o)
    BY <1>1, <1>4, <1>5 DEF Delivered, NumberInv
  <1>7. r.client \in Client /\ Asked(o.s, r)
    BY <1>1, <1>4 DEF Request, OpenRequest, StateRequest, Remembered
  <1>8. CachedTrue(o.s)
    BY <1>1, <1>4, <1>5, HandleCached
  <1>9. ASSUME NEW c \in Client
        PROVE  /\ ToldTo(srv, client[c], c, sent)
               /\ o.s.life[c] = 0 => srv.life[c] = 0 /\ Believes(srv, client[c], c, sent)
    <2>1. ToldTo(srv, client[c], c, sent)
      BY <1>1 DEF ToldTo, Typed, Remembered
    <2>2. srv.life[c] <= o.s.life[c] /\ srv.life[c] \in Nat
      BY <1>1, <1>4, ServerFields, Keys DEF Keeps
    <2>3. srv.life[c] = 0 => Believes(srv, client[c], c, sent)
      BY <1>1 DEF TruthInv
    <2> QED BY <2>1, <2>2, <2>3
  <1>10. ASSUME NEW c \in Client, o.s.life[c] = 0, c # r.client \/ client[c].pending # <<r>>
         PROVE  Believes(o.s, client[c], c, sent)
    <2>1. c # r.client \/ Spent(srv, r)
      BY <1>9, <1>10 DEF Believes
    <2>2. \A x \in Key : Holder(x) = c =>
            Untouched(srv, o.s, x) /\ o.s.info[x].lastseqid = srv.info[x].lastseqid
      BY <1>6, <1>9, <1>10, <2>1, CopyAside
    <2> QED BY <1>1, <1>4, <1>9, <1>10, <2>2, BelievesStays
  <1>11. ASSUME o.s.life[r.client] = 0, client[r.client].pending = <<r>>
         PROVE  Believes(o.s, client[r.client], r.client, sent) /\ Spent(o.s, r)
    BY <1>6, <1>7, <1>9, <1>11, PendingBelieved
  <1>12. ASSUME NEW c \in Client, o.s.life[c] = 0
         PROVE  Believes(o.s, client'[c], c, sent)
    <2>1. CASE client' = client
      BY <1>10, <1>11, <1>12, <2>1
    <2>2. CASE client' # client
      <3> DEFINE k == client[r.client]
                 told == [status |-> o.status, stateid |-> o.stateid,
                          confirmed |-> o.s.info[Current(o.s, r.client)].confirmed]
                 n == Learn(k, r, told)
      <3>1. k.pending = <<r>> /\ client' = [client EXCEPT ![r.client] = n]
        BY <1>2, <2>2
      <3>2. client'[r.client] = n /\ \A d \in Client : d # r.client => client'[d] = client[d]
        BY <1>1, <1>7, <3>1
      <3>3. CASE c # r.client
        BY <1>10, <1>12, <3>2, <3>3
      <3>4. CASE c = r.client
        <4>1. Current(o.s, r.client) = <<c, 0>>
          <5>1. Holder(<<r.client>>) = c
            BY <1>7, <3>4 DEF Holder
          <5> QED BY <1>12, <3>4, <5>1 DEF Current
        <4>2. /\ told.status = o.status /\ told.stateid = o.stateid
              /\ told.confirmed = o.s.info[<<c, 0>>].confirmed
          BY <4>1
        <4>3. Believes(o.s, k, c, sent) /\ Spent(o.s, r) /\ srv.life[r.client] = 0
          BY <1>9, <1>11, <1>12, <3>1, <3>4
        <4>4. /\ Truthful(o.s, Sequencer(o.s, r), r, o)
              /\ o.status \notin NotAdvancing => Sequencer(o.s, r) # <<>> /\ Past(o.s, r)
              /\ r.op = "LOCK_NEW" /\ o.status = "OK" =>
                   Valid(o.s, <<r.owner, 0>>, o.stateid) /\ o.s.info[<<r.owner, 0>>].lastseqid # -1
          BY <1>6, <1>7, <4>3, TruthfulAnswer
        <4>5. k \in Believed /\ ToldTo(o.s, k, c, sent)
          <5>1. k \in Believed /\ ToldTo(srv, k, c, sent)
            BY <1>1, <1>7, <1>9, <3>4
          <5>2. \A q \in sent : Asked(o.s, q)
            BY <1>4 DEF Remembered
          <5>3. \A id : OpenKnown(srv, id, c) => OpenKnown(o.s, id, c)
            BY <1>1, <1>4, ToldStays
          <5> QED BY <5>1, <5>2, <5>3 DEF ToldTo
        <4>6. n = Learn(k, r, told)
          OBVIOUS
        <4> HIDE DEF k, told, n
        <4>7. Truthful(o.s, Sequencer(o.s, r), r, told)
          BY <4>2, <4>4 DEF Truthful
        <4>8. /\ told.status \notin NotAdvancing => Sequencer(o.s, r) # <<>> /\ Past(o.s, r)
              /\ r.op = "LOCK_NEW" /\ told.status = "OK" =>
                   Valid(o.s, <<r.owner, 0>>, told.stateid) /\
                   o.s.info[<<r.owner, 0>>].lastseqid # -1
          BY <4>2, <4>4
        <4>9. Believes(o.s, n, c, sent)
          BY <1>4, <1>12, <3>1, <3>4, <4>2, <4>3, <4>5, <4>6, <4>7, <4>8, LearnBelieved
        <4> QED BY <3>2, <3>4, <4>9
      <3> QED BY <3>3, <3>4
    <2> QED BY <2>1, <2>2
  <1> QED BY <1>1, <1>2, <1>8, <1>12 DEF TruthInv

\* An operation that goes by no number leaves what clients believe true.
LEMMA QuietTruth ==
  ASSUME ServerInv, TruthInv, srv.up = "up", Quiet(srv, srv'), UNCHANGED <<sent, client>>
  PROVE  TruthInv'
  <1>1. /\ Typed /\ Shape(srv) /\ StateInv(srv) /\ Remembered(srv, client, sent)
        /\ CachedTrue(srv) /\ srv' \in Server /\ Keeps(srv, srv') /\ sent \subseteq Request
    BY DEF ServerInv, Typed, Quiet, Shape, TruthInv
  <1>2. CachedTrue(srv')
    BY <1>1, QuietCached
  <1>3. ASSUME NEW c \in Client, srv'.life[c] = 0
        PROVE  Believes(srv', client[c], c, sent)
    <2>1. ToldTo(srv, client[c], c, sent)
      BY <1>1 DEF ToldTo, Typed, Remembered
    <2>2. srv.life[c] = 0
      <3>1. srv.life[c] <= srv'.life[c] /\ srv.life[c] \in Nat
        BY <1>1, ServerFields, Keys DEF Keeps, Shape
      <3> QED BY <1>3, <3>1
    <2>3. Believes(srv, client[c], c, sent)
      BY <2>2 DEF TruthInv
    <2>4. \A x \in Key : Untouched(srv, srv', x) /\
                         srv'.info[x].lastseqid = srv.info[x].lastseqid
      BY DEF Quiet, Untouched
    <2> QED BY <1>1, <1>3, <2>1, <2>2, <2>3, <2>4, BelievesStays
  <1> QED BY <1>2, <1>3 DEF TruthInv

\* A client asks for what it may, by what it believes.
LEMMA RequestAsks ==
  ASSUME Typed, NEW c \in Client, NEW r \in Requests(c)
  PROVE  Asks(client[c], r)
  <1> DEFINE k == client[c]
             free == {l \in Owns(c) : k.locks[l].stateid = NoStateid}
             ask(op, stateid, seqid, owner, type) ==
               [op |-> op, client |-> c, stateid |-> stateid, seqid |-> seqid,
                owner |-> owner, type |-> type]
  <1>1. \/ k.opened = NoStateid /\ \E shares \in Shares :
             r = [op |-> "OPEN", client |-> c, seqid |-> k.seqid, shares |-> shares]
        \/ k.opened # NoStateid /\ \E op \in {"OPEN_CONFIRM", "CLOSE"} :
             (op = "CLOSE" \/ ~k.confirmed) /\ r = ask(op, k.opened, k.seqid, c, "none")
        \/ k.opened # NoStateid /\ \E l \in free, type \in LockType :
             r = ask("LOCK_NEW", k.opened, k.seqid, l, type)
        \/ \E l \in Owns(c) \ free, op \in {"LOCK", "LOCKU"}, type \in LockType \cup {"none"} :
             r = ask(op, k.locks[l].stateid, k.locks[l].seqid, l, type)
    BY DEF Requests
  <1>2. ASSUME NEW op, NEW stateid, NEW seqid, NEW owner, NEW type,
               r = ask(op, stateid, seqid, owner, type)
        PROVE  r.op = op /\ r.stateid = stateid /\ r.seqid = seqid /\ r.owner = owner
    BY <1>2
  <1> HIDE DEF ask
  <1>3. CASE k.opened = NoStateid /\ \E shares \in Shares :
               r = [op |-> "OPEN", client |-> c, seqid |-> k.seqid, shares |-> shares]
    BY <1>3 DEF Asks
  <1>4. ASSUME k.opened # NoStateid, NEW op \in {"OPEN_CONFIRM", "CLOSE"},
               op = "CLOSE" \/ ~k.confirmed, r = ask(op, k.opened, k.seqid, c, "none")
        PROVE  Asks(k, r)
    <2>1. r.op = op /\ r.stateid = k.opened /\ r.seqid = k.seqid
      BY <1>2, <1>4
    <2> QED BY <1>4, <2>1 DEF Asks
  <1>5. ASSUME k.opened # NoStateid, NEW l \in free, NEW type \in LockType,
               r = ask("LOCK_NEW", k.opened, k.seqid, l, type)
        PROVE  Asks(k, r)
    <2>1. r.op = "LOCK_NEW" /\ r.stateid = k.opened /\ r.seqid = k.seqid /\ r.owner = l
      BY <1>2, <1>5
    <2> QED BY <1>5, <2>1 DEF Asks
  <1>6. ASSUME NEW l \in Owns(c) \ free, NEW op \in {"LOCK", "LOCKU"},
               NEW type \in LockType \cup {"none"},
               r = ask(op, k.locks[l].stateid, k.locks[l].seqid, l, type)
        PROVE  Asks(k, r)
    <2>1. /\ r.op = op /\ r.stateid = k.locks[l].stateid /\ r.seqid = k.locks[l].seqid
          /\ r.owner = l
      BY <1>2, <1>6
    <2> QED BY <1>6, <2>1 DEF Asks
  <1> HIDE DEF free
  <1> QED BY <1>1, <1>3, <1>4, <1>5, <1>6

\* A request is sent, of which the server has not heard: all others it has done with.
LEMMA SendTruth ==
  ASSUME ServerInv, TruthInv, NEW c \in Client, Send(c)
  PROVE  TruthInv'
  <1> SUFFICES ASSUME srv'.up = "up" PROVE TruthInv'
    BY DEF TruthInv
  <1>1. Typed /\ client \in [Client -> Believed] /\ srv' = srv
    BY DEF ServerInv, Typed, Send
  <1>2. PICK r \in Requests(c) :
          /\ sent' = sent \cup {r}
          /\ client' = [client EXCEPT ![c].pending = <<r>>, ![c].count = @ + 1]
    BY DEF Send
  <1>3. r.client = c /\ Asks(client[c], r) /\ client[c].pending = <<>>
    BY <1>1, RequestsKnown, RequestAsks DEF Send
  <1> DEFINE k == client[c]
             n == [k EXCEPT !.pending = <<r>>, !.count = @ + 1]
  <1>4. /\ n.pending = <<r>> /\ n.opened = k.opened /\ n.locks = k.locks
        /\ n.seqid = k.seqid /\ n.confirmed = k.confirmed
    BY <1>1 DEF Believed
  <1>5. client' = [client EXCEPT ![c] = n]
    BY <1>1, <1>2
  <1> HIDE DEF n
  <1>6. client'[c] = n /\ \A d \in Client : d # c => client'[d] = client[d]
    BY <1>1, <1>5
  <1>7. ASSUME NEW d \in Client, srv.life[d] = 0
        PROVE  Believes(srv, client'[d], d, sent')
    <2>1. Believes(srv, client[d], d, sent)
      BY <1>1, <1>7 DEF TruthInv
    <2>2. CASE d # c
      <3>1. \A q \in sent' : q.client = d => q \in sent
        BY <1>2, <1>3, <2>2
      <3> QED BY <1>6, <2>1, <2>2, <3>1 DEF Believes
    <2>3. CASE d = c
      <3>1. \A ops : ~Waits(srv, k, ops)
        BY <1>3 DEF Waits
      <3>2. Asks(n, n.pending[1])
        <4>1. n.pending[1] = r
          BY <1>4
        <4> QED BY <1>3, <1>4, <4>1 DEF Asks
      <3>3. OpenBelieved(srv, n, c)
        BY <1>4, <2>1, <2>3, <3>1 DEF Believes, OpenBelieved
      <3>4. \A l \in Owns(c) : LockBelieved(srv, n, l)
        <4>1. ASSUME NEW l \in Owns(c) PROVE LockBelieved(srv, n, l)
          BY <1>4, <2>1, <2>3, <3>1 DEF Believes, LockBelieved
        <4> QED BY <4>1
      <3>5. ASSUME NEW q \in sent', q.client = c PROVE n.pending = <<q>> \/ Spent(srv, q)
        <4>1. CASE q = r
          BY <1>4, <4>1
        <4>2. CASE q # r
          <5>1. q \in sent /\ k.pending # <<q>>
            BY <1>2, <1>3, <4>2
          <5> QED BY <2>1, <2>3, <3>5, <5>1 DEF Believes
        <4> QED BY <4>1, <4>2
      <3>6. Believes(srv, n, c, sent')
        BY <1>4, <2>1, <2>3, <3>2, <3>3, <3>4, <3>5 DEF Believes
      <3> QED BY <1>6, <2>3, <3>6
    <2> QED BY <2>2, <2>3
  <1> QED BY <1>1, <1>7 DEF TruthInv

\* Every step of the server and its clients.
LEMMA NextTruth ==
  ASSUME NoWrap, ServerInv, ServerInv', NumberInv, TruthInv, [Next]_vars
  PROVE  TruthInv'
  <1>1. ASSUME NEW r \in sent, Deliver(r)
        PROVE  TruthInv'
    BY <1>1, DeliverTruth
  <1>2. ASSUME NEW l \in LockOwner, NEW type \in LockType, LOCKT(l, type)
        PROVE  TruthInv'
    <2>1. srv.up = "up" /\ UNCHANGED <<sent, client>>
      BY <1>2 DEF LOCKT
    <2> QED BY <1>2, <2>1, LOCKTSteps, QuietTruth
  <1>3. ASSUME NEW c \in Client, Send(c)
        PROVE  TruthInv'
    BY <1>3, SendTruth
  <1>4. ASSUME NEW c \in Client, RENEW(c)
        PROVE  TruthInv'
    <2>1. srv.up = "up" /\ UNCHANGED <<sent, client>>
      BY <1>4 DEF RENEW
    <2> QED BY <1>4, <2>1, RENEWSteps, QuietTruth
  <1>5. ASSUME NEW c \in Client, Expire(c)
        PROVE  TruthInv'
    <2>1. srv.up = "up" /\ UNCHANGED <<sent, client>>
      BY <1>5 DEF Expire
    <2> QED BY <1>5, <2>1, ExpireSteps, QuietTruth
  <1>6. ASSUME NEW c \in Client, NEW mode,
               NEW st \in {client[c].opened} \cup {client[c].locks[l].stateid : l \in Owns(c)},
               ReadWrite(c, st, mode)
        PROVE  TruthInv'
    <2>1. srv.up = "up" /\ UNCHANGED <<sent, client>>
      BY <1>6 DEF ReadWrite
    <2>2. Quiet(srv, srv')
      BY <1>6, <2>1, ReadWriteSteps
    <2> QED BY <2>1, <2>2, QuietTruth
  <1>7. ASSUME UNCHANGED vars
        PROVE  TruthInv'
    <2>1. srv' = srv /\ sent' = sent /\ client' = client
      BY <1>7 DEF vars
    <2> QED BY <2>1 DEF TruthInv
  <1> QED BY <1>1, <1>2, <1>3, <1>4, <1>5, <1>6, <1>7 DEF Next

\* Nobody believes anything at first.
LEMMA InitTruth == Init => TruthInv
  <1> SUFFICES ASSUME Init PROVE TruthInv
    OBVIOUS
  <1>1. /\ srv.info = [k \in Key |-> NewOwner] /\ sent = {}
        /\ client = [c \in Client |-> [seqid |-> 0, count |-> 0, pending |-> <<>>,
                       opened |-> NoStateid, confirmed |-> FALSE, locks |-> Unlocked]]
    BY DEF Init, Key
  <1>2. \A k \in Key : srv.info[k].lastseqid = -1 /\ srv.info[k].cached = <<>>
    BY <1>1 DEF NewOwner
  <1>3. \A l \in LockOwner : Unlocked[l].stateid = NoStateid
    BY DEF Unlocked
  <1>4. \A c \in Client :
          /\ client[c].seqid = 0 /\ client[c].pending = <<>> /\ client[c].opened = NoStateid
          /\ \A l \in LockOwner : client[c].locks[l].stateid = NoStateid
    BY <1>1, <1>3
  <1>5. ASSUME NEW c \in Client PROVE Believes(srv, client[c], c, sent)
    <2>1. srv.info[<<c, 0>>].lastseqid = -1
      BY <1>2, OwnersOf
    <2>2. \A l \in Owns(c) : client[c].locks[l].stateid = NoStateid
      BY <1>4 DEF Owns
    <2>3. client[c].seqid <= srv.info[<<c, 0>>].lastseqid + 1
      BY <1>4, <2>1
    <2>4. OpenBelieved(srv, client[c], c) /\ \A l \in Owns(c) : LockBelieved(srv, client[c], l)
      BY <1>4, <2>2 DEF OpenBelieved, LockBelieved
    <2> QED BY <1>1, <1>4, <2>2, <2>3, <2>4 DEF Believes
  <1> QED BY <1>2, <1>5 DEF TruthInv, CachedTrue

\* What a client that waits for no answer believes to hold, the server keeps for it, under
\* the stateid the client has, if the client does not send as many requests as it has
\* numbers for: however its requests were repeated, refused, answered from memory or late,
\* and whatever other clients did, until the server removes the client's state.
THEOREM BeliefsTrue == ASSUME NoWrap PROVE Spec => []BeliefsAreTrue
  <1>1. ServerInv /\ ServerInv' /\ NumberInv /\ TruthInv /\ [Next]_vars => TruthInv'
    BY NextTruth
  <1>2. TruthInv => BeliefsAreTrue
    <2> SUFFICES ASSUME TruthInv, srv.up = "up", NEW c \in Client, srv.life[c] = 0,
                        client[c].pending = <<>>
                 PROVE  /\ client[c].opened # NoStateid =>
                             /\ srv.state[client[c].opened.id] # NoState
                             /\ srv.state[client[c].opened.id].seqid = client[c].opened.seqid
                             /\ srv.file.shares[client[c].opened.id] # F!NoShare
                        /\ \A l \in Owns(c) : client[c].locks[l].stateid # NoStateid =>
                             /\ srv.state[client[c].locks[l].stateid.id] # NoState
                             /\ srv.state[client[c].locks[l].stateid.id].seqid =
                                  client[c].locks[l].stateid.seqid
      BY DEF BeliefsAreTrue
    <2>1. Believes(srv, client[c], c, sent)
      BY DEF TruthInv
    <2>2. \A ops : ~Waits(srv, client[c], ops)
      BY DEF Waits
    <2>3. client[c].opened # NoStateid =>
            Valid(srv, <<c, 0>>, client[c].opened) /\ OnFile(srv, client[c].opened.id)
      BY <2>1, <2>2 DEF Believes, OpenBelieved
    <2>4. \A l \in Owns(c) : client[c].locks[l].stateid # NoStateid =>
            Valid(srv, <<l, 0>>, client[c].locks[l].stateid)
      BY <2>1, <2>2 DEF Believes, LockBelieved
    <2> QED BY <2>3, <2>4 DEF Valid, OnFile
  <1> QED BY <1>1, <1>2, InitTruth, Numbers, ServerInvariant, PTL DEF Spec
=============================================================================
