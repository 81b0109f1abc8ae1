------------------------------ MODULE NFSServer ------------------------------
(***************************************************************************)
(* The opens and locks that the NFSv4 server keeps for its clients:        *)
(* NFSServerState of src/pynfs/nfs40/nfs4state.py, the operations of        *)
(* nfs4server.py that call it, and the clients of nfs4lib.py, whose         *)
(* connection may break and resend: a copy of a request may arrive late.    *)
(*                                                                         *)
(* There is one file.  A client has one open owner, named after the client, *)
(* and any of the lock owners; its locks cover the whole file.  An          *)
(* OwnerInfo is named by its owner and the number of times that             *)
(* remove_state had dropped the client's owners when it was made.           *)
(***************************************************************************)
EXTENDS Integers, Sequences, FiniteSets

CONSTANTS Client, LockOwner,
          ClientOf,  \* the client of each lock owner
          Shares,    \* the <<access, deny>> that clients open the file with
          LockType, MaxByte,
          SeqMod,    \* the modulus of mod32
          MaxSent,   \* how many requests each client sends
          MaxId,     \* bound on next_id
          Expiring,  \* the clients whose leases may expire
          MaxLives   \* bound on how often remove_state drops the owners of each

ASSUME ServerAssumption ==
  /\ Client \cap LockOwner = {} /\ ClientOf \in [LockOwner -> Client]
  /\ Shares \subseteq (SUBSET {"READ", "WRITE"}) \X (SUBSET {"READ", "WRITE"})
  /\ LockType \subseteq {"READ", "WRITE", "READW", "WRITEW"} /\ MaxByte \in Nat
  /\ SeqMod \in Nat /\ SeqMod > 1 /\ MaxId \in Nat /\ MaxId > 2
  /\ MaxSent \in [Client -> Nat] /\ Expiring \subseteq Client /\ MaxLives \in Nat

VARIABLES srv,      \* the server's memory
          sent,     \* the requests of which a copy may be under way
          client,   \* what each client knows
          executed  \* history: the requests carried out, and how many times

vars == <<srv, sent, client, executed>>

Id == 2..MaxId
F == INSTANCE NFSFileState WITH OpenId <- Id, LockId <- Id, file <- srv.file

mod32(n) == n % SeqMod
NoStateid == [id |-> 0, seqid |-> 0]
NoState == [owner |-> <<>>, closed |-> FALSE, seqid |-> 0]
\* lastseqid is -1 for None, cached <<>> for None, id the file's entry in files.
NewOwner == [known |-> FALSE, confirmed |-> FALSE, lastseqid |-> -1, cached |-> <<>>,
             id |-> 0, lockowners |-> <<>>, openid |-> 0]

Holder(key) == IF key[1] \in Client THEN key[1] ELSE ClientOf[key[1]]
Current(s, owner) == <<owner, s.life[Holder(<<owner>>)]>>
\* seq.remove(x), for an x that may not be there.
Without(seq, x) ==
  LET at == {i \in 1..Len(seq) : seq[i] = x}
      first == CHOOSE i \in at : \A j \in at : i <= j
  IN IF at = {} THEN seq
     ELSE [i \in 1..Len(seq) - 1 |-> IF i < first THEN seq[i] ELSE seq[i + 1]]
-----------------------------------------------------------------------------
(* NFSServerState *)

\* An exception that no handler catches ends the serving thread.
Died(s, why) == [s EXCEPT !.up = why]

StateidError(s, st) ==
  IF st.seqid = s.state[st.id].seqid THEN "OK"
  ELSE IF st.seqid < s.state[st.id].seqid THEN "OLD_STATEID" ELSE "BAD_STATEID"

Failed(s, status) == [s |-> s, status |-> status, stateid |-> NoStateid]
Renewed(s, id) == [s EXCEPT !.lease[Holder(s.state[id].owner)] = "live"]
\* __stateid: the stateid of an id after a successful operation.
Granted(s, id) ==
  [s |-> [Renewed(s, id) EXCEPT !.state[id].seqid = mod32(@ + 1)], status |-> "OK",
   stateid |-> [id |-> id, seqid |-> mod32(s.state[id].seqid + 1)]]

\* __owner2id with allownew.
IdOf(s, key) == IF s.info[key].id # 0 THEN s.info[key].id ELSE s.next_id
\* Faulty variant of WithId: it forgets to count the id.
WithId_reused(s, key) ==
  IF s.info[key].id # 0 THEN s
  ELSE [s EXCEPT !.info[key].id = s.next_id, !.info[key].known = TRUE,
                 !.state[s.next_id] = [NoState EXCEPT !.owner = key]]
WithId(s, key) ==
  IF s.info[key].id # 0 THEN s
  ELSE [s EXCEPT !.next_id = @ + 1, !.info[key].id = s.next_id, !.info[key].known = TRUE,
                 !.state[s.next_id] = [NoState EXCEPT !.owner = key]]

\* Faulty variant of remove_state: it forgets to unlock the file.
remove_state_locked(s, c) ==
  LET opens == {s.info[Current(s, c)].id} \ {0}
      locks == {s.info[Current(s, l)].id : l \in {l \in LockOwner : ClientOf[l] = c}} \ {0}
  IN [s EXCEPT !.life[c] = @ + 1,
               !.state = [id \in Id |-> IF id \in opens \cup locks THEN NoState ELSE @[id]]]
remove_state(s, c) ==
  LET opens == {s.info[Current(s, c)].id} \ {0}
      locks == {s.info[Current(s, l)].id : l \in {l \in LockOwner : ClientOf[l] = c}} \ {0}
      unlocked == [s.file EXCEPT !.locks = [id \in Id |-> IF id \in locks THEN {} ELSE @[id]]]
  IN [s EXCEPT !.life[c] = @ + 1,
               !.state = [id \in Id |-> IF id \in opens \cup locks THEN NoState ELSE @[id]],
               !.file = IF opens = {} THEN unlocked
                        ELSE F!DownShares(unlocked, CHOOSE id \in opens : TRUE, {}, {})]

\* Faulty variant of __testlock: it forgets to remove the state of an expired client.
TestLock_lenient(s, ids, type) ==
  LET conflicts == F!Conflicts(s.file, ids, type, 0, MaxByte)
  IN IF conflicts = {} THEN {Failed(s, "OK")}
     ELSE {Failed(s, IF s.lease[Holder(s.state[id].owner)] = "expired" THEN "OK" ELSE "DENIED")
           : id \in conflicts}
\* __testlock: every outcome, for each conflicting lock that the dict may list first.
TestLock(s, ids, type) ==
  LET conflicts == F!Conflicts(s.file, ids, type, 0, MaxByte)
      holder(id) == Holder(s.state[id].owner)
  IN IF conflicts = {} THEN {Failed(s, "OK")}
     ELSE {IF s.lease[holder(id)] = "expired" THEN Failed(remove_state(s, holder(id)), "OK")
           ELSE Failed(s, "DENIED") : id \in conflicts}

open(s, r) ==
  LET key == Current(s, r.client)
      pending == ~s.info[key].confirmed /\ s.info[key].id # 0
      old == s.info[key].id
      fresh == IF pending
               THEN [s EXCEPT !.file = F!DownShares(@, old, {}, {}), !.state[old] = NoState,
                              !.info[key].id = 0]
               ELSE s
      next == WithId(fresh, key)
      id == next.info[key].id
      access == r.shares[1]
      deny == r.shares[2]
  IN IF pending /\ s.info[key].lockowners # <<>> THEN {Failed(Died(s, "exception"), "OK")}
     ELSE IF ~F!TestShares(next.file, access, deny) THEN {Failed(next, "SHARE_DENIED")}
     ELSE {Granted([next EXCEPT !.file = F!AddShares(@, id, access, deny)], id)}

confirm(s, r) ==
  LET key == s.state[r.stateid.id].owner
      error == StateidError(s, r.stateid)
  IN IF error # "OK" THEN {Failed(s, error)}
     ELSE IF s.info[key].confirmed THEN {Failed(s, "BAD_STATEID")}
     ELSE {Granted([s EXCEPT !.info[key].confirmed = TRUE], r.stateid.id)}

\* The loop removes from the list it iterates: it skips every second lock owner.
Visited(lockowners) == {lockowners[i] : i \in {i \in 1..Len(lockowners) : i % 2 = 1}}
Skipped(lockowners) == [i \in 1..Len(lockowners) \div 2 |-> lockowners[2 * i]]
close(s, r) ==
  LET id == r.stateid.id
      key == s.state[id].owner
      error == StateidError(s, r.stateid)
      gone == Visited(s.info[key].lockowners)
      lockids == {s.info[l].id : l \in gone}
      unlocked == [s.file EXCEPT !.locks = [i \in Id |-> IF i \in lockids THEN {} ELSE @[i]]]
      info == [k \in DOMAIN s.info |->
                 IF k \in gone THEN [s.info[k] EXCEPT !.id = 0, !.confirmed = FALSE]
                 ELSE IF k = key THEN [s.info[k] EXCEPT !.id = 0, !.lockowners = Skipped(@)]
                 ELSE s.info[k]]
  IN IF error # "OK" THEN {Failed(s, error)}
     ELSE IF s.state[id].closed THEN {Failed(s, "BAD_STATEID")}
     ELSE {Failed([Renewed(s, id) EXCEPT
             !.file = F!DownShares(unlocked, id, {}, {}), !.info = info,
             !.state = [i \in Id |-> IF i \in lockids THEN NoState
                                     ELSE IF i = id THEN [@[i] EXCEPT !.closed = TRUE]
                                     ELSE @[i]]], "OK")}

\* lock, once the id is known.  The grant may have removed the id's own client.
lock(s, id, type) ==
  {IF t.status # "OK" THEN t
   ELSE LET locked == [t.s EXCEPT !.file = F!AddLock(@, id, type, 0, MaxByte)]
        IN IF t.s.state[id] = NoState THEN Failed(Died(locked, "exception"), "OK")
           ELSE Granted([locked EXCEPT !.info[t.s.state[id].owner].confirmed = TRUE], id)
   : t \in TestLock(s, {id}, type)}

lock_existing(s, r) ==
  LET error == StateidError(s, r.stateid)
  IN IF error # "OK" THEN {Failed(s, error)} ELSE lock(s, r.stateid.id, r.type)

\* new_lockowner, then lock by the owner's name.
lock_new(s, r) ==
  LET key == Current(s, r.owner)
      opener == s.state[r.stateid.id].owner
      before == s.info[key].openid
      unlisted == IF before = 0 THEN s
                  ELSE [s EXCEPT !.info[s.state[before].owner].lockowners = Without(@, key)]
      listed == [unlisted EXCEPT
                   !.info[key] = [NewOwner EXCEPT !.known = TRUE, !.openid = r.stateid.id],
                   !.info[opener].lockowners = Append(@, key)]
      known == [s EXCEPT !.info[key].known = TRUE]
  IN IF s.info[key].confirmed THEN {Failed(known, "BAD_STATEID")}
     ELSE IF before # 0 /\ s.state[before] = NoState
       THEN {Failed(Died(known, "exception"), "OK")}
     ELSE lock(WithId(listed, key), IdOf(listed, key), r.type)

unlock(s, r) ==
  LET error == StateidError(s, r.stateid)
  IN IF error # "OK" THEN {Failed(s, error)}
     ELSE {Granted([s EXCEPT !.file = F!RemoveLock(@, r.stateid.id, 0, MaxByte)],
                   r.stateid.id)}
-----------------------------------------------------------------------------
(* The operations of NFS4Server *)

\* The owner whose sequence numbers an operation goes by, <<>> for an unknown stateid.
Sequencer(s, r) == IF r.op = "OPEN" THEN Current(s, r.client)
                   ELSE s.state[r.stateid.id].owner

\* Faulty variant of check_seqid: an operation is only refused if its number is
\* neither the next one nor the last.
check_seqid_anytime(s, key, r) ==
  LET n == s.info[key] IN
  IF n.lastseqid = -1 \/ mod32(n.lastseqid + 1) = r.seqid \/ n.lastseqid = r.seqid
  THEN "go" ELSE "BAD_SEQID"
\* Faulty variant of check_seqid: unconfirmed owners may do anything.
check_seqid_unconfirmed(s, key, r) ==
  LET n == s.info[key] IN
  IF n.lastseqid = -1 THEN "go"
  ELSE IF n.lastseqid = r.seqid THEN IF n.cached = <<>> THEN "go" ELSE "replay"
  ELSE IF mod32(n.lastseqid + 1) = r.seqid THEN "go"
  ELSE "BAD_SEQID"
check_seqid(s, key, r) ==
  LET n == s.info[key] IN
  IF n.lastseqid = -1 \/ (key[1] \in LockOwner /\ ~n.confirmed) THEN "go"
  ELSE IF n.lastseqid = r.seqid THEN IF n.cached = <<>> THEN "go" ELSE "replay"
  ELSE IF ~n.confirmed /\ r.op # "OPEN_CONFIRM" THEN "BAD_STATEID"
  ELSE IF mod32(n.lastseqid + 1) = r.seqid THEN "go"
  ELSE "BAD_SEQID"
\* What check_seqid assigns to the owner it lets go on.
Checked(s, key, r) ==
  LET n == s.info[key] IN
  IF n.lastseqid = -1
    THEN [s EXCEPT !.info[key].known = TRUE,
                   !.info[key].lastseqid = IF key[1] \in Client THEN mod32(r.seqid - 1) ELSE @]
  ELSE IF key[1] \in LockOwner /\ ~n.confirmed
    THEN [s EXCEPT !.info[key].lastseqid = mod32(-1)]
  ELSE s

NotAdvancing == {"BAD_STATEID", "BAD_SEQID"}
Advanced(n, r, answer) ==
  [n EXCEPT !.cached = <<r, answer>>,
            !.lastseqid = IF answer.status \in NotAdvancing THEN @
                          ELSE IF @ = -1 THEN 0 ELSE mod32(@ + 1)]
\* advance_seqid of the owners that the operation names, where they are known.
advance_seqid(s, r, answer) ==
  LET keys == {Sequencer(s, r)} \cup
              (IF r.op = "LOCK_NEW" THEN {Current(s, r.owner)} ELSE {})
  IN [s EXCEPT !.info = [k \in DOMAIN @ |-> IF k \in keys /\ @[k].known
                                            THEN Advanced(@[k], r, answer) ELSE @[k]]]

\* check_replay.  The open owner's cached answer to a LOCK lacks the body that NFS4_OK
\* and NFS4ERR_DENIED need, and packing it raises an exception.
Replay(s, key, r) ==
  LET answer == s.info[key].cached[2]
  IN IF s.info[key].cached[1] # r THEN Failed(s, "BAD_SEQID")
     ELSE IF r.op = "LOCK_NEW" /\ answer.status \in {"OK", "DENIED"}
       THEN Failed(Died(s, "replay"), "OK")
     ELSE [s |-> s, status |-> answer.status, stateid |-> answer.stateid]

Perform(s, r) ==
  CASE r.op = "OPEN" -> open(s, r)
    [] r.op = "OPEN_CONFIRM" -> confirm(s, r)
    [] r.op = "CLOSE" -> close(s, r)
    [] r.op = "LOCK_NEW" -> lock_new(s, r)
    [] r.op = "LOCK" -> lock_existing(s, r)
    [] r.op = "LOCKU" -> unlock(s, r)

\* op_open, op_open_confirm, op_close, op_lock and op_locku: what may come of a
\* request, and whether it was carried out.
Handle(s, r) ==
  LET key == Sequencer(s, r)
      check == check_seqid(s, key, r)
      finish(o) == [s |-> advance_seqid(o.s, r, [status |-> o.status, stateid |-> o.stateid]),
                    status |-> o.status, stateid |-> o.stateid, done |-> FALSE]
  IN IF key = <<>> THEN {finish(Failed(s, "BAD_STATEID"))}
     ELSE IF check = "replay"
       THEN {[s |-> o.s, status |-> o.status, stateid |-> o.stateid, done |-> FALSE]
             : o \in {Replay(s, key, r)}}
     ELSE IF check # "go" THEN {finish(Failed(s, check))}
     ELSE {[finish(o) EXCEPT !.done = o.status = "OK"] : o \in Perform(Checked(s, key, r), r)}
-----------------------------------------------------------------------------
(* The clients of nfs4lib.py: one request of a client at a time is unanswered. *)

Unlocked == [l \in LockOwner |-> [stateid |-> NoStateid, seqid |-> 0]]
Forgetful == [opened |-> NoStateid, confirmed |-> FALSE, locks |-> Unlocked]
Owns(c) == {l \in LockOwner : ClientOf[l] = c}

\* open_file, confirm, close_file, lock_file, relock_file and unlock_file.
Requests(c) ==
  LET k == client[c]
      opened == k.opened # NoStateid
      free == {l \in Owns(c) : k.locks[l].stateid = NoStateid}
      ask(op, stateid, seqid, owner, type) ==
        [op |-> op, client |-> c, stateid |-> stateid, seqid |-> seqid, owner |-> owner,
         type |-> type]
      lockop(op, l, type) == ask(op, k.locks[l].stateid, k.locks[l].seqid, l, type)
  IN {[op |-> "OPEN", client |-> c, seqid |-> k.seqid, shares |-> shares]
      : shares \in {x \in Shares : ~opened}} \cup
     {ask(op, k.opened, k.seqid, c, "none")
      : op \in {x \in {"OPEN_CONFIRM", "CLOSE"} : opened /\ (x = "CLOSE" \/ ~k.confirmed)}} \cup
     {ask("LOCK_NEW", k.opened, k.seqid, l, type)
      : l \in {x \in free : opened}, type \in LockType} \cup
     {lockop("LOCK", l, type) : l \in Owns(c) \ free, type \in LockType} \cup
     {lockop("LOCKU", l, "none") : l \in Owns(c) \ free}

\* advance_seqid of the client, and what it keeps of an answer; a client that is told
\* that the server does not know its state starts over.
Learn(k, r, o) ==
  LET next == [k EXCEPT !.pending = <<>>,
                 !.seqid = IF r.op \in {"LOCK", "LOCKU"} \/ o.status \in NotAdvancing
                           THEN @ ELSE mod32(@ + 1)]
      forgotten == [next EXCEPT !.opened = NoStateid, !.confirmed = FALSE, !.locks = Unlocked]
  IN IF o.status = "OK" /\ r.op = "OPEN"
       THEN [next EXCEPT !.opened = o.stateid, !.confirmed = o.confirmed]
     ELSE IF o.status = "OK" /\ r.op = "OPEN_CONFIRM"
       THEN [next EXCEPT !.opened = o.stateid, !.confirmed = TRUE]
     ELSE IF o.status = "OK" /\ r.op # "CLOSE"
       THEN [next EXCEPT !.locks[r.owner] =
               [stateid |-> o.stateid,
                seqid |-> IF r.op = "LOCK_NEW" THEN 1 ELSE mod32(@.seqid + 1)]]
     ELSE IF o.status = "SHARE_DENIED" THEN next
     ELSE IF o.status = "DENIED"
       THEN IF r.op = "LOCK" THEN [next EXCEPT !.locks[r.owner].seqid = mod32(@ + 1)] ELSE next
     ELSE forgotten

Send(c) ==
  /\ client[c].pending = <<>> /\ client[c].count < MaxSent[c]
  /\ \E r \in Requests(c) :
       /\ sent' = sent \cup {r}
       /\ client' = [client EXCEPT ![c].pending = <<r>>, ![c].count = @ + 1]
  /\ UNCHANGED <<srv, executed>>

\* A request, or a copy that the client's reconnection left behind, is handled; its
\* answer reaches the client or is lost with the connection.
Deliver(r) ==
  /\ srv.up = "up" /\ srv.next_id <= MaxId
  /\ \E o \in Handle(srv, r) :
       /\ srv' = o.s
       /\ executed' = IF o.done
                      THEN LET life == srv.life[r.client]
                               times == Cardinality({e \in executed : e.req = r /\ e.life = life})
                           IN executed \cup {[req |-> r, life |-> life, times |-> times + 1]}
                      ELSE executed
       /\ \/ client' = client
          \/ /\ client[r.client].pending = <<r>> /\ o.s.up = "up"
             /\ LET owner == Current(o.s, r.client)
                    told == [status |-> o.status, stateid |-> o.stateid,
                             confirmed |-> o.s.info[owner].confirmed]
                IN client' = [client EXCEPT ![r.client] = Learn(@, r, told)]
  /\ UNCHANGED sent

\* op_renew.
RENEW(c) ==
  /\ srv.up = "up" /\ srv' = [srv EXCEPT !.lease[c] = "live"]
  /\ UNCHANGED <<sent, client, executed>>

\* op_lockt: the tester becomes a lock owner that holds nothing.
LOCKT(l, type) ==
  LET key == Current(srv, l)
      known == WithId(srv, key)
      c == ClientOf[l]
  IN /\ srv.up = "up" /\ srv.next_id <= MaxId
     /\ \E x \in Owns(c) \cup {c} : srv.info[Current(srv, x)].known
     /\ \E t \in TestLock(known, {IdOf(srv, key)}, type) : srv' = t.s
     /\ UNCHANGED <<sent, client, executed>>

\* check_read and check_write with the stateid of an open or of a lock, which
\* op_read, op_write and op_setattr call: they renew the lease and test the locks.
ReadWrite(c, st, mode) ==
  LET key == srv.state[st.id].owner
      openid == IF key[1] \in LockOwner THEN srv.info[key].openid ELSE st.id
      opener == srv.info[key].lockowners
      ids == IF openid # st.id THEN {st.id}
             ELSE {srv.info[opener[i]].id : i \in {i \in 1..Len(opener) :
                                                   srv.info[opener[i]].openid = openid}}
      access == F!To2(srv.file.shares[openid].access)
      renewed == Renewed(srv, st.id)
  IN /\ srv.up = "up" /\ st.id # 0 /\ key # <<>> /\ StateidError(srv, st) = "OK"
     /\ IF mode \in access /\ mode \notin srv.file.deny
        THEN \E t \in TestLock(renewed, ids, mode) : srv' = t.s
        ELSE srv' = renewed
     /\ UNCHANGED <<sent, client, executed>>

\* A client has not renewed its lease for fattr4_lease_time.
Expire(c) ==
  /\ c \in Expiring /\ srv.life[c] < MaxLives /\ srv.up = "up"
  /\ srv' = [srv EXCEPT !.lease[c] = "expired"]
  /\ UNCHANGED <<sent, client, executed>>

Init ==
  /\ srv = [file |-> F!NewFile, state |-> [id \in Id |-> NoState],
            info |-> [k \in (Client \cup LockOwner) \X (0..MaxLives) |-> NewOwner],
            life |-> [c \in Client |-> 0], lease |-> [c \in Client |-> "live"],
            next_id |-> 2, up |-> "up"]
  /\ sent = {} /\ executed = {}
  /\ client = [c \in Client |-> [seqid |-> 0, count |-> 0, pending |-> <<>>,
                 opened |-> NoStateid, confirmed |-> FALSE, locks |-> Unlocked]]

Next ==
  \/ \E r \in sent : Deliver(r)
  \/ \E l \in LockOwner, type \in LockType : LOCKT(l, type)
  \/ \E c \in Client : \/ Send(c)
                       \/ RENEW(c)
                       \/ Expire(c)
                       \/ \E st \in {client[c].opened} \cup
                                    {client[c].locks[l].stateid : l \in Owns(c)},
                             mode \in F!Bits : ReadWrite(c, st, mode)
Spec == Init /\ [][Next]_vars
-----------------------------------------------------------------------------
(* Properties *)

TypeOK ==
  /\ srv.file \in F!File
  /\ srv.next_id \in 2..MaxId + 1 /\ srv.up \in {"up", "replay", "exception"}
  /\ \A id \in Id : srv.state[id] # NoState =>
       id < srv.next_id /\ srv.state[id].owner \in DOMAIN srv.info
  /\ \A k \in DOMAIN srv.info : /\ srv.info[k].lastseqid \in -1..SeqMod - 1
                                /\ srv.info[k].id \in Id \cup {0}

\* However often a request arrives, and in whatever order with others, the server
\* carries it out once, as long as it keeps the client's state (check_seqid).
AtMostOnce == \A e \in executed : e.times = 1

\* Every lock and share of the file is of an id that the server still knows, and that
\* its owner's files leads to: close, expiry and new_lockowner leave no lock behind
\* that nobody can release.
NoOrphans ==
  srv.up = "up" => \A id \in Id :
    srv.file.locks[id] # {} \/ srv.file.shares[id] # F!NoShare =>
      /\ srv.state[id] # NoState /\ ~srv.state[id].closed
      /\ LET key == srv.state[id].owner
         IN srv.info[key].id = id /\ key[2] = srv.life[Holder(key)]

\* Only an owner whose open was confirmed holds locks: a late copy of an OPEN, which
\* any sequence number may start, gets nothing more than shares.
LocksNeedConfirmation ==
  srv.up = "up" => \A id \in Id : srv.file.locks[id] # {} =>
    LET openid == srv.info[srv.state[id].owner].openid
    IN srv.info[srv.state[openid].owner].confirmed

\* A client whose state was never removed and that waits for no answer holds what it
\* believes to hold, under the stateid it has.
BeliefsAreTrue ==
  srv.up = "up" => \A c \in Client : srv.life[c] = 0 /\ client[c].pending = <<>> =>
    LET held(st) == srv.state[st.id] # NoState /\ srv.state[st.id].seqid = st.seqid
    IN /\ client[c].opened # NoStateid =>
            held(client[c].opened) /\ srv.file.shares[client[c].opened.id] # F!NoShare
       /\ \A l \in Owns(c) : client[c].locks[l].stateid # NoStateid =>
            held(client[c].locks[l].stateid)

\* Conflicting locks never come about, except by the step that removes an expired
\* client's state: there __testlock looks no further.
Conflicting == {p \in Id \X Id : p[1] # p[2] /\
                  \E l \in srv.file.locks[p[1]], m \in srv.file.locks[p[2]] :
                    F!Overlaps(l, m.start, m.end) /\ ~(F!IsRead(l.type) /\ F!IsRead(m.type))}
ConflictOnlyByExpiry == [][srv'.life = srv.life => Conflicting' \subseteq Conflicting]_vars

\* The replay tests: "replays must return same error as orig".
ReplaysAreAnswered == srv.up # "replay"

\* The comment of close: "Remove locks from file and deal with associated lockowners".
CloseReleasesLocks ==
  srv.up = "up" => \A id \in Id : srv.file.locks[id] # {} =>
    ~srv.state[srv.info[srv.state[id].owner].openid].closed
=============================================================================
