------------------------- MODULE NFSServerHandlers --------------------------
(***************************************************************************)
(* Lemmas about what a request does to the memory of NFSServer: each        *)
(* operation of NFSServerState that a request calls, the sequence numbers   *)
(* and cached answers around it, and what a client makes of the answer.     *)
(* HandleKinds has the three things that can become of a request.           *)
(***************************************************************************)
EXTENDS NFSServerSteps

(* Testing for locks *)

\* The only conflicts that __testlock can find are with locks of other ids.
LEMMA ConflictsHoldLocks ==
  ASSUME NEW f, NEW ids, NEW type, NEW id \in F!Conflicts(f, ids, type, 0, MaxByte)
  PROVE  id \in Id /\ id \notin ids /\ f.locks[id] # {}
  BY DEF F!Conflicts

\* __testlock leaves the memory alone, or removes the state of a client whose lease
\* expired.
LEMMA TestLockOutcome ==
  ASSUME NEW s, Shape(s), StateInv(s), NEW ids, NEW type, NEW t \in TestLock(s, ids, type)
  PROVE  /\ t.stateid = NoStateid /\ t.status \in {"OK", "DENIED"}
         /\ t.status = "DENIED" => t.s = s
         /\ \/ t.s = s
            \/ \E c \in Client : s.life[c] < MaxLives /\ s.lease[c] = "expired" /\
                                 t.s = remove_state(s, c)
  <1> DEFINE conflicts == F!Conflicts(s.file, ids, type, 0, MaxByte)
             holder(id) == Holder(s.state[id].owner)
  <1>1. \A u, status : /\ Failed(u, status).s = u /\ Failed(u, status).status = status
                       /\ Failed(u, status).stateid = NoStateid
    BY DEF Failed
  <1>2. ASSUME NEW id \in conflicts, s.lease[holder(id)] = "expired"
        PROVE  holder(id) \in Client /\ s.life[holder(id)] < MaxLives
    <2>1. id \in Id /\ s.file.locks[id] # {}
      BY ConflictsHoldLocks
    <2>2. s.state[id].owner \in LockKey
      BY <2>1 DEF StateInv, Held
    <2>3. holder(id) \in Client
      BY <2>2, Keys
    <2>4. s.life \in [Client -> 0..MaxLives]
      BY ServerFields DEF Shape
    <2>5. s.life[holder(id)] # MaxLives
      BY <1>2, <2>1, <2>3 DEF StateInv, Renewing
    <2> HIDE DEF holder
    <2> QED BY <2>3, <2>4, <2>5, Keys
  <1>3. CASE conflicts = {}
    BY <1>1, <1>3 DEF TestLock
  <1>4. CASE conflicts # {}
    <2>1. PICK id \in conflicts :
            t = IF s.lease[holder(id)] = "expired"
                THEN Failed(remove_state(s, holder(id)), "OK") ELSE Failed(s, "DENIED")
      BY <1>4 DEF TestLock
    <2> HIDE DEF holder, conflicts
    <2> QED BY <1>1, <1>2, <2>1
  <1> QED BY <1>3, <1>4
-----------------------------------------------------------------------------
(* Lists of lock owners *)

\* list.remove takes one element from a list and adds none.
LEMMA WithoutSeq ==
  ASSUME NEW list \in Seq(LockKey), NEW x
  PROVE  Without(list, x) \in Seq(LockKey)
  <1> DEFINE at == {i \in 1..Len(list) : list[i] = x}
             first == CHOOSE i \in at : \A j \in at : i <= j
             shorter == [i \in 1..Len(list) - 1 |-> IF i < first THEN list[i] ELSE list[i + 1]]
  <1>1. CASE at = {}
    BY <1>1 DEF Without
  <1>2. CASE at # {}
    <2>1. Without(list, x) = shorter
      BY <1>2 DEF Without
    <2>2. Len(list) \in Nat /\ Len(list) - 1 \in Nat
      BY <1>2
    <2>3. \A i \in 1..Len(list) : list[i] \in LockKey
      OBVIOUS
    <2> HIDE DEF first
    <2>4. \A i \in 1..Len(list) - 1 : shorter[i] \in LockKey
      BY <2>2, <2>3
    <2>5. shorter = [i \in 1..Len(list) - 1 |-> shorter[i]]
      OBVIOUS
    <2> HIDE DEF shorter
    <2> QED BY <2>1, <2>2, <2>4, <2>5
  <1> QED BY <1>1, <1>2

\* A list of a client's lock owners stays one, whatever is taken from it, and with another
\* of its lock owners at the end.
LEMMA WithoutOurs ==
  ASSUME NEW list \in Seq(LockKey), NEW x, NEW k, Ours(k, list)
  PROVE  Ours(k, Without(list, x))
  <1> DEFINE at == {i \in 1..Len(list) : list[i] = x}
             first == CHOOSE i \in at : \A j \in at : i <= j
             shorter == [i \in 1..Len(list) - 1 |-> IF i < first THEN list[i] ELSE list[i + 1]]
  <1>1. CASE at = {}
    BY <1>1 DEF Without
  <1>2. CASE at # {}
    <2>1. Without(list, x) = shorter
      BY <1>2 DEF Without
    <2>2. \A i \in 1..Len(list) : Holder(list[i]) = Holder(k)
      BY DEF Ours
    <2> HIDE DEF first
    <2>3. \A i \in 1..Len(list) - 1 : Holder(shorter[i]) = Holder(k)
      BY <2>2
    <2>4. DOMAIN shorter = 1..Len(list) - 1
      OBVIOUS
    <2> HIDE DEF shorter
    <2> QED BY <2>1, <2>3, <2>4 DEF Ours
  <1> QED BY <1>1, <1>2

LEMMA AppendOurs ==
  ASSUME NEW list \in Seq(LockKey), NEW x \in LockKey, NEW k, Ours(k, list),
         Holder(x) = Holder(k)
  PROVE  Ours(k, Append(list, x))
  BY DEF Ours

\* A change of one owner's list changes nothing else of the owners.
LEMMA RelistInfo ==
  ASSUME NEW info \in [Key -> Info], NEW owner \in Key, NEW list \in Seq(LockKey),
         NEW new, new = [info EXCEPT ![owner].lockowners = list]
  PROVE  /\ new \in [Key -> Info] /\ \A k \in Key : k # owner => new[k] = info[k]
         /\ new[owner].lockowners = list
         /\ \A k \in Key : /\ new[k].cached = info[k].cached
                           /\ new[k].lastseqid = info[k].lastseqid
                           /\ new[k].known = info[k].known
                           /\ new[k].openid = info[k].openid
                           /\ new[k].confirmed = info[k].confirmed
                           /\ new[k].id = info[k].id
  <1> DEFINE own == [info[owner] EXCEPT !.lockowners = list]
  <1>1. /\ own \in Info /\ own.cached = info[owner].cached
        /\ own.lastseqid = info[owner].lastseqid /\ own.known = info[owner].known
        /\ own.openid = info[owner].openid /\ own.confirmed = info[owner].confirmed
        /\ own.id = info[owner].id /\ own.lockowners = list
    <2>1. info[owner] \in Info
      OBVIOUS
    <2> QED BY <2>1 DEF Info
  <1>2. new = [info EXCEPT ![owner] = own]
    OBVIOUS
  <1> HIDE DEF own
  <1> QED BY <1>1, <1>2

\* What new_lockowner does: the lock owner starts anew, and moves from its previous open
\* owner's list to that of the open it names.
Listed(s, key, openid) ==
  LET opener == s.state[openid].owner
      before == s.info[key].openid
      unlisted == IF before = 0 THEN s
                  ELSE [s EXCEPT !.info[s.state[before].owner].lockowners = Without(@, key)]
  IN [unlisted EXCEPT !.info[key] = [NewOwner EXCEPT !.known = TRUE, !.openid = openid],
                      !.info[opener].lockowners = Append(@, key)]

\* What it changes, field by field.
LEMMA ListedFields ==
  ASSUME NEW s \in Server, NEW key \in LockKey, NEW openid \in Id,
         s.state[openid].owner \in OpenKey,
         s.info[key].openid # 0 => s.info[key].openid \in Id /\
                                   s.state[s.info[key].openid].owner \in OpenKey,
         NEW t, t = Listed(s, key, openid)
  PROVE  /\ t \in Server /\ t.file = s.file /\ t.state = s.state /\ t.life = s.life
         /\ t.lease = s.lease /\ t.next_id = s.next_id /\ t.up = s.up
         /\ t.info[key].known /\ ~t.info[key].confirmed /\ t.info[key].lastseqid = -1
         /\ t.info[key].cached = <<>> /\ t.info[key].id = 0 /\ t.info[key].openid = openid
         /\ \A k \in Key : k # key =>
              /\ t.info[k].cached = s.info[k].cached
              /\ t.info[k].lastseqid = s.info[k].lastseqid
              /\ t.info[k].known = s.info[k].known
              /\ t.info[k].openid = s.info[k].openid
              /\ t.info[k].confirmed = s.info[k].confirmed
              /\ t.info[k].id = s.info[k].id
              /\ \/ t.info[k] = s.info[k]
                 \/ \E id \in Id : s.state[id].owner = k /\ k \in OpenKey
         /\ \A k \in Key : /\ Ours(k, s.info[k].lockowners)
                           /\ k = s.state[openid].owner => Holder(key) = Holder(k)
                           => Ours(k, t.info[k].lockowners)
  <1> DEFINE opener == s.state[openid].owner
             before == s.info[key].openid
             prev == s.state[before].owner
             unlisted == IF before = 0 THEN s
                         ELSE [s EXCEPT !.info[prev].lockowners = Without(@, key)]
             info1 == IF before = 0 THEN s.info
                      ELSE [s.info EXCEPT ![prev].lockowners =
                              Without(s.info[prev].lockowners, key)]
             new == [NewOwner EXCEPT !.known = TRUE, !.openid = openid]
             info2 == [info1 EXCEPT ![key] = new]
             info3 == [info2 EXCEPT ![opener].lockowners =
                         Append(info2[opener].lockowners, key)]
  <1>1. /\ s.info \in [Key -> Info] /\ key \in Key /\ opener \in Key /\ opener # key
        /\ opener \in OpenKey
    BY ServerFields, Keys
  <1>2. /\ new \in Info /\ new.known /\ ~new.confirmed /\ new.lastseqid = -1
        /\ new.cached = <<>> /\ new.id = 0 /\ new.openid = openid /\ new.lockowners = <<>>
    <2>1. openid \in Nat
      BY StateFacts
    <2>2. /\ NewOwner \in Info /\ ~NewOwner.confirmed /\ NewOwner.lastseqid = -1
          /\ NewOwner.cached = <<>> /\ NewOwner.id = 0 /\ NewOwner.lockowners = <<>>
      BY StateFacts DEF NewOwner
    <2> QED BY <2>1, <2>2 DEF Info
  <1>3. unlisted = [s EXCEPT !.info = info1]
    <2>1. CASE before = 0
      <3>1. s = [s EXCEPT !.info = s.info]
        BY DEF Server
      <3> QED BY <2>1, <3>1
    <2>2. CASE before # 0
      BY <2>2
    <2> QED BY <2>1, <2>2
  <1>4. t = [s EXCEPT !.info = info3]
    <2>1. t = [unlisted EXCEPT !.info[key] = new, !.info[opener].lockowners = Append(@, key)]
      BY DEF Listed
    <2> HIDE DEF info1, unlisted, new, opener
    <2> DEFINE u == [s EXCEPT !.info = info1]
    <2>2. t = [u EXCEPT !.info[key] = new, !.info[opener].lockowners = Append(@, key)]
      BY <1>3, <2>1
    <2> DEFINE v == [u EXCEPT !.info[key] = new]
    <2>3. v = [s EXCEPT !.info = info2]
      BY DEF Server
    <2>4. t = [v EXCEPT !.info[opener].lockowners = Append(info1[opener].lockowners, key)]
      <3>1. u.info = info1
        BY DEF Server
      <3>2. t = [v EXCEPT !.info[opener].lockowners = Append(u.info[opener].lockowners, key)]
        BY <2>2
      <3> HIDE DEF u, v
      <3> QED BY <3>1, <3>2
    <2>0. info2[opener] = info1[opener]
      BY <1>1
    <2> HIDE DEF v, info2
    <2>5. v.info = info2
      BY <2>3 DEF Server
    <2>6. t = [v EXCEPT !.info = info3]
      BY <2>0, <2>4, <2>5
    <2> HIDE DEF info3
    <2> QED BY <2>3, <2>6 DEF Server
  <1>5. /\ info1 \in [Key -> Info]
        /\ \A k \in Key : /\ info1[k].cached = s.info[k].cached
                          /\ info1[k].lastseqid = s.info[k].lastseqid
                          /\ info1[k].known = s.info[k].known
                          /\ info1[k].openid = s.info[k].openid
                          /\ info1[k].confirmed = s.info[k].confirmed
                          /\ info1[k].id = s.info[k].id
                          /\ \/ info1[k] = s.info[k]
                             \/ before # 0 /\ k = prev
                          /\ Ours(k, s.info[k].lockowners) => Ours(k, info1[k].lockowners)
    <2>1. CASE before = 0
      BY <1>1, <2>1
    <2>2. CASE before # 0
      <3>1. prev \in Key
        BY <2>2, Keys
      <3>2. Without(s.info[prev].lockowners, key) \in Seq(LockKey)
        <4>1. s.info[prev].lockowners \in Seq(LockKey)
          BY <1>1, <3>1 DEF Info
        <4> QED BY <4>1, WithoutSeq
      <3>3. info1 = [s.info EXCEPT ![prev].lockowners =
                       Without(s.info[prev].lockowners, key)]
        BY <2>2
      <3>4. Ours(prev, s.info[prev].lockowners) =>
              Ours(prev, Without(s.info[prev].lockowners, key))
        <4>1. s.info[prev].lockowners \in Seq(LockKey)
          BY <1>1, <3>1 DEF Info
        <4> QED BY <4>1, WithoutOurs
      <3> HIDE DEF info1, prev
      <3>5. /\ info1 \in [Key -> Info] /\ \A k \in Key : k # prev => info1[k] = s.info[k]
            /\ info1[prev].lockowners = Without(s.info[prev].lockowners, key)
            /\ \A k \in Key : /\ info1[k].cached = s.info[k].cached
                              /\ info1[k].lastseqid = s.info[k].lastseqid
                              /\ info1[k].known = s.info[k].known
                              /\ info1[k].openid = s.info[k].openid
                              /\ info1[k].confirmed = s.info[k].confirmed
                              /\ info1[k].id = s.info[k].id
        BY <1>1, <3>1, <3>2, <3>3, RelistInfo
      <3> QED BY <2>2, <3>4, <3>5
    <2> QED BY <2>1, <2>2
  <1>6. before # 0 => before \in Id /\ prev \in OpenKey
    OBVIOUS
  <1> HIDE DEF info1, unlisted, new, opener, before, prev
  <1>7. /\ info2 \in [Key -> Info] /\ info2[key] = new
        /\ \A k \in Key : k # key => info2[k] = info1[k]
    BY <1>1, <1>2, <1>5
  <1>8. Append(info2[opener].lockowners, key) \in Seq(LockKey)
    <2>1. info2[opener].lockowners \in Seq(LockKey)
      BY <1>1, <1>7 DEF Info
    <2> QED BY <2>1
  <1> HIDE DEF info2
  <1>9. info3 = [info2 EXCEPT ![opener].lockowners = Append(info2[opener].lockowners, key)]
    OBVIOUS
  <1> HIDE DEF info3
  <1>10. /\ info3 \in [Key -> Info]
         /\ \A k \in Key : k # opener => info3[k] = info2[k]
         /\ info3[opener].lockowners = Append(info2[opener].lockowners, key)
         /\ \A k \in Key : /\ info3[k].cached = info2[k].cached
                           /\ info3[k].lastseqid = info2[k].lastseqid
                           /\ info3[k].known = info2[k].known
                           /\ info3[k].openid = info2[k].openid
                           /\ info3[k].confirmed = info2[k].confirmed
                           /\ info3[k].id = info2[k].id
    <2> DEFINE list == Append(info2[opener].lockowners, key)
    <2>1. info2 \in [Key -> Info] /\ opener \in Key /\ list \in Seq(LockKey)
      BY <1>1, <1>7, <1>8
    <2>2. info3 = [info2 EXCEPT ![opener].lockowners = list]
      BY <1>9
    <2>3. list = Append(info2[opener].lockowners, key)
      OBVIOUS
    <2> HIDE DEF list
    <2>4. /\ info3 \in [Key -> Info] /\ \A k \in Key : k # opener => info3[k] = info2[k]
          /\ info3[opener].lockowners = list
          /\ \A k \in Key : /\ info3[k].cached = info2[k].cached
                            /\ info3[k].lastseqid = info2[k].lastseqid
                            /\ info3[k].known = info2[k].known
                            /\ info3[k].openid = info2[k].openid
                            /\ info3[k].confirmed = info2[k].confirmed
                            /\ info3[k].id = info2[k].id
      BY <2>1, <2>2, RelistInfo
    <2> QED BY <2>3, <2>4
  <1>11. /\ t \in Server /\ t.file = s.file /\ t.state = s.state /\ t.life = s.life
         /\ t.lease = s.lease /\ t.next_id = s.next_id /\ t.up = s.up /\ t.info = info3
    BY <1>4, <1>10 DEF Server
  <1>12. t.info[key] = new
    BY <1>1, <1>7, <1>10, <1>11
  <1>13. ASSUME NEW k \in Key, k # key
         PROVE  /\ t.info[k].cached = s.info[k].cached
                /\ t.info[k].lastseqid = s.info[k].lastseqid
                /\ t.info[k].known = s.info[k].known
                /\ t.info[k].openid = s.info[k].openid
                /\ t.info[k].confirmed = s.info[k].confirmed
                /\ t.info[k].id = s.info[k].id
                /\ \/ t.info[k] = s.info[k]
                   \/ \E id \in Id : s.state[id].owner = k /\ k \in OpenKey
    <2>1. info2[k] = info1[k]
      BY <1>7, <1>13
    <2>2. CASE k = opener
      <3>1. /\ t.info[k].cached = s.info[k].cached
            /\ t.info[k].lastseqid = s.info[k].lastseqid
            /\ t.info[k].known = s.info[k].known
            /\ t.info[k].openid = s.info[k].openid
            /\ t.info[k].confirmed = s.info[k].confirmed
            /\ t.info[k].id = s.info[k].id
        BY <1>5, <1>10, <1>11, <2>1
      <3>2. \E id \in Id : s.state[id].owner = k /\ k \in OpenKey
        BY <1>1, <2>2 DEF opener
      <3> QED BY <3>1, <3>2
    <2>3. CASE k # opener
      <3>1. t.info[k] = info1[k]
        BY <1>10, <1>11, <2>1, <2>3
      <3>2. CASE before # 0 /\ k = prev
        BY <1>5, <1>6, <3>1, <3>2 DEF prev
      <3>3. CASE info1[k] = s.info[k]
        BY <3>1, <3>3
      <3> QED BY <1>5, <3>1, <3>2, <3>3
    <2> QED BY <2>2, <2>3
  <1>14. ASSUME NEW k \in Key, Ours(k, s.info[k].lockowners),
                k = s.state[openid].owner => Holder(key) = Holder(k)
         PROVE  Ours(k, t.info[k].lockowners)
    <2>1. Ours(k, info2[k].lockowners)
      <3>1. CASE k = key
        <4>1. Ours(k, <<>>)
          BY DEF Ours
        <4> QED BY <1>2, <1>7, <3>1, <4>1
      <3>2. CASE k # key
        BY <1>5, <1>7, <1>14, <3>2
      <3> QED BY <3>1, <3>2
    <2>2. CASE k = opener
      <3>1. info2[k].lockowners \in Seq(LockKey)
        BY <1>7 DEF Info
      <3>2. Holder(key) = Holder(k)
        BY <1>14, <2>2 DEF opener
      <3>3. Ours(k, Append(info2[k].lockowners, key))
        BY <2>1, <3>1, <3>2, AppendOurs
      <3> QED BY <1>10, <1>11, <2>2, <3>3
    <2>3. CASE k # opener
      BY <1>10, <1>11, <2>1, <2>3
    <2> QED BY <2>2, <2>3
  <1> QED BY <1>2, <1>11, <1>12, <1>13, <1>14

\* What is so once the server has listed a lock owner.
OwnerListed(s, t, key, openid) ==
  /\ Shape(t) /\ StateInv(t) /\ Keeps(s, t)
  /\ t.file = s.file /\ t.life = s.life /\ t.up = s.up /\ t.lease = s.lease
  /\ t.next_id = s.next_id /\ t.state = s.state
  /\ ~t.info[key].confirmed /\ t.info[key].openid = openid
  /\ t.info[key].lastseqid = -1 /\ t.info[key].cached = <<>>
  /\ \A k \in Key : k # key => /\ t.info[k].cached = s.info[k].cached
                               /\ t.info[k].lastseqid = s.info[k].lastseqid
                               /\ t.info[k].confirmed = s.info[k].confirmed

\* new_lockowner of an unconfirmed lock owner leaves nothing behind that it had.
LEMMA ListKeeps ==
  ASSUME NEW s, Shape(s), StateInv(s), NEW key \in LockKey, Live(s, key),
         ~s.info[key].confirmed, NEW openid \in Id,
         s.state[openid].owner \in OpenKey, s.state[openid].owner[1] = ClientOf[key[1]],
         s.info[key].openid # 0 => s.state[s.info[key].openid] # NoState,
         NEW t, t = Listed(s, key, openid)
  PROVE  OwnerListed(s, t, key, openid)
  <1> USE DEF OwnerListed
  <1>1. s \in Server /\ key \in Key /\ s.info \in [Key -> Info]
    <2>1. s \in Server /\ key \in Key
      BY Keys DEF Shape
    <2> QED BY <2>1, ServerFields
  <1>2. s.info[key].openid # 0 => s.info[key].openid \in Id /\
                                  s.state[s.info[key].openid].owner \in OpenKey
    BY DEF StateInv, Openers
  <1>3. /\ t \in Server /\ t.file = s.file /\ t.state = s.state /\ t.life = s.life
        /\ t.lease = s.lease /\ t.next_id = s.next_id /\ t.up = s.up
        /\ t.info[key].known /\ ~t.info[key].confirmed /\ t.info[key].lastseqid = -1
        /\ t.info[key].cached = <<>> /\ t.info[key].id = 0 /\ t.info[key].openid = openid
    BY <1>1, <1>2, ListedFields
  <1>4. \A k \in Key : k # key =>
          /\ t.info[k].cached = s.info[k].cached
          /\ t.info[k].lastseqid = s.info[k].lastseqid
          /\ t.info[k].known = s.info[k].known
          /\ t.info[k].openid = s.info[k].openid
          /\ t.info[k].confirmed = s.info[k].confirmed
          /\ t.info[k].id = s.info[k].id
          /\ \/ t.info[k] = s.info[k]
             \/ \E id \in Id : s.state[id].owner = k /\ k \in OpenKey
    BY <1>1, <1>2, ListedFields
  <1>5. \A k : Live(t, k) <=> Live(s, k)
    BY <1>3 DEF Live
  <1>6. \A i \in Id : s.state[i] # NoState => s.state[i].owner \in Key
    BY DEF StateInv, Numbered
  <1>7. Numbered(t)
    BY <1>3 DEF StateInv, Numbered
  <1>8. Shape(t)
    BY <1>3, <1>7 DEF Shape, WholeLocks
  <1>9. OwnIds(t)
    <2>1. ASSUME NEW k \in Key, t.info[k].id # 0
          PROVE  /\ t.info[k].id < t.next_id /\ t.info[k].known
                 /\ \/ t.state[t.info[k].id] = NoState /\ ~Live(t, k)
                    \/ /\ t.state[t.info[k].id] # NoState
                       /\ t.state[t.info[k].id].owner = k /\ ~t.state[t.info[k].id].closed
      <3>1. k # key /\ t.info[k].id = s.info[k].id /\ t.info[k].known = s.info[k].known
        BY <1>3, <1>4, <2>1
      <3> QED BY <1>3, <1>5, <2>1, <3>1 DEF StateInv, OwnIds
    <2> QED BY <2>1 DEF OwnIds
  <1>10. OpenStates(t)
    <2>1. \A k \in OpenKey : k # key /\ k \in Key
      BY Keys
    <2> QED BY <1>3, <1>4, <2>1 DEF StateInv, OpenStates
  <1>11. Held(t)
    <2>1. ASSUME NEW i \in Id, t.file.locks[i] # {}
          PROVE  /\ t.state[i].owner \in LockKey /\ Live(t, t.state[i].owner)
                 /\ t.info[t.state[i].owner].id = i /\ t.info[t.state[i].owner].confirmed
      <3>1. /\ s.state[i].owner \in LockKey /\ Live(s, s.state[i].owner)
            /\ s.info[s.state[i].owner].id = i /\ s.info[s.state[i].owner].confirmed
        BY <1>3, <2>1 DEF StateInv, Held
      <3>2. s.state[i].owner # key /\ s.state[i].owner \in Key
        BY <3>1, Keys
      <3> QED BY <1>3, <1>4, <1>5, <3>1, <3>2
    <2>2. ASSUME NEW i \in Id, t.file.shares[i] # F!NoShare
          PROVE  /\ t.state[i].owner \in OpenKey /\ Live(t, t.state[i].owner)
                 /\ t.info[t.state[i].owner].id = i
      <3>1. /\ s.state[i].owner \in OpenKey /\ Live(s, s.state[i].owner)
            /\ s.info[s.state[i].owner].id = i
        BY <1>3, <2>2 DEF StateInv, Held
      <3>2. s.state[i].owner # key /\ s.state[i].owner \in Key
        BY <3>1, Keys
      <3> QED BY <1>3, <1>4, <1>5, <3>1, <3>2
    <2> QED BY <2>1, <2>2 DEF Held
  <1>12. Openers(t)
    <2>1. ASSUME NEW k \in LockKey, t.info[k].openid # 0
          PROVE  /\ t.info[k].openid \in Id /\ t.info[k].openid < t.next_id
                 /\ t.state[t.info[k].openid] # NoState =>
                      /\ t.state[t.info[k].openid].owner \in OpenKey
                      /\ t.state[t.info[k].openid].owner[1] = ClientOf[k[1]]
      <3>1. CASE k = key
        <4>1. s.state[openid] # NoState
          BY StateFacts, Keys
        <4>2. openid < s.next_id
          BY <4>1 DEF StateInv, Numbered
        <4> QED BY <1>3, <3>1, <4>2
      <3>2. CASE k # key
        <4>1. t.info[k].openid = s.info[k].openid
          BY <1>4, <3>2, Keys
        <4>2. Openers(s)
          BY DEF StateInv
        <4> QED BY <1>3, <2>1, <4>1, <4>2 DEF Openers
      <3> QED BY <3>1, <3>2
    <2>2. ASSUME NEW k \in LockKey, t.info[k].confirmed, Live(t, k)
          PROVE  /\ t.info[k].openid # 0 /\ t.state[t.info[k].openid] # NoState
                 /\ t.info[t.state[t.info[k].openid].owner].confirmed
      <3>1. k # key
        BY <1>3, <2>2
      <3>2. t.info[k].openid = s.info[k].openid /\ s.info[k].confirmed /\ Live(s, k)
        BY <1>4, <1>5, <2>2, <3>1, Keys
      <3>3. /\ s.info[k].openid # 0 /\ s.state[s.info[k].openid] # NoState
            /\ s.info[s.state[s.info[k].openid].owner].confirmed
            /\ s.state[s.info[k].openid].owner \in OpenKey
        BY <3>2 DEF StateInv, Openers
      <3>4. s.state[s.info[k].openid].owner # key /\ s.state[s.info[k].openid].owner \in Key
        BY <3>3, Keys
      <3>5. t.info[s.state[s.info[k].openid].owner].confirmed
        BY <1>4, <3>3, <3>4
      <3> QED BY <1>3, <3>2, <3>3, <3>5
    <2> QED BY <2>1, <2>2 DEF Openers
  <1>13. Unused(t)
    <2>1. ASSUME NEW k \in Key, t.life[Holder(k)] < k[2]
          PROVE  t.info[k] = NewOwner
      <3>1. s.info[k] = NewOwner /\ s.info[k].lastseqid = -1
        BY <1>3, <2>1 DEF StateInv, Unused, NewOwner
      <3>2. k # key
        BY <1>1, <1>3, <2>1, ServerFields, Keys DEF Live
      <3>3. ~\E id \in Id : s.state[id].owner = k /\ k \in OpenKey
        BY <3>1, StateFacts, Keys DEF StateInv, OpenStates
      <3> QED BY <1>4, <3>1, <3>2, <3>3
    <2> QED BY <2>1 DEF Unused
  <1>14. Renewing(t)
    BY <1>3 DEF StateInv, Renewing
  <1>15. Known(t)
    BY <1>3, <1>4 DEF StateInv, Known
  <1>16. Keeps(s, t)
    <2>1. ASSUME NEW i \in Id, LockHolder(s, i)
          PROVE  LockHolder(t, i)
      <3>1. s.state[i].owner # key /\ s.state[i].owner \in Key
        BY <2>1, Keys DEF LockHolder
      <3> QED BY <1>3, <1>4, <1>5, <2>1, <3>1 DEF LockHolder
    <2> QED BY <1>1, <1>3, <2>1, ServerFields DEF Keeps
  <1>18. Siblings(t)
    <2>1. s.state[openid].owner \in Key => Holder(s.state[openid].owner) = Holder(key)
      BY Keys
    <2>2. \A k \in Key : /\ Ours(k, s.info[k].lockowners)
                         /\ k = s.state[openid].owner => Holder(key) = Holder(k)
                         => Ours(k, t.info[k].lockowners)
      BY <1>1, <1>2, ListedFields
    <2> QED BY <2>1, <2>2 DEF StateInv, Siblings
  <1>17. StateInv(t)
    BY <1>7, <1>9, <1>10, <1>11, <1>12, <1>13, <1>14, <1>15, <1>18 DEF StateInv
  <1> QED BY <1>3, <1>4, <1>8, <1>16, <1>17

\* The numbers and answers of some owners change, never back to a fresh owner's, and open
\* owners may be confirmed.
LEMMA NumbersKeep ==
  ASSUME NEW s, Shape(s), StateInv(s),
         NEW t \in Server, t.file = s.file, t.state = s.state, t.life = s.life, t.up = s.up,
         t.lease = s.lease, t.next_id = s.next_id,
         \A k \in Key : /\ t.info[k].known = s.info[k].known \/ (t.info[k].known /\ Live(s, k))
                        /\ s.info[k].confirmed => t.info[k].confirmed
                        /\ k \in LockKey => t.info[k].confirmed = s.info[k].confirmed
                        /\ t.info[k].id = s.info[k].id
                        /\ t.info[k].openid = s.info[k].openid
                        /\ t.info[k].lastseqid = -1 => s.info[k].lastseqid = -1
                        /\ t.info[k].lastseqid # -1 => t.info[k].known
                        /\ ~s.info[k].known /\ ~Live(s, k) => t.info[k] = s.info[k]
                        /\ t.info[k].lockowners = s.info[k].lockowners
  PROVE  Shape(t) /\ StateInv(t) /\ Keeps(s, t)
  <1>1. s \in Server
    BY DEF Shape
  <1>2. \A k : Live(t, k) <=> Live(s, k)
    BY DEF Live
  <1>3. Numbered(t)
    BY DEF StateInv, Numbered
  <1>4. Shape(t)
    BY <1>3 DEF Shape, WholeLocks
  <1>5. \A i \in Id : s.state[i] # NoState => s.state[i].owner \in Key
    BY DEF StateInv, Numbered
  <1>6. OwnIds(t)
    <2>1. ASSUME NEW k \in Key, t.info[k].id # 0
          PROVE  /\ t.info[k].id < t.next_id /\ t.info[k].known
                 /\ \/ t.state[t.info[k].id] = NoState /\ ~Live(t, k)
                    \/ /\ t.state[t.info[k].id] # NoState
                       /\ t.state[t.info[k].id].owner = k /\ ~t.state[t.info[k].id].closed
      <3>1. s.info[k].known /\ t.info[k].id = s.info[k].id
        BY <2>1 DEF StateInv, OwnIds
      <3> QED BY <1>2, <2>1, <3>1 DEF StateInv, OwnIds
    <2> QED BY <2>1 DEF OwnIds
  <1>7. OpenStates(t)
    BY <1>5 DEF StateInv, OpenStates
  <1>8. Held(t)
    BY <1>2, Keys DEF StateInv, Held
  <1>9. Openers(t)
    <2>1. ASSUME NEW k \in LockKey, t.info[k].openid # 0
          PROVE  /\ t.info[k].openid \in Id /\ t.info[k].openid < t.next_id
                 /\ t.state[t.info[k].openid] # NoState =>
                      /\ t.state[t.info[k].openid].owner \in OpenKey
                      /\ t.state[t.info[k].openid].owner[1] = ClientOf[k[1]]
      <3>1. t.info[k].openid = s.info[k].openid
        BY Keys
      <3> QED BY <2>1, <3>1 DEF StateInv, Openers
    <2>2. ASSUME NEW k \in LockKey, t.info[k].confirmed, Live(t, k)
          PROVE  /\ t.info[k].openid # 0 /\ t.state[t.info[k].openid] # NoState
                 /\ t.info[t.state[t.info[k].openid].owner].confirmed
      <3>1. t.info[k].openid = s.info[k].openid /\ s.info[k].confirmed /\ Live(s, k)
        BY <1>2, <2>2, Keys
      <3>2. /\ s.info[k].openid # 0 /\ s.state[s.info[k].openid] # NoState
            /\ s.info[s.state[s.info[k].openid].owner].confirmed
            /\ s.info[k].openid \in Id
        BY <3>1 DEF StateInv, Openers
      <3> QED BY <1>5, <3>1, <3>2
    <2> QED BY <2>1, <2>2 DEF Openers
  <1>10. Unused(t)
    <2>1. ASSUME NEW k \in Key, t.life[Holder(k)] < k[2]
          PROVE  t.info[k] = NewOwner
      <3>1. s.info[k] = NewOwner /\ ~s.info[k].known
        BY <2>1 DEF StateInv, Unused, NewOwner
      <3>2. ~Live(s, k)
        BY <1>1, <2>1, ServerFields, Keys DEF Live
      <3> QED BY <3>1, <3>2
    <2> QED BY <2>1 DEF Unused
  <1>11. Renewing(t) /\ Known(t) /\ Siblings(t)
    BY DEF StateInv, Renewing, Known, Siblings
  <1>12. StateInv(t)
    BY <1>3, <1>6, <1>7, <1>8, <1>9, <1>10, <1>11 DEF StateInv
  <1>13. Keeps(s, t)
    <2>1. ASSUME NEW i \in Id, LockHolder(s, i)
          PROVE  LockHolder(t, i)
      BY <1>2, <2>1, Keys DEF LockHolder
    <2> QED BY <1>1, <2>1, ServerFields DEF Keeps
  <1> QED BY <1>4, <1>12, <1>13
-----------------------------------------------------------------------------
(* Sequence numbers *)

\* mod32 stays within the numbers and leaves them alone; -1 is the last of them.
LEMMA Modulus ==
  /\ \A n \in Int : mod32(n) \in 0..SeqMod - 1
  /\ \A n \in 0..SeqMod - 1 : mod32(n) = n
  /\ \A n \in Nat : mod32(n) <= n
  /\ mod32(-1) = SeqMod - 1 /\ mod32(SeqMod) = 0
  BY ServerAssumption DEF mod32

\* What advance_seqid writes down for one owner.
LEMMA AdvancedFields ==
  ASSUME NEW n \in Info, NEW r \in Request, NEW answer \in Answer,
         NEW m, m = Advanced(n, r, answer)
  PROVE  /\ m \in Info /\ m.known = n.known /\ m.confirmed = n.confirmed /\ m.id = n.id
         /\ m.openid = n.openid /\ m.lockowners = n.lockowners
         /\ m.cached = <<r, answer>> /\ m.cached # <<>>
         /\ m.lastseqid = IF answer.status \in NotAdvancing THEN n.lastseqid
                          ELSE IF n.lastseqid = -1 THEN 0 ELSE mod32(n.lastseqid + 1)
         /\ n.lastseqid # -1 => m.lastseqid # -1
  <1> DEFINE last == IF answer.status \in NotAdvancing THEN n.lastseqid
                     ELSE IF n.lastseqid = -1 THEN 0 ELSE mod32(n.lastseqid + 1)
             cached == <<r, answer>>
  <1>1. n.lastseqid \in -1..SeqMod - 1
    BY DEF Info
  <1>2. last \in -1..SeqMod - 1 /\ (n.lastseqid # -1 => last # -1)
    <2>1. n.lastseqid + 1 \in Int
      BY <1>1, ServerAssumption
    <2>2. mod32(n.lastseqid + 1) \in 0..SeqMod - 1
      BY <2>1, Modulus
    <2> QED BY <1>1, <2>2, ServerAssumption
  <1>3. cached \in Request \X Answer /\ cached # <<>>
    OBVIOUS
  <1>4. m = [n EXCEPT !.cached = cached, !.lastseqid = last]
    BY DEF Advanced
  <1> HIDE DEF last, cached
  <1>5. /\ m \in Info /\ m.known = n.known /\ m.confirmed = n.confirmed /\ m.id = n.id
        /\ m.openid = n.openid /\ m.lockowners = n.lockowners
        /\ m.cached = cached /\ m.lastseqid = last
    BY <1>2, <1>3, <1>4 DEF Info
  <1> QED BY <1>2, <1>3, <1>5 DEF last, cached

\* The owners whose numbers an operation advances.
Named(s, r) == {Sequencer(s, r)} \cup
               (IF r.op = "LOCK_NEW" THEN {Current(s, r.owner)} ELSE {})

\* advance_seqid writes down the answer and moves on the numbers of the owners named.
LEMMA AdvanceFields ==
  ASSUME NEW s \in Server, NEW r \in Request, NEW answer \in Answer,
         NEW t, t = advance_seqid(s, r, answer)
  PROVE  /\ t \in Server /\ t.file = s.file /\ t.state = s.state /\ t.life = s.life
         /\ t.up = s.up /\ t.lease = s.lease /\ t.next_id = s.next_id
         /\ \A k \in Key : t.info[k] = IF k \in Named(s, r) /\ s.info[k].known
                                       THEN Advanced(s.info[k], r, answer) ELSE s.info[k]
  <1> DEFINE keys == {Sequencer(s, r)} \cup
                     (IF r.op = "LOCK_NEW" THEN {Current(s, r.owner)} ELSE {})
             new(k) == IF k \in keys /\ s.info[k].known
                       THEN Advanced(s.info[k], r, answer) ELSE s.info[k]
             info == [k \in Key |-> new(k)]
  <1>1. s.info \in [Key -> Info]
    BY ServerFields
  <1>2. \A k \in Key : new(k) \in Info
    BY <1>1, AdvancedFields
  <1>3. DOMAIN s.info = Key
    BY <1>1
  <1>4. t = [s EXCEPT !.info = [k \in DOMAIN s.info |-> new(k)]]
    BY DEF advance_seqid
  <1>5. \A k \in Key : new(k) = IF k \in Named(s, r) /\ s.info[k].known
                                THEN Advanced(s.info[k], r, answer) ELSE s.info[k]
    BY DEF Named
  <1> HIDE DEF new
  <1>6. t = [s EXCEPT !.info = info]
    BY <1>3, <1>4
  <1>7. info \in [Key -> Info] /\ \A k \in Key : info[k] = new(k)
    BY <1>2
  <1> HIDE DEF info
  <1>8. /\ t \in Server /\ t.file = s.file /\ t.state = s.state /\ t.life = s.life
        /\ t.up = s.up /\ t.lease = s.lease /\ t.next_id = s.next_id /\ t.info = info
    BY <1>6, <1>7 DEF Server
  <1> QED BY <1>5, <1>7, <1>8

\* advance_seqid leaves everything in place but the numbers and the answers to repeat.
LEMMA AdvanceKeeps ==
  ASSUME NEW s, Shape(s), NEW r \in Request, NEW answer \in Answer,
         NEW t, t = advance_seqid(s, r, answer)
  PROVE  Shape(t) /\ (StateInv(s) => StateInv(t) /\ Keeps(s, t))
  <1>1. s \in Server /\ s.info \in [Key -> Info]
    BY ServerFields DEF Shape
  <1>2. /\ t \in Server /\ t.file = s.file /\ t.state = s.state /\ t.life = s.life
        /\ t.up = s.up /\ t.lease = s.lease /\ t.next_id = s.next_id
        /\ \A k \in Key : t.info[k] = IF k \in Named(s, r) /\ s.info[k].known
                                      THEN Advanced(s.info[k], r, answer) ELSE s.info[k]
    BY <1>1, AdvanceFields
  <1>3. \A k \in Key : /\ t.info[k].known = s.info[k].known
                       /\ t.info[k].confirmed = s.info[k].confirmed
                       /\ t.info[k].id = s.info[k].id
                       /\ t.info[k].openid = s.info[k].openid
                       /\ t.info[k].lockowners = s.info[k].lockowners
                       /\ s.info[k].lastseqid # -1 => t.info[k].lastseqid # -1
                       /\ ~s.info[k].known => t.info[k] = s.info[k]
    <2>1. ASSUME NEW k \in Key, k \in Named(s, r), s.info[k].known
          PROVE  /\ t.info[k].known = s.info[k].known
                 /\ t.info[k].confirmed = s.info[k].confirmed
                 /\ t.info[k].id = s.info[k].id
                 /\ t.info[k].openid = s.info[k].openid
                 /\ t.info[k].lockowners = s.info[k].lockowners
                 /\ s.info[k].lastseqid # -1 => t.info[k].lastseqid # -1
      <3>1. t.info[k] = Advanced(s.info[k], r, answer) /\ s.info[k] \in Info
        BY <1>1, <1>2, <2>1
      <3> QED BY <3>1, AdvancedFields
    <2> QED BY <1>2, <2>1
  <1>4. Shape(t)
    BY <1>2 DEF Shape, WholeLocks, Numbered
  <1>5. ASSUME StateInv(s)
        PROVE  StateInv(t) /\ Keeps(s, t)
    <2>1. \A k \in Key : t.info[k].lastseqid # -1 => t.info[k].known
      BY <1>2, <1>3, <1>5 DEF StateInv, Known
    <2>2. \A k \in Key : /\ t.info[k].known = s.info[k].known \/ (t.info[k].known /\ Live(s, k))
                         /\ s.info[k].confirmed => t.info[k].confirmed
                         /\ k \in LockKey => t.info[k].confirmed = s.info[k].confirmed
                         /\ t.info[k].id = s.info[k].id
                         /\ t.info[k].openid = s.info[k].openid
                         /\ t.info[k].lastseqid = -1 => s.info[k].lastseqid = -1
                         /\ t.info[k].lastseqid # -1 => t.info[k].known
                         /\ ~s.info[k].known /\ ~Live(s, k) => t.info[k] = s.info[k]
                         /\ t.info[k].lockowners = s.info[k].lockowners
      <3>1. ASSUME NEW k \in Key
            PROVE  /\ t.info[k].known = s.info[k].known
                   /\ t.info[k].confirmed = s.info[k].confirmed
                   /\ t.info[k].id = s.info[k].id
                   /\ t.info[k].openid = s.info[k].openid
                   /\ t.info[k].lockowners = s.info[k].lockowners
                   /\ s.info[k].lastseqid # -1 => t.info[k].lastseqid # -1
                   /\ ~s.info[k].known => t.info[k] = s.info[k]
        BY <1>3
      <3> QED BY <2>1, <3>1
    <2>3. /\ t \in Server /\ t.file = s.file /\ t.state = s.state /\ t.life = s.life
          /\ t.up = s.up /\ t.lease = s.lease /\ t.next_id = s.next_id
      BY <1>2
    <2> QED BY <1>5, <2>2, <2>3, NumbersKeep
  <1> QED BY <1>4, <1>5
-----------------------------------------------------------------------------
(* The outcomes of the operations *)

\* The parts of an operation's outcome, with the stateid that __stateid returns.
LEMMA OutcomeFields ==
  /\ \A s, status : /\ Failed(s, status).s = s /\ Failed(s, status).status = status
                    /\ Failed(s, status).stateid = NoStateid
  /\ \A s, id : /\ Granted(s, id).status = "OK" /\ Granted(s, id).stateid.id = id
                /\ Granted(s, id).stateid.seqid = mod32(s.state[id].seqid + 1)
                /\ Granted(s, id).stateid =
                     [id |-> id, seqid |-> mod32(s.state[id].seqid + 1)]
  /\ NoStateid \in Stateid
  BY DEF Failed, Granted, NoStateid, Stateid

\* A stateid that __stateid returns.
LEMMA GrantedStateid ==
  ASSUME NEW s \in Server, NEW id \in Id
  PROVE  Granted(s, id).stateid \in Stateid /\ mod32(s.state[id].seqid + 1) \in Nat
  <1>1. s.state[id].seqid \in Nat
    BY ServerFields DEF State
  <1>2. mod32(s.state[id].seqid + 1) \in Nat
    BY <1>1, Modulus
  <1>3. Granted(s, id).stateid = [id |-> id, seqid |-> mod32(s.state[id].seqid + 1)]
    BY OutcomeFields
  <1> QED BY <1>2, <1>3, StateFacts DEF Stateid

\* __stateid of a state that is there: the lease is renewed and the number goes up.
LEMMA GrantKeeps ==
  ASSUME NEW s, Shape(s), StateInv(s), NEW id \in Id, s.state[id] # NoState,
         NEW t, t = Granted(s, id).s
  PROVE  /\ Shape(t) /\ StateInv(t) /\ Keeps(s, t)
         /\ t.info = s.info /\ t.file = s.file /\ t.life = s.life /\ t.up = s.up
         /\ t.next_id = s.next_id
         /\ \A i \in Id : /\ t.state[i].owner = s.state[i].owner
                          /\ t.state[i] # NoState <=> s.state[i] # NoState
                          /\ t.state[i].closed = s.state[i].closed
         /\ t.state[id].seqid = Granted(s, id).stateid.seqid
         /\ \A i \in Id \ {id} : t.state[i] = s.state[i]
  <1> DEFINE c == Holder(s.state[id].owner)
             u == [s EXCEPT !.lease[c] = "live"]
             n == mod32(s.state[id].seqid + 1)
  <1>1. s \in Server
    BY DEF Shape
  <1>2. c \in Client
    BY Keys DEF StateInv, Numbered
  <1>3. n \in Nat
    BY <1>1, GrantedStateid
  <1>4. t = Bumped(u, id, n)
    <2>1. u.state = s.state
      BY <1>1 DEF Server
    <2>2. t = [u EXCEPT !.state[id].seqid = mod32(u.state[id].seqid + 1)]
      BY DEF Granted, Renewed
    <2> HIDE DEF u
    <2> QED BY <2>1, <2>2 DEF Bumped
  <1> HIDE DEF c, n
  <1>5. u = [s EXCEPT !.lease[c] = "live"]
    OBVIOUS
  <1> HIDE DEF u
  <1>6. /\ Shape(u) /\ StateInv(u) /\ Keeps(s, u)
        /\ u.info = s.info /\ u.file = s.file /\ u.life = s.life /\ u.up = s.up
        /\ u.state = s.state /\ u.next_id = s.next_id
    BY <1>2, <1>5, RenewKeeps
  <1>7. /\ Shape(t) /\ StateInv(t) /\ Keeps(u, t)
        /\ t.info = u.info /\ t.file = u.file /\ t.life = u.life /\ t.up = u.up
        /\ t.next_id = u.next_id /\ t.lease = u.lease
        /\ \A i \in Id : /\ t.state[i].owner = u.state[i].owner
                         /\ t.state[i] # NoState <=> u.state[i] # NoState
                         /\ t.state[i].closed = u.state[i].closed
        /\ t.state[id].seqid = n /\ \A i \in Id \ {id} : t.state[i] = u.state[i]
    <2>1. u.state[id] # NoState /\ Shape(u) /\ StateInv(u)
      BY <1>6
    <2> QED BY <1>3, <1>4, <2>1, BumpKeeps
  <1>8. Keeps(s, t)
    BY <1>1, <1>6, <1>7, KeepsOn DEF Shape
  <1>9. Granted(s, id).stateid.seqid = n
    BY OutcomeFields DEF n
  <1> QED BY <1>6, <1>7, <1>8, <1>9

\* It leaves the states of the other owners alone.
LEMMA GrantStays ==
  ASSUME NEW s, Shape(s), StateInv(s), NEW id \in Id, s.state[id] # NoState,
         NEW t, t = Granted(s, id).s, NEW k, k # s.state[id].owner
  PROVE  StatesStay(s, t, k)
  <1>1. /\ Shape(t) /\ StateInv(t) /\ Keeps(s, t)
        /\ t.info = s.info /\ t.file = s.file /\ t.life = s.life /\ t.up = s.up
        /\ t.next_id = s.next_id
        /\ \A i \in Id : /\ t.state[i].owner = s.state[i].owner
                         /\ t.state[i] # NoState <=> s.state[i] # NoState
                         /\ t.state[i].closed = s.state[i].closed
        /\ t.state[id].seqid = Granted(s, id).stateid.seqid
        /\ \A i \in Id \ {id} : t.state[i] = s.state[i]
    BY GrantKeeps
  <1> QED BY <1>1 DEF StatesStay

\* An exception changes nothing but that the server has ended.
LEMMA DiedShape ==
  ASSUME NEW s, Shape(s), NEW why \in {"replay", "exception"}, NEW t, t = Died(s, why)
  PROVE  Shape(t) /\ t.up = why /\ t.file = s.file /\ t.life = s.life
  <1>1. s \in Server
    BY DEF Shape
  <1>2. /\ t \in Server /\ t.up = why /\ t.file = s.file /\ t.life = s.life
        /\ t.state = s.state /\ t.next_id = s.next_id
    BY <1>1 DEF Died, Server
  <1> QED BY <1>2 DEF Shape, WholeLocks, Numbered

\* While no client's state is removed, a step only takes locks away, or gives one lock
\* owner the file that nobody holds against it.
LocksStep(s, t) ==
  t.life = s.life =>
    \/ \A i \in Id : t.file.locks[i] \subseteq s.file.locks[i]
    \/ \E id \in Id, type \in LockType :
         /\ F!Conflicts(s.file, {id}, type, 0, MaxByte) = {}
         /\ t.file.locks = [s.file.locks EXCEPT
                              ![id] = {[type |-> type, start |-> 0, end |-> MaxByte]}]

\* Only the file and the clients' lives count for it.
LEMMA SameLocksStep ==
  ASSUME NEW s, NEW t, NEW u, NEW v, LocksStep(t, u),
         t.file = s.file, t.life = s.life, v.file = u.file, v.life = u.life
  PROVE  LocksStep(s, v)
  <1>1. ASSUME v.life = s.life
        PROVE  \/ \A i \in Id : v.file.locks[i] \subseteq s.file.locks[i]
               \/ \E id \in Id, type \in LockType :
                    /\ F!Conflicts(s.file, {id}, type, 0, MaxByte) = {}
                    /\ v.file.locks = [s.file.locks EXCEPT
                                         ![id] = {[type |-> type, start |-> 0, end |-> MaxByte]}]
    <2>1. u.life = t.life
      BY <1>1
    <2>2. \/ \A i \in Id : u.file.locks[i] \subseteq t.file.locks[i]
          \/ \E id \in Id, type \in LockType :
               /\ F!Conflicts(t.file, {id}, type, 0, MaxByte) = {}
               /\ u.file.locks = [t.file.locks EXCEPT
                                    ![id] = {[type |-> type, start |-> 0, end |-> MaxByte]}]
      BY <2>1 DEF LocksStep
    <2> DEFINE f == s.file
               g == v.file
    <2>3. t.file = f /\ u.file = g
      OBVIOUS
    <2> HIDE DEF f, g
    <2>4. \/ \A i \in Id : g.locks[i] \subseteq f.locks[i]
          \/ \E id \in Id, type \in LockType :
               /\ F!Conflicts(f, {id}, type, 0, MaxByte) = {}
               /\ g.locks = [f.locks EXCEPT
                               ![id] = {[type |-> type, start |-> 0, end |-> MaxByte]}]
      BY <2>2, <2>3
    <2> QED BY <2>4 DEF f, g
  <1> QED BY <1>1 DEF LocksStep

\* What lock tells is true, and it leaves the other owners alone.
Locked(s, p, key, id) ==
  /\ p.status = "OK" => Valid(p.s, key, p.stateid)
  /\ p.status = "DENIED" => p.s = s
  /\ p.s.life[Holder(key)] = s.life[Holder(key)]
  /\ \A k \in Key : s.info[k].confirmed => p.s.info[k].confirmed
  /\ \A k \in Key \ {key} : Untouched(s, p.s, k)

\* What is so once lock has answered.
LockDone(s, p, key, id) ==
  /\ Shape(p.s) /\ p.stateid \in Stateid /\ p.status \in {"OK", "DENIED"}
  /\ LocksStep(s, p.s)
  /\ p.status = "DENIED" => p.s = s
  /\ p.s.up = "up" =>
       /\ StateInv(p.s) /\ Keeps(s, p.s)
       /\ p.status = "OK" =>
            /\ p.stateid.id = id /\ LockHolder(p.s, id)
            /\ p.s.state[id] # NoState /\ p.s.state[id].owner = key
       /\ \A k \in Key : /\ p.s.info[k].lastseqid = s.info[k].lastseqid
                         /\ p.s.info[k].cached = s.info[k].cached
                         /\ p.s.info[k].confirmed =>
                              s.info[k].confirmed \/ (k = key /\ p.status = "OK")
       /\ Locked(s, p, key, id)

\* lock, once the id is known: what may come of it.
LEMMA LockOutcome ==
  ASSUME NEW s, Shape(s), StateInv(s), s.up = "up", NEW key \in LockKey, Live(s, key),
         NEW id \in Id, s.info[key].id = id, NEW type \in LockType,
         s.info[key].openid # 0, s.state[s.info[key].openid] # NoState,
         s.info[s.state[s.info[key].openid].owner].confirmed,
         NEW p \in lock(s, id, type)
  PROVE  LockDone(s, p, key, id)
  <1> USE DEF LockDone
  <1> DEFINE whole == {[type |-> type, start |-> 0, end |-> MaxByte]}
  <1>1. s \in Server /\ key \in Key /\ s.info \in [Key -> Info] /\ s.file \in F!File
    <2>1. s \in Server /\ key \in Key
      BY Keys DEF Shape
    <2> QED BY <2>1, ServerFields
  <1>2. s.state[id] # NoState /\ s.state[id].owner = key
    BY <1>1, StateFacts DEF StateInv, OwnIds
  <1>3. /\ s.info[key].openid \in Id
        /\ s.state[s.info[key].openid].owner \in OpenKey
        /\ s.state[s.info[key].openid].owner[1] = ClientOf[key[1]]
    BY DEF StateInv, Openers
  <1>4. PICK o \in TestLock(s, {id}, type) :
          p = IF o.status # "OK" THEN o
              ELSE LET locked == [o.s EXCEPT !.file = F!AddLock(@, id, type, 0, MaxByte)]
                   IN IF o.s.state[id] = NoState
                        THEN Failed(Died(locked, "exception"), "OK")
                      ELSE Granted([locked EXCEPT
                                      !.info[o.s.state[id].owner].confirmed = TRUE], id)
    BY DEF lock
  <1>5. /\ o.stateid = NoStateid /\ o.status \in {"OK", "DENIED"}
        /\ o.status = "DENIED" => o.s = s
        /\ \/ o.s = s
           \/ \E c \in Client : s.life[c] < MaxLives /\ s.lease[c] = "expired" /\
                                o.s = remove_state(s, c)
    BY TestLockOutcome
  <1>6. /\ Shape(o.s) /\ StateInv(o.s) /\ Keeps(s, o.s) /\ o.s.info = s.info
        /\ o.s.up = "up" /\ o.s.file \in F!File
        /\ \A i \in Id : o.s.file.locks[i] \subseteq s.file.locks[i]
        /\ o.s.state[id] # NoState =>
             /\ Live(o.s, key) /\ o.s.state[id].owner = key
             /\ o.s.state[s.info[key].openid] = s.state[s.info[key].openid]
        /\ \A k \in Key : StatesStay(s, o.s, k)
    <2>1. CASE o.s = s
      <3>1. \A k \in Key : StatesStay(s, s, k)
        BY SameStates
      <3> QED BY <1>1, <1>2, <2>1, <3>1, KeepsItself
    <2>2. ASSUME NEW c \in Client, s.life[c] < MaxLives, o.s = remove_state(s, c)
          PROVE  /\ Shape(o.s) /\ StateInv(o.s) /\ Keeps(s, o.s) /\ o.s.info = s.info
                 /\ o.s.up = "up"
                 /\ \A i \in Id : o.s.file.locks[i] \subseteq s.file.locks[i]
                 /\ o.s.state[id] # NoState =>
                      /\ Live(o.s, key) /\ o.s.state[id].owner = key
                      /\ o.s.state[s.info[key].openid] = s.state[s.info[key].openid]
                 /\ \A k \in Key : StatesStay(s, o.s, k)
      <3>1. /\ Shape(o.s) /\ StateInv(o.s) /\ Keeps(s, o.s)
            /\ o.s.info = s.info /\ o.s.up = s.up
            /\ o.s.life = [s.life EXCEPT ![c] = @ + 1]
            /\ \A i \in Id : o.s.file.locks[i] \subseteq s.file.locks[i]
            /\ \A i \in Id : o.s.state[i] # NoState => o.s.state[i] = s.state[i]
            /\ \A i \in Id : s.state[i] # NoState /\ Live(s, s.state[i].owner) /\
                 s.info[s.state[i].owner].id = i =>
                   (o.s.state[i] = NoState <=> Holder(s.state[i].owner) = c)
            /\ \A i \in Id : s.state[i] # NoState /\ Holder(s.state[i].owner) # c =>
                   o.s.state[i] = s.state[i]
        BY <2>2, RemoveStateKeeps
      <3>3. \A k \in Key : StatesStay(s, o.s, k)
        <4>1. \A k \in Key : StatesStay(s, remove_state(s, c), k)
          BY <2>2, RemoveStateLife
        <4> QED BY Zenon, <2>2, <4>1
      <3>2. ASSUME o.s.state[id] # NoState
            PROVE  /\ Live(o.s, key) /\ o.s.state[id].owner = key
                   /\ o.s.state[s.info[key].openid] = s.state[s.info[key].openid]
        <4>1. Holder(key) # c
          BY <1>2, <3>1, <3>2
        <4>2. o.s.life[Holder(key)] = s.life[Holder(key)]
          BY <1>1, <3>1, <4>1, ServerFields, Keys
        <4>3. Holder(s.state[s.info[key].openid].owner) # c
          BY <1>3, <4>1, Keys
        <4> QED BY <1>2, <1>3, <3>1, <3>2, <4>2, <4>3 DEF Live
      <3> QED BY <3>1, <3>2, <3>3
    <2>3. Shape(o.s) => o.s.file \in F!File
      BY ServerFields DEF Shape
    <2> QED BY <1>5, <2>1, <2>2, <2>3
  <1>7. CASE o.status # "OK"
    <2>1. p = o
      BY <1>4, <1>7
    <2>2. LocksStep(s, p.s)
      BY <1>6, <2>1 DEF LocksStep
    <2>3. Locked(s, p, key, id)
      <3>1. p.s = s /\ p.status = "DENIED"
        BY <1>5, <1>7, <2>1
      <3>2. \A k \in Key : Untouched(s, s, k)
        BY SameStates DEF Untouched
      <3> QED BY <3>1, <3>2 DEF Locked
    <2> QED BY <1>5, <1>6, <1>7, <2>1, <2>2, <2>3, OutcomeFields
  <1>8. CASE o.status = "OK"
    <2> DEFINE file == F!AddLock(o.s.file, id, type, 0, MaxByte)
               locked == [o.s EXCEPT !.file = file]
    <2>1. /\ file \in F!File /\ file.shares = o.s.file.shares
          /\ file.locks = [o.s.file.locks EXCEPT ![id] = whole]
          /\ [type |-> type, start |-> 0, end |-> MaxByte] \in Whole
      BY <1>6, AddLockFile DEF Shape, WholeLocks
    <2>2. CASE o.s.state[id] = NoState
      <3>1. p = Failed(Died(locked, "exception"), "OK")
        BY <1>4, <1>8, <2>2
      <3> HIDE DEF file
      <3>2. /\ locked \in Server /\ locked.file = file /\ locked.state = o.s.state
            /\ locked.next_id = o.s.next_id /\ locked.life = o.s.life
        <4>1. o.s \in Server
          BY <1>6 DEF Shape
        <4> QED BY <2>1, <4>1 DEF Server
      <3>3. Shape(locked)
        <4>1. o.s.file.locks \in [Id -> SUBSET F!LockInfo]
          BY <1>6, FileFields
        <4>2. \A i \in Id : file.locks[i] \subseteq Whole
          BY <1>6, <2>1, <4>1 DEF Shape, WholeLocks
        <4> QED BY <1>6, <3>2, <4>2 DEF Shape, WholeLocks, Numbered
      <3> HIDE DEF locked
      <3>4. /\ Shape(p.s) /\ p.s.up = "exception" /\ p.s.life = o.s.life
            /\ p.status = "OK" /\ p.stateid = NoStateid
        BY <3>1, <3>2, <3>3, DiedShape, OutcomeFields
      <3>5. LocksStep(s, p.s)
        <4>1. o.s # s
          BY <1>2, <2>2
        <4>2. PICK c \in Client : s.life[c] < MaxLives /\ o.s = remove_state(s, c)
          BY <1>5, <4>1
        <4>3. o.s.life = [s.life EXCEPT ![c] = @ + 1]
          BY <1>1, <4>2, RemoveStateLife
        <4>4. o.s.life[c] # s.life[c]
          BY <1>1, <4>2, <4>3, ServerFields
        <4> QED BY <3>4, <4>4 DEF LocksStep
      <3> QED BY <3>4, <3>5, OutcomeFields
    <2>3. CASE o.s.state[id] # NoState
      <3> DEFINE u == [o.s EXCEPT !.lease[Holder(key)] = "live"]
                 v == Given(u, key, id, type)
                 l == [locked EXCEPT !.info[key].confirmed = TRUE]
      <3>1. p = Granted(l, id)
        BY <1>4, <1>6, <1>8, <2>3
      <3>2. o.s \in Server /\ Holder(key) \in Client /\ o.s.lease \in [Client -> {"live", "expired"}]
        BY <1>1, <1>6, ServerFields, Keys DEF Shape
      <3>3. u = [o.s EXCEPT !.lease[Holder(key)] = "live"]
        OBVIOUS
      <3>4. u.lease[Holder(key)] = "live"
        BY <3>2 DEF Server
      <3> HIDE DEF u
      <3>5. /\ Shape(u) /\ StateInv(u) /\ Keeps(o.s, u)
            /\ u.info = o.s.info /\ u.file = o.s.file /\ u.life = o.s.life /\ u.up = o.s.up
            /\ u.state = o.s.state /\ u.next_id = o.s.next_id
        BY <1>6, <3>2, <3>3, RenewKeeps
      <3>6. v = Given(u, key, id, type)
        OBVIOUS
      <3> HIDE DEF v
      <3>7. Live(u, key) /\ u.info[key].openid = s.info[key].openid /\ u.info[key].id = id
        BY <1>6, <2>3, <3>5 DEF Live
      <3>8. /\ u.state[u.info[key].openid] # NoState
            /\ u.info[u.state[u.info[key].openid].owner].confirmed
        BY <1>6, <2>3, <3>5, <3>7
      <3>9. /\ Shape(v) /\ StateInv(v) /\ Keeps(u, v)
            /\ v.file.locks = [u.file.locks EXCEPT ![id] = whole]
            /\ v.life = u.life /\ v.up = u.up /\ v.lease = u.lease
            /\ v.next_id = u.next_id /\ v.state = u.state /\ v.info[key].confirmed
            /\ \A k \in Key : /\ v.info[k].cached = u.info[k].cached
                              /\ v.info[k].lastseqid = u.info[k].lastseqid
                              /\ v.info[k].id = u.info[k].id /\ v.info[k].known = u.info[k].known
                              /\ k # key => v.info[k] = u.info[k]
            /\ v.file.shares = u.file.shares
        <4>1. Shape(u) /\ StateInv(u) /\ Live(u, key) /\ u.info[key].id = id
              /\ u.info[key].openid # 0
          BY <3>5, <3>7
        <4>2. LockGiven(u, v, key, id, type)
          <5> HIDE DEF whole
          <5> QED BY <3>4, <3>6, <3>8, <4>1, LockKeeps
        <4> QED BY <4>2 DEF LockGiven
      <3>10. Granted(l, id) = Granted(v, id)
        <4> DEFINE info == [o.s.info EXCEPT ![key].confirmed = TRUE]
                   lease == [o.s.lease EXCEPT ![Holder(key)] = "live"]
        <4>1. l = [o.s EXCEPT !.file = file, !.info = info]
          <5> HIDE DEF file
          <5> QED BY <3>2 DEF Server
        <4>2. v = [o.s EXCEPT !.file = file, !.info = info, !.lease = lease]
          <5>1. u = [o.s EXCEPT !.lease = lease]
            BY <3>2, <3>3
          <5>2. v = [u EXCEPT !.file = file, !.info[key].confirmed = TRUE]
            BY <3>5, <3>6 DEF Given
          <5> HIDE DEF file, lease
          <5> QED BY <3>2, <3>5, <5>1, <5>2 DEF Server
        <4>3. Renewed(l, id) = v /\ Renewed(v, id) = v /\ l.state = v.state
          <5>1. o.s.state[id].owner = key
            BY <1>6, <2>3
          <5>2. [lease EXCEPT ![Holder(key)] = "live"] = lease
            BY <3>2
          <5> HIDE DEF l, file, info
          <5>3. l.state[id].owner = key /\ v.state[id].owner = key /\ l.state = v.state
                /\ l.lease = o.s.lease /\ v.lease = lease
            BY <3>2, <4>1, <4>2, <5>1 DEF Server
          <5>4. Renewed(l, id) = [l EXCEPT !.lease = lease]
            BY <5>3 DEF Renewed
          <5>5. Renewed(v, id) = [v EXCEPT !.lease = lease]
            BY <5>2, <5>3 DEF Renewed
          <5> HIDE DEF lease
          <5>6. [l EXCEPT !.lease = lease] = v /\ [v EXCEPT !.lease = lease] = v
            BY <3>2, <4>1, <4>2 DEF Server
          <5> QED BY <5>3, <5>4, <5>5, <5>6
        <4> HIDE DEF l
        <4> QED BY <4>3 DEF Granted
      <3> HIDE DEF l, locked, file
      <3>11. v.state[id] # NoState /\ v.state[id].owner = key /\ v.info[key].id = id
             /\ Live(v, key)
        BY <1>1, <1>6, <2>3, <3>5, <3>7, <3>9 DEF Live
      <3>12. /\ Shape(p.s) /\ StateInv(p.s) /\ Keeps(v, p.s)
             /\ p.s.info = v.info /\ p.s.file = v.file /\ p.s.life = v.life /\ p.s.up = v.up
             /\ p.s.next_id = v.next_id
             /\ p.s.state[id].owner = v.state[id].owner /\ p.s.state[id] # NoState
             /\ p.s.state[id].seqid = Granted(v, id).stateid.seqid
             /\ \A i \in Id \ {id} : p.s.state[i] = v.state[i]
        BY <3>1, <3>9, <3>10, <3>11, GrantKeeps
      <3>13. p.status = "OK" /\ p.stateid.id = id /\ p.stateid \in Stateid
        <4>1. v \in Server
          BY <3>9 DEF Shape
        <4> QED BY <3>1, <3>10, <4>1, OutcomeFields, GrantedStateid
      <3>14. Keeps(s, p.s)
        <4>1. o.s \in Server /\ u \in Server /\ v \in Server /\ p.s \in Server
          BY <1>6, <3>5, <3>9, <3>12 DEF Shape
        <4>2. Keeps(s, u)
          BY <1>1, <1>6, <3>5, <4>1, KeepsOn
        <4>3. Keeps(s, v)
          BY <1>1, <3>9, <4>1, <4>2, KeepsOn
        <4> QED BY <1>1, <3>12, <4>1, <4>3, KeepsOn
      <3>15. LockHolder(p.s, id)
        BY <3>9, <3>11, <3>12 DEF LockHolder, Live
      <3>16. LocksStep(s, p.s)
        <4>1. CASE o.s = s
          <5>1. F!Conflicts(s.file, {id}, type, 0, MaxByte) = {}
            <6>1. ASSUME F!Conflicts(s.file, {id}, type, 0, MaxByte) # {}
                  PROVE  FALSE
              <7>1. PICK i \in F!Conflicts(s.file, {id}, type, 0, MaxByte) :
                      o = IF s.lease[Holder(s.state[i].owner)] = "expired"
                          THEN Failed(remove_state(s, Holder(s.state[i].owner)), "OK")
                          ELSE Failed(s, "DENIED")
                BY <6>1 DEF TestLock
              <7>2. o = Failed(remove_state(s, Holder(s.state[i].owner)), "OK")
                BY <1>8, <7>1, OutcomeFields
              <7>3. i \in Id /\ s.file.locks[i] # {} /\ i # id
                BY ConflictsHoldLocks
              <7>4. s.state[i].owner \in LockKey /\ Live(s, s.state[i].owner) /\
                    s.info[s.state[i].owner].id = i
                BY <7>3 DEF StateInv, Held
              <7> DEFINE c == Holder(s.state[i].owner)
              <7>5. c \in Client /\ o.s = remove_state(s, c) /\ s.lease[c] = "expired"
                BY <1>8, <7>1, <7>2, <7>4, OutcomeFields, Keys, SMTT(30)
              <7>6. s.life[c] < MaxLives
                <8>1. s.life[c] # MaxLives
                  BY <7>3, <7>5 DEF StateInv, Renewing
                <8> QED BY <1>1, <7>5, <8>1, ServerFields, Keys
              <7>7. o.s.life = [s.life EXCEPT ![c] = @ + 1]
                BY <1>1, <7>5, <7>6, RemoveStateLife
              <7>8. o.s.life[c] # s.life[c]
                BY <1>1, <7>5, <7>7, ServerFields
              <7> QED BY <4>1, <7>6, <7>8
            <6> QED BY <6>1
          <5>2. p.s.file.locks = [s.file.locks EXCEPT ![id] = whole]
            BY <3>5, <3>9, <3>12, <4>1
          <5> QED BY <5>1, <5>2 DEF LocksStep
        <4>2. CASE o.s # s
          <5>1. PICK c \in Client : s.life[c] < MaxLives /\ o.s = remove_state(s, c)
            BY <1>5, <4>2
          <5>2. o.s.life = [s.life EXCEPT ![c] = @ + 1]
            BY <1>1, <5>1, RemoveStateLife
          <5>3. o.s.life[c] # s.life[c]
            BY <1>1, <5>1, <5>2, ServerFields
          <5> QED BY <3>5, <3>9, <3>12, <5>3 DEF LocksStep
        <4> QED BY <4>1, <4>2
      <3>17. \A k \in Key : /\ p.s.info[k].lastseqid = s.info[k].lastseqid
                            /\ p.s.info[k].cached = s.info[k].cached
                            /\ p.s.info[k].confirmed => s.info[k].confirmed \/ k = key
        BY <1>6, <3>5, <3>9, <3>12
      <3>18. Locked(s, p, key, id)
        <4>1. Valid(p.s, key, p.stateid)
          BY <3>1, <3>10, <3>11, <3>12, <3>13 DEF Valid
        <4>2. p.s.life[Holder(key)] = s.life[Holder(key)]
          <5>1. Live(o.s, key)
            BY <1>6, <2>3
          <5>2. p.s.life = o.s.life
            BY <3>5, <3>9, <3>12
          <5> QED BY <5>1, <5>2 DEF Live
        <4>3. ASSUME NEW k \in Key
              PROVE  s.info[k].confirmed => p.s.info[k].confirmed
          BY <1>6, <3>5, <3>9, <3>12
        <4>4. ASSUME NEW k \in Key, k # key
              PROVE  Untouched(s, p.s, k)
          <5>1. p.s.info[k].confirmed = s.info[k].confirmed
            BY <1>6, <3>5, <3>9, <3>12, <4>4
          <5>2. \A i \in Id : o.s.state[i].owner = k =>
                  p.s.state[i] = o.s.state[i] /\ p.s.file.shares[i] = o.s.file.shares[i]
            <6>1. o.s.state[id].owner # k
              BY <1>6, <2>3, <4>4
            <6>2. /\ \A i \in Id : i # id => p.s.state[i] = o.s.state[i]
                  /\ p.s.file.shares = o.s.file.shares
              BY <3>5, <3>9, <3>12
            <6> QED BY <6>1, <6>2
          <5>3. p.s.life = o.s.life
            BY <3>5, <3>9, <3>12
          <5>4. StatesStay(s, p.s, k)
            <6>1. StatesStay(o.s, p.s, k)
              BY <5>2 DEF StatesStay
            <6>2. Keeps(o.s, p.s)
              <7>1. o.s \in Server /\ u \in Server /\ v \in Server /\ p.s \in Server
                BY <1>6, <3>5, <3>9, <3>12 DEF Shape
              <7>2. Keeps(o.s, v)
                BY <3>5, <3>9, <7>1, KeepsOn
              <7> QED BY <3>12, <7>1, <7>2, KeepsOn
            <6>3. o.s \in Server /\ p.s \in Server
              BY <1>6, <3>12 DEF Shape
            <6> QED BY <1>6, <6>1, <6>2, <6>3, StatesStayOn
          <5> QED BY <5>1, <5>4 DEF Untouched
        <4>5. p.status # "DENIED"
          BY <3>13
        <4> QED BY <4>1, <4>2, <4>3, <4>4, <4>5 DEF Locked
      <3> QED BY <3>11, <3>12, <3>13, <3>14, <3>15, <3>16, <3>17, <3>18
    <2> QED BY <2>2, <2>3
  <1> QED BY <1>5, <1>7, <1>8
-----------------------------------------------------------------------------
(* Opens, confirmations, closes and unlocks *)

\* The owners whose own states or confirmation an operation may change.
Touched(s, r) ==
  IF r.op = "LOCK_NEW" THEN {Current(s, r.owner)}
  ELSE {Sequencer(s, r)} \cup
       (IF r.op = "CLOSE" THEN {k \in LockKey : Holder(k) = r.client} ELSE {})

\* The stateid of the request is the one that the server would accept.
Willing(s, r) ==
  /\ r.op \in {"OPEN_CONFIRM", "CLOSE", "LOCK", "LOCKU"}
  /\ Valid(s, Sequencer(s, r), r.stateid)
  /\ r.op = "OPEN_CONFIRM" => ~s.info[Sequencer(s, r)].confirmed
  /\ r.op = "CLOSE" => ~s.state[r.stateid.id].closed

\* What an operation does to the owners' states, and that its answer is true of them.
Effect(s, r, p) ==
  /\ p.s.life[r.client] = s.life[r.client] /\ Sequencer(p.s, r) = Sequencer(s, r)
  /\ \A k \in Key \ Touched(s, r) : Untouched(s, p.s, k)
  /\ r.op = "CLOSE" => \A k \in LockKey : StatesLast(s, p.s, k)
  /\ r.op # "CLOSE" => \A k \in Key : s.info[k].confirmed => p.s.info[k].confirmed
  /\ r.op = "OPEN_CONFIRM" => p.s.file.shares = s.file.shares
  /\ Truthful(p.s, Sequencer(s, r), r, p)
  /\ Willing(s, r) => p.status \notin NotAdvancing
  /\ r.op = "LOCK_NEW" =>
       /\ p.s.info[Current(s, r.owner)].known
       /\ p.status \in NotAdvancing =>
            s.info[Current(s, r.owner)].confirmed /\ \A k \in Key : Untouched(s, p.s, k)
       /\ p.status = "OK" => Valid(p.s, Current(s, r.owner), p.stateid)

\* What every operation of nfs4state.py that a sequenced request calls gives back.
Answered(s, r, p) ==
  /\ Shape(p.s) /\ p.stateid \in Stateid /\ p.status \in Status /\ LocksStep(s, p.s)
  /\ r.op = "OPEN" => p.s.life = s.life /\ p.status \notin NotAdvancing
  /\ p.s.up = "up" =>
       /\ StateInv(p.s) /\ Keeps(s, p.s) /\ Promised(p.s, r, p) /\ Effect(s, r, p)
       /\ \A k \in Key :
            /\ \/ /\ p.s.info[k].lastseqid = s.info[k].lastseqid
                  /\ p.s.info[k].cached = s.info[k].cached
               \/ /\ r.op = "LOCK_NEW" /\ k = Current(s, r.owner) /\ ~s.info[k].confirmed
                  /\ p.s.info[k].lastseqid = -1 /\ p.s.info[k].cached = <<>>
            /\ k \in LockKey /\ p.s.info[k].confirmed =>
                 \/ s.info[k].confirmed
                 \/ p.status = "OK" /\ r.op = "LOCK_NEW" /\ k = Current(p.s, r.owner)
       /\ r.op = "LOCK_NEW" =>
            /\ p.status = "OK" => p.s.info[Current(p.s, r.owner)].known
            /\ \/ p.status \in NotAdvancing
               \/ LET k == Current(p.s, r.owner)
                  IN ~s.info[k].confirmed /\ p.s.info[k].lastseqid = -1

\* What a handler may rely on, when check_seqid has let a request go on.
Ready(s, r) ==
  /\ Shape(s) /\ StateInv(s) /\ s.up = "up" /\ s.next_id <= MaxId /\ r \in Request
  /\ r.op = "OPEN" => s.info[Current(s, r.client)].lastseqid # -1
  /\ r.op # "OPEN" => r.stateid.id \in Id /\ s.state[r.stateid.id] # NoState
  /\ LET key == s.state[r.stateid.id].owner
     IN /\ r.op \in {"OPEN_CONFIRM", "CLOSE", "LOCK_NEW"} =>
             key \in OpenKey /\ key[1] = r.client
        /\ r.op \in {"CLOSE", "LOCK_NEW"} => s.info[key].confirmed
        /\ r.op \in {"LOCK", "LOCKU"} => LockHolder(s, r.stateid.id) /\ key[1] = r.owner
  /\ r.op \in {"LOCK_NEW", "LOCK", "LOCKU"} => r.owner \in Owns(r.client)
  /\ r.op \in {"LOCK_NEW", "LOCK"} => r.type \in LockType

\* A state that is there has an id that was given out.
LEMMA StateIsKnown ==
  ASSUME NEW s, Shape(s), NEW id \in Id, s.state[id] # NoState
  PROVE  id < s.next_id /\ s.state[id].owner \in Key
  BY DEF Shape, Numbered

\* What __stateid's comparison refuses a stateid with, and never the present one.
LEMMA ErrorRefuses ==
  ASSUME NEW s, NEW st
  PROVE  /\ StateidError(s, st) \in {"OK", "OLD_STATEID", "BAD_STATEID"}
         /\ StateidError(s, st) = "OK" <=> st.seqid = s.state[st.id].seqid
  BY DEF StateidError

\* A refusal changes nothing.
LEMMA RefusedAnswers ==
  ASSUME NEW s, NEW r, Ready(s, r), r.op \notin {"OPEN", "LOCK_NEW"},
         NEW status \in {"OLD_STATEID", "BAD_STATEID"}, Willing(s, r) => status \notin NotAdvancing
  PROVE  Answered(s, r, Failed(s, status))
  <1> DEFINE p == Failed(s, status)
  <1>1. p.s = s /\ p.status = status /\ p.stateid \in Stateid
    BY OutcomeFields
  <1> HIDE DEF p
  <1>2. LocksStep(s, p.s)
    BY <1>1 DEF LocksStep
  <1>3. Keeps(s, s)
    BY KeepsItself DEF Ready, Shape
  <1>4. Promised(p.s, r, p)
    BY <1>1 DEF Promised
  <1>5. Shape(p.s) /\ StateInv(p.s) /\ Keeps(s, p.s) /\ p.s.info = s.info
    BY <1>1, <1>3 DEF Ready
  <1>7. Effect(s, r, p)
    <2>1. \A k : Untouched(s, p.s, k) /\ StatesLast(s, p.s, k)
      BY <1>1, SameStates DEF Untouched, StatesLast
    <2>2. Truthful(p.s, Sequencer(s, r), r, p)
      <3>1. r.stateid.id \in Id /\ r.stateid.id < s.next_id
        BY StateIsKnown DEF Ready
      <3> QED BY <1>1, <3>1 DEF Truthful
    <2> QED BY <1>1, <2>1, <2>2 DEF Effect
  <1>8. status \in Status
    BY DEF Status
  <1>6. Answered(s, r, p)
    BY <1>1, <1>2, <1>4, <1>5, <1>7, <1>8 DEF Answered
  <1> QED BY <1>6 DEF p

\* op_open: a new entry and shares on the file, or a refusal.
LEMMA OpenAnswers ==
  ASSUME NEW s, NEW r, Ready(s, r), r.op = "OPEN", NEW p \in open(s, r)
  PROVE  Answered(s, r, p)
  <1> DEFINE key == Current(s, r.client)
             pending == ~s.info[key].confirmed /\ s.info[key].id # 0
             fresh == IF pending THEN Dropped(s, key) ELSE s
             next == WithId(fresh, key)
             id == next.info[key].id
             shared == Shared(next, id, r.shares)
  <1>1. /\ s \in Server /\ Shape(s) /\ StateInv(s) /\ s.up = "up" /\ s.next_id <= MaxId
        /\ r.client \in Client /\ r.shares \in Shares
    <2>1. r \in OpenRequest
      BY DEF Ready, Request, StateRequest
    <2> QED BY <2>1 DEF Ready, Shape, OpenRequest
  <1>2. /\ key \in OpenKey /\ key \in Key /\ key \notin LockKey /\ Live(s, key)
        /\ key[1] = r.client /\ s.info[key].lastseqid # -1
    BY <1>1, CurrentKey, Keys DEF Ready
  <1>3. \/ pending /\ p = Failed(Died(s, "exception"), "OK")
        \/ p = Failed(next, "SHARE_DENIED")
        \/ r.shares[1] # {} /\ p = Granted(shared, id)
    BY Zenon DEF open, Dropped, Shared, F!TestShares
  <1>0. key = Sequencer(s, r) /\ Touched(s, r) = {key}
    BY DEF Sequencer, Touched
  <1> HIDE DEF key
  <1>4. /\ Shape(fresh) /\ StateInv(fresh) /\ Keeps(s, fresh)
        /\ fresh.file.locks = s.file.locks /\ fresh.life = s.life /\ fresh.up = s.up
        /\ fresh.next_id = s.next_id
        /\ \A k \in Key : /\ fresh.info[k].cached = s.info[k].cached
                          /\ fresh.info[k].lastseqid = s.info[k].lastseqid
                          /\ fresh.info[k].confirmed = s.info[k].confirmed
        /\ \A i \in Id : s.state[i].owner # key =>
             fresh.state[i] = s.state[i] /\ fresh.file.shares[i] = s.file.shares[i]
    <2>1. CASE ~pending
      <3>1. fresh = s
        BY <2>1
      <3> QED BY <1>1, <3>1, KeepsItself
    <2>2. CASE pending
      <3>1. fresh = Dropped(s, key) /\ ~s.info[key].confirmed /\ s.info[key].id # 0
        BY <2>2
      <3> HIDE DEF fresh
      <3> QED BY <1>1, <1>2, <3>1, PendingKeeps
    <2> QED BY <2>1, <2>2
  <1> HIDE DEF fresh, pending
  <1>5. /\ Live(fresh, key) /\ fresh.next_id <= MaxId /\ fresh.info[key].lastseqid # -1
    BY <1>1, <1>2, <1>4 DEF Live
  <1>6. next = WithId(fresh, key)
    OBVIOUS
  <1> HIDE DEF next
  <1>7. /\ Shape(next) /\ StateInv(next) /\ Keeps(fresh, next)
        /\ next.file = fresh.file /\ next.life = fresh.life /\ next.up = fresh.up
        /\ id \in Id /\ next.state[id] # NoState /\ next.state[id].owner = key
        /\ \A k \in Key : /\ next.info[k].cached = fresh.info[k].cached
                          /\ next.info[k].lastseqid = fresh.info[k].lastseqid
                          /\ next.info[k].confirmed = fresh.info[k].confirmed
        /\ \A i \in Id : fresh.state[i] # NoState => next.state[i] = fresh.state[i]
    <2>1. /\ Shape(next) /\ StateInv(next) /\ Keeps(fresh, next)
          /\ next.file = fresh.file /\ next.life = fresh.life /\ next.up = fresh.up
          /\ IdOf(fresh, key) \in Id /\ id = IdOf(fresh, key)
          /\ next.state[IdOf(fresh, key)] # NoState
          /\ next.state[IdOf(fresh, key)].owner = key
          /\ \A k \in Key : /\ next.info[k].cached = fresh.info[k].cached
                            /\ next.info[k].lastseqid = fresh.info[k].lastseqid
                            /\ next.info[k].confirmed = fresh.info[k].confirmed
          /\ \A i \in Id : fresh.state[i] # NoState => next.state[i] = fresh.state[i]
      BY <1>2, <1>4, <1>5, <1>6, WithIdKeeps
    <2> QED BY <2>1
  <1>8. id = next.info[key].id
    OBVIOUS
  <1> HIDE DEF id
  <1>9. Live(next, key) /\ shared = Shared(next, id, r.shares)
    BY <1>5, <1>7 DEF Live
  <1> HIDE DEF shared
  <1>10. /\ Shape(shared) /\ StateInv(shared) /\ Keeps(next, shared)
         /\ shared.file.locks = next.file.locks /\ shared.life = next.life
         /\ shared.up = next.up /\ shared.info = next.info /\ shared.state = next.state
         /\ \A i \in Id \ {id} : shared.file.shares[i] = next.file.shares[i]
         /\ r.shares[1] # {} => shared.file.shares[id] # F!NoShare
    BY <1>1, <1>2, <1>7, <1>8, <1>9, ShareKeeps
  <1>11. Keeps(s, next) /\ Keeps(s, shared)
    <2>1. fresh \in Server /\ next \in Server /\ shared \in Server
      BY <1>4, <1>7, <1>10 DEF Shape
    <2>2. Keeps(s, next)
      BY <1>1, <1>4, <1>7, <2>1, KeepsOn
    <2> QED BY <1>1, <1>10, <2>1, <2>2, KeepsOn
  <1>12. ASSUME p.s.file.locks = s.file.locks
         PROVE  LocksStep(s, p.s)
    BY <1>12 DEF LocksStep
  <1>16. ASSUME NEW k \in Key, k # key, NEW i \in Id, s.state[i].owner = k
         PROVE  /\ i # id /\ next.state[i] = s.state[i]
                /\ next.file.shares[i] = s.file.shares[i]
    <2>1. k # <<>>
      BY Keys
    <2>2. s.state[i] # NoState
      BY <1>16, <2>1 DEF NoState
    <2> QED BY <1>4, <1>7, <1>16, <2>2
  <1>17. ASSUME p.s.life = s.life
         PROVE  p.s.life[r.client] = s.life[r.client] /\ Sequencer(p.s, r) = Sequencer(s, r)
    BY <1>17 DEF Sequencer, Current
  <1>13. CASE p = Failed(Died(s, "exception"), "OK")
    <2>1. /\ Shape(p.s) /\ p.s.up = "exception" /\ p.s.file = s.file /\ p.s.life = s.life
          /\ p.status = "OK" /\ p.stateid \in Stateid
      BY <1>1, <1>13, DiedShape, OutcomeFields
    <2>2. p.status \notin NotAdvancing /\ p.status \in Status
      BY <2>1 DEF NotAdvancing, Status
    <2> QED BY <1>12, <2>1, <2>2 DEF Answered
  <1>14. CASE p = Failed(next, "SHARE_DENIED")
    <2>1. p.s = next /\ p.status = "SHARE_DENIED" /\ p.stateid \in Stateid
      BY <1>14, OutcomeFields
    <2>2. p.s.life = s.life /\ LocksStep(s, p.s)
      BY <1>4, <1>7, <1>12, <2>1
    <2>3. Promised(p.s, r, p) /\ p.status \notin NotAdvancing /\ p.status \in Status
      BY <2>1 DEF Promised, NotAdvancing, Status
    <2>4. \A k \in Key : /\ p.s.info[k].lastseqid = s.info[k].lastseqid
                         /\ p.s.info[k].cached = s.info[k].cached
                         /\ p.s.info[k].confirmed = s.info[k].confirmed
      BY <1>4, <1>7, <2>1
    <2>5. \A k \in Key \ Touched(s, r) : Untouched(s, p.s, k)
      BY <1>0, <1>16, <2>1, <2>4 DEF Untouched, StatesStay
    <2>6. Truthful(p.s, Sequencer(s, r), r, p)
      BY <2>1 DEF Truthful
    <2>7. Effect(s, r, p)
      BY <1>17, <2>2, <2>3, <2>4, <2>5, <2>6 DEF Effect
    <2> QED BY <1>7, <1>11, <2>1, <2>2, <2>3, <2>4, <2>7 DEF Answered
  <1>15. CASE r.shares[1] # {} /\ p = Granted(shared, id)
    <2>1. /\ Shape(p.s) /\ StateInv(p.s) /\ Keeps(shared, p.s)
          /\ p.s.info = shared.info /\ p.s.file = shared.file /\ p.s.life = shared.life
          /\ p.s.up = shared.up
          /\ p.s.state[id].owner = shared.state[id].owner /\ p.s.state[id] # NoState
          /\ p.s.state[id].seqid = Granted(shared, id).stateid.seqid
          /\ \A i \in Id \ {id} : p.s.state[i] = shared.state[i]
      BY <1>7, <1>10, <1>15, GrantKeeps
    <2>2. p.status = "OK" /\ p.stateid.id = id /\ p.stateid \in Stateid
      BY <1>7, <1>10, <1>15, OutcomeFields, GrantedStateid DEF Shape
    <2>3. Keeps(s, p.s)
      BY <1>1, <1>10, <1>11, <2>1, KeepsOn DEF Shape
    <2>4. p.s.life = s.life /\ LocksStep(s, p.s)
      BY <1>4, <1>7, <1>10, <1>12, <2>1
    <2>5. OpenKnown(p.s, id, r.client)
      <3>1. p.s.state[id].owner = key /\ id < p.s.next_id
        BY <1>7, <1>10, <2>1, StateIsKnown
      <3> QED BY <1>2, <1>7, <3>1 DEF OpenKnown
    <2>6. Promised(p.s, r, p)
      BY <2>2, <2>5 DEF Promised
    <2>7. p.status \notin NotAdvancing /\ p.status \in Status
      BY <2>2 DEF NotAdvancing, Status
    <2>8. \A k \in Key : /\ p.s.info[k].lastseqid = s.info[k].lastseqid
                         /\ p.s.info[k].cached = s.info[k].cached
                         /\ p.s.info[k].confirmed = s.info[k].confirmed
      BY <1>4, <1>7, <1>10, <2>1
    <2>9. \A k \in Key \ Touched(s, r) : Untouched(s, p.s, k)
      <3>1. ASSUME NEW k \in Key, k # key, NEW i \in Id, s.state[i].owner = k
            PROVE  p.s.state[i] = s.state[i] /\ p.s.file.shares[i] = s.file.shares[i]
        BY <1>10, <1>16, <2>1, <3>1
      <3> QED BY <1>0, <2>8, <3>1 DEF Untouched, StatesStay
    <2>10. Truthful(p.s, Sequencer(s, r), r, p)
      <3>1. Valid(p.s, key, p.stateid)
        BY <1>7, <1>10, <1>15, <2>1, <2>2 DEF Valid
      <3>2. OnFile(p.s, p.stateid.id)
        BY <1>7, <1>10, <1>15, <2>1, <2>2 DEF OnFile
      <3> QED BY <1>0, <2>2, <3>1, <3>2 DEF Truthful
    <2>11. Effect(s, r, p)
      BY <1>17, <2>4, <2>7, <2>8, <2>9, <2>10 DEF Effect
    <2> QED BY <2>1, <2>2, <2>3, <2>4, <2>6, <2>7, <2>8, <2>11 DEF Answered
  <1> QED BY <1>3, <1>13, <1>14, <1>15

\* op_open_confirm: the owner is confirmed and gets a new stateid.
LEMMA ConfirmAnswers ==
  ASSUME NEW s, NEW r, Ready(s, r), r.op = "OPEN_CONFIRM", NEW p \in confirm(s, r)
  PROVE  Answered(s, r, p)
  <1> DEFINE id == r.stateid.id
             key == s.state[id].owner
             u == [s EXCEPT !.info[key].confirmed = TRUE]
  <1>1. /\ s \in Server /\ s.info \in [Key -> Info] /\ Shape(s) /\ StateInv(s)
        /\ s.up = "up" /\ id \in Id /\ s.state[id] # NoState
        /\ key \in OpenKey /\ key[1] = r.client
    BY ServerFields DEF Ready, Shape
  <1>2. key \in Key /\ key \notin LockKey
    BY <1>1, Keys
  <1>0. key = Sequencer(s, r) /\ Touched(s, r) = {key}
    BY DEF Sequencer, Touched
  <1>3. \/ \E status \in {"OLD_STATEID", "BAD_STATEID"} :
             (Willing(s, r) => status \notin NotAdvancing) /\ p = Failed(s, status)
        \/ p = Granted(u, id)
    <2> HIDE DEF u, key
    <2>1. \/ StateidError(s, r.stateid) # "OK" /\ p = Failed(s, StateidError(s, r.stateid))
          \/ s.info[key].confirmed /\ p = Failed(s, "BAD_STATEID")
          \/ p = Granted(u, id)
      BY Zenon DEF confirm, u, key
    <2>2. /\ StateidError(s, r.stateid) \in {"OK", "OLD_STATEID", "BAD_STATEID"}
          /\ StateidError(s, r.stateid) = "OK" <=> r.stateid.seqid = s.state[id].seqid
      BY ErrorRefuses
    <2>3. Willing(s, r) => StateidError(s, r.stateid) = "OK" /\ ~s.info[key].confirmed
      BY <1>0, <2>2 DEF Willing, Valid
    <2> QED BY <2>1, <2>2, <2>3
  <1>4. u = [s EXCEPT !.info[key].confirmed = TRUE]
    OBVIOUS
  <1> HIDE DEF u, key
  <1>5. ASSUME NEW status \in {"OLD_STATEID", "BAD_STATEID"},
               Willing(s, r) => status \notin NotAdvancing, p = Failed(s, status)
        PROVE  Answered(s, r, p)
    BY <1>5, RefusedAnswers
  <1>6. CASE p = Granted(u, id)
    <2> DEFINE own == [s.info[key] EXCEPT !.confirmed = TRUE]
    <2>1. s.info[key] \in Info
      BY <1>1, <1>2
    <2>2. /\ own \in Info /\ own.confirmed /\ own.id = s.info[key].id
          /\ own.openid = s.info[key].openid /\ own.known = s.info[key].known
          /\ own.lastseqid = s.info[key].lastseqid /\ own.cached = s.info[key].cached
          /\ own.lockowners = s.info[key].lockowners
      BY <2>1 DEF Info
    <2>3. u = [s EXCEPT !.info = [s.info EXCEPT ![key] = own]]
      BY <1>1, <1>2, <1>4 DEF Server
    <2> HIDE DEF own
    <2>4. /\ u \in Server /\ u.file = s.file /\ u.state = s.state /\ u.life = s.life
          /\ u.up = s.up /\ u.lease = s.lease /\ u.next_id = s.next_id
          /\ u.info = [s.info EXCEPT ![key] = own]
      <3>1. [s.info EXCEPT ![key] = own] \in [Key -> Info]
        BY <1>1, <1>2, <2>2
      <3> QED BY <1>1, <2>3, <3>1 DEF Server
    <2>5. \A k \in Key : /\ u.info[k].known = s.info[k].known
                         /\ s.info[k].confirmed => u.info[k].confirmed
                         /\ k # key => u.info[k] = s.info[k]
                         /\ u.info[k].id = s.info[k].id
                         /\ u.info[k].openid = s.info[k].openid
                         /\ u.info[k].lastseqid = s.info[k].lastseqid
                         /\ u.info[k].cached = s.info[k].cached
                         /\ u.info[k].lockowners = s.info[k].lockowners
      BY <1>1, <1>2, <2>2, <2>4
    <2>6. s.info[key].known
      BY <1>1, <1>2 DEF StateInv, OpenStates, Known, key
    <2>7. Shape(u) /\ StateInv(u) /\ Keeps(s, u)
      <3>1. \A k \in Key :
              /\ u.info[k].known = s.info[k].known \/ (u.info[k].known /\ Live(s, k))
              /\ s.info[k].confirmed => u.info[k].confirmed
              /\ k \in LockKey => u.info[k].confirmed = s.info[k].confirmed
              /\ u.info[k].id = s.info[k].id
              /\ u.info[k].openid = s.info[k].openid
              /\ u.info[k].lastseqid = -1 => s.info[k].lastseqid = -1
              /\ u.info[k].lastseqid # -1 => u.info[k].known
              /\ ~s.info[k].known /\ ~Live(s, k) => u.info[k] = s.info[k]
              /\ u.info[k].lockowners = s.info[k].lockowners
        <4>1. \A k \in Key : s.info[k].lastseqid # -1 => s.info[k].known
          BY <1>1 DEF StateInv, Known
        <4> QED BY <1>2, <2>5, <2>6, <4>1
      <3> QED BY <1>1, <2>4, <3>1, NumbersKeep
    <2>8. u.state[id] # NoState
      BY <1>1, <2>4
    <2>9. /\ Shape(p.s) /\ StateInv(p.s) /\ Keeps(u, p.s)
          /\ p.s.info = u.info /\ p.s.file = u.file /\ p.s.life = u.life
          /\ p.s.up = u.up
          /\ p.s.state[id].owner = u.state[id].owner /\ p.s.state[id] # NoState
          /\ p.s.state[id].seqid = Granted(u, id).stateid.seqid
          /\ \A i \in Id \ {id} : p.s.state[i] = u.state[i]
      BY <1>1, <1>6, <2>7, <2>8, GrantKeeps
    <2>10. p.status = "OK" /\ p.stateid.id = id /\ p.stateid \in Stateid
      BY <1>1, <1>6, <2>4, OutcomeFields, GrantedStateid
    <2>11. Keeps(s, p.s)
      BY <1>1, <2>4, <2>7, <2>9, KeepsOn DEF Shape
    <2>12. OpenKnown(p.s, id, r.client)
      <3>1. p.s.state[id].owner = key /\ id < p.s.next_id
        BY <1>1, <2>4, <2>9, StateIsKnown DEF key
      <3> QED BY <1>1, <3>1 DEF OpenKnown, key
    <2>13. Promised(p.s, r, p) /\ p.status \in Status
      BY <2>10, <2>12 DEF Promised, Status
    <2>14. LocksStep(s, p.s)
      BY <2>4, <2>9 DEF LocksStep
    <2>15. \A k \in Key : /\ p.s.info[k].lastseqid = s.info[k].lastseqid
                          /\ p.s.info[k].cached = s.info[k].cached
                          /\ k \in LockKey => p.s.info[k] = s.info[k]
      BY <1>2, <2>5, <2>9
    <2>16. r.op # "OPEN"
      OBVIOUS
    <2>17. Effect(s, r, p)
      <3>1. \A k \in Key \ Touched(s, r) : Untouched(s, p.s, k)
        <4>1. ASSUME NEW k \in Key, k # key, NEW i \in Id, s.state[i].owner = k
              PROVE  p.s.state[i] = s.state[i] /\ p.s.file.shares[i] = s.file.shares[i]
          BY <2>4, <2>9, <4>1 DEF key
        <4>2. \A k \in Key : k # key => p.s.info[k] = s.info[k]
          BY <2>5, <2>9
        <4> QED BY <1>0, <4>1, <4>2 DEF Untouched, StatesStay
      <3>2. Truthful(p.s, Sequencer(s, r), r, p)
        <4>1. Valid(p.s, key, p.stateid)
          BY <1>1, <1>6, <2>4, <2>9, <2>10 DEF Valid, key
        <4>2. id < p.s.next_id
          BY <1>1, <2>9, StateIsKnown
        <4> QED BY <1>0, <1>1, <2>10, <4>1, <4>2 DEF Truthful
      <3>3. p.s.life = s.life /\ Sequencer(p.s, r) = Sequencer(s, r)
        BY <2>4, <2>9 DEF Sequencer
      <3>4. p.status \notin NotAdvancing
        BY <2>10 DEF NotAdvancing
      <3>5. /\ \A k \in Key : s.info[k].confirmed => p.s.info[k].confirmed
            /\ p.s.file.shares = s.file.shares
        BY <2>4, <2>5, <2>9
      <3> QED BY <3>1, <3>2, <3>3, <3>4, <3>5 DEF Effect
    <2> QED BY <2>9, <2>10, <2>11, <2>13, <2>14, <2>15, <2>16, <2>17 DEF Answered
  <1> QED BY <1>3, <1>5, <1>6

\* op_close: the owner's shares go, and the locks of the lock owners that the loop visits.
LEMMA CloseAnswers ==
  ASSUME NEW s, NEW r, Ready(s, r), r.op = "CLOSE", NEW p \in close(s, r)
  PROVE  Answered(s, r, p)
  <1> DEFINE id == r.stateid.id
             key == s.state[id].owner
             u == Renewed(s, id)
             t == Shut(u, key, id)
  <1>1. /\ s \in Server /\ s.info \in [Key -> Info] /\ Shape(s) /\ StateInv(s)
        /\ s.up = "up" /\ id \in Id /\ s.state[id] # NoState
        /\ key \in OpenKey /\ key[1] = r.client
    BY ServerFields DEF Ready, Shape
  <1>2. key \in Key /\ key \notin LockKey /\ Holder(key) \in Client
    BY <1>1, Keys
  <1>3. /\ Shape(u) /\ StateInv(u) /\ Keeps(s, u)
        /\ u.info = s.info /\ u.file = s.file /\ u.life = s.life /\ u.up = s.up
        /\ u.state = s.state /\ u.next_id = s.next_id
    <2>1. u = [s EXCEPT !.lease[Holder(key)] = "live"]
      BY DEF Renewed
    <2> HIDE DEF u, key
    <2> QED BY <1>1, <1>2, <2>1, RenewKeeps
  <1>0. key = Sequencer(s, r)
    BY DEF Sequencer
  <1>4. \/ \E status \in {"OLD_STATEID", "BAD_STATEID"} :
             (Willing(s, r) => status \notin NotAdvancing) /\ p = Failed(s, status)
        \/ ~s.state[id].closed /\ p = Failed(t, "OK")
    <2> DEFINE body(info, file) ==
                 LET gone == Visited(info[key].lockowners)
                     lockids == {info[l].id : l \in gone}
                     unlocked == [file EXCEPT !.locks =
                                    [i \in Id |-> IF i \in lockids THEN {} ELSE @[i]]]
                 IN [u EXCEPT
                      !.file = F!DownShares(unlocked, id, {}, {}),
                      !.info = [k \in DOMAIN info |->
                                  IF k \in gone
                                    THEN [info[k] EXCEPT !.id = 0, !.confirmed = FALSE]
                                  ELSE IF k = key
                                    THEN [info[k] EXCEPT !.id = 0, !.lockowners = Skipped(@)]
                                  ELSE info[k]],
                      !.state = [i \in Id |-> IF i \in lockids THEN NoState
                                             ELSE IF i = id THEN [@[i] EXCEPT !.closed = TRUE]
                                             ELSE @[i]]]
               closed == body(s.info, s.file)
    <2>1. \/ \E status \in {"OLD_STATEID", "BAD_STATEID"} :
               (Willing(s, r) => status \notin NotAdvancing) /\ p = Failed(s, status)
          \/ ~s.state[id].closed /\ p = Failed(closed, "OK")
      <3> HIDE DEF u
      <3>1. \/ StateidError(s, r.stateid) # "OK" /\ p = Failed(s, StateidError(s, r.stateid))
            \/ s.state[id].closed /\ p = Failed(s, "BAD_STATEID")
            \/ ~s.state[id].closed /\ p = Failed(closed, "OK")
        BY Zenon DEF close, u
      <3>2. /\ StateidError(s, r.stateid) \in {"OK", "OLD_STATEID", "BAD_STATEID"}
            /\ StateidError(s, r.stateid) = "OK" <=> r.stateid.seqid = s.state[id].seqid
        BY ErrorRefuses
      <3> HIDE DEF closed
      <3>3. Willing(s, r) => StateidError(s, r.stateid) = "OK" /\ ~s.state[id].closed
        BY <1>0, <3>2 DEF Willing, Valid
      <3> QED BY <3>1, <3>2, <3>3
    <2>2. t = body(u.info, u.file)
      BY DEF Shut
    <2> HIDE DEF body, t
    <2>3. closed = t
      BY <1>3, <2>2
    <2> HIDE DEF closed
    <2> QED BY <2>1, <2>3
  <1>5. t = Shut(u, key, id)
    OBVIOUS
  <1> HIDE DEF t, u, key
  <1>6. ASSUME NEW status \in {"OLD_STATEID", "BAD_STATEID"},
               Willing(s, r) => status \notin NotAdvancing, p = Failed(s, status)
        PROVE  Answered(s, r, p)
    BY <1>6, RefusedAnswers
  <1>7. CASE ~s.state[id].closed /\ p = Failed(t, "OK")
    <2> DEFINE gone == Visited(u.info[key].lockowners)
               lockids == {u.info[l].id : l \in gone}
    <2>1. /\ u \in Server /\ u.state[id] # NoState /\ u.state[id].owner = key
          /\ ~u.state[id].closed
      BY <1>1, <1>3, <1>7 DEF key, Shape
    <2>2. ShutFields(u, t, key, id, gone, lockids)
      BY <1>1, <1>5, <2>1, ShutHasFields
    <2> HIDE DEF gone, lockids
    <2>3. /\ Shape(t) /\ StateInv(t) /\ Keeps(u, t)
          /\ t.up = u.up /\ t.life = u.life
          /\ \A k \in Key : /\ t.info[k].cached = u.info[k].cached
                            /\ t.info[k].lastseqid = u.info[k].lastseqid
                            /\ t.info[k].confirmed => u.info[k].confirmed
          /\ \A i \in Id : t.file.locks[i] \subseteq u.file.locks[i]
          /\ \A k \in Key : k # key /\ (k \in OpenKey \/ Holder(k) # Holder(key)) =>
               StatesStay(u, t, k) /\ t.info[k].confirmed = u.info[k].confirmed
          /\ \A k \in LockKey : StatesLast(u, t, k)
      BY <1>1, <1>3, <2>1, <2>2, CloseKeeps
    <2>4. p.s = t /\ p.status = "OK" /\ p.stateid \in Stateid
      BY <1>7, OutcomeFields
    <2>5. Keeps(s, t)
      BY <1>1, <1>3, <2>3, KeepsOn DEF Shape
    <2>6. Promised(p.s, r, p) /\ p.status \in Status
      BY <2>4 DEF Promised, Status
    <2>7. LocksStep(s, p.s)
      BY <1>3, <2>3, <2>4 DEF LocksStep
    <2>8. \A k \in Key : /\ p.s.info[k].lastseqid = s.info[k].lastseqid
                         /\ p.s.info[k].cached = s.info[k].cached
                         /\ p.s.info[k].confirmed => s.info[k].confirmed
      BY <1>3, <2>3, <2>4
    <2>9. r.op # "OPEN" /\ Shape(p.s) /\ StateInv(p.s) /\ Keeps(s, p.s)
      BY <2>3, <2>4, <2>5
    <2>10. Effect(s, r, p)
      <3>1. \A k \in Key \ Touched(s, r) : Untouched(s, p.s, k)
        <4>1. ASSUME NEW k \in Key, k \notin Touched(s, r)
              PROVE  k # key /\ (k \in OpenKey \/ Holder(k) # Holder(key))
          <5>1. Holder(key) = r.client
            BY <1>1, Keys
          <5> QED BY <1>0, <4>1, <5>1, Keys DEF Touched
        <4>2. ASSUME NEW k \in Key, StatesStay(u, t, k),
                     t.info[k].confirmed = u.info[k].confirmed
              PROVE  Untouched(s, p.s, k)
          BY <1>3, <2>4, <4>2 DEF Untouched, StatesStay
        <4> QED BY <2>3, <4>1, <4>2
      <3>2. \A k \in LockKey : StatesLast(s, p.s, k)
        BY <1>3, <2>3, <2>4 DEF StatesLast
      <3>3. p.s.life = s.life
        BY <1>3, <2>3, <2>4
      <3>4. Sequencer(p.s, r) = Sequencer(s, r)
        <4>1. id \notin lockids
          <5>1. ASSUME NEW l \in gone, u.info[l].id = id
                PROVE  FALSE
            <6>1. l \in LockKey
              BY <2>2 DEF ShutFields
            <6> QED BY <1>1, <1>2, <1>3, <2>1, <5>1, <6>1, StateFacts, Keys DEF StateInv, OwnIds
          <5> QED BY <5>1 DEF lockids
        <4>2. t.state[id].owner = key
          BY <1>1, <2>2, <4>1 DEF ShutFields
        <4> QED BY <1>0, <2>4, <4>2 DEF Sequencer
      <3>5. Truthful(p.s, Sequencer(s, r), r, p)
        <4>1. id < s.next_id
          BY <1>1, StateIsKnown
        <4>2. p.s.next_id = s.next_id
          BY <1>3, <2>2, <2>4 DEF ShutFields
        <4> QED BY <1>1, <2>4, <4>1, <4>2 DEF Truthful
      <3>6. p.status \notin NotAdvancing
        BY <2>4 DEF NotAdvancing
      <3> QED BY <3>1, <3>2, <3>3, <3>4, <3>5, <3>6 DEF Effect
    <2> QED BY <2>4, <2>6, <2>7, <2>8, <2>9, <2>10 DEF Answered
  <1> QED BY <1>4, <1>6, <1>7

\* op_locku: the lock owner's lock goes.
LEMMA UnlockAnswers ==
  ASSUME NEW s, NEW r, Ready(s, r), r.op = "LOCKU", NEW p \in unlock(s, r)
  PROVE  Answered(s, r, p)
  <1> DEFINE id == r.stateid.id
             u == Released(s, id)
  <1>1. /\ s \in Server /\ Shape(s) /\ StateInv(s) /\ s.up = "up" /\ id \in Id
        /\ s.state[id] # NoState /\ LockHolder(s, id) /\ s.state[id].owner[1] = r.owner
    BY DEF Ready, Shape
  <1>0. Sequencer(s, r) = s.state[id].owner /\ Touched(s, r) = {s.state[id].owner}
    BY DEF Sequencer, Touched
  <1>2. \/ \E status \in {"OLD_STATEID", "BAD_STATEID"} :
             (Willing(s, r) => status \notin NotAdvancing) /\ p = Failed(s, status)
        \/ p = Granted(u, id)
    <2>1. \/ StateidError(s, r.stateid) # "OK" /\ p = Failed(s, StateidError(s, r.stateid))
          \/ p = Granted(u, id)
      BY DEF unlock, Released
    <2> HIDE DEF u
    <2>2. /\ StateidError(s, r.stateid) \in {"OK", "OLD_STATEID", "BAD_STATEID"}
          /\ StateidError(s, r.stateid) = "OK" <=> r.stateid.seqid = s.state[id].seqid
      BY ErrorRefuses
    <2>3. Willing(s, r) => StateidError(s, r.stateid) = "OK"
      BY <2>2 DEF Willing, Valid
    <2> QED BY <2>1, <2>2, <2>3
  <1>3. u = Released(s, id)
    OBVIOUS
  <1> HIDE DEF u
  <1>4. ASSUME NEW status \in {"OLD_STATEID", "BAD_STATEID"},
               Willing(s, r) => status \notin NotAdvancing, p = Failed(s, status)
        PROVE  Answered(s, r, p)
    BY <1>4, RefusedAnswers
  <1>5. CASE p = Granted(u, id)
    <2>1. /\ Shape(u) /\ StateInv(u) /\ Keeps(s, u)
          /\ u.file.locks = [s.file.locks EXCEPT ![id] = {}]
          /\ u.life = s.life /\ u.up = s.up /\ u.info = s.info /\ u.state = s.state
          /\ u.file.shares = s.file.shares
      BY <1>1, <1>3, UnlockKeeps
    <2>2. /\ Shape(p.s) /\ StateInv(p.s) /\ Keeps(u, p.s)
          /\ p.s.info = u.info /\ p.s.file = u.file /\ p.s.life = u.life
          /\ p.s.up = u.up
          /\ p.s.state[id].owner = u.state[id].owner /\ p.s.state[id] # NoState
          /\ p.s.state[id].seqid = Granted(u, id).stateid.seqid
          /\ \A i \in Id \ {id} : p.s.state[i] = u.state[i]
      BY <1>1, <1>5, <2>1, GrantKeeps
    <2>3. p.status = "OK" /\ p.stateid.id = id /\ p.stateid \in Stateid
      BY <1>1, <1>5, <2>1, OutcomeFields, GrantedStateid DEF Shape
    <2>4. Keeps(s, p.s)
      BY <1>1, <2>1, <2>2, KeepsOn DEF Shape
    <2>5. LockKnown(p.s, id, r.owner)
      <3>1. id < p.s.next_id
        BY <1>1, <2>2, StateIsKnown
      <3>2. p.s.state[id].owner = s.state[id].owner
        BY <2>1, <2>2
      <3>3. p.s.info = s.info /\ p.s.life = s.life
        BY <2>1, <2>2
      <3>4. LockHolder(p.s, id)
        <4>1. LockHolder(s, id)
          BY <1>1
        <4> HIDE DEF id
        <4> QED BY <3>2, <3>3, <4>1 DEF LockHolder, Live
      <3>5. id \in Id /\ p.s.state[id].owner[1] = r.owner
        BY <1>1, <3>2
      <3> QED BY <3>1, <3>4, <3>5 DEF LockKnown, LockHolder
    <2>6. Promised(p.s, r, p) /\ p.status \in Status
      BY <2>3, <2>5 DEF Promised, Status
    <2>7. LocksStep(s, p.s)
      <3>1. \A i \in Id : p.s.file.locks[i] \subseteq s.file.locks[i]
        <4>1. s.file.locks \in [Id -> SUBSET F!LockInfo]
          BY <1>1, ServerFields, FileFields
        <4> QED BY <2>1, <2>2, <4>1
      <3> QED BY <3>1 DEF LocksStep
    <2>8. r.op # "OPEN" /\ p.s.info = s.info
      BY <2>1, <2>2
    <2>9. Effect(s, r, p)
      <3>1. \A k \in Key \ Touched(s, r) : Untouched(s, p.s, k)
        <4>1. ASSUME NEW k \in Key, k # s.state[id].owner, NEW i \in Id, s.state[i].owner = k
              PROVE  p.s.state[i] = s.state[i] /\ p.s.file.shares[i] = s.file.shares[i]
          BY <2>1, <2>2, <4>1
        <4> QED BY <1>0, <2>8, <4>1 DEF Untouched, StatesStay
      <3>2. p.s.state[id].owner = s.state[id].owner
        BY <2>1, <2>2
      <3>3. Truthful(p.s, Sequencer(s, r), r, p)
        <4>1. Valid(p.s, s.state[id].owner, p.stateid)
          BY <1>1, <1>5, <2>2, <2>3, <3>2 DEF Valid
        <4>2. id < p.s.next_id
          BY <1>1, <2>2, StateIsKnown
        <4> QED BY <1>0, <1>1, <2>3, <4>1, <4>2 DEF Truthful
      <3>4. p.s.life = s.life /\ Sequencer(p.s, r) = Sequencer(s, r)
        BY <1>0, <2>1, <2>2, <3>2 DEF Sequencer
      <3>5. p.status \notin NotAdvancing
        BY <2>3 DEF NotAdvancing
      <3> QED BY <2>8, <3>1, <3>3, <3>4, <3>5 DEF Effect
    <2> QED BY <2>2, <2>3, <2>4, <2>6, <2>7, <2>8, <2>9 DEF Answered
  <1> QED BY <1>2, <1>4, <1>5
-----------------------------------------------------------------------------
(* Locks *)

\* op_lock with the lock's stateid: the lock owner it names is confirmed.
LEMMA LockExistingAnswers ==
  ASSUME NEW s, NEW r, Ready(s, r), r.op = "LOCK", NEW p \in lock_existing(s, r)
  PROVE  Answered(s, r, p)
  <1> DEFINE id == r.stateid.id
             key == s.state[id].owner
  <1>1. /\ s \in Server /\ Shape(s) /\ StateInv(s) /\ s.up = "up" /\ id \in Id
        /\ s.state[id] # NoState /\ r.type \in LockType
        /\ key \in LockKey /\ Live(s, key) /\ s.info[key].id = id /\ s.info[key].confirmed
        /\ key[1] = r.owner
    BY DEF Ready, Shape, LockHolder
  <1>2. /\ s.info[key].openid # 0 /\ s.state[s.info[key].openid] # NoState
        /\ s.info[s.state[s.info[key].openid].owner].confirmed
    BY <1>1 DEF StateInv, Openers
  <1>0. key = Sequencer(s, r) /\ Touched(s, r) = {key}
    BY DEF Sequencer, Touched
  <1>3. \/ \E status \in {"OLD_STATEID", "BAD_STATEID"} :
             (Willing(s, r) => status \notin NotAdvancing) /\ p = Failed(s, status)
        \/ r.stateid.seqid = s.state[id].seqid /\ p \in lock(s, id, r.type)
    <2>1. \/ StateidError(s, r.stateid) # "OK" /\ p = Failed(s, StateidError(s, r.stateid))
          \/ StateidError(s, r.stateid) = "OK" /\ p \in lock(s, id, r.type)
      BY DEF lock_existing
    <2>2. /\ StateidError(s, r.stateid) \in {"OK", "OLD_STATEID", "BAD_STATEID"}
          /\ StateidError(s, r.stateid) = "OK" <=> r.stateid.seqid = s.state[id].seqid
      BY ErrorRefuses
    <2>3. Willing(s, r) => StateidError(s, r.stateid) = "OK"
      BY <2>2 DEF Willing, Valid
    <2> QED BY <2>1, <2>2, <2>3
  <1> HIDE DEF key
  <1>4. ASSUME NEW status \in {"OLD_STATEID", "BAD_STATEID"},
               Willing(s, r) => status \notin NotAdvancing, p = Failed(s, status)
        PROVE  Answered(s, r, p)
    BY <1>4, RefusedAnswers
  <1>5. CASE r.stateid.seqid = s.state[id].seqid /\ p \in lock(s, id, r.type)
    <2>1. /\ Shape(p.s) /\ p.stateid \in Stateid /\ p.status \in {"OK", "DENIED"}
          /\ LocksStep(s, p.s)
          /\ p.s.up = "up" =>
               /\ StateInv(p.s) /\ Keeps(s, p.s)
               /\ p.status = "OK" =>
                    /\ p.stateid.id = id /\ LockHolder(p.s, id)
                    /\ p.s.state[id] # NoState /\ p.s.state[id].owner = key
               /\ \A k \in Key : /\ p.s.info[k].lastseqid = s.info[k].lastseqid
                                 /\ p.s.info[k].cached = s.info[k].cached
                                 /\ p.s.info[k].confirmed =>
                                      s.info[k].confirmed \/ (k = key /\ p.status = "OK")
               /\ Locked(s, p, key, id)
      <3>1. r.type \in LockType /\ p \in lock(s, id, r.type)
        BY <1>1, <1>5
      <3> HIDE DEF id
      <3>2. LockDone(s, p, key, id)
        BY <1>1, <1>2, <3>1, LockOutcome
      <3> QED BY <3>2 DEF LockDone
    <2>2. ASSUME p.s.up = "up", p.status = "OK"
          PROVE  LockKnown(p.s, p.stateid.id, r.owner)
      <3>1. id < p.s.next_id
        BY <1>1, <2>1, <2>2, StateIsKnown
      <3> QED BY <1>1, <2>1, <2>2, <3>1 DEF LockKnown, LockHolder
    <2>3. p.s.up = "up" => Promised(p.s, r, p)
      BY <2>2 DEF Promised
    <2>4. p.status \in Status /\ r.op # "OPEN"
      BY <2>1 DEF Status
    <2>5. p.s.up = "up" =>
            \A k \in Key : /\ p.s.info[k].lastseqid = s.info[k].lastseqid
                           /\ p.s.info[k].cached = s.info[k].cached
                           /\ p.s.info[k].confirmed => s.info[k].confirmed
      BY <1>1, <2>1
    <2>6. ASSUME p.s.up = "up"
          PROVE  Effect(s, r, p)
      <3>1. /\ p.status = "OK" => Valid(p.s, key, p.stateid)
            /\ p.status = "DENIED" => p.s = s
            /\ p.s.life[Holder(key)] = s.life[Holder(key)]
            /\ \A k \in Key : s.info[k].confirmed => p.s.info[k].confirmed
            /\ \A k \in Key \ {key} : Untouched(s, p.s, k)
        BY <2>1, <2>6 DEF Locked
      <3>2. Holder(key) = r.client
        BY <1>1, Keys DEF Ready, Owns
      <3>3. p.s.state[id].owner = key /\ p.s.state[id] # NoState
        BY <1>1, <2>1, <2>6, <3>1 DEF key
      <3>4. id < p.s.next_id
        BY <1>1, <2>1, <3>3, StateIsKnown
      <3>5. Sequencer(p.s, r) = Sequencer(s, r)
        BY <1>0, <3>3 DEF Sequencer
      <3>6. Truthful(p.s, Sequencer(s, r), r, p)
        <4>1. p.status = "DENIED" => Valid(p.s, key, r.stateid)
          BY <1>1, <1>5, <3>1, <3>3 DEF Valid
        <4> QED BY <1>0, <1>1, <2>1, <2>6, <3>1, <3>4, <4>1 DEF Truthful
      <3>7. p.status \notin NotAdvancing
        BY <2>1 DEF NotAdvancing
      <3> QED BY <1>0, <3>1, <3>2, <3>5, <3>6, <3>7 DEF Effect
    <2> QED BY <2>1, <2>3, <2>4, <2>5, <2>6 DEF Answered
  <1> QED BY <1>3, <1>4, <1>5

Met(s, key) == [s EXCEPT !.info[key].known = TRUE]

\* Asking for a lock owner's name makes it known, and nothing more.
LEMMA KnownKeeps ==
  ASSUME NEW s, Shape(s), StateInv(s), NEW key \in Key, Live(s, key),
         NEW t, t = Met(s, key)
  PROVE  /\ Shape(t) /\ StateInv(t) /\ Keeps(s, t)
         /\ t.file = s.file /\ t.state = s.state /\ t.life = s.life /\ t.up = s.up
         /\ t.next_id = s.next_id
         /\ \A k \in Key : /\ t.info[k].lastseqid = s.info[k].lastseqid
                           /\ t.info[k].cached = s.info[k].cached
                           /\ t.info[k].confirmed = s.info[k].confirmed
         /\ t.info[key].known
  <1> DEFINE own == [s.info[key] EXCEPT !.known = TRUE]
  <1>1. s \in Server /\ s.info \in [Key -> Info] /\ s.info[key] \in Info
    BY ServerFields DEF Shape
  <1>2. /\ own \in Info /\ own.known /\ own.id = s.info[key].id
        /\ own.confirmed = s.info[key].confirmed
        /\ own.openid = s.info[key].openid
        /\ own.lastseqid = s.info[key].lastseqid /\ own.cached = s.info[key].cached
        /\ own.lockowners = s.info[key].lockowners
    BY <1>1 DEF Info
  <1>3. t = [s EXCEPT !.info = [s.info EXCEPT ![key] = own]]
    BY <1>1 DEF Server, Met
  <1> HIDE DEF own
  <1>4. /\ t \in Server /\ t.file = s.file /\ t.state = s.state /\ t.life = s.life
        /\ t.up = s.up /\ t.lease = s.lease /\ t.next_id = s.next_id
        /\ t.info = [s.info EXCEPT ![key] = own]
    <2>1. [s.info EXCEPT ![key] = own] \in [Key -> Info]
      BY <1>1, <1>2
    <2> QED BY <1>1, <1>3, <2>1 DEF Server
  <1>5. \A k \in Key : /\ t.info[k].known = s.info[k].known \/ (t.info[k].known /\ Live(s, k))
                       /\ s.info[k].known => t.info[k].known
                       /\ t.info[k].confirmed = s.info[k].confirmed
                       /\ t.info[k].id = s.info[k].id
                       /\ t.info[k].openid = s.info[k].openid
                       /\ t.info[k].lastseqid = s.info[k].lastseqid
                       /\ t.info[k].cached = s.info[k].cached
                       /\ t.info[k].lockowners = s.info[k].lockowners
                       /\ ~s.info[k].known /\ ~Live(s, k) => t.info[k] = s.info[k]
    <2>1. t.info[key] = own /\ \A k \in Key : k # key => t.info[k] = s.info[k]
      BY <1>1, <1>2, <1>4
    <2>2. Live(s, key)
      OBVIOUS
    <2> QED BY <1>2, <2>1, <2>2
  <1>6. Shape(t) /\ StateInv(t) /\ Keeps(s, t)
    <2>1. \A k \in Key :
            /\ t.info[k].known = s.info[k].known \/ (t.info[k].known /\ Live(s, k))
            /\ s.info[k].confirmed => t.info[k].confirmed
            /\ k \in LockKey => t.info[k].confirmed = s.info[k].confirmed
            /\ t.info[k].id = s.info[k].id
            /\ t.info[k].openid = s.info[k].openid
            /\ t.info[k].lastseqid = -1 => s.info[k].lastseqid = -1
            /\ t.info[k].lastseqid # -1 => t.info[k].known
            /\ ~s.info[k].known /\ ~Live(s, k) => t.info[k] = s.info[k]
            /\ t.info[k].lockowners = s.info[k].lockowners
      <3>1. \A k \in Key : s.info[k].lastseqid # -1 => s.info[k].known
        BY DEF StateInv, Known
      <3> QED BY <1>5, <3>1
    <2> QED BY <1>4, <2>1, NumbersKeep
  <1>7. t.info[key].known
    BY <1>1, <1>2, <1>4
  <1> QED BY <1>4, <1>5, <1>6, <1>7

\* op_lock with the open's stateid: the lock owner, if it is not confirmed, starts anew
\* under that open and may get the lock.
LEMMA LockNewAnswers ==
  ASSUME NEW s, NEW r, Ready(s, r), r.op = "LOCK_NEW", NEW p \in lock_new(s, r)
  PROVE  Answered(s, r, p)
  <1> DEFINE key == Current(s, r.owner)
             openid == r.stateid.id
             opener == s.state[openid].owner
             before == s.info[key].openid
             known == [s EXCEPT !.info[key].known = TRUE]
             listed == Listed(s, key, openid)
             next == WithId(listed, key)
             id == IdOf(listed, key)
  <1>1. /\ s \in Server /\ Shape(s) /\ StateInv(s) /\ s.up = "up" /\ s.next_id <= MaxId
        /\ openid \in Id /\ s.state[openid] # NoState
        /\ opener \in OpenKey /\ opener[1] = r.client /\ s.info[opener].confirmed
        /\ r.owner \in LockOwner /\ ClientOf[r.owner] = r.client /\ r.type \in LockType
    BY DEF Ready, Shape, Owns
  <1>2. /\ key \in LockKey /\ key \in Key /\ Live(s, key) /\ key[1] = r.owner
        /\ opener # key /\ opener \in Key
    BY <1>1, CurrentKey, Keys
  <1>3. \/ s.info[key].confirmed /\ p = Failed(known, "BAD_STATEID")
        \/ p = Failed(Died(known, "exception"), "OK")
        \/ /\ ~s.info[key].confirmed /\ (before # 0 => s.state[before] # NoState)
           /\ p \in lock(next, id, r.type)
    <2> HIDE DEF key
    <2>1. LET k == Current(s, r.owner)
              b == s.info[k].openid
              kn == [s EXCEPT !.info[k].known = TRUE]
              l == Listed(s, k, r.stateid.id)
          IN p \in IF s.info[k].confirmed THEN {Failed(kn, "BAD_STATEID")}
                   ELSE IF b # 0 /\ s.state[b] = NoState
                     THEN {Failed(Died(kn, "exception"), "OK")}
                   ELSE lock(WithId(l, k), IdOf(l, k), r.type)
      BY DEF lock_new, Listed
    <2> QED BY <2>1 DEF key
  <1>4. known = [s EXCEPT !.info[key].known = TRUE]
    OBVIOUS
  <1>5. listed = Listed(s, key, openid)
    OBVIOUS
  <1>6. before = s.info[key].openid
    OBVIOUS
  <1>7. opener = s.state[openid].owner
    OBVIOUS
  <1>8. key = Current(s, r.owner)
    OBVIOUS
  <1>0. Sequencer(s, r) = opener /\ Touched(s, r) = {key}
    BY DEF Sequencer, Touched
  <1> HIDE DEF key, known, listed, before, opener
  <1>9. /\ Shape(known) /\ StateInv(known) /\ Keeps(s, known)
        /\ known.file = s.file /\ known.state = s.state /\ known.life = s.life
        /\ known.up = s.up /\ known.next_id = s.next_id
        /\ \A k \in Key : /\ known.info[k].lastseqid = s.info[k].lastseqid
                          /\ known.info[k].cached = s.info[k].cached
                          /\ known.info[k].confirmed = s.info[k].confirmed
        /\ known.info[key].known
    <2> DEFINE u == known
    <2>1. u = Met(s, key)
      BY <1>4 DEF Met
    <2> HIDE DEF u
    <2>2. /\ Shape(u) /\ StateInv(u) /\ Keeps(s, u)
          /\ u.file = s.file /\ u.state = s.state /\ u.life = s.life /\ u.up = s.up
          /\ u.next_id = s.next_id
          /\ \A k \in Key : /\ u.info[k].lastseqid = s.info[k].lastseqid
                            /\ u.info[k].cached = s.info[k].cached
                            /\ u.info[k].confirmed = s.info[k].confirmed
          /\ u.info[key].known
      BY <1>1, <1>2, <2>1, KnownKeeps
    <2> QED BY <2>2 DEF u
  <1>10. r.op # "OPEN"
    OBVIOUS
  <1>11. ASSUME s.info[key].confirmed, p = Failed(known, "BAD_STATEID")
         PROVE  Answered(s, r, p)
    <2>1. p.s = known /\ p.status = "BAD_STATEID" /\ p.stateid \in Stateid
      BY <1>11, OutcomeFields
    <2>2. LocksStep(s, p.s)
      BY <1>9, <2>1 DEF LocksStep
    <2>3. Promised(p.s, r, p) /\ p.status \in Status
      BY <2>1 DEF Promised, Status
    <2>4. \A k \in Key : /\ p.s.info[k].lastseqid = s.info[k].lastseqid
                         /\ p.s.info[k].cached = s.info[k].cached
                         /\ p.s.info[k].confirmed = s.info[k].confirmed
      BY <1>9, <2>1
    <2>5. Shape(p.s) /\ StateInv(p.s) /\ Keeps(s, p.s)
      BY <1>9, <2>1
    <2>6. p.status \in NotAdvancing /\ p.status # "OK"
      BY <2>1 DEF NotAdvancing
    <2>7. Effect(s, r, p)
      <3>1. \A k \in Key : Untouched(s, p.s, k)
        BY <1>9, <2>1, SameStates DEF Untouched
      <3>2. p.s.life = s.life /\ Sequencer(p.s, r) = Sequencer(s, r)
        BY <1>9, <2>1 DEF Sequencer
      <3>3. Truthful(p.s, Sequencer(s, r), r, p)
        <4>1. openid < s.next_id /\ known.next_id = s.next_id
          BY <1>1, <1>9, StateIsKnown
        <4> QED BY <1>1, <2>1, <4>1 DEF Truthful
      <3>4. ~Willing(s, r)
        BY DEF Willing
      <3>5. p.s.info[key].known /\ \A k \in Key : s.info[k].confirmed => p.s.info[k].confirmed
        BY <1>9, <2>1
      <3> QED BY <1>8, <1>11, <2>6, <3>1, <3>2, <3>3, <3>4, <3>5 DEF Effect
    <2> QED BY <1>10, <2>1, <2>2, <2>3, <2>4, <2>5, <2>6, <2>7 DEF Answered
  <1>12. ASSUME p = Failed(Died(known, "exception"), "OK")
         PROVE  Answered(s, r, p)
    <2>1. /\ Shape(p.s) /\ p.s.up = "exception" /\ p.s.file = known.file
          /\ p.status = "OK" /\ p.stateid \in Stateid
      BY <1>9, <1>12, DiedShape, OutcomeFields
    <2>2. LocksStep(s, p.s)
      BY <1>9, <2>1 DEF LocksStep
    <2>3. p.status \in Status
      BY <2>1 DEF Status
    <2> QED BY <1>10, <2>1, <2>2, <2>3 DEF Answered
  <1>13. ASSUME ~s.info[key].confirmed, before # 0 => s.state[before] # NoState,
                p \in lock(next, id, r.type)
         PROVE  Answered(s, r, p)
    <2>1. /\ Shape(listed) /\ StateInv(listed) /\ Keeps(s, listed)
          /\ listed.file = s.file /\ listed.life = s.life /\ listed.up = s.up
          /\ listed.next_id = s.next_id /\ listed.state = s.state
          /\ ~listed.info[key].confirmed /\ listed.info[key].openid = openid
          /\ listed.info[key].lastseqid = -1 /\ listed.info[key].cached = <<>>
          /\ \A k \in Key : k # key => /\ listed.info[k].cached = s.info[k].cached
                                       /\ listed.info[k].lastseqid = s.info[k].lastseqid
                                       /\ listed.info[k].confirmed = s.info[k].confirmed
      <3>1. opener[1] = ClientOf[key[1]]
        BY <1>1, <1>2
      <3>2. s.info[key].openid # 0 => s.state[s.info[key].openid] # NoState
        BY <1>6, <1>13
      <3>3. OwnerListed(s, listed, key, openid)
        BY <1>1, <1>2, <1>5, <1>7, <1>13, <3>1, <3>2, ListKeeps
      <3> QED BY <3>3 DEF OwnerListed
    <2>2. Live(listed, key) /\ listed.next_id <= MaxId /\ key \notin OpenKey
      BY <1>1, <1>2, <2>1, Keys DEF Live
    <2>3. next = WithId(listed, key)
      OBVIOUS
    <2> HIDE DEF next
    <2>4. /\ Shape(next) /\ StateInv(next) /\ Keeps(listed, next)
          /\ next.file = listed.file /\ next.life = listed.life /\ next.up = listed.up
          /\ IdOf(listed, key) \in Id /\ next.info[key].id = IdOf(listed, key)
          /\ \A k \in Key : /\ next.info[k].cached = listed.info[k].cached
                            /\ next.info[k].lastseqid = listed.info[k].lastseqid
                            /\ next.info[k].confirmed = listed.info[k].confirmed
                            /\ next.info[k].openid = listed.info[k].openid
          /\ \A i \in Id : listed.state[i] # NoState => next.state[i] = listed.state[i]
          /\ next.info[key].known
      BY <1>2, <2>1, <2>2, <2>3, WithIdKeeps
    <2>5. id \in Id /\ next.info[key].id = id
      BY <2>4
    <2> HIDE DEF id
    <2>6. /\ next.info[key].openid = openid /\ openid # 0 /\ next.state[openid] # NoState
          /\ next.state[openid].owner = opener /\ next.info[opener].confirmed
          /\ Live(next, key) /\ next.up = "up"
      <3>1. next.info[key].openid = openid
        BY <1>2, <2>1, <2>4
      <3>2. openid # 0
        BY <1>1, StateFacts
      <3>3. next.state[openid] = s.state[openid]
        BY <1>1, <2>1, <2>4
      <3>4. next.info[opener].confirmed
        BY <1>1, <1>2, <2>1, <2>4
      <3>5. Live(next, key) /\ next.up = "up"
        BY <1>1, <2>1, <2>2, <2>4 DEF Live
      <3> QED BY <1>1, <1>7, <3>1, <3>2, <3>3, <3>4, <3>5
    <2>7. /\ Shape(p.s) /\ p.stateid \in Stateid /\ p.status \in {"OK", "DENIED"}
          /\ LocksStep(next, p.s)
          /\ p.status = "DENIED" => p.s = next
          /\ p.s.up = "up" =>
               /\ StateInv(p.s) /\ Keeps(next, p.s)
               /\ p.status = "OK" =>
                    /\ p.stateid.id = id /\ LockHolder(p.s, id)
                    /\ p.s.state[id] # NoState /\ p.s.state[id].owner = key
               /\ \A k \in Key : /\ p.s.info[k].lastseqid = next.info[k].lastseqid
                                 /\ p.s.info[k].cached = next.info[k].cached
                                 /\ p.s.info[k].confirmed =>
                                      next.info[k].confirmed \/ (k = key /\ p.status = "OK")
               /\ Locked(next, p, key, id)
      <3>1. /\ next.info[key].openid # 0 /\ next.state[next.info[key].openid] # NoState
            /\ next.info[next.state[next.info[key].openid].owner].confirmed
        BY <2>6
      <3>2. key \in LockKey /\ r.type \in LockType /\ p \in lock(next, id, r.type)
        BY <1>1, <1>2, <1>13
      <3> HIDE DEF key
      <3>3. LockDone(next, p, key, id)
        BY <2>4, <2>5, <2>6, <3>1, <3>2, LockOutcome
      <3> QED BY <3>3 DEF LockDone
    <2>8. LocksStep(s, p.s)
      <3>1. next.file = s.file /\ next.life = s.life
        BY <2>1, <2>4
      <3>2. LocksStep(next, p.s)
        BY <2>7
      <3> QED BY <3>1, <3>2, SameLocksStep
    <2>9. ASSUME p.s.up = "up"
          PROVE  Keeps(s, p.s)
      <3>1. listed \in Server /\ next \in Server /\ p.s \in Server
        BY <2>1, <2>4, <2>7 DEF Shape
      <3>2. Keeps(s, next)
        BY <1>1, <2>1, <2>4, <3>1, KeepsOn
      <3> QED BY <1>1, <2>7, <2>9, <3>1, <3>2, KeepsOn
    <2>10. ASSUME p.s.up = "up", p.status = "OK"
           PROVE  /\ LockKnown(p.s, p.stateid.id, r.owner) /\ key = Current(p.s, r.owner)
                  /\ p.s.info[key].known
      <3>1. id < p.s.next_id
        BY <2>5, <2>7, <2>10, StateIsKnown
      <3>2. LockKnown(p.s, p.stateid.id, r.owner)
        BY <1>2, <2>5, <2>7, <2>10, <3>1 DEF LockKnown, LockHolder
      <3>3. Live(p.s, key)
        BY <2>7, <2>10 DEF LockHolder
      <3>4. p.s.info[key].known
        <4>1. p.s.info[key].id = id /\ id # 0
          BY <2>5, <2>7, <2>10, StateFacts DEF LockHolder
        <4> QED BY <1>2, <2>7, <2>10, <4>1 DEF StateInv, OwnIds
      <3> QED BY <1>2, <2>7, <3>2, <3>3, <3>4, CurrentKey DEF Shape
    <2>11. p.s.up = "up" => Promised(p.s, r, p)
      BY <2>10 DEF Promised
    <2>12. ASSUME p.s.up = "up", NEW k \in Key
           PROVE  /\ \/ /\ p.s.info[k].lastseqid = s.info[k].lastseqid
                        /\ p.s.info[k].cached = s.info[k].cached
                     \/ /\ k = key /\ ~s.info[k].confirmed
                        /\ p.s.info[k].lastseqid = -1 /\ p.s.info[k].cached = <<>>
                  /\ p.s.info[k].confirmed =>
                       s.info[k].confirmed \/ (p.status = "OK" /\ k = Current(p.s, r.owner))
      <3>1. /\ p.s.info[k].lastseqid = listed.info[k].lastseqid
            /\ p.s.info[k].cached = listed.info[k].cached
            /\ p.s.info[k].confirmed =>
                 listed.info[k].confirmed \/ (k = key /\ p.status = "OK")
        BY <2>4, <2>7, <2>12
      <3>2. CASE k = key
        BY <1>13, <2>1, <2>10, <2>12, <3>1, <3>2
      <3>3. CASE k # key
        BY <2>1, <3>1, <3>3
      <3> QED BY <3>2, <3>3
    <2>13. p.status \in Status
      BY <2>7 DEF Status
    <2>14. ASSUME p.s.up = "up"
           PROVE  key = Current(p.s, r.owner)
      <3>1. CASE p.status = "OK"
        BY <2>10, <2>14, <3>1
      <3>2. CASE p.status = "DENIED"
        <4>1. p.s.life = s.life
          BY <2>1, <2>4, <2>7, <3>2
        <4> QED BY <1>8, <4>1 DEF Current
      <3> QED BY <2>7, <3>1, <3>2
    <2>15. p.s.up = "up" => p.s.info[key].lastseqid = -1
      BY <1>2, <2>1, <2>4, <2>7
    <2>16. ASSUME p.s.up = "up"
           PROVE  Effect(s, r, p)
      <3>1. /\ p.status = "OK" => Valid(p.s, key, p.stateid)
            /\ p.status = "DENIED" => p.s = next
            /\ p.s.life[Holder(key)] = next.life[Holder(key)]
            /\ \A k \in Key : next.info[k].confirmed => p.s.info[k].confirmed
            /\ \A k \in Key \ {key} : Untouched(next, p.s, k)
        BY <2>7, <2>16 DEF Locked
      <3>2. listed \in Server /\ next \in Server /\ p.s \in Server
        BY <2>1, <2>4, <2>7 DEF Shape
      <3>3. Keeps(s, next) /\ Keeps(next, p.s)
        BY <1>1, <2>1, <2>4, <2>7, <2>16, <3>2, KeepsOn
      <3>4. ASSUME NEW k \in Key, k # key
            PROVE  Untouched(s, p.s, k)
        <4>1. Untouched(s, listed, k)
          BY <2>1, <3>4, SameStates DEF Untouched
        <4>2. Untouched(listed, next, k)
          <5>1. k # <<>>
            BY Keys
          <5>2. ASSUME NEW i \in Id, listed.state[i].owner = k
                PROVE  next.state[i] = listed.state[i]
            <6>1. listed.state[i] # NoState
              BY <5>1, <5>2 DEF NoState
            <6> QED BY <2>4, <6>1
          <5>3. next.info[k].confirmed = listed.info[k].confirmed
            BY <2>4
          <5> QED BY <2>4, <5>2, <5>3 DEF Untouched, StatesStay
        <4>3. Untouched(s, next, k)
          BY <1>1, <2>1, <2>4, <3>2, <3>4, <4>1, <4>2, UntouchedOn
        <4> QED BY <1>1, <3>1, <3>2, <3>3, <3>4, <4>3, UntouchedOn
      <3>5. p.s.life[r.client] = s.life[r.client]
        <4>1. Holder(key) = r.client
          BY <1>1, <1>2, Keys
        <4> QED BY <2>1, <2>4, <3>1, <4>1
      <3>6. Sequencer(p.s, r) = Sequencer(s, r)
        <4>1. StatesStay(s, p.s, opener) /\ Holder(opener) = r.client
          BY <1>1, <1>2, <3>4, Keys DEF Untouched
        <4>2. p.s.state[openid] = s.state[openid]
          BY <1>1, <1>7, <3>5, <4>1 DEF StatesStay
        <4> QED BY <4>2 DEF Sequencer
      <3>7. Truthful(p.s, Sequencer(s, r), r, p)
        <4>1. p.s.state[openid] # NoState
          <5>1. StatesStay(s, p.s, opener) /\ Holder(opener) = r.client
            BY <1>1, <1>2, <3>4, Keys DEF Untouched
          <5> QED BY <1>1, <1>7, <3>5, <5>1 DEF StatesStay
        <4>2. openid < p.s.next_id
          BY <1>1, <2>7, <4>1, StateIsKnown
        <4> QED BY <1>1, <2>7, <4>2 DEF Truthful
      <3>8. ~Willing(s, r) /\ p.status \notin NotAdvancing
        BY <2>7 DEF Willing, NotAdvancing
      <3>9. p.s.info[key].known
        BY <2>4, <2>7, <2>10, <2>16, <3>1
      <3>10. \A k \in Key : s.info[k].confirmed => p.s.info[k].confirmed
        BY <1>13, <3>4 DEF Untouched
      <3> QED BY <1>0, <1>8, <3>1, <3>4, <3>5, <3>6, <3>7, <3>8, <3>9, <3>10 DEF Effect
    <2> QED BY <1>8, <1>10, <1>13, <2>7, <2>8, <2>9, <2>10, <2>11, <2>12, <2>13, <2>14,
               <2>15, <2>16 DEF Answered
  <1> QED BY <1>3, <1>11, <1>12, <1>13
-----------------------------------------------------------------------------
(* The operation of a request *)

\* Each operation that NFS4Server calls on its NFSServerState answers as Answered says.
LEMMA PerformAnswers ==
  ASSUME NEW s, NEW r, Ready(s, r), NEW p \in Perform(s, r)
  PROVE  Answered(s, r, p)
  <1>1. r.op \in {"OPEN", "OPEN_CONFIRM", "CLOSE", "LOCK_NEW", "LOCK", "LOCKU"}
    BY DEF Ready, Request, OpenRequest, StateRequest
  <1>2. CASE r.op = "OPEN"
    <2>1. Perform(s, r) = open(s, r)
      BY <1>2 DEF Perform
    <2> QED BY <1>2, <2>1, OpenAnswers
  <1>3. CASE r.op = "OPEN_CONFIRM"
    <2>1. Perform(s, r) = confirm(s, r)
      BY <1>3 DEF Perform
    <2> QED BY <1>3, <2>1, ConfirmAnswers
  <1>4. CASE r.op = "CLOSE"
    <2>1. Perform(s, r) = close(s, r)
      BY <1>4 DEF Perform
    <2> QED BY <1>4, <2>1, CloseAnswers
  <1>5. CASE r.op = "LOCK_NEW"
    <2>1. Perform(s, r) = lock_new(s, r)
      BY <1>5 DEF Perform
    <2> QED BY <1>5, <2>1, LockNewAnswers
  <1>6. CASE r.op = "LOCK"
    <2>1. Perform(s, r) = lock_existing(s, r)
      BY <1>6 DEF Perform
    <2> QED BY <1>6, <2>1, LockExistingAnswers
  <1>7. CASE r.op = "LOCKU"
    <2>1. Perform(s, r) = unlock(s, r)
      BY <1>7 DEF Perform
    <2> QED BY <1>7, <2>1, UnlockAnswers
  <1> QED BY <1>1, <1>2, <1>3, <1>4, <1>5, <1>6, <1>7

\* Whose numbers a request goes by, given what the server told its client.
LEMMA SequencerKind ==
  ASSUME NEW s, Shape(s), NEW r \in Request, Asked(s, r), Sequencer(s, r) # <<>>
  PROVE  /\ Sequencer(s, r) \in Key
         /\ r.op = "OPEN" => /\ Sequencer(s, r) = Current(s, r.client)
                             /\ Sequencer(s, r) \in OpenKey /\ Live(s, Sequencer(s, r))
         /\ r.op # "OPEN" => /\ r.stateid.id \in Id /\ s.state[r.stateid.id] # NoState
                             /\ Sequencer(s, r) = s.state[r.stateid.id].owner
         /\ r.op \in {"OPEN_CONFIRM", "CLOSE", "LOCK_NEW"} =>
              Sequencer(s, r) \in OpenKey /\ Sequencer(s, r)[1] = r.client
         /\ r.op \in {"LOCK", "LOCKU"} =>
              LockHolder(s, r.stateid.id) /\ Sequencer(s, r)[1] = r.owner
         /\ r.op \in {"OPEN", "OPEN_CONFIRM", "CLOSE", "LOCK_NEW", "LOCK", "LOCKU"}
  <1>1. /\ r.op \in {"OPEN", "OPEN_CONFIRM", "CLOSE", "LOCK_NEW", "LOCK", "LOCKU"}
        /\ r.client \in Client
    BY DEF Request, OpenRequest, StateRequest
  <1>2. CASE r.op = "OPEN"
    <2>1. Sequencer(s, r) = Current(s, r.client)
      BY <1>2 DEF Sequencer
    <2> QED BY <1>1, <1>2, <2>1, CurrentKey, Keys DEF Shape
  <1>3. CASE r.op # "OPEN"
    <2>1. Sequencer(s, r) = s.state[r.stateid.id].owner
      BY <1>3 DEF Sequencer
    <2>2. r.stateid.id \in Id
      BY <1>1, <1>3 DEF Asked, OpenKnown, LockKnown
    <2>3. s.state[r.stateid.id] # NoState
      BY <2>1, StateFacts
    <2>4. Sequencer(s, r) \in Key
      BY <2>1, <2>2, <2>3, StateIsKnown
    <2>5. r.op \in {"OPEN_CONFIRM", "CLOSE", "LOCK_NEW"} =>
              Sequencer(s, r) \in OpenKey /\ Sequencer(s, r)[1] = r.client
      BY <2>1, <2>3 DEF Asked, OpenKnown
    <2>6. r.op \in {"LOCK", "LOCKU"} =>
              LockHolder(s, r.stateid.id) /\ Sequencer(s, r)[1] = r.owner
      BY <2>1, <2>3 DEF Asked, LockKnown, LockHolder
    <2> QED BY <1>1, <1>3, <2>1, <2>2, <2>3, <2>4, <2>5, <2>6
  <1> QED BY <1>2, <1>3

\* check_seqid lets a request go on: its owner's numbers have begun and the request bears
\* the next one, or it is the first OPEN of an owner, whose number it sets.
LEMMA CheckedReady ==
  ASSUME NEW s, Shape(s), StateInv(s), Started(s), s.up = "up", s.next_id <= MaxId,
         NEW r \in Request, Asked(s, r), NEW key, key = Sequencer(s, r), key # <<>>,
         check_seqid(s, key, r) = "go", NEW t, t = Checked(s, key, r)
  PROVE  /\ Ready(t, r) /\ Keeps(s, t)
         /\ t.file = s.file /\ t.state = s.state /\ t.life = s.life /\ t.up = s.up
         /\ t.next_id = s.next_id
         /\ \A k \in Key : /\ t.info[k].cached = s.info[k].cached
                           /\ t.info[k].confirmed = s.info[k].confirmed
                           /\ k # key => t.info[k].lastseqid = s.info[k].lastseqid
         /\ IF s.info[key].lastseqid = -1
            THEN r.op = "OPEN" /\ t.info[key].lastseqid = mod32(r.seqid - 1)
            ELSE t = s /\ mod32(s.info[key].lastseqid + 1) = r.seqid
  <1>1. /\ s \in Server /\ s.info \in [Key -> Info]
        /\ r.op \in {"OPEN", "OPEN_CONFIRM", "CLOSE", "LOCK_NEW", "LOCK", "LOCKU"}
        /\ r.seqid \in Seqid /\ r.seqid \in Int
    <2>1. r.seqid \in Seqid /\ r.op \in {"OPEN", "OPEN_CONFIRM", "CLOSE", "LOCK_NEW", "LOCK", "LOCKU"}
      BY DEF Request, OpenRequest, StateRequest
    <2>2. Seqid \subseteq Int
      BY DEF Seqid
    <2> QED BY <2>1, <2>2, ServerFields DEF Shape
  <1>2. /\ key \in Key
        /\ r.op = "OPEN" => /\ key = Current(s, r.client) /\ key \in OpenKey /\ Live(s, key)
        /\ r.op # "OPEN" => /\ r.stateid.id \in Id /\ s.state[r.stateid.id] # NoState
                            /\ key = s.state[r.stateid.id].owner
        /\ r.op \in {"OPEN_CONFIRM", "CLOSE", "LOCK_NEW"} => key \in OpenKey /\ key[1] = r.client
        /\ r.op \in {"LOCK", "LOCKU"} => LockHolder(s, r.stateid.id) /\ key[1] = r.owner
    BY SequencerKind
  <1>3. key \in OpenKey => key[1] \notin LockOwner /\ key[1] \in Client
    BY ServerAssumption DEF OpenKey
  <1>4. key \notin OpenKey => key \in LockKey /\ s.info[key].confirmed
    BY <1>1, <1>2 DEF LockHolder
  <1>5. r.op # "OPEN" => s.info[key].lastseqid # -1
    <2>1. CASE r.op \in {"OPEN_CONFIRM", "CLOSE", "LOCK_NEW"}
      BY <1>2, <2>1 DEF StateInv, OpenStates
    <2>2. CASE r.op \in {"LOCK", "LOCKU"}
      BY <1>2, <2>2 DEF LockHolder, Started
    <2> QED BY <1>1, <2>1, <2>2
  <1>6. CASE s.info[key].lastseqid # -1
    <2>1. t = s
      BY <1>3, <1>4, <1>6 DEF Checked
    <2>2. s.info[key].cached # <<>>
      BY <1>2, <1>6 DEF Started
    <2>3. /\ mod32(s.info[key].lastseqid + 1) = r.seqid
          /\ s.info[key].confirmed \/ r.op = "OPEN_CONFIRM"
      BY <1>3, <1>4, <1>6, <2>2 DEF check_seqid
    <2>4. Ready(s, r)
      BY <1>1, <1>2, <1>6, <2>3 DEF Ready, Asked
    <2> QED BY <1>1, <1>6, <2>1, <2>3, <2>4, KeepsItself
  <1>7. CASE s.info[key].lastseqid = -1
    <2> DEFINE n == mod32(r.seqid - 1)
               own == [s.info[key] EXCEPT !.known = TRUE, !.lastseqid = n]
    <2>1. r.op = "OPEN" /\ key \in OpenKey /\ Live(s, key) /\ key = Current(s, r.client)
      BY <1>2, <1>5, <1>7
    <2>2. n \in 0..SeqMod - 1 /\ SeqMod \in Nat
      BY <1>1, Modulus, ServerAssumption
    <2>3. t = [s EXCEPT !.info = [s.info EXCEPT ![key] = own]]
      <3>1. t = [s EXCEPT !.info[key].known = TRUE, !.info[key].lastseqid = n]
        BY <1>3, <1>7, <2>1 DEF Checked
      <3> HIDE DEF n
      <3> QED BY <1>1, <1>2, <3>1, ZenonT(40) DEF Server, Info
    <2> HIDE DEF n
    <2>4. /\ own \in Info /\ own.known /\ own.id = s.info[key].id
          /\ own.confirmed = s.info[key].confirmed /\ own.openid = s.info[key].openid
          /\ own.lastseqid = n /\ own.cached = s.info[key].cached
          /\ own.lockowners = s.info[key].lockowners
      <3>1. s.info[key] \in Info /\ n \in -1..SeqMod - 1
        BY <1>1, <1>2, <2>2
      <3> QED BY <3>1 DEF Info
    <2> HIDE DEF own
    <2>5. /\ t \in Server /\ t.file = s.file /\ t.state = s.state /\ t.life = s.life
          /\ t.up = s.up /\ t.lease = s.lease /\ t.next_id = s.next_id
          /\ t.info = [s.info EXCEPT ![key] = own]
      <3>1. [s.info EXCEPT ![key] = own] \in [Key -> Info]
        BY <1>1, <2>4
      <3> QED BY <1>1, <2>3, <3>1 DEF Server
    <2>6. t.info[key] = own /\ \A k \in Key : k # key => t.info[k] = s.info[k]
      BY <1>1, <1>2, <2>5
    <2>7. Shape(t) /\ StateInv(t) /\ Keeps(s, t)
      <3>1. \A k \in Key :
              /\ t.info[k].known = s.info[k].known \/ (t.info[k].known /\ Live(s, k))
              /\ s.info[k].confirmed => t.info[k].confirmed
              /\ k \in LockKey => t.info[k].confirmed = s.info[k].confirmed
              /\ t.info[k].id = s.info[k].id
              /\ t.info[k].openid = s.info[k].openid
              /\ t.info[k].lastseqid = -1 => s.info[k].lastseqid = -1
              /\ t.info[k].lastseqid # -1 => t.info[k].known
              /\ ~s.info[k].known /\ ~Live(s, k) => t.info[k] = s.info[k]
              /\ t.info[k].lockowners = s.info[k].lockowners
        <4>1. \A k \in Key : s.info[k].lastseqid # -1 => s.info[k].known
          BY DEF StateInv, Known
        <4>2. n # -1
          BY <2>2
        <4> QED BY <1>7, <2>1, <2>4, <2>6, <4>1, <4>2
      <3> QED BY <2>5, <3>1, NumbersKeep
    <2>8. Current(t, r.client) = key /\ t.info[key].lastseqid # -1
      <3>1. Current(t, r.client) = Current(s, r.client)
        BY <2>5 DEF Current
      <3> QED BY <2>1, <2>2, <2>4, <2>6, <3>1
    <2>9. Ready(t, r)
      BY <2>1, <2>5, <2>7, <2>8 DEF Ready
    <2>10. \A k \in Key : /\ t.info[k].cached = s.info[k].cached
                          /\ t.info[k].confirmed = s.info[k].confirmed
                          /\ k # key => t.info[k].lastseqid = s.info[k].lastseqid
      BY <2>4, <2>6
    <2>11. t.info[key].lastseqid = mod32(r.seqid - 1)
      BY <2>4, <2>6 DEF n
    <2> QED BY <1>7, <2>1, <2>5, <2>7, <2>9, <2>10, <2>11
  <1> QED BY <1>6, <1>7
-----------------------------------------------------------------------------
(* Requests that are handled *)

\* The request bears the number that its owner waits for, or is its first OPEN.
InTurn(s, key, r) == IF s.info[key].lastseqid = -1 THEN r.op = "OPEN"
                     ELSE mod32(s.info[key].lastseqid + 1) = r.seqid

\* What comes of a request that is handled.
Handled(s, r, o) ==
  /\ Shape(o.s) /\ o.stateid \in Stateid /\ o.status \in Status /\ LocksStep(s, o.s)
  /\ o.done \in BOOLEAN
  /\ o.done => Sequencer(s, r) # <<>> /\ InTurn(s, Sequencer(s, r), r)
  /\ o.s.up = "up" =>
       /\ StateInv(o.s) /\ Started(o.s) /\ Repeatable(o.s)
       /\ Keeps(s, o.s) /\ Promised(o.s, r, o)
       /\ \A k \in Key :
            \/ k = Sequencer(s, r) /\ InTurn(s, k, r) /\ o.s.info[k].lastseqid = mod32(r.seqid)
            \/ o.s.info[k].lastseqid = s.info[k].lastseqid
            \/ /\ r.op = "LOCK_NEW" /\ k \in LockKey /\ ~s.info[k].confirmed
               /\ o.s.info[k].lastseqid \in {-1, 0}
       /\ o.done /\ Sequencer(o.s, r) # <<>> =>
            o.s.info[Sequencer(o.s, r)].lastseqid = mod32(r.seqid)

\* An answer keeps what it promised from one state of the memory to the next.
LEMMA PromiseKept ==
  ASSUME NEW s \in Server, NEW t \in Server, Keeps(s, t), NEW r, NEW a, Promised(s, r, a)
  PROVE  Promised(t, r, a)
  <1>1. /\ \A id, c : OpenKnown(s, id, c) => OpenKnown(t, id, c)
        /\ \A id, l : LockKnown(s, id, l) => LockKnown(t, id, l)
    BY ToldStays
  <1> QED BY <1>1 DEF Promised

\* An answer that does not advance an owner's number only replaces what it has to repeat.
LEMMA AdvanceRefused ==
  ASSUME NEW s \in Server, NEW r \in Request, NEW answer \in Answer,
         answer.status \in NotAdvancing, NEW t, t = advance_seqid(s, r, answer)
  PROVE  \A k \in Key : /\ t.info[k].lastseqid = s.info[k].lastseqid
                        /\ t.info[k].confirmed = s.info[k].confirmed
                        /\ t.info[k].cached \in {<<r, answer>>, s.info[k].cached}
                        /\ t.info[k].cached = <<>> => s.info[k].cached = <<>>
  <1>1. s.info \in [Key -> Info]
    BY ServerFields
  <1>2. \A k \in Key : t.info[k] = IF k \in Named(s, r) /\ s.info[k].known
                                   THEN Advanced(s.info[k], r, answer) ELSE s.info[k]
    BY AdvanceFields
  <1> SUFFICES ASSUME NEW k \in Key
               PROVE  /\ t.info[k].lastseqid = s.info[k].lastseqid
                      /\ t.info[k].confirmed = s.info[k].confirmed
                      /\ t.info[k].cached \in {<<r, answer>>, s.info[k].cached}
                      /\ t.info[k].cached = <<>> => s.info[k].cached = <<>>
    OBVIOUS
  <1>3. CASE k \in Named(s, r) /\ s.info[k].known
    <2> DEFINE m == t.info[k]
               n == s.info[k]
    <2>1. m = Advanced(n, r, answer) /\ n \in Info
      BY <1>1, <1>2, <1>3
    <2> HIDE DEF m, n
    <2>2. /\ m.confirmed = n.confirmed /\ m.cached = <<r, answer>> /\ m.cached # <<>>
          /\ m.lastseqid = IF answer.status \in NotAdvancing THEN n.lastseqid
                           ELSE IF n.lastseqid = -1 THEN 0 ELSE mod32(n.lastseqid + 1)
      BY <2>1, AdvancedFields
    <2> QED BY <2>2 DEF m, n
  <1>4. CASE ~(k \in Named(s, r) /\ s.info[k].known)
    BY <1>2, <1>4
  <1> QED BY <1>3, <1>4

\* A request that check_seqid refuses, or whose stateid is unknown, only leaves its answer
\* with the owners it names.
LEMMA RefusedHandled ==
  ASSUME NEW s, Shape(s), StateInv(s), Started(s), Repeatable(s), NEW r \in Request,
         NEW status \in NotAdvancing, NEW o, ~o.done, o.done \in BOOLEAN,
         o.s = advance_seqid(s, r, [status |-> status, stateid |-> NoStateid]),
         o.status = status, o.stateid = NoStateid
  PROVE  Handled(s, r, o)
  <1> DEFINE answer == [status |-> status, stateid |-> NoStateid]
             t == o.s
  <1>1. s \in Server /\ s.info \in [Key -> Info]
    BY ServerFields DEF Shape
  <1>2. status \in Status /\ status # "OK"
    BY DEF NotAdvancing, Status
  <1>3. answer \in Answer /\ answer.status = status
    BY <1>2, OutcomeFields DEF Answer
  <1>4. t = advance_seqid(s, r, answer)
    OBVIOUS
  <1> HIDE DEF answer
  <1>5. /\ t \in Server /\ t.file = s.file /\ t.state = s.state /\ t.life = s.life
        /\ t.up = s.up /\ t.lease = s.lease /\ t.next_id = s.next_id
        /\ \A k \in Key : t.info[k] = IF k \in Named(s, r) /\ s.info[k].known
                                      THEN Advanced(s.info[k], r, answer) ELSE s.info[k]
    BY <1>1, <1>3, <1>4, AdvanceFields
  <1>6. Shape(t) /\ StateInv(t) /\ Keeps(s, t)
    BY <1>3, <1>4, AdvanceKeeps
  <1>7. \A k \in Key : /\ t.info[k].lastseqid = s.info[k].lastseqid
                       /\ t.info[k].confirmed = s.info[k].confirmed
                       /\ t.info[k].cached \in {<<r, answer>>, s.info[k].cached}
                       /\ t.info[k].cached = <<>> => s.info[k].cached = <<>>
    BY <1>1, <1>3, <1>4, AdvanceRefused
  <1>8. Started(t)
    BY <1>7 DEF Started
  <1>9. Repeatable(t)
    <2>1. ASSUME NEW k \in Key, t.info[k].cached # <<>>
          PROVE  Promised(t, t.info[k].cached[1], t.info[k].cached[2])
      <3>1. CASE t.info[k].cached = <<r, answer>>
        BY <1>2, <1>3, <3>1 DEF Promised
      <3>2. CASE t.info[k].cached = s.info[k].cached
        <4>1. Promised(s, t.info[k].cached[1], t.info[k].cached[2])
          BY <2>1, <3>2 DEF Repeatable
        <4> QED BY <1>1, <1>5, <1>6, <4>1, PromiseKept
      <3> QED BY <1>7, <3>1, <3>2
    <2> QED BY <2>1 DEF Repeatable
  <1>10. Promised(t, r, o)
    BY <1>2 DEF Promised
  <1>11. LocksStep(s, t)
    BY <1>5 DEF LocksStep
  <1>12. \A k \in Key : t.info[k].lastseqid = s.info[k].lastseqid
    BY <1>7
  <1>13. o.s = t /\ o.stateid \in Stateid /\ o.status \in Status
    BY <1>2, OutcomeFields
  <1> HIDE DEF t
  <1> QED BY <1>6, <1>8, <1>9, <1>10, <1>11, <1>12, <1>13 DEF Handled

\* A copy of the last request is answered as the request was, or ends the serving thread.
LEMMA ReplayHandled ==
  ASSUME NEW s, Shape(s), StateInv(s), Started(s), Repeatable(s), s.up = "up",
         NEW r \in Request, NEW key \in Key, s.info[key].cached # <<>>,
         NEW p, p = Replay(s, key, r), NEW o, o.done = FALSE, o.s = p.s,
         o.status = p.status, o.stateid = p.stateid
  PROVE  Handled(s, r, o)
  <1> DEFINE answer == s.info[key].cached[2]
  <1>1. s \in Server /\ s.info \in [Key -> Info]
    BY ServerFields DEF Shape
  <1>2. answer.status \in Status /\ answer.stateid \in Stateid
    <2>1. s.info[key].cached \in Request \X Answer
      BY <1>1 DEF Info
    <2> QED BY <2>1 DEF Answer
  <1>3. Promised(s, s.info[key].cached[1], answer)
    BY DEF Repeatable
  <1>4. \/ p = Failed(s, "BAD_SEQID")
        \/ p = Failed(Died(s, "replay"), "OK")
        \/ /\ s.info[key].cached[1] = r
           /\ p = [s |-> s, status |-> answer.status, stateid |-> answer.stateid]
    BY DEF Replay
  <1>5. LocksStep(s, s)
    BY DEF LocksStep
  <1>6. CASE p = Failed(Died(s, "replay"), "OK")
    <2>1. /\ Shape(p.s) /\ p.s.up = "replay" /\ p.s.file = s.file /\ p.s.life = s.life
          /\ p.status = "OK" /\ p.stateid \in Stateid
      BY <1>6, DiedShape, OutcomeFields
    <2>2. LocksStep(s, p.s)
      BY <2>1 DEF LocksStep
    <2> QED BY <2>1, <2>2 DEF Handled, Status
  <1>7. CASE p.s = s /\ Promised(s, r, p) /\ p.status \in Status /\ p.stateid \in Stateid
    <2>1. o.s = s /\ Promised(s, r, o)
      BY <1>7 DEF Promised
    <2> QED BY <1>1, <1>5, <1>7, <2>1, KeepsItself DEF Handled
  <1>8. CASE p = Failed(s, "BAD_SEQID")
    <2>1. p.s = s /\ p.status = "BAD_SEQID" /\ p.stateid \in Stateid
      BY <1>8, OutcomeFields
    <2>2. Promised(s, r, p) /\ p.status \in Status
      BY <2>1 DEF Promised, Status
    <2> QED BY <1>7, <2>1, <2>2
  <1>9. CASE /\ s.info[key].cached[1] = r
             /\ p = [s |-> s, status |-> answer.status, stateid |-> answer.stateid]
    <2>1. p.s = s /\ p.status = answer.status /\ p.stateid = answer.stateid
      BY <1>9
    <2> HIDE DEF answer
    <2>2. Promised(s, r, p)
      BY <1>3, <1>9, <2>1 DEF Promised
    <2> QED BY <1>2, <1>7, <2>1, <2>2
  <1> QED BY <1>4, <1>6, <1>8, <1>9

\* A request keeps going by the numbers of the owner it went by, or by nobody's.
LEMMA SequencerKept ==
  ASSUME NEW s, Shape(s), NEW t \in Server, Keeps(s, t), NEW r \in Request, Asked(s, r),
         r.op = "OPEN" => t.life[r.client] = s.life[r.client]
  PROVE  /\ Sequencer(t, r) \in {<<>>, Sequencer(s, r)}
         /\ r.op = "OPEN" => Sequencer(t, r) = Sequencer(s, r)
  <1>1. /\ r.op \in {"OPEN", "OPEN_CONFIRM", "CLOSE", "LOCK_NEW", "LOCK", "LOCKU"}
        /\ r.client \in Client
    BY DEF Request, OpenRequest, StateRequest
  <1>2. CASE r.op = "OPEN"
    <2>1. Holder(<<r.client>>) = r.client
      BY <1>1 DEF Holder
    <2> QED BY <1>2, <2>1 DEF Sequencer, Current
  <1>3. CASE r.op # "OPEN"
    <2> DEFINE id == r.stateid.id
    <2>1. id \in Id /\ id < s.next_id
      BY <1>1, <1>3 DEF Asked, OpenKnown, LockKnown
    <2>2. Sequencer(t, r) = t.state[id].owner /\ Sequencer(s, r) = s.state[id].owner
      BY <1>3 DEF Sequencer
    <2>3. t.state[id] # NoState => t.state[id].owner = s.state[id].owner
      BY <2>1 DEF Keeps
    <2> QED BY <1>3, <2>2, <2>3, StateFacts
  <1> QED BY <1>2, <1>3

\* The number of an owner that check_seqid lets go on: the request's is the next one.
LEMMA CheckedNumber ==
  ASSUME NEW s \in Server, NEW t \in Server, NEW key \in Key, NEW r \in Request,
         IF s.info[key].lastseqid = -1
         THEN r.op = "OPEN" /\ t.info[key].lastseqid = mod32(r.seqid - 1)
         ELSE t = s /\ mod32(s.info[key].lastseqid + 1) = r.seqid
  PROVE  /\ t.info[key].lastseqid \in 0..SeqMod - 1 /\ mod32(r.seqid) = r.seqid
         /\ mod32(t.info[key].lastseqid + 1) = r.seqid
  <1>1. r.seqid \in 0..SeqMod - 1 /\ SeqMod \in Nat
    BY ServerAssumption DEF Request, OpenRequest, StateRequest, Seqid
  <1>2. mod32(r.seqid) = r.seqid
    BY <1>1, Modulus
  <1>3. CASE s.info[key].lastseqid = -1
    <2>1. t.info[key].lastseqid = mod32(r.seqid - 1)
      BY <1>3
    <2>2. mod32(r.seqid - 1) \in 0..SeqMod - 1
      BY <1>1, Modulus
    <2>3. mod32(mod32(r.seqid - 1) + 1) = r.seqid
      <3>1. CASE r.seqid = 0
        BY <3>1, Modulus, ServerAssumption
      <3>2. CASE r.seqid # 0
        <4>1. r.seqid - 1 \in 0..SeqMod - 1
          BY <1>1, <3>2
        <4>2. mod32(r.seqid - 1) = r.seqid - 1
          BY <4>1, Modulus
        <4> QED BY <1>1, <1>2, <4>2
      <3> QED BY <3>1, <3>2
    <2> QED BY <1>2, <2>1, <2>2, <2>3
  <1>4. CASE s.info[key].lastseqid # -1
    <2>1. t = s /\ mod32(s.info[key].lastseqid + 1) = r.seqid
      BY <1>4
    <2>2. s.info[key].lastseqid \in -1..SeqMod - 1
      BY ServerFields DEF Info
    <2> QED BY <1>1, <1>2, <1>4, <2>1, <2>2
  <1> QED BY <1>3, <1>4

\* A request that check_seqid lets go on is carried out, and its answer is kept for a copy.
LEMMA PerformedHandled ==
  ASSUME NEW s, Shape(s), StateInv(s), Started(s), Repeatable(s), s.up = "up",
         s.next_id <= MaxId, NEW r \in Request, Asked(s, r),
         NEW key, key = Sequencer(s, r), key # <<>>, check_seqid(s, key, r) = "go",
         NEW p \in Perform(Checked(s, key, r), r),
         NEW o, o.done = (p.status = "OK"), o.status = p.status, o.stateid = p.stateid,
         o.s = advance_seqid(p.s, r, [status |-> p.status, stateid |-> p.stateid])
  PROVE  Handled(s, r, o)
  <1> DEFINE t == Checked(s, key, r)
             answer == [status |-> p.status, stateid |-> p.stateid]
             v == o.s
  <1>1. /\ Ready(t, r) /\ Keeps(s, t)
        /\ t.file = s.file /\ t.state = s.state /\ t.life = s.life /\ t.up = s.up
        /\ t.next_id = s.next_id
        /\ \A k \in Key : /\ t.info[k].cached = s.info[k].cached
                          /\ t.info[k].confirmed = s.info[k].confirmed
                          /\ k # key => t.info[k].lastseqid = s.info[k].lastseqid
        /\ IF s.info[key].lastseqid = -1
           THEN r.op = "OPEN" /\ t.info[key].lastseqid = mod32(r.seqid - 1)
           ELSE t = s /\ mod32(s.info[key].lastseqid + 1) = r.seqid
    BY CheckedReady
  <1>2. Answered(t, r, p)
    BY <1>1, PerformAnswers
  <1>3. /\ Shape(p.s) /\ p.stateid \in Stateid /\ p.status \in Status /\ LocksStep(t, p.s)
        /\ r.op = "OPEN" => p.s.life = t.life /\ p.status \notin NotAdvancing
    BY <1>2 DEF Answered
  <1>4. /\ key \in Key
        /\ r.op = "OPEN" => key = Current(s, r.client)
        /\ r.op = "LOCK_NEW" => key \in OpenKey
    BY SequencerKind
  <1>5. s \in Server /\ p.s \in Server /\ p.s.info \in [Key -> Info] /\ t \in Server
    BY <1>1, <1>3, ServerFields DEF Shape, Ready
  <1>6. answer \in Answer /\ answer.status = p.status /\ answer.stateid = p.stateid
    BY <1>3 DEF Answer
  <1>7. v = advance_seqid(p.s, r, answer)
    OBVIOUS
  <1> HIDE DEF answer
  <1>8. /\ v \in Server /\ v.file = p.s.file /\ v.state = p.s.state /\ v.life = p.s.life
        /\ v.up = p.s.up /\ v.lease = p.s.lease /\ v.next_id = p.s.next_id
        /\ \A k \in Key : v.info[k] = IF k \in Named(p.s, r) /\ p.s.info[k].known
                                      THEN Advanced(p.s.info[k], r, answer) ELSE p.s.info[k]
    BY <1>5, <1>6, <1>7, AdvanceFields
  <1>9. Shape(v) /\ (StateInv(p.s) => StateInv(v) /\ Keeps(p.s, v))
    BY <1>3, <1>6, <1>7, AdvanceKeeps
  <1>10. o.stateid \in Stateid /\ o.status \in Status /\ o.done \in BOOLEAN
    BY <1>3
  <1>11. InTurn(s, key, r)
    BY <1>1 DEF InTurn
  <1> HIDE DEF t, v
  <1>12. LocksStep(s, v)
    BY <1>1, <1>3, <1>8, SameLocksStep
  <1>13. ASSUME p.s.up = "up"
         PROVE  /\ StateInv(v) /\ Started(v) /\ Repeatable(v)
                /\ Keeps(s, v) /\ Promised(v, r, o)
                /\ \A k \in Key :
                     \/ k = key /\ v.info[k].lastseqid = mod32(r.seqid)
                     \/ v.info[k].lastseqid = s.info[k].lastseqid
                     \/ /\ r.op = "LOCK_NEW" /\ k \in LockKey /\ ~s.info[k].confirmed
                        /\ v.info[k].lastseqid \in {-1, 0}
                /\ p.status = "OK" /\ Sequencer(v, r) # <<>> =>
                     v.info[Sequencer(v, r)].lastseqid = mod32(r.seqid)
    <2>1. /\ StateInv(p.s) /\ Keeps(t, p.s) /\ Promised(p.s, r, p)
          /\ \A k \in Key :
               /\ \/ /\ p.s.info[k].lastseqid = t.info[k].lastseqid
                     /\ p.s.info[k].cached = t.info[k].cached
                  \/ /\ r.op = "LOCK_NEW" /\ k = Current(t, r.owner) /\ ~t.info[k].confirmed
                     /\ p.s.info[k].lastseqid = -1 /\ p.s.info[k].cached = <<>>
               /\ k \in LockKey /\ p.s.info[k].confirmed =>
                    \/ t.info[k].confirmed
                    \/ p.status = "OK" /\ r.op = "LOCK_NEW" /\ k = Current(p.s, r.owner)
          /\ r.op = "LOCK_NEW" =>
               /\ p.status = "OK" => p.s.info[Current(p.s, r.owner)].known
               /\ \/ p.status \in NotAdvancing
                  \/ LET k == Current(p.s, r.owner)
                     IN ~t.info[k].confirmed /\ p.s.info[k].lastseqid = -1
      BY <1>2, <1>13 DEF Answered
    <2>2. Keeps(s, p.s) /\ Keeps(s, v) /\ StateInv(v) /\ Keeps(p.s, v)
      <3>1. Keeps(s, p.s)
        BY <1>1, <1>5, <2>1, KeepsOn
      <3> QED BY <1>5, <1>8, <1>9, <2>1, <3>1, KeepsOn
    <2>3. r.op = "LOCK_NEW" => r.owner \in LockOwner /\ Current(p.s, r.owner) \in LockKey /\
                               Current(t, r.owner) \in LockKey
      BY <1>1, <1>5, CurrentKey DEF Ready, Owns
    <2>4. /\ Sequencer(p.s, r) \in {<<>>, key} /\ (r.op = "OPEN" => Sequencer(p.s, r) = key)
          /\ Sequencer(v, r) = Sequencer(p.s, r)
      <3>1. r.op = "OPEN" => p.s.life = s.life
        BY <1>1, <1>3
      <3>2. Sequencer(v, r) = Sequencer(p.s, r)
        BY <1>8 DEF Sequencer, Current
      <3> QED BY <1>5, <2>2, <3>1, <3>2, SequencerKept
    <2>5. <<>> \notin Key /\ OpenKey \cap LockKey = {}
      BY Keys
    <2>6. ASSUME NEW k \in Key, k \in Named(p.s, r)
          PROVE  k = key \/ (r.op = "LOCK_NEW" /\ k = Current(p.s, r.owner) /\ k # key)
      BY <1>4, <2>3, <2>4, <2>5, <2>6 DEF Named
    <2>7. /\ p.s.info[key].lastseqid = t.info[key].lastseqid
          /\ p.s.info[key].cached = t.info[key].cached
      BY <1>4, <2>1, <2>3, <2>5
    <2>8. /\ t.info[key].lastseqid \in 0..SeqMod - 1
          /\ mod32(t.info[key].lastseqid + 1) = mod32(r.seqid)
          /\ p.s.info[key].known
      <3>1. /\ t.info[key].lastseqid \in 0..SeqMod - 1 /\ mod32(r.seqid) = r.seqid
            /\ mod32(t.info[key].lastseqid + 1) = r.seqid
        BY <1>1, <1>4, <1>5, CheckedNumber
      <3>2. p.s.info[key].lastseqid # -1
        BY <2>7, <3>1
      <3> QED BY <1>4, <2>1, <3>1, <3>2 DEF StateInv, Known
    <2>9. ASSUME NEW k \in Key
          PROVE  /\ v.info[k].confirmed = p.s.info[k].confirmed
                 /\ \/ ~(k \in Named(p.s, r) /\ p.s.info[k].known) /\ v.info[k] = p.s.info[k]
                    \/ /\ k \in Named(p.s, r) /\ p.s.info[k].known
                       /\ v.info[k].cached = <<r, answer>> /\ v.info[k].cached # <<>>
                       /\ v.info[k].lastseqid =
                            IF p.status \in NotAdvancing THEN p.s.info[k].lastseqid
                            ELSE IF p.s.info[k].lastseqid = -1 THEN 0
                            ELSE mod32(p.s.info[k].lastseqid + 1)
                       /\ p.s.info[k].lastseqid # -1 => v.info[k].lastseqid # -1
      <3>1. CASE ~(k \in Named(p.s, r) /\ p.s.info[k].known)
        BY <1>8, <3>1
      <3>2. CASE k \in Named(p.s, r) /\ p.s.info[k].known
        <4> DEFINE m == v.info[k]
                   n == p.s.info[k]
        <4>1. m = Advanced(n, r, answer) /\ n \in Info
          BY <1>5, <1>8, <3>2
        <4> HIDE DEF m, n
        <4>2. /\ m.confirmed = n.confirmed /\ m.cached = <<r, answer>> /\ m.cached # <<>>
              /\ m.lastseqid = IF answer.status \in NotAdvancing THEN n.lastseqid
                               ELSE IF n.lastseqid = -1 THEN 0 ELSE mod32(n.lastseqid + 1)
              /\ n.lastseqid # -1 => m.lastseqid # -1
          BY <1>6, <4>1, AdvancedFields
        <4> QED BY <1>6, <3>2, <4>2 DEF m, n
      <3> QED BY <3>1, <3>2
    <2>10. Started(v)
      <3>1. ASSUME NEW k \in Key, v.info[k].lastseqid # -1
            PROVE  v.info[k].cached # <<>>
        <4>1. CASE k \in Named(p.s, r) /\ p.s.info[k].known
          BY <2>9, <4>1
        <4>2. CASE ~(k \in Named(p.s, r) /\ p.s.info[k].known)
          <5>1. v.info[k] = p.s.info[k]
            BY <2>9, <4>2
          <5>2. CASE k = key /\ s.info[key].lastseqid = -1
            <6>1. r.op = "OPEN"
              BY <1>1, <5>2
            <6>2. key \in Named(p.s, r)
              BY <2>4, <6>1 DEF Named
            <6> QED BY <2>8, <4>2, <5>2, <6>2
          <5>3. CASE ~(k = key /\ s.info[key].lastseqid = -1)
            <6>1. t.info[k].lastseqid = s.info[k].lastseqid
              BY <1>1, <5>3
            <6>2. /\ p.s.info[k].lastseqid = t.info[k].lastseqid
                  /\ p.s.info[k].cached = t.info[k].cached
              BY <2>1, <3>1, <5>1
            <6>3. s.info[k].cached # <<>>
              BY <3>1, <5>1, <6>1, <6>2 DEF Started
            <6> QED BY <1>1, <5>1, <6>2, <6>3
          <5> QED BY <5>2, <5>3
        <4> QED BY <4>1, <4>2
      <3>2. ASSUME NEW k \in LockKey, v.info[k].confirmed
            PROVE  v.info[k].lastseqid # -1
        <4>1. k \in Key /\ p.s.info[k].confirmed
          BY <2>9, <3>2, Keys
        <4>2. CASE t.info[k].confirmed
          <5>1. s.info[k].lastseqid # -1
            BY <1>1, <3>2, <4>1, <4>2 DEF Started
          <5>2. t.info[k].lastseqid # -1
            BY <1>1, <2>8, <4>1, <5>1
          <5>3. p.s.info[k].lastseqid # -1
            BY <2>1, <4>1, <4>2, <5>2
          <5> QED BY <2>9, <4>1, <5>3
        <4>3. CASE p.status = "OK" /\ r.op = "LOCK_NEW" /\ k = Current(p.s, r.owner)
          <5>1. k \in Named(p.s, r) /\ p.s.info[k].known /\ p.status \notin NotAdvancing
            BY <2>1, <4>3 DEF Named, NotAdvancing
          <5>2. v.info[k].lastseqid = IF p.s.info[k].lastseqid = -1 THEN 0
                                      ELSE mod32(p.s.info[k].lastseqid + 1)
            BY <2>9, <4>1, <5>1
          <5>3. p.s.info[k].lastseqid = -1
            BY <2>1, <4>3, <5>1
          <5> QED BY <5>2, <5>3
        <4> QED BY <2>1, <3>2, <4>1, <4>2, <4>3
      <3> QED BY <3>1, <3>2 DEF Started
    <2>11. Promised(v, r, o)
      <3>1. Promised(v, r, p)
        BY <1>5, <1>8, <2>1, <2>2, PromiseKept
      <3> QED BY <3>1 DEF Promised
    <2>12. Repeatable(v)
      <3>1. ASSUME NEW k \in Key, v.info[k].cached # <<>>
            PROVE  Promised(v, v.info[k].cached[1], v.info[k].cached[2])
        <4>1. CASE v.info[k].cached = <<r, answer>>
          BY <1>6, <2>11, <4>1 DEF Promised
        <4>2. CASE v.info[k].cached # <<r, answer>>
          <5>1. v.info[k].cached = s.info[k].cached
            BY <1>1, <2>1, <2>9, <3>1, <4>2
          <5>2. Promised(s, v.info[k].cached[1], v.info[k].cached[2])
            BY <3>1, <5>1 DEF Repeatable
          <5> QED BY <1>5, <1>8, <2>2, <5>2, PromiseKept
        <4> QED BY <4>1, <4>2
      <3> QED BY <3>1 DEF Repeatable
    <2>13. ASSUME NEW k \in Key
           PROVE  \/ k = key /\ v.info[k].lastseqid = mod32(r.seqid)
                  \/ v.info[k].lastseqid = s.info[k].lastseqid
                  \/ /\ r.op = "LOCK_NEW" /\ k \in LockKey /\ ~s.info[k].confirmed
                     /\ v.info[k].lastseqid \in {-1, 0}
      <3>1. CASE k = key
        <4>1. t.info[key].lastseqid # -1
          BY <2>8
        <4>2. CASE v.info[k].lastseqid = mod32(p.s.info[k].lastseqid + 1)
          BY <2>7, <2>8, <3>1, <4>2
        <4>3. CASE v.info[k].lastseqid = p.s.info[k].lastseqid
          <5>1. CASE s.info[key].lastseqid # -1
            BY <1>1, <2>7, <3>1, <4>3, <5>1
          <5>2. CASE s.info[key].lastseqid = -1
            <6>1. r.op = "OPEN"
              BY <1>1, <5>2
            <6>2. key \in Named(p.s, r) /\ p.status \notin NotAdvancing
              BY <1>3, <2>4, <6>1 DEF Named
            <6> QED BY <2>7, <2>8, <2>9, <3>1, <4>1, <6>2
          <5> QED BY <5>1, <5>2
        <4> QED BY <2>7, <2>9, <3>1, <4>1, <4>2, <4>3
      <3>2. CASE k # key
        <4>1. t.info[k].lastseqid = s.info[k].lastseqid /\ t.info[k].confirmed = s.info[k].confirmed
          BY <1>1, <3>2
        <4>2. CASE v.info[k].lastseqid = p.s.info[k].lastseqid
          BY <2>1, <2>3, <4>1, <4>2
        <4>3. CASE v.info[k].lastseqid # p.s.info[k].lastseqid
          <5>1. k \in Named(p.s, r) /\ p.status \notin NotAdvancing
            BY <2>9, <4>3
          <5>2. r.op = "LOCK_NEW" /\ k = Current(p.s, r.owner)
            BY <2>6, <3>2, <5>1
          <5>3. ~t.info[k].confirmed /\ p.s.info[k].lastseqid = -1
            BY <2>1, <5>1, <5>2
          <5> QED BY <2>3, <2>9, <4>1, <4>3, <5>2, <5>3
        <4> QED BY <4>2, <4>3
      <3> QED BY <3>1, <3>2
    <2>14. ASSUME p.status = "OK", Sequencer(v, r) # <<>>
           PROVE  v.info[Sequencer(v, r)].lastseqid = mod32(r.seqid)
      <3>1. Sequencer(v, r) = key /\ key \in Named(p.s, r) /\ p.status \notin NotAdvancing
        BY <2>4, <2>14 DEF Named, NotAdvancing
      <3>2. v.info[key].lastseqid = mod32(p.s.info[key].lastseqid + 1)
        BY <1>4, <2>7, <2>8, <2>9, <3>1
      <3> QED BY <2>7, <2>8, <3>1, <3>2
    <2> QED BY <2>2, <2>10, <2>11, <2>12, <2>13, <2>14
  <1> QED BY <1>8, <1>9, <1>10, <1>11, <1>12, <1>13 DEF Handled, v

\* op_open, op_open_confirm, op_close, op_lock and op_locku of nfs4server.py: whatever the
\* request, and however late its copy.
LEMMA HandleAnswers ==
  ASSUME NEW s, Shape(s), StateInv(s), Started(s), Repeatable(s), s.up = "up",
         s.next_id <= MaxId, NEW r \in Request, Asked(s, r), NEW o \in Handle(s, r)
  PROVE  Handled(s, r, o)
  <1> DEFINE key == Sequencer(s, r)
             check == check_seqid(s, key, r)
             finish(p) == [s |-> advance_seqid(p.s, r, [status |-> p.status,
                                                        stateid |-> p.stateid]),
                           status |-> p.status, stateid |-> p.stateid, done |-> FALSE]
  <1>1. ASSUME NEW status \in NotAdvancing, o = finish(Failed(s, status))
        PROVE  Handled(s, r, o)
    <2>1. /\ Failed(s, status).s = s /\ Failed(s, status).status = status
          /\ Failed(s, status).stateid = NoStateid
      BY OutcomeFields
    <2>2. /\ o.s = advance_seqid(s, r, [status |-> status, stateid |-> NoStateid])
          /\ o.status = status /\ o.stateid = NoStateid /\ o.done = FALSE
      BY <1>1, <2>1
    <2> QED BY <2>2, RefusedHandled
  <1>2. CASE key = <<>>
    <2>1. o = finish(Failed(s, "BAD_STATEID"))
      BY <1>2 DEF Handle
    <2>2. "BAD_STATEID" \in NotAdvancing
      BY DEF NotAdvancing
    <2> HIDE DEF finish
    <2> QED BY <1>1, <2>1, <2>2
  <1>3. CASE key # <<>> /\ check = "replay"
    <2>1. PICK p \in {Replay(s, key, r)} :
            o = [s |-> p.s, status |-> p.status, stateid |-> p.stateid, done |-> FALSE]
      BY <1>3, Zenon DEF Handle
    <2>2. /\ o.done = FALSE /\ o.s = p.s /\ o.status = p.status /\ o.stateid = p.stateid
          /\ p = Replay(s, key, r)
      BY <2>1
    <2>3. key \in Key
      BY <1>3, SequencerKind
    <2>4. s.info[key].cached # <<>>
      BY <1>3 DEF check_seqid
    <2> HIDE DEF key
    <2> QED BY <2>2, <2>3, <2>4, ReplayHandled
  <1>4. CASE key # <<>> /\ check \notin {"replay", "go"}
    <2>1. o = finish(Failed(s, check))
      BY <1>4 DEF Handle
    <2>2. check \in NotAdvancing
      BY <1>4 DEF NotAdvancing, check_seqid
    <2> HIDE DEF finish, check
    <2> QED BY <1>1, <2>1, <2>2
  <1>5. CASE key # <<>> /\ check = "go"
    <2>1. PICK p \in Perform(Checked(s, key, r), r) : o = [finish(p) EXCEPT !.done = p.status = "OK"]
      BY <1>5 DEF Handle
    <2>2. /\ o.done = (p.status = "OK") /\ o.status = p.status /\ o.stateid = p.stateid
          /\ o.s = advance_seqid(p.s, r, [status |-> p.status, stateid |-> p.stateid])
      BY <2>1
    <2>3. key = Sequencer(s, r) /\ check_seqid(s, key, r) = "go" /\ key # <<>>
      BY <1>5
    <2> HIDE DEF key
    <2> QED BY <2>2, <2>3, PerformedHandled
  <1> QED BY <1>2, <1>3, <1>4, <1>5
-----------------------------------------------------------------------------
(* The three things that may come of a request, for what its client may believe *)

\* check_seqid refuses it, or nobody has its stateid: only answers to repeat change.
Refused(s, r, o) ==
  /\ o.status \in NotAdvancing
  /\ o.s.state = s.state /\ o.s.file = s.file /\ o.s.life = s.life
  /\ \A k \in Key : /\ o.s.info[k].lastseqid = s.info[k].lastseqid
                    /\ o.s.info[k].confirmed = s.info[k].confirmed
                    /\ \/ o.s.info[k].cached = s.info[k].cached
                       \/ o.s.info[k].cached = <<r, [status |-> o.status, stateid |-> o.stateid]>>
  /\ Sequencer(s, r) # <<>> =>
       LET n == s.info[Sequencer(s, r)]
       IN /\ n.lastseqid # -1 /\ n.lastseqid # r.seqid
          /\ \/ ~n.confirmed /\ r.op # "OPEN_CONFIRM" /\ Sequencer(s, r) \in OpenKey
             \/ mod32(n.lastseqid + 1) # r.seqid

\* It is a copy of its owner's last request, and answered as that was.
Replayed(s, r, o) ==
  /\ Sequencer(s, r) \in Key /\ r.seqid = s.info[Sequencer(s, r)].lastseqid /\ o.s = s
  /\ \/ o.status = "BAD_SEQID"
     \/ LET cached == s.info[Sequencer(s, r)].cached
        IN /\ cached # <<>> /\ cached[1] = r
           /\ o.status = cached[2].status /\ o.stateid = cached[2].stateid
           /\ r.op = "LOCK_NEW" => o.status \notin {"OK", "DENIED"}

\* It is carried out: the numbers of the owners it names go on with an answer that
\* advances them, and they have that answer to repeat.
Executed(s, r, o) ==
  LET key == Sequencer(s, r) IN
  /\ key \in Key /\ Effect(s, r, o)
  /\ IF s.info[key].lastseqid = -1 THEN r.op = "OPEN"
     ELSE /\ mod32(s.info[key].lastseqid + 1) = r.seqid
          /\ s.info[key].confirmed \/ r.op = "OPEN_CONFIRM" \/ key \in LockKey
  /\ r.op = "OPEN" => o.status \notin NotAdvancing
  /\ o.s.info[key].lastseqid = IF o.status \in NotAdvancing THEN s.info[key].lastseqid
                               ELSE r.seqid
  /\ \A k \in Key \ Named(s, r) : /\ o.s.info[k].lastseqid = s.info[k].lastseqid
                                  /\ o.s.info[k].cached = s.info[k].cached
  /\ \A k \in Named(s, r) :
       o.s.info[k].cached = <<r, [status |-> o.status, stateid |-> o.stateid]>>
  /\ r.op = "LOCK_NEW" =>
       LET owner == Current(s, r.owner)
       IN IF o.status \in NotAdvancing
          THEN o.s.info[owner].lastseqid = s.info[owner].lastseqid
          ELSE ~s.info[owner].confirmed /\ o.s.info[owner].lastseqid = 0

\* A refusal of check_seqid, or of a stateid that nobody has.
LEMMA RefusedKind ==
  ASSUME NEW s, Shape(s), StateInv(s), Started(s), NEW r \in Request, Asked(s, r),
         NEW status \in NotAdvancing,
         Sequencer(s, r) # <<>> => check_seqid(s, Sequencer(s, r), r) = status,
         NEW o, o.status = status, o.stateid = NoStateid,
         o.s = advance_seqid(s, r, [status |-> status, stateid |-> NoStateid])
  PROVE  Refused(s, r, o)
  <1> DEFINE answer == [status |-> status, stateid |-> NoStateid]
             t == o.s
             key == Sequencer(s, r)
  <1>1. s \in Server /\ s.info \in [Key -> Info]
    BY ServerFields DEF Shape
  <1>2. answer \in Answer /\ answer.status \in NotAdvancing
    BY OutcomeFields DEF Answer, NotAdvancing, Status
  <1>3. t = advance_seqid(s, r, answer) /\ answer = [status |-> o.status, stateid |-> o.stateid]
    OBVIOUS
  <1> HIDE DEF answer, t
  <1>4. t.state = s.state /\ t.file = s.file /\ t.life = s.life
    BY <1>1, <1>2, <1>3, AdvanceFields
  <1>5. \A k \in Key : /\ t.info[k].lastseqid = s.info[k].lastseqid
                       /\ t.info[k].confirmed = s.info[k].confirmed
                       /\ t.info[k].cached \in {<<r, answer>>, s.info[k].cached}
                       /\ t.info[k].cached = <<>> => s.info[k].cached = <<>>
    BY <1>1, <1>2, <1>3, AdvanceRefused
  <1>6. ASSUME key # <<>>
        PROVE  /\ s.info[key].lastseqid # -1 /\ s.info[key].lastseqid # r.seqid
               /\ \/ ~s.info[key].confirmed /\ r.op # "OPEN_CONFIRM" /\ key \in OpenKey
                  \/ mod32(s.info[key].lastseqid + 1) # r.seqid
    <2>1. /\ key \in Key /\ (r.op \in {"OPEN", "OPEN_CONFIRM", "CLOSE", "LOCK_NEW"} => key \in OpenKey)
          /\ r.op \in {"LOCK", "LOCKU"} => LockHolder(s, r.stateid.id)
          /\ r.op # "OPEN" => key = s.state[r.stateid.id].owner
          /\ r.op \in {"OPEN", "OPEN_CONFIRM", "CLOSE", "LOCK_NEW", "LOCK", "LOCKU"}
      BY <1>6, SequencerKind DEF Shape
    <2>2. check_seqid(s, key, r) = status /\ status \in {"BAD_STATEID", "BAD_SEQID"}
      BY <1>6 DEF NotAdvancing
    <2> DEFINE n == s.info[key]
    <2>3. n.lastseqid # -1 => n.cached # <<>>
      BY <2>1 DEF Started
    <2>4. key \notin OpenKey => n.confirmed /\ key \in LockKey
      BY <2>1 DEF LockHolder
    <2>5. key[1] \in LockOwner => n.confirmed
      BY <2>1, <2>4, Keys, ServerAssumption
    <2> QED BY <2>1, <2>2, <2>3, <2>4, <2>5 DEF check_seqid
  <1>7. o.s = t
    BY DEF t
  <1> QED BY <1>3, <1>4, <1>5, <1>6, <1>7 DEF Refused

\* A copy of an owner's last request.
LEMMA ReplayedKind ==
  ASSUME NEW s, Shape(s), NEW r \in Request, NEW key \in Key, key = Sequencer(s, r),
         check_seqid(s, key, r) = "replay", NEW p, p = Replay(s, key, r),
         NEW o, o.s = p.s, o.status = p.status, o.stateid = p.stateid, o.s.up = "up"
  PROVE  Replayed(s, r, o)
  <1> DEFINE answer == s.info[key].cached[2]
  <1>1. s.info[key].cached # <<>> /\ s.info[key].lastseqid = r.seqid
    BY DEF check_seqid
  <1>2. \/ p = Failed(s, "BAD_SEQID")
        \/ p = Failed(Died(s, "replay"), "OK")
        \/ /\ s.info[key].cached[1] = r /\ ~(r.op = "LOCK_NEW" /\ answer.status \in {"OK", "DENIED"})
           /\ p = [s |-> s, status |-> answer.status, stateid |-> answer.stateid]
    BY DEF Replay
  <1>3. p # Failed(Died(s, "replay"), "OK")
    <2>1. Failed(Died(s, "replay"), "OK").s.up = "replay"
      BY DiedShape, OutcomeFields
    <2> QED BY <2>1
  <1>4. p = Failed(s, "BAD_SEQID") => p.s = s /\ p.status = "BAD_SEQID"
    BY OutcomeFields
  <1> QED BY <1>1, <1>2, <1>3, <1>4 DEF Replayed
\* What an operation does between check_seqid and advance_seqid, which both leave states
\* and confirmations alone.
LEMMA EffectSame ==
  ASSUME NEW s, NEW t, NEW r, NEW p, NEW o, Effect(t, r, p),
         t.state = s.state, t.file = s.file, t.life = s.life,
         \A k \in Key : t.info[k].confirmed = s.info[k].confirmed,
         o.status = p.status, o.stateid = p.stateid, o.s.state = p.s.state,
         o.s.file = p.s.file, o.s.life = p.s.life, o.s.next_id = p.s.next_id,
         \A k \in Key : /\ o.s.info[k].confirmed = p.s.info[k].confirmed
                        /\ p.s.info[k].known => o.s.info[k].known,
         r.op \in {"OPEN_CONFIRM", "CLOSE", "LOCK", "LOCKU"} => Sequencer(s, r) \in Key,
         r.op = "LOCK_NEW" => Current(s, r.owner) \in Key
  PROVE  Effect(s, r, o)
  <1> DEFINE key == Sequencer(s, r)
             owner == Current(s, r.owner)
  <1>1. Sequencer(t, r) = key /\ Sequencer(o.s, r) = Sequencer(p.s, r)
    BY DEF Sequencer, Current
  <1>2. Current(t, r.owner) = owner
    BY DEF Current
  <1>3. Touched(t, r) = Touched(s, r)
    BY <1>1, <1>2 DEF Touched
  <1>4. ASSUME NEW k \in Key
        PROVE  /\ Untouched(t, p.s, k) => Untouched(s, o.s, k)
               /\ StatesLast(t, p.s, k) => StatesLast(s, o.s, k)
    BY DEF Untouched, StatesStay, StatesLast
  <1>5. \A k, st : Valid(p.s, k, st) = Valid(o.s, k, st) /\ Valid(t, k, st) = Valid(s, k, st)
    BY DEF Valid
  <1>6. Truthful(o.s, key, r, o)
    <2>1. Truthful(p.s, key, r, p)
      BY <1>1 DEF Effect
    <2>2. \A id : OnFile(o.s, id) = OnFile(p.s, id)
      BY DEF OnFile
    <2> QED BY <1>1, <1>5, <2>1, <2>2 DEF Truthful
  <1>7. Willing(s, r) => Willing(t, r)
    BY <1>1, <1>5 DEF Willing
  <1>8. o.s.life[r.client] = s.life[r.client] /\ Sequencer(o.s, r) = key
    BY <1>1 DEF Effect
  <1>9. \A k \in Key \ Touched(s, r) : Untouched(s, o.s, k)
    BY <1>3, <1>4 DEF Effect
  <1>10. r.op = "CLOSE" => \A k \in LockKey : StatesLast(s, o.s, k)
    BY <1>4, Keys DEF Effect
  <1>11. r.op # "CLOSE" => \A k \in Key : s.info[k].confirmed => o.s.info[k].confirmed
    BY DEF Effect
  <1>12. r.op = "OPEN_CONFIRM" => o.s.file.shares = s.file.shares
    BY DEF Effect
  <1>13. Willing(s, r) => o.status \notin NotAdvancing
    BY <1>7 DEF Effect
  <1>14. ASSUME r.op = "LOCK_NEW"
         PROVE  /\ o.s.info[owner].known
                /\ o.status \in NotAdvancing =>
                     s.info[owner].confirmed /\ \A k \in Key : Untouched(s, o.s, k)
                /\ o.status = "OK" => Valid(o.s, owner, o.stateid)
    <2>1. /\ p.s.info[owner].known
          /\ p.status \in NotAdvancing =>
               t.info[owner].confirmed /\ \A k \in Key : Untouched(t, p.s, k)
          /\ p.status = "OK" => Valid(p.s, owner, p.stateid)
      BY <1>2, <1>14 DEF Effect
    <2> QED BY <1>4, <1>5, <1>14, <2>1
  <1> QED BY <1>6, <1>8, <1>9, <1>10, <1>11, <1>12, <1>13, <1>14 DEF Effect

\* A request that check_seqid lets go on.
LEMMA ExecutedKind ==
  ASSUME NEW s, Shape(s), StateInv(s), Started(s), s.up = "up",
         s.next_id <= MaxId, NEW r \in Request, Asked(s, r),
         NEW key, key = Sequencer(s, r), key # <<>>, check_seqid(s, key, r) = "go",
         NEW p \in Perform(Checked(s, key, r), r),
         NEW o, o.status = p.status, o.stateid = p.stateid, o.s.up = "up",
         o.s = advance_seqid(p.s, r, [status |-> p.status, stateid |-> p.stateid])
  PROVE  Executed(s, r, o)
  <1> DEFINE t == Checked(s, key, r)
             answer == [status |-> p.status, stateid |-> p.stateid]
             v == o.s
             owner == Current(s, r.owner)
  <1>1. /\ Ready(t, r) /\ Keeps(s, t)
        /\ t.file = s.file /\ t.state = s.state /\ t.life = s.life /\ t.up = s.up
        /\ t.next_id = s.next_id
        /\ \A k \in Key : /\ t.info[k].cached = s.info[k].cached
                          /\ t.info[k].confirmed = s.info[k].confirmed
                          /\ k # key => t.info[k].lastseqid = s.info[k].lastseqid
        /\ IF s.info[key].lastseqid = -1
           THEN r.op = "OPEN" /\ t.info[key].lastseqid = mod32(r.seqid - 1)
           ELSE t = s /\ mod32(s.info[key].lastseqid + 1) = r.seqid
    BY CheckedReady
  <1>2. Answered(t, r, p)
    BY <1>1, PerformAnswers
  <1>3. /\ Shape(p.s) /\ p.stateid \in Stateid /\ p.status \in Status
        /\ r.op = "OPEN" => p.status \notin NotAdvancing
    BY <1>2 DEF Answered
  <1>4. /\ key \in Key
        /\ r.op \in {"OPEN", "OPEN_CONFIRM", "CLOSE", "LOCK_NEW"} => key \in OpenKey
        /\ r.op \in {"LOCK", "LOCKU"} => LockHolder(s, r.stateid.id)
        /\ r.op # "OPEN" => key = s.state[r.stateid.id].owner
        /\ r.op \in {"OPEN", "OPEN_CONFIRM", "CLOSE", "LOCK_NEW", "LOCK", "LOCKU"}
    BY SequencerKind
  <1>5. s \in Server /\ p.s \in Server /\ p.s.info \in [Key -> Info] /\ t \in Server
    BY <1>1, <1>3, ServerFields DEF Shape, Ready
  <1>6. answer \in Answer /\ answer.status = p.status /\ answer.stateid = p.stateid
        /\ answer = [status |-> o.status, stateid |-> o.stateid]
    BY <1>3 DEF Answer
  <1>7. v = advance_seqid(p.s, r, answer)
    OBVIOUS
  <1> HIDE DEF answer
  <1>8. /\ v \in Server /\ v.file = p.s.file /\ v.state = p.s.state /\ v.life = p.s.life
        /\ v.up = p.s.up /\ v.lease = p.s.lease /\ v.next_id = p.s.next_id
        /\ \A k \in Key : v.info[k] = IF k \in Named(p.s, r) /\ p.s.info[k].known
                                      THEN Advanced(p.s.info[k], r, answer) ELSE p.s.info[k]
    BY <1>5, <1>6, <1>7, AdvanceFields
  <1>9. p.s.up = "up"
    BY <1>8
  <1>10. /\ t.info[key].lastseqid \in 0..SeqMod - 1 /\ mod32(r.seqid) = r.seqid
         /\ mod32(t.info[key].lastseqid + 1) = r.seqid
    BY <1>1, <1>4, <1>5, CheckedNumber
  <1>11. r.op = "LOCK_NEW" => /\ r.owner \in Owns(r.client) /\ owner \in LockKey /\ owner \in Key
                              /\ owner \notin OpenKey /\ Current(t, r.owner) = owner
    BY <1>1, <1>5, CurrentKey, Keys DEF Asked, Owns, Current
  <1> HIDE DEF t, v, owner
  <1>12. /\ StateInv(p.s) /\ Effect(t, r, p)
         /\ \A k \in Key :
              \/ /\ p.s.info[k].lastseqid = t.info[k].lastseqid
                 /\ p.s.info[k].cached = t.info[k].cached
              \/ /\ r.op = "LOCK_NEW" /\ k = owner /\ ~t.info[k].confirmed
                 /\ p.s.info[k].lastseqid = -1 /\ p.s.info[k].cached = <<>>
         /\ r.op = "LOCK_NEW" =>
              \/ p.status \in NotAdvancing
              \/ LET k == Current(p.s, r.owner)
                 IN ~t.info[k].confirmed /\ p.s.info[k].lastseqid = -1
    <2>1. /\ StateInv(p.s) /\ Effect(t, r, p)
          /\ \A k \in Key :
               \/ /\ p.s.info[k].lastseqid = t.info[k].lastseqid
                  /\ p.s.info[k].cached = t.info[k].cached
               \/ /\ r.op = "LOCK_NEW" /\ k = Current(t, r.owner) /\ ~t.info[k].confirmed
                  /\ p.s.info[k].lastseqid = -1 /\ p.s.info[k].cached = <<>>
          /\ r.op = "LOCK_NEW" =>
               \/ p.status \in NotAdvancing
               \/ LET k == Current(p.s, r.owner)
                  IN ~t.info[k].confirmed /\ p.s.info[k].lastseqid = -1
      BY <1>2, <1>9 DEF Answered
    <2> QED BY <1>11, <2>1
  <1>13. Sequencer(p.s, r) = key /\ p.s.life[r.client] = s.life[r.client]
    <2>1. Sequencer(t, r) = key
      BY <1>1 DEF Sequencer, Current
    <2> QED BY <1>1, <1>12, <2>1 DEF Effect
  <1>14. r.op = "LOCK_NEW" => Current(p.s, r.owner) = owner
    <2>1. r.op = "LOCK_NEW" => Holder(<<r.owner>>) = r.client
      BY <1>11, ServerAssumption DEF Holder, Owns
    <2> QED BY <1>13, <2>1 DEF Current, owner
  <1>15. Named(p.s, r) = Named(s, r) /\ Named(s, r) \subseteq Key
    BY <1>4, <1>11, <1>13, <1>14 DEF Named, owner
  <1>16. ASSUME NEW k \in Named(s, r)
         PROVE  /\ p.s.info[k].known /\ v.info[k].cached = <<r, answer>>
                /\ v.info[k].lastseqid =
                     IF p.status \in NotAdvancing THEN p.s.info[k].lastseqid
                     ELSE IF p.s.info[k].lastseqid = -1 THEN 0
                     ELSE mod32(p.s.info[k].lastseqid + 1)
    <2>1. k \in Key /\ (k = key \/ (r.op = "LOCK_NEW" /\ k = owner))
      <3>1. k = key \/ (r.op = "LOCK_NEW" /\ k = owner)
        BY DEF Named, owner
      <3> QED BY <1>15, <3>1
    <2>2. p.s.info[k].known
      <3>1. CASE k = key
        <4>1. p.s.info[key].lastseqid # -1
          BY <1>4, <1>10, <1>11, <1>12
        <4> QED BY <1>4, <1>12, <3>1, <4>1 DEF StateInv, Known
      <3>2. CASE r.op = "LOCK_NEW" /\ k = owner
        BY <1>11, <1>12, <3>2 DEF Effect
      <3> QED BY <2>1, <3>1, <3>2
    <2>3. v.info[k] = Advanced(p.s.info[k], r, answer) /\ p.s.info[k] \in Info
      BY <1>5, <1>8, <1>15, <2>1, <2>2
    <2> DEFINE m == v.info[k]
               n == p.s.info[k]
    <2>4. m = Advanced(n, r, answer) /\ n \in Info
      BY <2>3
    <2> HIDE DEF m, n
    <2>5. /\ m.cached = <<r, answer>>
          /\ m.lastseqid = IF answer.status \in NotAdvancing THEN n.lastseqid
                           ELSE IF n.lastseqid = -1 THEN 0 ELSE mod32(n.lastseqid + 1)
      BY <1>6, <2>4, AdvancedFields
    <2> QED BY <1>6, <2>2, <2>5 DEF m, n
  <1>17. ASSUME NEW k \in Key
         PROVE  /\ v.info[k].confirmed = p.s.info[k].confirmed
                /\ p.s.info[k].known => v.info[k].known
    <2>1. CASE k \in Named(p.s, r) /\ p.s.info[k].known
      <3>1. v.info[k] = Advanced(p.s.info[k], r, answer) /\ p.s.info[k] \in Info
        BY <1>5, <1>8, <2>1
      <3> QED BY <1>6, <3>1, AdvancedFields
    <2>2. CASE ~(k \in Named(p.s, r) /\ p.s.info[k].known)
      BY <1>8, <2>2
    <2> QED BY <2>1, <2>2
  <1>18. Effect(s, r, o)
    <2>1. o.s = v
      BY DEF v
    <2>2. r.op = "LOCK_NEW" => Current(s, r.owner) \in Key
      BY <1>11 DEF owner
    <2> QED BY <1>1, <1>4, <1>8, <1>12, <1>17, <2>1, <2>2, EffectSame
  <1>19. ASSUME NEW k \in Key \ Named(s, r)
         PROVE  v.info[k].lastseqid = s.info[k].lastseqid /\ v.info[k].cached = s.info[k].cached
    <2>1. v.info[k] = p.s.info[k] /\ k # key /\ ~(r.op = "LOCK_NEW" /\ k = owner)
      BY <1>8, <1>15 DEF Named, owner
    <2> QED BY <1>1, <1>12, <2>1
  <1>20. /\ IF s.info[key].lastseqid = -1 THEN r.op = "OPEN"
            ELSE /\ mod32(s.info[key].lastseqid + 1) = r.seqid
                 /\ s.info[key].confirmed \/ r.op = "OPEN_CONFIRM" \/ key \in LockKey
         /\ v.info[key].lastseqid = IF p.status \in NotAdvancing THEN s.info[key].lastseqid
                                    ELSE r.seqid
    <2>1. key \in Named(s, r)
      BY DEF Named
    <2>2. p.s.info[key].lastseqid = t.info[key].lastseqid
      BY <1>4, <1>11, <1>12
    <2>3. CASE s.info[key].lastseqid = -1
      BY <1>1, <1>3, <1>10, <1>16, <2>1, <2>2, <2>3
    <2>4. CASE s.info[key].lastseqid # -1
      <3>1. s.info[key].cached # <<>>
        BY <1>4, <2>4 DEF Started
      <3>2. s.info[key].confirmed \/ r.op = "OPEN_CONFIRM" \/ key \in LockKey
        <4>1. key \in LockKey \/ key[1] \notin LockOwner
          BY <1>4, Keys, ServerAssumption
        <4> QED BY <2>4, <3>1, <4>1 DEF check_seqid
      <3> QED BY <1>1, <1>10, <1>16, <2>1, <2>2, <2>4, <3>2
    <2> QED BY <2>3, <2>4
  <1>21. r.op = "LOCK_NEW" =>
           IF p.status \in NotAdvancing THEN v.info[owner].lastseqid = s.info[owner].lastseqid
           ELSE ~s.info[owner].confirmed /\ v.info[owner].lastseqid = 0
    <2> SUFFICES ASSUME r.op = "LOCK_NEW"
                 PROVE  IF p.status \in NotAdvancing
                        THEN v.info[owner].lastseqid = s.info[owner].lastseqid
                        ELSE ~s.info[owner].confirmed /\ v.info[owner].lastseqid = 0
      OBVIOUS
    <2>1. owner \in Named(s, r) /\ owner # key
      BY <1>4, <1>11 DEF Named, owner
    <2>2. /\ t.info[owner].lastseqid = s.info[owner].lastseqid
          /\ t.info[owner].confirmed = s.info[owner].confirmed
      BY <1>1, <1>11, <2>1
    <2>3. CASE p.status \in NotAdvancing
      <3>1. t.info[owner].confirmed
        BY <1>11, <1>12, <2>3 DEF Effect
      <3> QED BY <1>11, <1>12, <1>16, <2>1, <2>2, <2>3, <3>1
    <2>4. CASE p.status \notin NotAdvancing
      BY <1>12, <1>14, <1>16, <2>1, <2>2, <2>4
    <2> QED BY <2>3, <2>4
  <1>22. \A k \in Named(s, r) :
           v.info[k].cached = <<r, [status |-> o.status, stateid |-> o.stateid]>>
    BY <1>6, <1>16
  <1> QED BY <1>3, <1>4, <1>18, <1>19, <1>20, <1>21, <1>22 DEF Executed, v, owner

\* Whatever a request asks for, and however late its copy.
LEMMA HandleKinds ==
  ASSUME NEW s, Shape(s), StateInv(s), Started(s), s.up = "up", s.next_id <= MaxId,
         NEW r \in Request, Asked(s, r), NEW o \in Handle(s, r), o.s.up = "up"
  PROVE  Refused(s, r, o) \/ Replayed(s, r, o) \/ Executed(s, r, o)
  <1> DEFINE key == Sequencer(s, r)
             check == check_seqid(s, key, r)
             finish(p) == [s |-> advance_seqid(p.s, r, [status |-> p.status,
                                                        stateid |-> p.stateid]),
                           status |-> p.status, stateid |-> p.stateid, done |-> FALSE]
  <1>1. ASSUME NEW status \in NotAdvancing, o = finish(Failed(s, status)),
               key # <<>> => check = status
        PROVE  Refused(s, r, o)
    <2>1. /\ Failed(s, status).s = s /\ Failed(s, status).status = status
          /\ Failed(s, status).stateid = NoStateid
      BY OutcomeFields
    <2>2. /\ o.s = advance_seqid(s, r, [status |-> status, stateid |-> NoStateid])
          /\ o.status = status /\ o.stateid = NoStateid
      BY <1>1, <2>1
    <2>3. Sequencer(s, r) # <<>> => check_seqid(s, Sequencer(s, r), r) = status
      BY <1>1
    <2> QED BY <2>2, <2>3, RefusedKind
  <1>2. CASE key = <<>>
    <2>1. o = finish(Failed(s, "BAD_STATEID"))
      BY <1>2 DEF Handle
    <2>2. "BAD_STATEID" \in NotAdvancing
      BY DEF NotAdvancing
    <2> HIDE DEF finish
    <2> QED BY <1>1, <1>2, <2>1, <2>2
  <1>3. CASE key # <<>> /\ check = "replay"
    <2>1. PICK p \in {Replay(s, key, r)} :
            o = [s |-> p.s, status |-> p.status, stateid |-> p.stateid, done |-> FALSE]
      BY <1>3, Zenon DEF Handle
    <2>2. /\ o.s = p.s /\ o.status = p.status /\ o.stateid = p.stateid
          /\ p = Replay(s, key, r) /\ check_seqid(s, key, r) = "replay" /\ key = Sequencer(s, r)
      BY <1>3, <2>1
    <2>3. key \in Key
      BY <1>3, SequencerKind
    <2> HIDE DEF key
    <2> QED BY <2>2, <2>3, ReplayedKind
  <1>4. CASE key # <<>> /\ check \notin {"replay", "go"}
    <2>1. o = finish(Failed(s, check))
      BY <1>4 DEF Handle
    <2>2. check \in NotAdvancing
      BY <1>4 DEF NotAdvancing, check_seqid
    <2> HIDE DEF finish, check
    <2> QED BY <1>1, <2>1, <2>2
  <1>5. CASE key # <<>> /\ check = "go"
    <2>1. PICK p \in Perform(Checked(s, key, r), r) : o = [finish(p) EXCEPT !.done = p.status = "OK"]
      BY <1>5 DEF Handle
    <2>2. /\ o.status = p.status /\ o.stateid = p.stateid
          /\ o.s = advance_seqid(p.s, r, [status |-> p.status, stateid |-> p.stateid])
      BY <2>1
    <2>3. key = Sequencer(s, r) /\ check_seqid(s, key, r) = "go" /\ key # <<>>
      BY <1>5
    <2> HIDE DEF key
    <2> QED BY <2>2, <2>3, ExecutedKind
  <1> QED BY <1>2, <1>3, <1>4, <1>5
-----------------------------------------------------------------------------
(* Clients *)

\* What nfs4lib.py keeps of an answer.
LEMMA LearnFields ==
  ASSUME NEW k \in Believed, NEW r \in Request,
         r.op \in {"LOCK_NEW", "LOCK", "LOCKU"} => r.owner \in LockOwner,
         NEW o, o.stateid \in Stateid, o.confirmed \in BOOLEAN,
         NEW n, n = Learn(k, r, o)
  PROVE  /\ n \in Believed /\ n.pending = <<>> /\ n.count = k.count
         /\ n.seqid \in {k.seqid, mod32(k.seqid + 1)}
         /\ \/ n.opened \in {k.opened, NoStateid}
            \/ /\ o.status = "OK" /\ r.op \in {"OPEN", "OPEN_CONFIRM"}
               /\ n.opened = o.stateid
         /\ \A l \in LockOwner :
              /\ n.locks[l].seqid \in {0, 1, k.locks[l].seqid, mod32(k.locks[l].seqid + 1)}
              /\ \/ n.locks[l].stateid \in {k.locks[l].stateid, NoStateid}
                 \/ /\ o.status = "OK" /\ r.op \in {"LOCK_NEW", "LOCK", "LOCKU"}
                    /\ l = r.owner /\ n.locks[l].stateid = o.stateid
  <1> DEFINE next == [k EXCEPT !.pending = <<>>,
                        !.seqid = IF r.op \in {"LOCK", "LOCKU"} \/ o.status \in NotAdvancing
                                  THEN @ ELSE mod32(@ + 1)]
             forgotten == [next EXCEPT !.opened = NoStateid, !.confirmed = FALSE,
                                       !.locks = Unlocked]
             taken == [stateid |-> o.stateid,
                      seqid |-> IF r.op = "LOCK_NEW" THEN 1
                                ELSE mod32(k.locks[r.owner].seqid + 1)]
             denied == [stateid |-> k.locks[r.owner].stateid,
                        seqid |-> mod32(k.locks[r.owner].seqid + 1)]
             Lock == [stateid : Stateid, seqid : Seqid]
  <1>1. \A m \in Seqid : mod32(m + 1) \in Seqid /\ m \in Int
    BY Modulus DEF Seqid
  <1>2. 0 \in Seqid /\ 1 \in Seqid /\ NoStateid \in Stateid
    BY ServerAssumption, OutcomeFields DEF Seqid
  <1>3. /\ k.seqid \in Seqid /\ k.locks \in [LockOwner -> Lock] /\ k.opened \in Stateid
        /\ \A l \in LockOwner : k.locks[l].seqid \in Seqid /\ k.locks[l].stateid \in Stateid
    BY DEF Believed
  <1>4. /\ Unlocked \in [LockOwner -> Lock]
        /\ \A l \in LockOwner : Unlocked[l].seqid = 0 /\ Unlocked[l].stateid = NoStateid
    BY <1>2 DEF Unlocked
  <1>5. /\ next \in Believed /\ next.pending = <<>> /\ next.count = k.count
        /\ next.seqid \in {k.seqid, mod32(k.seqid + 1)}
        /\ next.opened = k.opened /\ next.locks = k.locks
    <2> DEFINE seqid == IF r.op \in {"LOCK", "LOCKU"} \/ o.status \in NotAdvancing
                        THEN k.seqid ELSE mod32(k.seqid + 1)
    <2>1. seqid \in {k.seqid, mod32(k.seqid + 1)} /\ seqid \in Seqid
      BY <1>1, <1>3
    <2>2. next = [k EXCEPT !.pending = <<>>, !.seqid = seqid]
      OBVIOUS
    <2> HIDE DEF seqid, next
    <2> QED BY <2>1, <2>2 DEF Believed
  <1> HIDE DEF next
  <1>6. CASE n = [next EXCEPT !.opened = o.stateid, !.confirmed = o.confirmed] /\
             o.status = "OK" /\ r.op = "OPEN"
    <2>1. /\ n \in Believed /\ n.pending = <<>> /\ n.count = next.count /\ n.seqid = next.seqid
          /\ n.opened = o.stateid /\ n.locks = next.locks
      BY <1>5, <1>6 DEF Believed
    <2> QED BY <1>5, <1>6, <2>1
  <1>7. CASE n = [next EXCEPT !.opened = o.stateid, !.confirmed = TRUE] /\
             o.status = "OK" /\ r.op = "OPEN_CONFIRM"
    <2>1. /\ n \in Believed /\ n.pending = <<>> /\ n.count = next.count /\ n.seqid = next.seqid
          /\ n.opened = o.stateid /\ n.locks = next.locks
      BY <1>5, <1>7 DEF Believed
    <2> QED BY <1>5, <1>7, <2>1
  <1>8. CASE n = [next EXCEPT !.locks[r.owner] = taken] /\
             o.status = "OK" /\ r.op \in {"LOCK_NEW", "LOCK", "LOCKU"}
    <2> DEFINE locks == [k.locks EXCEPT ![r.owner] = taken]
    <2>1. r.owner \in LockOwner
      BY <1>8
    <2>2. /\ taken \in Lock /\ taken.stateid = o.stateid
          /\ taken.seqid \in {1, mod32(k.locks[r.owner].seqid + 1)}
      BY <1>1, <1>2, <1>3, <2>1
    <2>3. n = [next EXCEPT !.locks = locks]
      BY <1>5, <1>8
    <2> HIDE DEF taken
    <2>4. /\ locks \in [LockOwner -> Lock] /\ locks[r.owner] = taken
          /\ \A l \in LockOwner : l # r.owner => locks[l] = k.locks[l]
      BY <1>3, <2>1, <2>2
    <2> HIDE DEF locks
    <2>5. /\ n \in Believed /\ n.pending = <<>> /\ n.count = next.count /\ n.seqid = next.seqid
          /\ n.opened = next.opened /\ n.locks = locks
      BY <1>5, <2>3, <2>4 DEF Believed
    <2>6. ASSUME NEW l \in LockOwner
          PROVE  /\ n.locks[l].seqid \in {0, 1, k.locks[l].seqid, mod32(k.locks[l].seqid + 1)}
                 /\ \/ n.locks[l].stateid \in {k.locks[l].stateid, NoStateid}
                    \/ l = r.owner /\ n.locks[l].stateid = o.stateid
      BY <2>2, <2>4, <2>5
    <2> QED BY <1>5, <1>8, <2>5, <2>6
  <1>9. CASE n = next
    BY <1>5, <1>9
  <1>10. CASE n = [next EXCEPT !.locks[r.owner].seqid = mod32(@ + 1)] /\ r.op = "LOCK"
    <2> DEFINE locks == [k.locks EXCEPT ![r.owner] = denied]
    <2>1. r.owner \in LockOwner
      BY <1>10
    <2>2. /\ denied \in Lock /\ denied.stateid = k.locks[r.owner].stateid
          /\ denied.seqid = mod32(k.locks[r.owner].seqid + 1)
      BY <1>1, <1>3, <2>1
    <2>3. [k.locks[r.owner] EXCEPT !.seqid = mod32(@ + 1)] = denied
      BY <1>3, <2>1
    <2>4. n = [next EXCEPT !.locks = locks]
      BY <1>3, <1>5, <1>10, <2>1, <2>3
    <2> HIDE DEF denied
    <2>5. /\ locks \in [LockOwner -> Lock] /\ locks[r.owner] = denied
          /\ \A l \in LockOwner : l # r.owner => locks[l] = k.locks[l]
      BY <1>3, <2>1, <2>2
    <2> HIDE DEF locks
    <2>6. /\ n \in Believed /\ n.pending = <<>> /\ n.count = next.count /\ n.seqid = next.seqid
          /\ n.opened = next.opened /\ n.locks = locks
      BY <1>5, <2>4, <2>5 DEF Believed
    <2>7. ASSUME NEW l \in LockOwner
          PROVE  /\ n.locks[l].seqid \in {0, 1, k.locks[l].seqid, mod32(k.locks[l].seqid + 1)}
                 /\ n.locks[l].stateid \in {k.locks[l].stateid, NoStateid}
      BY <2>2, <2>5, <2>6
    <2> QED BY <1>5, <2>6, <2>7
  <1>11. CASE n = forgotten
    <2>1. /\ n \in Believed /\ n.pending = <<>> /\ n.count = next.count /\ n.seqid = next.seqid
          /\ n.opened = NoStateid /\ n.locks = Unlocked
      BY <1>2, <1>4, <1>5, <1>11 DEF Believed
    <2> QED BY <1>4, <1>5, <2>1
  <1>12. r.op \in {"OPEN", "OPEN_CONFIRM", "CLOSE", "LOCK_NEW", "LOCK", "LOCKU"}
    BY DEF Request, OpenRequest, StateRequest
  <1>13. CASE o.status = "OK" /\ r.op = "OPEN"
    <2>1. n = [next EXCEPT !.opened = o.stateid, !.confirmed = o.confirmed]
      BY <1>13 DEF Learn, next
    <2> QED BY <1>6, <1>13, <2>1
  <1>14. CASE o.status = "OK" /\ r.op = "OPEN_CONFIRM"
    <2>1. n = [next EXCEPT !.opened = o.stateid, !.confirmed = TRUE]
      BY <1>14 DEF Learn, next
    <2> QED BY <1>7, <1>14, <2>1
  <1>15. CASE o.status = "OK" /\ r.op \in {"LOCK_NEW", "LOCK", "LOCKU"}
    <2>1. n = [next EXCEPT !.locks[r.owner] =
                 [stateid |-> o.stateid,
                  seqid |-> IF r.op = "LOCK_NEW" THEN 1 ELSE mod32(@.seqid + 1)]]
      BY <1>15 DEF Learn, next
    <2>2. r.owner \in LockOwner /\ next.locks = k.locks /\ next \in Believed
      BY <1>5, <1>15
    <2>3. n = [next EXCEPT !.locks[r.owner] = taken]
      BY <1>3, <2>1, <2>2
    <2> QED BY <1>8, <1>15, <2>3
  <1>16. CASE o.status = "OK" /\ r.op = "CLOSE"
    <2>1. n = forgotten
      BY <1>16 DEF Learn, next
    <2> QED BY <1>11, <2>1
  <1>17. CASE o.status = "SHARE_DENIED"
    <2>1. n = next
      BY <1>17 DEF Learn, next
    <2> QED BY <1>9, <2>1
  <1>18. CASE o.status = "DENIED"
    <2>1. CASE r.op = "LOCK"
      <3>1. n = [next EXCEPT !.locks[r.owner].seqid = mod32(@ + 1)]
        BY <1>18, <2>1 DEF Learn, next
      <3> QED BY <1>10, <2>1, <3>1
    <2>2. CASE r.op # "LOCK"
      <3>1. n = next
        BY <1>18, <2>2 DEF Learn, next
      <3> QED BY <1>9, <3>1
    <2> QED BY <2>1, <2>2
  <1>19. CASE o.status \notin {"OK", "SHARE_DENIED", "DENIED"}
    <2>1. n = forgotten
      BY <1>19 DEF Learn, next
    <2> QED BY <1>11, <2>1
  <1> QED BY <1>12, <1>13, <1>14, <1>15, <1>16, <1>17, <1>18, <1>19
=============================================================================
