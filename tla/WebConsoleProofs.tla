--------------------------- MODULE WebConsoleProofs ---------------------------
(***************************************************************************)
(* Proofs about WebConsole.tla, for any number of pages, groups, users and   *)
(* names: the tables stay well formed, the rows of a page that waits for     *)
(* nothing are current, a dialog changes what was toggled in it and nothing  *)
(* else, takes nobody from another group, and leaves nobody in a group that  *)
(* does not exist.                                                           *)
(*                                                                         *)
(* One invariant carries them all.  It follows what a page knows from the    *)
(* click to the answer: the database that the click and the list went by,    *)
(* what the dialog had checked, and what the lists of the page show between  *)
(* the moment a request is carried out and the moment its answer arrives.    *)
(***************************************************************************)
EXTENDS WebConsole, SequenceTheorems, FiniteSetTheorems, TLAPS
-----------------------------------------------------------------------------
(* What a page shows, and what a request does.  The invariant that follows has a page's     *)
(* types, what its dialogs and requests go by, and what its lists show while the answer to a *)
(* request is on its way.                                                                    *)

Ids == 0..(MaxGroup + MaxUser)
GroupRows == [id : Group, users : SUBSET User, group : {None}]
UserRows == [id : User, users : {{}}, group : Group \cup {None}]
Rows == [id : Ids, users : SUBSET User, group : Group \cup {None}]
Asks == [op : ByGet \cup Direct \cup {"content", "none"}, id : Ids, users : SUBSET User,
         group : Group \cup {None}, n : Nat, served : {"no", "ok", "error"}, seen : Seq(Database)]
Requests == [op : ByGet \cup Direct, id : Ids, users : SUBSET User, group : Group \cup {None},
             name : Name \cup {NoName}, toggled : SUBSET Ids, seen : Seq(Database),
             status : {"sent", "ok", "refused", "error"}, row : Rows]
Pages == [rows : SUBSET GroupRows, urows : SUBSET UserRows, graph : Seq(Database),
          view : {"graph", "users", "loading"}, dialog : Asks, gets : SUBSET Asks,
          post : Requests \cup {NoPost}, clicks : Nat, gdrift : SUBSET Group, udrift : SUBSET User]

\* The rows that a list has for a group and for a user, if it is up to date.
GroupTable(d) == [g \in Group |-> IF g \in Groups(d) THEN {GroupRow(d, g)} ELSE {}]
UserTable(d) == [u \in User |-> IF u \in Users(d) THEN {UserRow(d, u)} ELSE {}]
RowsOf(rows, i) == {r \in rows : r.id = i}
\* The page has yet to take in that p has succeeded.
Awaits(p, op) == p.op = op /\ p.status = "ok"
\* A list is up to date for ids, or will be with the answer to p.
Shows(rows, ids, table, p, create, modify, delete) ==
  \A i \in ids :
    IF Awaits(p, create) /\ p.row.id = i THEN RowsOf(rows, i) = {} /\ table[i] = {p.row}
    ELSE IF Awaits(p, modify) /\ p.row.id = i
      THEN table[i] = {p.row} /\ \E r \in rows : RowsOf(rows, i) = {r}
    ELSE IF Awaits(p, delete) /\ p.id = i
      THEN table[i] = {} /\ \E r \in rows : RowsOf(rows, i) = {r}
    ELSE RowsOf(rows, i) = table[i]
ListsShow(k, d) ==
  /\ Shows(k.rows, Group \ k.gdrift, GroupTable(d), k.post, "create", "modify", "delete")
  /\ Shows(k.urows, User \ k.udrift, UserTable(d), k.post, "createUser", "modifyUser", "deleteUser")

\* What was clicked is what the database had, unless the row had drifted by then.
AskTrue(k, a) ==
  /\ a.op = "modify" /\ a.id \notin k.gdrift => a.users = Members(a.seen[1], a.id)
  /\ a.op = "modifyUser" /\ a.id \notin k.udrift => a.id \in User /\ a.group = a.seen[1].of[a.id]
GetTrue(k, a) ==
  /\ AskTrue(k, a) /\ a.op \in ByGet \cup {"content"}
  /\ Len(a.seen) = IF a.served = "no" THEN 1 ELSE 2
DialogTrue(k, a) ==
  /\ AskTrue(k, a) /\ (a = NoAsk \/ a.op \in ByGet \cup Direct)
  /\ Len(a.seen) = IF a.op \in ByGet THEN 2 ELSE IF a.op = "none" THEN 0 ELSE 1
\* What the dialog had checked when it opened.
CheckedUsers(p) == Members(p.seen[1], p.id) \cap ListOf(p.seen[2], "modify", p.id)
CheckedGroup(p) ==
  IF p.seen[1].of[p.id] \in Groups(p.seen[2]) THEN p.seen[1].of[p.id] ELSE None
PostTrue(k, p) ==
  /\ p.op \in {"create", "modify"} =>
       Len(p.seen) = 2 /\ p.name \in Name /\ p.users \subseteq ListOf(p.seen[2], p.op, p.id)
  /\ p.op = "modify" /\ p.id \notin k.gdrift =>
       p.toggled = (p.users \ CheckedUsers(p)) \cup (CheckedUsers(p) \ p.users)
  /\ p.op \in {"createUser", "modifyUser"} =>
       Len(p.seen) = 2 /\ p.group \in Groups(p.seen[2]) \cup {None}
  /\ p.op = "modifyUser" /\ p.id \notin k.udrift =>
       /\ p.id \in User /\ p.group \in Groups(p.seen[2]) \cup {CheckedGroup(p)}
       /\ p.toggled = IF p.group = CheckedGroup(p) THEN {} ELSE {p.id}
  /\ Awaits(p, "create") \/ Awaits(p, "modify") => p.row \in GroupRows
  /\ Awaits(p, "createUser") \/ Awaits(p, "modifyUser") => p.row \in UserRows
PageTrue(k, d) ==
  /\ k \in Pages
  /\ \A a \in k.gets : GetTrue(k, a)
  /\ DialogTrue(k, k.dialog) /\ PostTrue(k, k.post) /\ ListsShow(k, d)
  /\ Dangling(d) \subseteq k.udrift

\* There is an id for each group and user that is being created.
RoomLeft ==
  /\ Creating("create") > 0 => NextId(Groups(db)) + Creating("create") <= MaxGroup + 1
  /\ Creating("createUser") > 0 => NextId(Users(db)) + Creating("createUser") <= MaxUser + 1

ConsoleInv ==
  /\ db \in Database /\ NamesUnique(db) /\ session \in {"up", "failed"}
  /\ con = [c \in Console |-> con[c]]
  /\ \A c \in Console : PageTrue(con[c], db)
  /\ RoomLeft
-----------------------------------------------------------------------------
(* Ids *)

\* A non-empty set of numbers has a smallest one.
LEMMA SmallestExists ==
  ASSUME NEW T \in SUBSET Nat, T # {}
  PROVE  \E x \in T : \A y \in T : x <= y
<1>1. PICK x \in T : \A y \in T : <<y, x>> \notin OpToRel(<, Nat)
  BY NatLessThanWellFounded, WFMin, Zenon
<1>2. \A y \in T : ~(y < x)
  BY <1>1, Zenon DEF OpToRel
<1> QED BY <1>2

\* The next primary key follows the largest, and is no more than one past the bound.
LEMMA NextIdFacts ==
  ASSUME NEW n \in Nat, NEW ids \in SUBSET (1..n)
  PROVE  /\ NextId(ids) \in 1..(n + 1)
         /\ \A i \in ids : i < NextId(ids)
         /\ NextId(ids) = 1 \/ NextId(ids) - 1 \in ids
<1>0. \A i \in ids : i \in Nat /\ 1 <= i /\ i <= n
  OBVIOUS
<1>1. CASE ids = {}
  BY <1>1 DEF NextId
<1>2. CASE ids # {}
  <2> DEFINE below == {n - i : i \in ids}
  <2>1. below \in SUBSET Nat /\ below # {}
    <3>1. \A i \in ids : n - i \in Nat
      BY <1>0
    <3> QED
      BY <1>2, <3>1
  <2> HIDE DEF below
  <2>2. PICK x \in below : \A y \in below : x <= y
    BY <2>1, SmallestExists
  <2>3. PICK m \in ids : x = n - m
    BY <2>2 DEF below
  <2>4. \A i \in ids : m >= i
    <3> SUFFICES ASSUME NEW i \in ids PROVE m >= i
      OBVIOUS
    <3>1. n - m <= n - i
      BY <2>2, <2>3 DEF below
    <3> QED
      BY <3>1
  <2>5. Max(ids) \in ids /\ \A i \in ids : Max(ids) >= i
    BY <2>4 DEF Max
  <2>6. NextId(ids) = Max(ids) + 1
    BY <1>2 DEF NextId
  <2>7. Max(ids) \in Nat /\ 1 <= Max(ids) /\ Max(ids) <= n
    BY <1>0, <2>5, Zenon
  <2> QED
    BY <1>0, <2>5, <2>6, <2>7
<1> QED
  BY <1>1, <1>2

\* It grows by one at most when the next id is given out, and not when ids go.
LEMMA NextIdGrows ==
  ASSUME NEW n \in Nat, NEW ids \in SUBSET (1..n), NEW new \in SUBSET (1..n)
  PROVE  /\ new \subseteq ids => NextId(new) <= NextId(ids)
         /\ new \subseteq ids \cup {NextId(ids)} => NextId(new) <= NextId(ids) + 1
<1>1. /\ NextId(ids) \in Nat /\ NextId(ids) >= 1
      /\ \A i \in ids : i < NextId(ids)
  BY NextIdFacts
<1>2. NextId(new) \in Nat /\ (NextId(new) = 1 \/ NextId(new) - 1 \in new)
  BY NextIdFacts
<1> QED
  BY <1>1, <1>2
-----------------------------------------------------------------------------
(* Tables *)

\* The columns of the tables, and the ids in use.
LEMMA DatabaseFields ==
  ASSUME NEW d \in Database
  PROVE  /\ d.name \in [Group -> Name \cup {NoName}]
         /\ d.of \in [User -> Group \cup {None, Absent}]
         /\ Groups(d) \in SUBSET Group /\ Users(d) \in SUBSET User
         /\ NoName \notin Name
  BY ConsoleAssumption DEF Database, Groups, Users

\* Moving users to a group changes nothing but their group.
LEMMA MovedFacts ==
  ASSUME NEW d \in Database, NEW users, NEW g \in Group \cup {None}
  PROVE  LET m == Moved(d, users, g)
         IN /\ m \in Database /\ m.name = d.name
            /\ Groups(m) = Groups(d) /\ Users(m) = Users(d)
            /\ \A u \in User : m.of[u] = IF u \in users /\ u \in Users(d) THEN g ELSE d.of[u]
<1> DEFINE of == [u \in User |-> IF u \in users \cap Users(d) THEN g ELSE d.of[u]]
           m == [d EXCEPT !.of = of]
<1>1. of \in [User -> Group \cup {None, Absent}]
  BY DatabaseFields
<1>2. \A u \in User : of[u] # Absent <=> d.of[u] # Absent
  BY DEF Users, Group, None, Absent
<1>3. \A u \in User : of[u] = IF u \in users /\ u \in Users(d) THEN g ELSE d.of[u]
  OBVIOUS
<1> HIDE DEF of
<1>4. m \in Database /\ m.name = d.name /\ m.of = of
  BY <1>1 DEF Database
<1>5. Moved(d, users, g) = m
  BY Zenon DEF Moved, of
<1> HIDE DEF m
<1>6. Groups(m) = Groups(d) /\ Users(m) = Users(d)
  BY <1>2, <1>4 DEF Groups, Users
<1> QED
  BY <1>3, <1>4, <1>5, <1>6, Zenon

\* Naming a group, or unnaming it, changes nothing but whether it exists.
LEMMA NamedFacts ==
  ASSUME NEW d \in Database, NEW g \in Group, NEW name \in Name \cup {NoName}
  PROVE  LET e == [d EXCEPT !.name[g] = name]
         IN /\ e \in Database /\ e.of = d.of /\ Users(e) = Users(d)
            /\ \A h \in Group : e.name[h] = IF h = g THEN name ELSE d.name[h]
            /\ name = NoName => Groups(e) = Groups(d) \ {g}
            /\ name # NoName => Groups(e) = Groups(d) \cup {g}
<1> DEFINE names == [d.name EXCEPT ![g] = name]
           e == [d EXCEPT !.name = names]
<1>1. /\ names \in [Group -> Name \cup {NoName}]
      /\ \A h \in Group : names[h] = IF h = g THEN name ELSE d.name[h]
  BY DatabaseFields
<1> HIDE DEF names
<1>2. e \in Database /\ e.of = d.of /\ e.name = names
  BY <1>1 DEF Database
<1>3. e = [d EXCEPT !.name[g] = name]
  BY Zenon DEF names
<1> HIDE DEF e
<1>4. Users(e) = Users(d)
  BY <1>2 DEF Users
<1>5. /\ name = NoName => Groups(e) = Groups(d) \ {g}
      /\ name # NoName => Groups(e) = Groups(d) \cup {g}
  BY <1>1, <1>2 DEF Groups
<1> QED
  BY <1>1, <1>2, <1>3, <1>4, <1>5, Zenon

\* Giving a user a group, or none at all, changes nobody else.
LEMMA OfFacts ==
  ASSUME NEW d \in Database, NEW u \in User, NEW g \in Group \cup {None, Absent}
  PROVE  LET e == [d EXCEPT !.of[u] = g]
         IN /\ e \in Database /\ e.name = d.name /\ Groups(e) = Groups(d)
            /\ \A v \in User : e.of[v] = IF v = u THEN g ELSE d.of[v]
            /\ g = Absent => Users(e) = Users(d) \ {u}
            /\ g # Absent => Users(e) = Users(d) \cup {u}
<1> DEFINE of == [d.of EXCEPT ![u] = g]
           e == [d EXCEPT !.of = of]
<1>1. /\ of \in [User -> Group \cup {None, Absent}]
      /\ \A v \in User : of[v] = IF v = u THEN g ELSE d.of[v]
  BY DatabaseFields
<1> HIDE DEF of
<1>2. e \in Database /\ e.name = d.name /\ e.of = of
  BY <1>1 DEF Database
<1>3. e = [d EXCEPT !.of[u] = g]
  BY Zenon DEF of
<1> HIDE DEF e
<1>4. Groups(e) = Groups(d)
  BY <1>2 DEF Groups
<1>5. /\ g = Absent => Users(e) = Users(d) \ {u}
      /\ g # Absent => Users(e) = Users(d) \cup {u}
  BY <1>1, <1>2 DEF Users
<1> QED
  BY <1>1, <1>2, <1>3, <1>4, <1>5, Zenon

\* The rows of to_dict, and their types.
LEMMA RowFacts ==
  ASSUME NEW d \in Database
  PROVE  /\ NoRow \in Rows
         /\ \A g \in Group : GroupRow(d, g) \in GroupRows /\ GroupRow(d, g).id = g
                             /\ GroupRow(d, g).users = Members(d, g)
         /\ \A u \in Users(d) : UserRow(d, u) \in UserRows /\ UserRow(d, u).id = u
                                /\ UserRow(d, u).group = d.of[u]
         /\ GroupRows \subseteq Rows /\ UserRows \subseteq Rows
<1>1. NoRow \in Rows
  BY ConsoleAssumption DEF NoRow, Rows, Ids, None
<1>2. NoRow \in [id : {0} \cup Group \cup User, users : SUBSET User, group : Group \cup {None}]
      /\ NoRow.users = {} /\ NoRow.group = None
  BY DEF NoRow, None
<1>3. ASSUME NEW g \in Group
      PROVE  /\ GroupRow(d, g) \in GroupRows /\ GroupRow(d, g).id = g
             /\ GroupRow(d, g).users = Members(d, g)
  <2>1. Members(d, g) \in SUBSET User
    BY DEF Members
  <2> HIDE DEF Members
  <2> QED
    BY <1>2, <2>1 DEF GroupRow, GroupRows
<1>4. ASSUME NEW u \in Users(d)
      PROVE  /\ UserRow(d, u) \in UserRows /\ UserRow(d, u).id = u
             /\ UserRow(d, u).group = d.of[u]
  <2>1. u \in User /\ d.of[u] \in Group \cup {None}
    BY DatabaseFields DEF Users
  <2> QED
    BY <1>2, <2>1 DEF UserRow, UserRows
<1>5. Group \subseteq Ids /\ User \subseteq Ids
  BY ConsoleAssumption DEF Group, User, Ids
<1>6. GroupRows \subseteq Rows /\ UserRows \subseteq Rows
  BY <1>5 DEF GroupRows, UserRows, Rows, None
<1> QED
  BY <1>1, <1>3, <1>4, <1>6
-----------------------------------------------------------------------------
(* The handlers *)

\* What comes of a request p that finds the database d, whichever handler takes it.
Effect(d, p, o) ==
  /\ o.db \in Database /\ NamesUnique(o.db) /\ o.session \in {"up", "failed"}
  /\ o.status \in {"ok", "refused", "error"} /\ o.row \in Rows
  /\ Groups(o.db) \subseteq Groups(d) \cup (IF p.op = "create" THEN {NextId(Groups(d))} ELSE {})
  /\ Users(o.db) \subseteq Users(d) \cup (IF p.op = "createUser" THEN {NextId(Users(d))} ELSE {})
  /\ o.status = "ok" /\ p.op = "create" =>
       o.row.id \in Groups(o.db) \ Groups(d) /\ o.row = GroupRow(o.db, o.row.id)
  /\ o.status = "ok" /\ p.op = "modify" =>
       o.row.id \in Groups(o.db) \cap Groups(d) /\ o.row = GroupRow(o.db, o.row.id)
  /\ o.status = "ok" /\ p.op = "delete" => p.id \in Groups(d) \ Groups(o.db)
  /\ o.status = "ok" /\ p.op = "createUser" =>
       o.row.id \in Users(o.db) \ Users(d) /\ o.row = UserRow(o.db, o.row.id)
  /\ o.status = "ok" /\ p.op = "modifyUser" =>
       o.row.id \in Users(o.db) \cap Users(d) /\ o.row = UserRow(o.db, o.row.id)
  /\ o.status = "ok" /\ p.op = "deleteUser" => p.id \in Users(d) \ Users(o.db)
\* Nobody is left with a group that does not exist, unless he was before or is put in one:
\* then no page learns of it.
KeepsReferences(d, p, o) ==
  /\ Dangling(o.db) \subseteq Dangling(d) \cup (Regrouped(d, o.db) \ Shown(p, o).users)
  /\ (p.op \in {"createUser", "modifyUser"} => p.group \in Groups(d) \cup {None}) =>
       Dangling(o.db) \subseteq Dangling(d)
\* What a handler can rely on.
Acceptable(d, p) ==
  /\ d \in Database /\ NamesUnique(d) /\ p \in Requests
  /\ p.op \in {"create", "modify"} => p.name \in Name
  /\ p.op = "create" => NextId(Groups(d)) \in Group
  /\ p.op = "createUser" => NextId(Users(d)) \in User

\* What the ways of answering come to.
LEMMA OutcomeFacts ==
  ASSUME NEW d, NEW row, NEW o
  PROVE  /\ o \in Changed(d, row) => o.db = d /\ o.session = "up" /\ o.status = "ok" /\ o.row = row
         /\ o \in Refused(d) =>
              o.db = d /\ o.session = "up" /\ o.status = "refused" /\ o.row = NoRow
         /\ o \in Raised(d) => o.db = d /\ o.session = "up" /\ o.status = "error" /\ o.row = NoRow
         /\ o \in FlushFails(d) =>
              o.db = d /\ o.session = "failed" /\ o.status = "error" /\ o.row = NoRow
<1>1. o \in Changed(d, row) => o.db = d /\ o.session = "up" /\ o.status = "ok" /\ o.row = row
  BY DEF Changed, Outcome
<1>2. o \in Refused(d) => o.db = d /\ o.session = "up" /\ o.status = "refused" /\ o.row = NoRow
  BY DEF Refused, Outcome
<1>3. o \in Raised(d) => o.db = d /\ o.session = "up" /\ o.status = "error" /\ o.row = NoRow
  BY DEF Raised, Outcome
<1>4. o \in FlushFails(d) =>
        o.db = d /\ o.session = "failed" /\ o.status = "error" /\ o.row = NoRow
  <2> DEFINE e == Outcome(d, "error", NoRow)
  <2>1. e = [db |-> d, session |-> "up", status |-> "error", row |-> NoRow]
    BY DEF Outcome
  <2> HIDE DEF e
  <2>2. [e EXCEPT !.session = "failed"] =
          [db |-> d, session |-> "failed", status |-> "error", row |-> NoRow]
    BY <2>1
  <2>3. o \in FlushFails(d) => o = [e EXCEPT !.session = "failed"]
    BY Zenon DEF FlushFails, e
  <2> QED
    BY <2>2, <2>3
<1> QED
  BY <1>1, <1>2, <1>3, <1>4

\* A request that comes to nothing.
LEMMA NothingDone ==
  ASSUME NEW d, NEW p, Acceptable(d, p), NEW o,
         o \in Refused(d) \/ o \in Raised(d) \/ o \in FlushFails(d)
  PROVE  Effect(d, p, o) /\ KeepsReferences(d, p, o)
<1>1. /\ o.db = d /\ o.session \in {"up", "failed"} /\ o.status \in {"refused", "error"}
      /\ o.row = NoRow
  BY OutcomeFacts
<1>2. NoRow \in Rows
  BY RowFacts DEF Acceptable
<1> QED
  BY <1>1, <1>2 DEF Effect, KeepsReferences, Acceptable

\* group_create: a new group with the next id, or nothing.
LEMMA CreateEffect ==
  ASSUME NEW d, NEW p, p.op = "create", Acceptable(d, p), NEW o \in group_create(d, p)
  PROVE  Effect(d, p, o) /\ KeepsReferences(d, p, o)
<1> DEFINE g == NextId(Groups(d))
           m == Moved(d, p.users, g)
           new == [m EXCEPT !.name[g] = Lower[p.name]]
<1>1. /\ d \in Database /\ NamesUnique(d) /\ g \in Group
      /\ Lower[p.name] \in Name \cup {NoName} /\ Lower[p.name] # NoName
  BY ConsoleAssumption DEF Acceptable
<1>2. CASE o \in Refused(d) \/ o \in FlushFails(d)
  BY <1>2, NothingDone
<1>3. CASE /\ o \in Changed(new, GroupRow(new, g))
           /\ \A h \in Groups(d) : d.name[h] # Lower[p.name]
  <2>1. /\ m \in Database /\ m.name = d.name /\ Groups(m) = Groups(d) /\ Users(m) = Users(d)
        /\ \A u \in User : m.of[u] = IF u \in p.users /\ u \in Users(d) THEN g ELSE d.of[u]
    BY <1>1, MovedFacts
  <2>2. g \notin Groups(d)
    <3>1. Groups(d) \in SUBSET (1..MaxGroup) /\ MaxGroup \in Nat
      BY <1>1, DatabaseFields, ConsoleAssumption DEF Group
    <3>2. \A i \in Groups(d) : i < g
      BY <3>1, NextIdFacts
    <3> QED
      BY <1>1, <3>2, ConsoleAssumption DEF Group
  <2>3. o.db = new /\ o.session = "up" /\ o.status = "ok" /\ o.row = GroupRow(new, g)
    BY <1>3, OutcomeFacts
  <2> HIDE DEF m, g
  <2>4. /\ new \in Database /\ new.of = m.of /\ Users(new) = Users(m)
        /\ \A h \in Group : new.name[h] = IF h = g THEN Lower[p.name] ELSE m.name[h]
        /\ Groups(new) = Groups(m) \cup {g}
    <3> DEFINE name == Lower[p.name]
    <3>1. name \in Name \cup {NoName} /\ name # NoName
      BY <1>1
    <3> HIDE DEF name
    <3> DEFINE e == [m EXCEPT !.name[g] = name]
    <3>2. /\ e \in Database /\ e.of = m.of /\ Users(e) = Users(m)
          /\ \A h \in Group : e.name[h] = IF h = g THEN name ELSE m.name[h]
          /\ name # NoName => Groups(e) = Groups(m) \cup {g}
      BY <1>1, <2>1, <3>1, NamedFacts
    <3> QED
      BY <3>1, <3>2, Zenon DEF name
  <2> HIDE DEF new
  <2>5. NamesUnique(new)
    <3>1. \A h \in Groups(d) : h \in Group
      BY <1>1, DatabaseFields
    <3> QED
      BY <1>1, <1>3, <2>1, <2>4, <3>1 DEF NamesUnique
  <2>6. GroupRow(new, g) \in Rows /\ GroupRow(new, g).id = g
    BY <1>1, <2>4, RowFacts
  <2>7. Effect(d, p, o)
    BY <2>1, <2>2, <2>3, <2>4, <2>5, <2>6 DEF Effect, g
  <2>8. Dangling(new) \subseteq Dangling(d)
    <3>1. \A u \in Users(d) : u \in User
      BY <1>1, DatabaseFields
    <3> QED
      BY <2>1, <2>4, <3>1 DEF Dangling
  <2> QED
    BY <2>3, <2>7, <2>8 DEF KeepsReferences
<1> QED
  BY <1>2, <1>3, Zenon DEF group_create

\* group_update: another name and other members for a group, or nothing.
LEMMA UpdateEffect ==
  ASSUME NEW d, NEW p, p.op = "modify", Acceptable(d, p), NEW o \in group_update(d, p)
  PROVE  Effect(d, p, o) /\ KeepsReferences(d, p, o)
<1> DEFINE emptied == Moved(d, Members(d, p.id), None)
           m == Moved(emptied, p.users, p.id)
           new == [m EXCEPT !.name[p.id] = p.name]
<1>1. d \in Database /\ NamesUnique(d) /\ p.name \in Name /\ NoName \notin Name
  BY ConsoleAssumption DEF Acceptable
<1>2. CASE o \in Refused(d) \/ o \in Raised(d)
  BY <1>2, NothingDone
<1>3. CASE /\ o \in Changed(new, GroupRow(new, p.id)) /\ p.id \in Groups(d)
           /\ \A h \in Groups(d) \ {p.id} : d.name[h] # p.name
  <2>0. p.id \in Group
    BY <1>1, <1>3, DatabaseFields
  <2>1. /\ emptied \in Database /\ emptied.name = d.name
        /\ Groups(emptied) = Groups(d) /\ Users(emptied) = Users(d)
        /\ \A u \in User : emptied.of[u] = IF u \in Members(d, p.id) /\ u \in Users(d)
                                           THEN None ELSE d.of[u]
    BY <1>1, MovedFacts
  <2>2. o.db = new /\ o.session = "up" /\ o.status = "ok" /\ o.row = GroupRow(new, p.id)
    BY <1>3, OutcomeFacts
  <2> HIDE DEF emptied
  <2>3. /\ m \in Database /\ m.name = emptied.name
        /\ Groups(m) = Groups(emptied) /\ Users(m) = Users(emptied)
        /\ \A u \in User : m.of[u] = IF u \in p.users /\ u \in Users(emptied)
                                     THEN p.id ELSE emptied.of[u]
    BY <2>0, <2>1, MovedFacts
  <2> HIDE DEF m
  <2>4. /\ new \in Database /\ new.of = m.of /\ Users(new) = Users(m)
        /\ \A h \in Group : new.name[h] = IF h = p.id THEN p.name ELSE m.name[h]
        /\ Groups(new) = Groups(m) \cup {p.id}
    <3>1. p.name \in Name \cup {NoName} /\ p.name # NoName
      BY <1>1
    <3> QED
      BY <2>0, <2>3, <3>1, NamedFacts, SMTT(30)
  <2> HIDE DEF new
  <2>5. Groups(new) = Groups(d) /\ Users(new) = Users(d)
    BY <1>3, <2>1, <2>3, <2>4
  <2>6. NamesUnique(new)
    <3>1. \A h \in Groups(d) : h \in Group
      BY <1>1, DatabaseFields
    <3> QED
      BY <1>1, <1>3, <2>1, <2>3, <2>4, <2>5, <3>1 DEF NamesUnique
  <2>7. GroupRow(new, p.id) \in Rows /\ GroupRow(new, p.id).id = p.id
    BY <2>0, <2>4, RowFacts
  <2>8. Effect(d, p, o)
    BY <1>3, <2>2, <2>4, <2>5, <2>6, <2>7 DEF Effect
  <2>9. Dangling(new) \subseteq Dangling(d)
    <3>1. \A u \in Users(d) : u \in User
      BY <1>1, DatabaseFields
    <3> QED
      BY <1>3, <2>1, <2>3, <2>4, <2>5, <3>1 DEF Dangling
  <2> QED
    BY <2>2, <2>8, <2>9 DEF KeepsReferences
<1> QED
  BY <1>2, <1>3, Zenon DEF group_update

\* group_delete: the group goes and its members stay, or nothing.
LEMMA DeleteEffect ==
  ASSUME NEW d, NEW p, p.op = "delete", Acceptable(d, p), NEW o \in group_delete(d, p)
  PROVE  Effect(d, p, o) /\ KeepsReferences(d, p, o)
<1> DEFINE m == Moved(d, Members(d, p.id), None)
           new == [m EXCEPT !.name[p.id] = NoName]
<1>1. d \in Database /\ NamesUnique(d)
  BY DEF Acceptable
<1>2. CASE o \in Raised(d)
  BY <1>2, NothingDone
<1>3. CASE o \in Changed(new, NoRow) /\ p.id \in Groups(d)
  <2>0. p.id \in Group
    BY <1>1, <1>3, DatabaseFields
  <2>1. /\ m \in Database /\ m.name = d.name /\ Groups(m) = Groups(d) /\ Users(m) = Users(d)
        /\ \A u \in User : m.of[u] = IF u \in Members(d, p.id) /\ u \in Users(d)
                                     THEN None ELSE d.of[u]
    BY <1>1, MovedFacts
  <2>2. o.db = new /\ o.session = "up" /\ o.status = "ok" /\ o.row = NoRow
    BY <1>3, OutcomeFacts
  <2> HIDE DEF m
  <2>3. /\ new \in Database /\ new.of = m.of /\ Users(new) = Users(m)
        /\ \A h \in Group : new.name[h] = IF h = p.id THEN NoName ELSE m.name[h]
        /\ Groups(new) = Groups(m) \ {p.id}
    BY <2>0, <2>1, NamedFacts, SMTT(30)
  <2> HIDE DEF new
  <2>4. NamesUnique(new)
    <3>1. \A h \in Groups(d) : h \in Group
      BY <1>1, DatabaseFields
    <3> QED
      BY <1>1, <2>1, <2>3, <3>1 DEF NamesUnique
  <2>5. NoRow \in Rows
    BY <1>1, RowFacts
  <2>6. Effect(d, p, o)
    BY <1>3, <2>1, <2>2, <2>3, <2>4, <2>5 DEF Effect
  <2>7. Dangling(new) \subseteq Dangling(d)
    <3>1. \A u \in Users(d) : u \in User
      BY <1>1, DatabaseFields
    <3> QED
      BY <2>1, <2>3, <3>1 DEF Dangling, Members
  <2> QED
    BY <2>2, <2>6, <2>7 DEF KeepsReferences
<1> QED
  BY <1>2, <1>3, Zenon DEF group_delete

\* Users leave a group, or join one that exists.
LEMMA MoveEffect ==
  ASSUME NEW d, NEW p, Acceptable(d, p), NEW o,
         \/ p.op = "removeUser" /\ o \in group_removeuser(d, p)
         \/ p.op = "updateUserGroup" /\ o \in group_addusertogroup(d, p)
  PROVE  Effect(d, p, o) /\ KeepsReferences(d, p, o)
<1>1. d \in Database /\ NamesUnique(d)
  BY DEF Acceptable
<1>2. CASE o \in Raised(d)
  BY <1>2, NothingDone
<1>3. ASSUME NEW users, NEW g \in Groups(d) \cup {None},
             \/ o \in Changed(Moved(d, users, g), NoRow)
             \/ o \in Raised(Moved(d, users, g))
      PROVE  Effect(d, p, o) /\ KeepsReferences(d, p, o)
  <2> DEFINE m == Moved(d, users, g)
  <2>0. g \in Group \cup {None}
    BY <1>1, DatabaseFields
  <2>1. /\ m \in Database /\ m.name = d.name /\ Groups(m) = Groups(d) /\ Users(m) = Users(d)
        /\ \A u \in User : m.of[u] = IF u \in users /\ u \in Users(d) THEN g ELSE d.of[u]
    BY <1>1, <2>0, MovedFacts
  <2>2. o.db = m /\ o.session = "up" /\ o.status \in {"ok", "error"} /\ o.row = NoRow
    BY <1>3, OutcomeFacts
  <2> HIDE DEF m
  <2>3. NamesUnique(m)
    BY <1>1, <2>1 DEF NamesUnique
  <2>4. NoRow \in Rows
    BY <1>1, RowFacts
  <2>5. Effect(d, p, o)
    BY <2>1, <2>2, <2>3, <2>4 DEF Effect
  <2>6. Dangling(m) \subseteq Dangling(d)
    <3>1. \A u \in Users(d) : u \in User
      BY <1>1, DatabaseFields
    <3> QED
      BY <2>1, <3>1 DEF Dangling
  <2> QED
    BY <2>2, <2>5, <2>6 DEF KeepsReferences
<1>4. CASE o \in group_removeuser(d, p)
  <2>1. \/ o \in Raised(d)
        \/ o \in Changed(Moved(d, p.users \cap Members(d, p.id), None), NoRow)
        \/ \E removed : o \in Raised(Moved(d, removed, None))
    BY <1>4, Zenon DEF group_removeuser
  <2> QED
    BY <1>2, <1>3, <2>1, Zenon
<1>5. CASE o \in group_addusertogroup(d, p)
  <2>1. \/ o \in Raised(d)
        \/ p.id \in Groups(d) /\ o \in Changed(Moved(d, p.users, p.id), NoRow)
    BY <1>5, Zenon DEF group_addusertogroup
  <2> QED
    BY <1>2, <1>3, <2>1, Zenon
<1> QED
  BY <1>4, <1>5, Zenon

\* A user is stored, and what he is answered with.
LEMMA StoreEffect ==
  ASSUME NEW d, NEW p, p.op \in {"createUser", "modifyUser"}, Acceptable(d, p), NEW u \in User,
         IF p.op = "createUser" THEN u = NextId(Users(d)) ELSE u \in Users(d),
         NEW o \in Committed([d EXCEPT !.of[u] = p.group], u)
  PROVE  Effect(d, p, o) /\ KeepsReferences(d, p, o)
<1> DEFINE e == [d EXCEPT !.of[u] = p.group]
<1>1. d \in Database /\ NamesUnique(d) /\ p.group \in Group \cup {None}
  BY DEF Acceptable, Requests
<1>2. p.group # Absent
  BY <1>1, ConsoleAssumption DEF Group, None, Absent
<1>3. /\ e \in Database /\ e.name = d.name /\ Groups(e) = Groups(d)
      /\ \A v \in User : e.of[v] = IF v = u THEN p.group ELSE d.of[v]
      /\ Users(e) = Users(d) \cup {u}
  <2>1. p.group \in Group \cup {None, Absent}
    BY <1>1
  <2> QED
    BY <1>1, <1>2, <2>1, OfFacts
<1>4. p.op = "createUser" => u \notin Users(d)
  <2>1. Users(d) \in SUBSET (1..MaxUser) /\ MaxUser \in Nat
    BY <1>1, DatabaseFields, ConsoleAssumption DEF User
  <2>2. \A i \in Users(d) : i < NextId(Users(d))
    BY <2>1, NextIdFacts
  <2> QED
    BY <2>1, <2>2 DEF User
<1> HIDE DEF e
<1>5. NamesUnique(e)
  BY <1>1, <1>3 DEF NamesUnique
<1>6. UserRow(e, u) \in Rows /\ UserRow(e, u).id = u /\ NoRow \in Rows
  BY <1>3, RowFacts
<1>7. /\ o.db = e /\ o.session = "up"
      /\ \/ o.status = "error" /\ o.row = NoRow
         \/ o.status = "ok" /\ o.row = UserRow(e, u) /\ u \notin Dangling(e)
  <2>1. o \in Raised(e) \/ (u \notin Dangling(e) /\ o \in Changed(e, UserRow(e, u)))
    BY Zenon DEF Committed, e
  <2> QED
    BY <2>1, OutcomeFacts
<1>8. Effect(d, p, o)
  BY <1>3, <1>4, <1>5, <1>6, <1>7 DEF Effect
<1>9. p.group \in Groups(d) \cup {None} => Dangling(e) \subseteq Dangling(d)
  <2>1. \A v \in Users(e) : v \in User
    BY <1>3, DatabaseFields
  <2> QED
    BY <1>3, <2>1 DEF Dangling
<1>10. Dangling(e) \subseteq Dangling(d) \cup (Regrouped(d, e) \ Shown(p, o).users)
  <2> SUFFICES ASSUME NEW v \in Dangling(e), v \notin Dangling(d)
               PROVE  v \in Regrouped(d, e) /\ v \notin Shown(p, o).users
    OBVIOUS
  <2>1. v \in User /\ v \in Users(e) /\ e.of[v] # None /\ e.of[v] \notin Groups(d)
    BY <1>3, DatabaseFields DEF Dangling
  <2>2. v = u
    BY <1>3, <2>1 DEF Dangling
  <2>3. d.of[u] # e.of[u]
    BY <1>1, <1>2, <1>3, <2>1, <2>2 DEF Dangling, Users
  <2>4. o.status # "ok"
    BY <1>7, <2>2
  <2>5. Shown(p, o).users = {}
    BY <2>4 DEF Shown
  <2> QED
    BY <2>1, <2>2, <2>3, <2>5 DEF Regrouped
<1> QED
  BY <1>7, <1>8, <1>9, <1>10 DEF KeepsReferences

\* user_create, user_update and user_delete.
LEMMA UserEffect ==
  ASSUME NEW d, NEW p, Acceptable(d, p), NEW o,
         \/ p.op = "createUser" /\ o \in user_create(d, p)
         \/ p.op = "modifyUser" /\ o \in user_update(d, p)
         \/ p.op = "deleteUser" /\ o \in user_delete(d, p)
  PROVE  Effect(d, p, o) /\ KeepsReferences(d, p, o)
<1>1. d \in Database /\ NamesUnique(d)
  BY DEF Acceptable
<1>2. CASE o \in Refused(d) \/ o \in Raised(d) \/ o \in FlushFails(d)
  BY <1>2, NothingDone
<1>3. CASE /\ p.op = "createUser"
           /\ o \in Committed([d EXCEPT !.of[NextId(Users(d))] = p.group], NextId(Users(d)))
  <2>1. NextId(Users(d)) \in User
    BY <1>3 DEF Acceptable
  <2> QED
    BY <1>3, <2>1, StoreEffect
<1>4. CASE /\ p.op = "modifyUser" /\ p.id \in Users(d)
           /\ o \in Committed([d EXCEPT !.of[p.id] = p.group], p.id)
  <2>1. p.id \in User /\ p.op # "createUser"
    BY <1>1, <1>4, DatabaseFields
  <2> QED
    BY <1>4, <2>1, StoreEffect
<1>5. CASE /\ p.op = "deleteUser" /\ p.id \in Users(d)
           /\ o \in Changed([d EXCEPT !.of[p.id] = Absent], NoRow)
  <2> DEFINE e == [d EXCEPT !.of[p.id] = Absent]
  <2>1. p.id \in User
    BY <1>1, <1>5, DatabaseFields
  <2>2. /\ e \in Database /\ e.name = d.name /\ Groups(e) = Groups(d)
        /\ \A v \in User : e.of[v] = IF v = p.id THEN Absent ELSE d.of[v]
        /\ Users(e) = Users(d) \ {p.id}
    <3>1. ASSUME NEW u \in User, NEW g \in Group \cup {None, Absent}
          PROVE  LET f == [d EXCEPT !.of[u] = g]
                 IN /\ f \in Database /\ f.name = d.name /\ Groups(f) = Groups(d)
                    /\ \A v \in User : f.of[v] = IF v = u THEN g ELSE d.of[v]
                    /\ g = Absent => Users(f) = Users(d) \ {u}
                    /\ g # Absent => Users(f) = Users(d) \cup {u}
      BY <1>1, OfFacts
    <3>2. Absent \in Group \cup {None, Absent}
      OBVIOUS
    <3> QED
      BY <2>1, <3>1, <3>2, Zenon
  <2>3. o.db = e /\ o.session = "up" /\ o.status = "ok" /\ o.row = NoRow
    BY <1>5, OutcomeFacts
  <2> HIDE DEF e
  <2>4. NamesUnique(e)
    BY <1>1, <2>2 DEF NamesUnique
  <2>5. NoRow \in Rows
    BY <1>1, RowFacts
  <2>6. Effect(d, p, o)
    BY <1>5, <2>2, <2>3, <2>4, <2>5 DEF Effect
  <2>7. Dangling(e) \subseteq Dangling(d)
    <3>1. \A v \in Users(e) : v \in User
      BY <2>2, DatabaseFields
    <3> QED
      BY <2>2, <3>1 DEF Dangling
  <2> QED
    BY <2>3, <2>6, <2>7 DEF KeepsReferences
<1>6. CASE o \in user_create(d, p) /\ p.op = "createUser"
  BY <1>2, <1>3, <1>6, Zenon DEF user_create
<1>7. CASE o \in user_update(d, p) /\ p.op = "modifyUser"
  BY <1>2, <1>4, <1>7, Zenon DEF user_update
<1>8. CASE o \in user_delete(d, p) /\ p.op = "deleteUser"
  BY <1>2, <1>5, <1>8, Zenon DEF user_delete
<1> QED
  BY <1>6, <1>7, <1>8, Zenon

\* Perform, one handler for each op.
LEMMA PerformCases ==
  ASSUME NEW d, NEW p, p.op \in ByGet \cup Direct
  PROVE  Perform(d, p) = IF p.op = "create" THEN group_create(d, p)
                         ELSE IF p.op = "modify" THEN group_update(d, p)
                         ELSE IF p.op = "delete" THEN group_delete(d, p)
                         ELSE IF p.op = "removeUser" THEN group_removeuser(d, p)
                         ELSE IF p.op = "updateUserGroup" THEN group_addusertogroup(d, p)
                         ELSE IF p.op = "createUser" THEN user_create(d, p)
                         ELSE IF p.op = "modifyUser" THEN user_update(d, p)
                         ELSE user_delete(d, p)
  BY DEF Perform, ByGet, Direct

\* Every handler.
LEMMA PerformEffect ==
  ASSUME NEW d, NEW p, Acceptable(d, p), NEW o \in Perform(d, p)
  PROVE  Effect(d, p, o) /\ KeepsReferences(d, p, o)
<1>1. p.op \in ByGet \cup Direct
  BY DEF Acceptable, Requests
<1>2. \/ p.op = "create" /\ o \in group_create(d, p)
      \/ p.op = "modify" /\ o \in group_update(d, p)
      \/ p.op = "delete" /\ o \in group_delete(d, p)
      \/ p.op = "removeUser" /\ o \in group_removeuser(d, p)
      \/ p.op = "updateUserGroup" /\ o \in group_addusertogroup(d, p)
      \/ p.op = "createUser" /\ o \in user_create(d, p)
      \/ p.op = "modifyUser" /\ o \in user_update(d, p)
      \/ p.op = "deleteUser" /\ o \in user_delete(d, p)
  <2>1. p.op \in {"create", "modify", "delete", "removeUser", "updateUserGroup", "createUser",
                  "modifyUser", "deleteUser"}
    BY <1>1 DEF ByGet, Direct
  <2> QED
    BY <1>1, <2>1, PerformCases
<1> QED
  BY <1>2, CreateEffect, UpdateEffect, DeleteEffect, MoveEffect, UserEffect, Zenon
-----------------------------------------------------------------------------
(* Lists *)

\* As long as no success is awaited, a list that is kept up to date is so.
LEMMA Settled ==
  ASSUME NEW rows, NEW ids, NEW table, NEW p, NEW x, NEW y, NEW z,
         ~Awaits(p, x), ~Awaits(p, y), ~Awaits(p, z)
  PROVE  Shows(rows, ids, table, p, x, y, z) <=> \A i \in ids : RowsOf(rows, i) = table[i]
  BY Zenon DEF Shows

\* The list of a page that has nothing to do with a request.
LEMMA OthersShow ==
  ASSUME NEW rows, NEW ids, NEW table, NEW p, NEW x, NEW y, NEW z,
         Shows(rows, ids, table, p, x, y, z),
         NEW ids2 \in SUBSET ids, NEW table2, \A i \in ids2 : table2[i] = table[i]
  PROVE  Shows(rows, ids2, table2, p, x, y, z)
<1>1. \A i \in ids2 : i \in ids
  OBVIOUS
<1> QED
  BY <1>1, Zenon DEF Shows

\* What becomes of i in the table behind a list, when the request that is now q is served.
Becomes(table, table2, i, q, x, y, z) ==
  IF Awaits(q, x) /\ q.row.id = i THEN table[i] = {} /\ table2[i] = {q.row}
  ELSE IF Awaits(q, y) /\ q.row.id = i THEN table2[i] = {q.row} /\ \E r : table[i] = {r}
  ELSE IF Awaits(q, z) /\ q.id = i THEN table2[i] = {} /\ \E r : table[i] = {r}
  ELSE table2[i] = table[i]

\* The list of the page that sent the request.
LEMMA SenderShows ==
  ASSUME NEW rows, NEW ids, NEW table, NEW x, NEW y, NEW z,
         \A i \in ids : RowsOf(rows, i) = table[i],
         NEW q, NEW ids2 \in SUBSET ids, NEW table2,
         \A i \in ids2 : Becomes(table, table2, i, q, x, y, z)
  PROVE  Shows(rows, ids2, table2, q, x, y, z)
<1>1. \A i \in ids2 : i \in ids
  OBVIOUS
<1>2. ASSUME NEW i \in ids2, NEW r, table[i] = {r}
      PROVE  \E s \in rows : RowsOf(rows, i) = {s}
  <2>1. RowsOf(rows, i) = {r}
    BY <1>1, <1>2
  <2>2. r \in rows
    BY <2>1 DEF RowsOf
  <2> QED
    BY <2>1, <2>2
<1> QED
  BY <1>1, <1>2, Zenon DEF Shows, Becomes

\* What an answer makes of a list: a row is added, replaced or removed.
LEMMA AddedShows ==
  ASSUME NEW rows, NEW ids, NEW table, NEW p, NEW x, NEW y, NEW z, x # y, x # z,
         Shows(rows, ids, table, p, x, y, z), Awaits(p, x), NEW i \in ids
  PROVE  RowsOf(rows \cup {p.row}, i) = table[i]
<1>1. ~Awaits(p, y) /\ ~Awaits(p, z)
  BY DEF Awaits
<1>2. CASE p.row.id = i
  <2>1. RowsOf(rows, i) = {} /\ table[i] = {p.row}
    BY <1>2, Zenon DEF Shows
  <2> QED
    BY <1>2, <2>1 DEF RowsOf
<1>3. CASE p.row.id # i
  <2>1. RowsOf(rows, i) = table[i]
    BY <1>1, <1>3, Zenon DEF Shows
  <2> QED
    BY <1>3, <2>1 DEF RowsOf
<1> QED
  BY <1>2, <1>3

\* A row is replaced, in groupChange and userChange.
LEMMA ReplacedShows ==
  ASSUME NEW rows, NEW ids, NEW table, NEW p, NEW x, NEW y, NEW z, x # y, y # z,
         Shows(rows, ids, table, p, x, y, z), Awaits(p, y), NEW i \in ids
  PROVE  /\ Replaced(rows, p.row) = {} => RowsOf(rows, i) = table[i]
         /\ \A new \in Replaced(rows, p.row) : RowsOf(new, i) = table[i]
<1>1. ~Awaits(p, x) /\ ~Awaits(p, z)
  BY DEF Awaits
<1>2. \A new : new \in Replaced(rows, p.row) <=>
        \E r \in rows : r.id = p.row.id /\ new = (rows \ {r}) \cup {p.row}
  BY DEF Replaced
<1>3. CASE p.row.id = i
  <2>1. PICK r \in rows : RowsOf(rows, i) = {r} /\ table[i] = {p.row}
    BY <1>1, <1>3, Zenon DEF Shows
  <2>2. r.id = i /\ \A s \in rows : s.id = i => s = r
    BY <2>1 DEF RowsOf
  <2>3. Replaced(rows, p.row) # {}
    BY <1>2, <1>3, <2>2
  <2>4. ASSUME NEW new \in Replaced(rows, p.row)
        PROVE  RowsOf(new, i) = table[i]
    <3>1. new = (rows \ {r}) \cup {p.row}
      BY <1>2, <1>3, <2>2
    <3> QED
      BY <1>3, <2>1, <2>2, <3>1 DEF RowsOf
  <2> QED
    BY <2>3, <2>4
<1>4. CASE p.row.id # i
  <2>1. RowsOf(rows, i) = table[i]
    BY <1>1, <1>4, Zenon DEF Shows
  <2>2. ASSUME NEW new \in Replaced(rows, p.row)
        PROVE  RowsOf(new, i) = table[i]
    <3>1. PICK r \in rows : r.id = p.row.id /\ new = (rows \ {r}) \cup {p.row}
      BY <1>2
    <3> QED
      BY <1>4, <2>1, <3>1 DEF RowsOf
  <2> QED
    BY <2>1, <2>2
<1> QED
  BY <1>3, <1>4

\* A row is removed, in groupDelete and userDelete.
LEMMA RemovedShows ==
  ASSUME NEW rows, NEW ids, NEW table, NEW p, NEW x, NEW y, NEW z, x # z, y # z,
         Shows(rows, ids, table, p, x, y, z), Awaits(p, z), NEW i \in ids
  PROVE  /\ RowsOf(rows, p.id) = {} => RowsOf(rows, i) = table[i]
         /\ \A r \in rows : r.id = p.id => RowsOf(rows \ {r}, i) = table[i]
<1>1. ~Awaits(p, x) /\ ~Awaits(p, y)
  BY DEF Awaits
<1>2. CASE p.id = i
  <2>1. PICK r \in rows : RowsOf(rows, i) = {r} /\ table[i] = {}
    BY <1>1, <1>2, Zenon DEF Shows
  <2> QED
    BY <1>2, <2>1 DEF RowsOf
<1>3. CASE p.id # i
  <2>1. RowsOf(rows, i) = table[i]
    BY <1>1, <1>3, Zenon DEF Shows
  <2> QED
    BY <1>3, <2>1 DEF RowsOf
<1> QED
  BY <1>2, <1>3

\* The tables in which nothing that a page does not learn of has changed.
LEMMA TablesAgree ==
  ASSUME NEW d \in Database, NEW e \in Database
  PROVE  /\ \A g \in Group : g \notin Touched(d, e) => GroupTable(e)[g] = GroupTable(d)[g]
         /\ \A u \in User : u \notin Regrouped(d, e) => UserTable(e)[u] = UserTable(d)[u]
<1>1. ASSUME NEW g \in Group, g \notin Touched(d, e)
      PROVE  GroupTable(e)[g] = GroupTable(d)[g]
  <2>1. Members(d, g) = Members(e, g) /\ (g \in Groups(d) <=> g \in Groups(e))
    BY <1>1 DEF Touched
  <2>2. GroupRow(d, g) = GroupRow(e, g)
    BY <2>1, Zenon DEF GroupRow
  <2> QED
    BY <2>1, <2>2, Zenon DEF GroupTable
<1>2. ASSUME NEW u \in User, u \notin Regrouped(d, e)
      PROVE  UserTable(e)[u] = UserTable(d)[u]
  <2>1. d.of[u] = e.of[u]
    BY <1>2 DEF Regrouped
  <2>2. UserRow(d, u) = UserRow(e, u)
    BY <2>1, Zenon DEF UserRow
  <2>3. u \in Users(d) <=> u \in Users(e)
    BY <2>1 DEF Users
  <2> QED
    BY <2>2, <2>3, Zenon DEF UserTable
<1> QED
  BY <1>1, <1>2
-----------------------------------------------------------------------------
(* Steps of a page *)

Alike(k, m) ==
  /\ m.rows = k.rows /\ m.urows = k.urows /\ m.gdrift = k.gdrift /\ m.udrift = k.udrift
  /\ m.post = k.post

\* A page with a field replaced that its rows, drift and request do not depend on.
LEMMA SetField ==
  ASSUME NEW k \in Pages
  PROVE  /\ \A v \in Nat :
              LET m == [k EXCEPT !.clicks = v]
              IN m \in Pages /\ Alike(k, m) /\ m.gets = k.gets /\ m.dialog = k.dialog
         /\ \A v \in Seq(Database) :
              LET m == [k EXCEPT !.graph = v]
              IN m \in Pages /\ Alike(k, m) /\ m.gets = k.gets /\ m.dialog = k.dialog
         /\ \A v \in {"graph", "users", "loading"} :
              LET m == [k EXCEPT !.view = v]
              IN m \in Pages /\ Alike(k, m) /\ m.gets = k.gets /\ m.dialog = k.dialog
         /\ \A v \in SUBSET Asks :
              LET m == [k EXCEPT !.gets = v]
              IN m \in Pages /\ Alike(k, m) /\ m.gets = v /\ m.dialog = k.dialog
         /\ \A v \in Asks :
              LET m == [k EXCEPT !.dialog = v]
              IN m \in Pages /\ Alike(k, m) /\ m.gets = k.gets /\ m.dialog = v
<1>1. ASSUME NEW v \in Nat
      PROVE  LET m == [k EXCEPT !.clicks = v]
             IN m \in Pages /\ Alike(k, m) /\ m.gets = k.gets /\ m.dialog = k.dialog
  BY DEF Pages, Alike
<1>2. ASSUME NEW v \in Seq(Database)
      PROVE  LET m == [k EXCEPT !.graph = v]
             IN m \in Pages /\ Alike(k, m) /\ m.gets = k.gets /\ m.dialog = k.dialog
  BY DEF Pages, Alike
<1>3. ASSUME NEW v \in {"graph", "users", "loading"}
      PROVE  LET m == [k EXCEPT !.view = v]
             IN m \in Pages /\ Alike(k, m) /\ m.gets = k.gets /\ m.dialog = k.dialog
  BY DEF Pages, Alike
<1>4. ASSUME NEW v \in SUBSET Asks
      PROVE  LET m == [k EXCEPT !.gets = v]
             IN m \in Pages /\ Alike(k, m) /\ m.gets = v /\ m.dialog = k.dialog
  BY DEF Pages, Alike
<1>5. ASSUME NEW v \in Asks
      PROVE  LET m == [k EXCEPT !.dialog = v]
             IN m \in Pages /\ Alike(k, m) /\ m.gets = k.gets /\ m.dialog = v
  BY DEF Pages, Alike
<1> QED
  BY <1>1, <1>2, <1>3, <1>4, <1>5, Zenon

\* The types of the parts of a page.
LEMMA PageTypes ==
  ASSUME NEW k \in Pages
  PROVE  /\ k.rows \in SUBSET GroupRows /\ k.urows \in SUBSET UserRows /\ k.graph \in Seq(Database)
         /\ k.view \in {"graph", "users", "loading"}
         /\ k.dialog \in Asks /\ k.gets \in SUBSET Asks /\ k.post \in Requests \cup {NoPost}
         /\ k.clicks \in Nat /\ k.gdrift \in SUBSET Group /\ k.udrift \in SUBSET User
  BY DEF Pages

\* What a page knows depends on its rows, its drift and its request.
LEMMA AlikeTrue ==
  ASSUME NEW d, NEW k, PageTrue(k, d), NEW m \in Pages, Alike(k, m),
         \A a \in m.gets : a \in k.gets \/ GetTrue(k, a),
         m.dialog = k.dialog \/ DialogTrue(k, m.dialog)
  PROVE  PageTrue(m, d)
<1>1. \A a : (AskTrue(k, a) => AskTrue(m, a)) /\ (GetTrue(k, a) => GetTrue(m, a))
             /\ (DialogTrue(k, a) => DialogTrue(m, a))
  BY Zenon DEF AskTrue, GetTrue, DialogTrue, Alike
<1>2. PostTrue(m, m.post)
  BY Zenon DEF PageTrue, PostTrue, Alike
<1>3. ListsShow(m, d)
  BY Zenon DEF PageTrue, ListsShow, Alike
<1>4. (\A a \in m.gets : GetTrue(m, a)) /\ DialogTrue(m, m.dialog)
  BY <1>1, Zenon DEF PageTrue
<1> QED
  BY <1>2, <1>3, <1>4, Zenon DEF PageTrue, Alike
-----------------------------------------------------------------------------
(* Room *)

Sends(p, op) == p.op = op /\ p.status = "sent"

\* There is still an id for each creation when no more are sent.
LEMMA RoomStays ==
  ASSUME RoomLeft, db \in Database, UNCHANGED db,
         \A c \in Console, op \in {"create", "createUser"} :
           Sends(con'[c].post, op) => Sends(con[c].post, op)
  PROVE  RoomLeft'
<1>1. ASSUME NEW op \in {"create", "createUser"}
      PROVE  /\ Creating(op) \in Nat /\ Creating(op)' \in Nat /\ Creating(op)' <= Creating(op)
  <2> DEFINE S == {c \in Console : Sends(con[c].post, op)}
             T == {c \in Console : Sends(con'[c].post, op)}
  <2>1. T \subseteq S /\ S \subseteq Console
    OBVIOUS
  <2>2. IsFiniteSet(S) /\ IsFiniteSet(T)
    BY <2>1, ConsoleAssumption, FS_Subset
  <2>3. Cardinality(S) \in Nat /\ Cardinality(T) \in Nat /\ Cardinality(T) <= Cardinality(S)
    BY <2>1, <2>2, FS_CardinalityType, FS_Subset
  <2>4. Creating(op) = Cardinality(S) /\ Creating(op)' = Cardinality(T)
    BY Zenon DEF Creating, Sends
  <2> QED
    BY <2>3, <2>4
<1>2. NextId(Groups(db)) \in Nat /\ NextId(Users(db)) \in Nat
  <2>1. Groups(db) \in SUBSET (1..MaxGroup) /\ Users(db) \in SUBSET (1..MaxUser)
    BY DatabaseFields DEF Group, User
  <2>2. NextId(Groups(db)) \in 1..(MaxGroup + 1) /\ NextId(Users(db)) \in 1..(MaxUser + 1)
    BY <2>1, NextIdFacts, ConsoleAssumption
  <2> QED
    BY <2>2
<1>3. /\ Creating("create") \in Nat /\ Creating("create")' \in Nat
      /\ Creating("create")' <= Creating("create")
      /\ Creating("createUser") \in Nat /\ Creating("createUser")' \in Nat
      /\ Creating("createUser")' <= Creating("createUser")
  BY <1>1
<1>4. NextId(Groups(db))' = NextId(Groups(db)) /\ NextId(Users(db))' = NextId(Users(db))
  BY Zenon
<1> QED
  BY <1>2, <1>3, <1>4, ConsoleAssumption DEF RoomLeft

\* A step of one page, in which no request is sent.
LEMMA PageStep ==
  ASSUME ConsoleInv, NEW c \in Console, NEW k, PageTrue(k, db),
         con' = [con EXCEPT ![c] = k], UNCHANGED <<db, session>>,
         k.post = con[c].post \/ k.post = NoPost
  PROVE  ConsoleInv'
<1>1. con' = [e \in Console |-> IF e = c THEN k ELSE con[e]]
  BY Zenon DEF ConsoleInv
<1>2. con' = [e \in Console |-> con'[e]]
  BY <1>1, Zenon
<1>3. \A e \in Console : PageTrue(con'[e], db)
  BY <1>1, Zenon DEF ConsoleInv
<1>4. ASSUME NEW e \in Console, NEW op \in {"create", "createUser"}, Sends(con'[e].post, op)
      PROVE  Sends(con[e].post, op)
  <2>1. ~Sends(NoPost, op)
    BY DEF Sends, NoPost
  <2> QED
    BY <1>1, <1>4, <2>1, Zenon
<1>5. RoomLeft'
  BY <1>4, RoomStays, Zenon DEF ConsoleInv
<1> QED
  BY <1>2, <1>3, <1>5, Zenon DEF ConsoleInv
-----------------------------------------------------------------------------
(* Clicks *)

\* A page without a dialog.
LEMMA NothingAsked ==
  /\ NoAsk \in Asks /\ NoAsk.op = "none" /\ NoAsk.seen = <<>> /\ NoAsk.served = "no"
  /\ \A k : DialogTrue(k, NoAsk)
<1>1. 0 \in Ids
  BY ConsoleAssumption DEF Ids
<1>2. <<>> \in Seq(Database) /\ Len(<<>>) = 0
  BY EmptySeq
<1>3. NoAsk = [op |-> "none", id |-> 0, users |-> {}, group |-> None, n |-> 0, served |-> "no",
               seen |-> <<>>]
  BY DEF NoAsk
<1>4. NoAsk \in Asks /\ NoAsk.op = "none" /\ NoAsk.seen = <<>> /\ NoAsk.served = "no"
  BY <1>1, <1>2, <1>3 DEF Asks
<1>5. "none" \notin ByGet
  BY DEF ByGet
<1>6. \A k : DialogTrue(k, NoAsk)
  BY <1>2, <1>4, <1>5 DEF DialogTrue, AskTrue
<1> QED
  BY <1>4, <1>6

\* a asks op of id, with what was clicked.
AsksFor(a, op, id, users, group) ==
  /\ a \in Asks /\ a.op = op /\ a.id = id /\ a.users = users /\ a.group = group
  /\ a.served = "no" /\ a.seen = <<db>>

\* What Ask makes.
LEMMA AskFacts ==
  ASSUME db \in Database, NEW op \in ByGet \cup Direct \cup {"content"}, NEW id \in Ids,
         NEW users \in SUBSET User, NEW group \in Group \cup {None}
  PROVE  /\ AsksFor(Ask(op, id, users, group), op, id, users, group)
         /\ \A n \in Nat : AsksFor([Ask(op, id, users, group) EXCEPT !.n = n], op, id, users, group)
<1> DEFINE a == Ask(op, id, users, group)
           seen == <<db>>
<1>1. seen \in Seq(Database)
  OBVIOUS
<1> HIDE DEF seen
<1>2. [NoAsk EXCEPT !.op = op, !.id = id, !.users = users, !.group = group, !.seen = seen] \in Asks
  BY <1>1, NothingAsked DEF Asks
<1>3. a \in Asks /\ a.op = op /\ a.id = id /\ a.users = users /\ a.group = group
      /\ a.served = "no" /\ a.seen = seen
  BY <1>2, NothingAsked DEF Ask, Asks, seen
<1> HIDE DEF a
<1>4. ASSUME NEW n \in Nat
      PROVE  LET b == [a EXCEPT !.n = n]
             IN /\ b \in Asks /\ b.op = op /\ b.id = id /\ b.users = users /\ b.group = group
                /\ b.served = "no" /\ b.seen = seen
  BY <1>3 DEF Asks
<1> QED
  BY <1>3, <1>4, Zenon DEF a, seen, AsksFor

\* A click counts, and does nothing more than what it makes of the page.
LEMMA ClickedTrue ==
  ASSUME ConsoleInv, NEW c \in Console, NEW k, PageTrue(k, db), k.post = con[c].post, Clicked(c, k)
  PROVE  ConsoleInv'
<1> DEFINE m == [k EXCEPT !.clicks = k.clicks + 1]
<1>1. k \in Pages /\ k.clicks + 1 \in Nat
  <2>1. k \in Pages
    BY Zenon DEF PageTrue
  <2> QED
    BY <2>1, PageTypes
<1>2. m \in Pages /\ Alike(k, m) /\ m.gets = k.gets /\ m.dialog = k.dialog
  BY <1>1, SetField, Zenon
<1>3. con' = [con EXCEPT ![c] = m] /\ UNCHANGED <<db, session>>
  BY Zenon DEF Clicked
<1> HIDE DEF m
<1>4. PageTrue(m, db)
  BY <1>2, AlikeTrue, Zenon
<1>5. m.post = con[c].post
  BY <1>2, Zenon DEF Alike
<1> QED
  BY <1>3, <1>4, <1>5, PageStep, Zenon

\* A click that asks for a list, with what the database has.
LEMMA GetTrueStep ==
  ASSUME ConsoleInv, NEW c \in Console, NEW op \in ByGet \cup {"content"}, NEW id \in Ids,
         NEW users \in SUBSET User, NEW group \in Group \cup {None},
         op = "modify" /\ id \notin con[c].gdrift => users = Members(db, id),
         op = "modifyUser" /\ id \notin con[c].udrift => id \in User /\ group = db.of[id],
         Get(c, Ask(op, id, users, group))
  PROVE  ConsoleInv'
<1> DEFINE n == con[c].clicks
           b == [Ask(op, id, users, group) EXCEPT !.n = n]
           gets == con[c].gets \cup {b}
           k == [con[c] EXCEPT !.gets = gets]
<1>1. PageTrue(con[c], db) /\ con[c] \in Pages /\ db \in Database
  BY Zenon DEF ConsoleInv, PageTrue
<1>2. /\ b \in Asks /\ b.op = op /\ b.id = id /\ b.users = users /\ b.group = group
      /\ b.served = "no" /\ b.seen = <<db>>
  <2>1. con[c].clicks \in Nat
    BY <1>1, PageTypes
  <2>2. op \in ByGet \cup Direct \cup {"content"}
    OBVIOUS
  <2> QED
    <3>1. db \in Database
      BY <1>1
    <3>2. \A m \in Nat : AsksFor([Ask(op, id, users, group) EXCEPT !.n = m], op, id, users, group)
      BY <2>2, <3>1, AskFacts
    <3>3. AsksFor(b, op, id, users, group)
      BY <2>1, <3>2, Zenon
    <3> QED
      BY <3>3, Zenon DEF AsksFor
<1>3. Clicked(c, k)
  BY Zenon DEF Get
<1> HIDE DEF b
<1>4. GetTrue(con[c], b)
  BY <1>2 DEF GetTrue, AskTrue
<1>5. gets \in SUBSET Asks
  BY <1>1, <1>2, PageTypes
<1> HIDE DEF gets
<1>6. k \in Pages /\ Alike(con[c], k) /\ k.gets = gets /\ k.dialog = con[c].dialog
  BY <1>1, <1>5, SetField, Zenon
<1> HIDE DEF k
<1>7. \A a \in k.gets : a \in con[c].gets \/ GetTrue(con[c], a)
  BY <1>4, <1>6 DEF gets
<1>8. PageTrue(k, db)
  BY <1>1, <1>6, <1>7, AlikeTrue, Zenon
<1>9. k.post = con[c].post
  BY <1>6, Zenon DEF Alike
<1> QED
  BY <1>3, <1>8, <1>9, ClickedTrue, Zenon

\* A click that opens a dialog without a list.
LEMMA OpenTrueStep ==
  ASSUME ConsoleInv, NEW c \in Console, NEW op \in Direct, NEW id \in Ids,
         NEW users \in SUBSET User, NEW group \in Group \cup {None},
         Open(c, Ask(op, id, users, group))
  PROVE  ConsoleInv'
<1> DEFINE a == Ask(op, id, users, group)
           k == [con[c] EXCEPT !.dialog = a]
<1>1. PageTrue(con[c], db) /\ con[c] \in Pages /\ db \in Database
  BY Zenon DEF ConsoleInv, PageTrue
<1>2. /\ a \in Asks /\ a.op = op /\ a.id = id /\ a.users = users /\ a.group = group
      /\ a.served = "no" /\ a.seen = <<db>>
  <2>1. op \in ByGet \cup Direct \cup {"content"}
    OBVIOUS
  <2> QED
    <3>1. db \in Database
      BY <1>1
    <3>2. AsksFor(a, op, id, users, group)
      BY <2>1, <3>1, AskFacts
    <3> QED
      BY <3>2, Zenon DEF AsksFor
<1>3. Clicked(c, k)
  BY Zenon DEF Open
<1> HIDE DEF a
<1>4. DialogTrue(con[c], a)
  <2>1. op \notin ByGet /\ op \notin {"none", "content", "modify", "modifyUser"}
    BY DEF ByGet, Direct
  <2> QED
    BY <1>2, <2>1 DEF DialogTrue, AskTrue
<1>5. k \in Pages /\ Alike(con[c], k) /\ k.gets = con[c].gets /\ k.dialog = a
  BY <1>1, <1>2, SetField, Zenon
<1> HIDE DEF k
<1>6. PageTrue(k, db)
  BY <1>1, <1>4, <1>5, AlikeTrue, Zenon
<1>7. k.post = con[c].post
  BY <1>5, Zenon DEF Alike
<1> QED
  BY <1>3, <1>6, <1>7, ClickedTrue, Zenon

\* A row that a free page shows is up to date, unless it has drifted.
LEMMA FreeRows ==
  ASSUME ConsoleInv, NEW c \in Console, con[c].post = NoPost
  PROVE  /\ \A g \in Group \ con[c].gdrift : RowsOf(con[c].rows, g) = GroupTable(db)[g]
         /\ \A u \in User \ con[c].udrift : RowsOf(con[c].urows, u) = UserTable(db)[u]
<1>1. ListsShow(con[c], db)
  BY Zenon DEF ConsoleInv, PageTrue
<1>2. \A op \in {"create", "modify", "delete", "createUser", "modifyUser", "deleteUser"} :
        ~Awaits(con[c].post, op)
  BY DEF Awaits, NoPost
<1>3. /\ ~Awaits(con[c].post, "create") /\ ~Awaits(con[c].post, "modify")
      /\ ~Awaits(con[c].post, "delete") /\ ~Awaits(con[c].post, "createUser")
      /\ ~Awaits(con[c].post, "modifyUser") /\ ~Awaits(con[c].post, "deleteUser")
  BY <1>2
<1> DEFINE p == con[c].post
<1>4. /\ Shows(con[c].rows, Group \ con[c].gdrift, GroupTable(db), p, "create", "modify", "delete")
      /\ Shows(con[c].urows, User \ con[c].udrift, UserTable(db), p, "createUser", "modifyUser",
               "deleteUser")
  BY <1>1, Zenon DEF ListsShow
<1> HIDE DEF p
<1>5. /\ ~Awaits(p, "create") /\ ~Awaits(p, "modify") /\ ~Awaits(p, "delete")
      /\ ~Awaits(p, "createUser") /\ ~Awaits(p, "modifyUser") /\ ~Awaits(p, "deleteUser")
  BY <1>3 DEF p
<1>6. \A g \in Group \ con[c].gdrift : RowsOf(con[c].rows, g) = GroupTable(db)[g]
  BY <1>4, <1>5, Settled
<1>7. \A u \in User \ con[c].udrift : RowsOf(con[c].urows, u) = UserTable(db)[u]
  BY <1>4, <1>5, Settled
<1> QED
  BY <1>6, <1>7

\* onCreate, and onChange and onDelete of a group's row.
LEMMA ClickGroupsTrue ==
  ASSUME ConsoleInv, NEW c \in Console, ClickGroups(c)
  PROVE  ConsoleInv'
<1>1. con[c] \in Pages /\ db \in Database /\ con[c].post = NoPost
  BY Zenon DEF ConsoleInv, PageTrue, ClickGroups, Free
<1>2. con[c].rows \in SUBSET GroupRows
  BY <1>1, PageTypes
<1>3. 0 \in Ids /\ Group \subseteq Ids /\ None \in Group \cup {None} /\ {} \in SUBSET User
  BY ConsoleAssumption DEF Ids, Group
<1>4. CASE Get(c, Ask("create", 0, {}, None))
  <2>1. "create" \in ByGet \cup {"content"} /\ "create" # "modify" /\ "create" # "modifyUser"
    BY DEF ByGet
  <2> QED
    BY <1>3, <1>4, <2>1, GetTrueStep, Zenon
<1>5. ASSUME NEW r \in con[c].rows, Get(c, Ask("modify", r.id, r.users, None))
      PROVE  ConsoleInv'
  <2>1. "modify" \in ByGet \cup {"content"} /\ "modify" # "modifyUser"
    BY DEF ByGet
  <2>2. r.id \in Group /\ r.id \in Ids /\ r.users \in SUBSET User
    BY <1>2, <1>3 DEF GroupRows
  <2>3. ASSUME r.id \notin con[c].gdrift
        PROVE  r.users = Members(db, r.id)
    <3>1. RowsOf(con[c].rows, r.id) = GroupTable(db)[r.id]
      BY <1>1, <2>2, <2>3, FreeRows
    <3>2. r \in RowsOf(con[c].rows, r.id)
      BY DEF RowsOf
    <3>3. r = GroupRow(db, r.id)
      BY <2>2, <3>1, <3>2 DEF GroupTable
    <3> QED
      BY <1>1, <2>2, <3>3, RowFacts
  <2> QED
    BY <1>3, <1>5, <2>1, <2>2, <2>3, GetTrueStep, Zenon
<1>6. ASSUME NEW r \in con[c].rows, Open(c, Ask("delete", r.id, {}, None))
      PROVE  ConsoleInv'
  <2>1. "delete" \in Direct
    BY DEF Direct
  <2>2. r.id \in Ids
    BY <1>2, <1>3 DEF GroupRows
  <2> QED
    BY <1>3, <1>6, <2>1, <2>2, OpenTrueStep, Zenon
<1> QED
  BY <1>4, <1>5, <1>6, Zenon DEF ClickGroups

\* onCreate, and onChange and onDelete of a user's row.
LEMMA ClickUsersTrue ==
  ASSUME ConsoleInv, NEW c \in Console, ClickUsers(c)
  PROVE  ConsoleInv'
<1>1. con[c] \in Pages /\ db \in Database /\ con[c].post = NoPost
  BY Zenon DEF ConsoleInv, PageTrue, ClickUsers, Free
<1>2. con[c].urows \in SUBSET UserRows
  BY <1>1, PageTypes
<1>3. 0 \in Ids /\ User \subseteq Ids /\ None \in Group \cup {None} /\ {} \in SUBSET User
  BY ConsoleAssumption DEF Ids, User
<1>4. CASE Get(c, Ask("createUser", 0, {}, None))
  <2>1. "createUser" \in ByGet \cup {"content"} /\ "createUser" # "modify"
        /\ "createUser" # "modifyUser"
    BY DEF ByGet
  <2> QED
    BY <1>3, <1>4, <2>1, GetTrueStep, Zenon
<1>5. ASSUME NEW r \in con[c].urows, Get(c, Ask("modifyUser", r.id, {}, r.group))
      PROVE  ConsoleInv'
  <2>1. "modifyUser" \in ByGet \cup {"content"} /\ "modify" # "modifyUser"
    BY DEF ByGet
  <2>2. r.id \in User /\ r.id \in Ids /\ r.group \in Group \cup {None}
    BY <1>2, <1>3 DEF UserRows
  <2>3. ASSUME r.id \notin con[c].udrift
        PROVE  r.id \in User /\ r.group = db.of[r.id]
    <3>1. RowsOf(con[c].urows, r.id) = UserTable(db)[r.id]
      BY <1>1, <2>2, <2>3, FreeRows
    <3>2. r \in RowsOf(con[c].urows, r.id)
      BY DEF RowsOf
    <3>3. r.id \in Users(db) /\ r = UserRow(db, r.id)
      BY <2>2, <3>1, <3>2 DEF UserTable
    <3> QED
      BY <1>1, <2>2, <3>3, RowFacts
  <2> QED
    BY <1>3, <1>5, <2>1, <2>2, <2>3, GetTrueStep, Zenon
<1>6. ASSUME NEW r \in con[c].urows, Open(c, Ask("deleteUser", r.id, {}, None))
      PROVE  ConsoleInv'
  <2>1. "deleteUser" \in Direct
    BY DEF Direct
  <2>2. r.id \in Ids
    BY <1>2, <1>3 DEF UserRows
  <2> QED
    BY <1>3, <1>6, <2>1, <2>2, OpenTrueStep, Zenon
<1> QED
  BY <1>4, <1>5, <1>6, Zenon DEF ClickUsers

\* removeUser, deleteGroup and updateUserGroup of the graph.
LEMMA ClickGraphTrue ==
  ASSUME ConsoleInv, NEW c \in Console, ClickGraph(c)
  PROVE  ConsoleInv'
<1>1. con[c] \in Pages /\ con[c].graph # <<>>
  BY Zenon DEF ConsoleInv, PageTrue, ClickGraph
<1>2. con[c].graph[1] \in Database
  <2>1. con[c].graph \in Seq(Database)
    BY <1>1, PageTypes
  <2> QED
    BY <1>1, <2>1
<1>3. 0 \in Ids /\ Group \subseteq Ids /\ None \in Group \cup {None} /\ {} \in SUBSET User
  BY ConsoleAssumption DEF Ids, Group
<1>4. /\ "delete" \in Direct /\ "removeUser" \in Direct
      /\ "updateUserGroup" \in ByGet \cup {"content"}
      /\ "updateUserGroup" # "modify" /\ "updateUserGroup" # "modifyUser"
  BY DEF Direct, ByGet
<1>5. PICK g \in Groups(con[c].graph[1]) :
        \/ Open(c, Ask("delete", g, {}, None))
        \/ \E users \in SUBSET Members(con[c].graph[1], g) \ {{}} :
             \/ Open(c, Ask("removeUser", g, users, None))
             \/ Get(c, Ask("updateUserGroup", 0, users, g))
  BY Zenon DEF ClickGraph
<1>6. g \in Ids /\ g \in Group \cup {None}
  BY <1>2, <1>3, DatabaseFields
<1>7. \A users \in SUBSET Members(con[c].graph[1], g) \ {{}} : users \in SUBSET User
  BY DEF Members
<1> QED
  BY <1>3, <1>4, <1>5, <1>6, <1>7, OpenTrueStep, GetTrueStep, Zenon

\* showGroupInfo and showAllGroups.
LEMMA ShowTrue ==
  ASSUME ConsoleInv, NEW c \in Console, ShowGroupInfo(c) \/ ShowAllGroups(c)
  PROVE  ConsoleInv'
<1>1. PageTrue(con[c], db) /\ con[c] \in Pages
  BY Zenon DEF ConsoleInv, PageTrue
<1>2. CASE ShowGroupInfo(c)
  <2> DEFINE one == [con[c] EXCEPT !.graph = <<>>]
             k == [one EXCEPT !.view = "users"]
  <2>1. <<>> \in Seq(Database) /\ "users" \in {"graph", "users", "loading"}
    BY EmptySeq
  <2>2. one \in Pages /\ Alike(con[c], one) /\ one.gets = con[c].gets
        /\ one.dialog = con[c].dialog
    BY <1>1, <2>1, SetField, Zenon
  <2>3. Clicked(c, k)
    BY <1>2, Zenon DEF ShowGroupInfo
  <2> HIDE DEF one
  <2>4. k \in Pages /\ Alike(one, k) /\ k.gets = one.gets /\ k.dialog = one.dialog
    BY <2>1, <2>2, SetField, Zenon
  <2> HIDE DEF k
  <2>5. PageTrue(one, db)
    BY <1>1, <2>2, AlikeTrue, Zenon
  <2>6. PageTrue(k, db)
    BY <2>4, <2>5, AlikeTrue, Zenon
  <2>7. k.post = con[c].post
    BY <2>2, <2>4, Zenon DEF Alike
  <2> QED
    BY <2>3, <2>6, <2>7, ClickedTrue, Zenon
<1>3. CASE ShowAllGroups(c)
  <2>1. 0 \in Ids /\ None \in Group \cup {None} /\ {} \in SUBSET User
    BY ConsoleAssumption DEF Ids
  <2>2. "content" \in ByGet \cup {"content"} /\ "content" # "modify" /\ "content" # "modifyUser"
    OBVIOUS
  <2> QED
    BY <1>3, <2>1, <2>2, GetTrueStep, Zenon DEF ShowAllGroups
<1> QED
  BY <1>2, <1>3
-----------------------------------------------------------------------------
(* Lists that are served and arrive *)

\* The second database that a dialog goes by.
LEMMA OneMore ==
  ASSUME NEW S, NEW d \in S, NEW s \in Seq(S), Len(s) = 1
  PROVE  Append(s, d) \in Seq(S) /\ Len(Append(s, d)) = 2 /\ Append(s, d)[1] = s[1]
<1>1. /\ Append(s, d) \in Seq(S) /\ Len(Append(s, d)) = Len(s) + 1
      /\ \A i \in 1..Len(s) : Append(s, d)[i] = s[i]
  BY AppendProperties, SMTT(30)
<1> QED
  BY <1>1

\* A list is made.
LEMMA ServeGetTrue ==
  ASSUME ConsoleInv, NEW c \in Console, NEW get, ServeGet(c, get)
  PROVE  ConsoleInv'
<1>1. PICK status \in {"ok", "error"} :
        LET answer == [get EXCEPT !.served = status, !.seen = Append(@, db)]
        IN con' = [con EXCEPT ![c].gets = (@ \ {get}) \cup {answer}]
  BY Zenon DEF ServeGet
<1> DEFINE answer == [get EXCEPT !.served = status, !.seen = Append(@, db)]
           gets == (con[c].gets \ {get}) \cup {answer}
           k == [con[c] EXCEPT !.gets = gets]
<1>2. PageTrue(con[c], db) /\ con[c] \in Pages /\ db \in Database
  BY Zenon DEF ConsoleInv, PageTrue
<1>3. get \in con[c].gets /\ get \in Asks /\ get.served = "no"
  BY <1>2, PageTypes DEF ServeGet
<1>4. GetTrue(con[c], get)
  BY <1>2, <1>3, Zenon DEF PageTrue
<1>5. get.seen \in Seq(Database) /\ Len(get.seen) = 1
  BY <1>3, <1>4 DEF Asks, GetTrue
<1> DEFINE seen == Append(get.seen, db)
<1>6. seen \in Seq(Database) /\ Len(seen) = 2 /\ seen[1] = get.seen[1]
  <2>1. \A s \in Seq(Database) : Len(s) = 1 =>
          Append(s, db) \in Seq(Database) /\ Len(Append(s, db)) = 2 /\ Append(s, db)[1] = s[1]
    BY <1>2, OneMore
  <2> QED
    BY <1>5, <2>1, Zenon
<1>7. con' = [con EXCEPT ![c] = k] /\ UNCHANGED <<db, session>>
  BY <1>1, Zenon DEF ServeGet
<1>8. answer = [get EXCEPT !.served = status, !.seen = seen]
  BY Zenon
<1> HIDE DEF answer, seen
<1>9. answer \in Asks /\ answer.op = get.op /\ answer.id = get.id /\ answer.users = get.users
      /\ answer.group = get.group /\ answer.served = status /\ answer.seen = seen
  BY <1>1, <1>3, <1>6, <1>8 DEF Asks
<1>10. GetTrue(con[c], answer)
  <2>1. status # "no"
    BY <1>1
  <2> QED
    BY <1>4, <1>6, <1>9, <2>1 DEF GetTrue, AskTrue
<1>11. gets \in SUBSET Asks
  BY <1>2, <1>9, PageTypes
<1>12. \A a \in gets : a \in con[c].gets \/ GetTrue(con[c], a)
  BY <1>10
<1> HIDE DEF gets
<1>13. k \in Pages /\ Alike(con[c], k) /\ k.gets = gets /\ k.dialog = con[c].dialog
  BY <1>2, <1>11, SetField, Zenon
<1> HIDE DEF k
<1>14. PageTrue(k, db)
  BY <1>2, <1>12, <1>13, AlikeTrue, Zenon
<1>15. k.post = con[c].post
  BY <1>13, Zenon DEF Alike
<1> QED
  BY <1>7, <1>14, <1>15, PageStep, Zenon

\* A list arrives, and may open the dialog.
LEMMA ArriveGetTrue ==
  ASSUME ConsoleInv, NEW c \in Console, NEW get, ArriveGet(c, get)
  PROVE  ConsoleInv'
<1> DEFINE gets == con[c].gets \ {get}
           page == [con[c] EXCEPT !.gets = gets]
           reset == [page EXCEPT !.graph = <<>>]
           shown == [reset EXCEPT !.view = "loading"]
           opened == [page EXCEPT !.dialog = get]
<1>1. PageTrue(con[c], db) /\ con[c] \in Pages
  BY Zenon DEF ConsoleInv, PageTrue
<1>2. get \in con[c].gets /\ get \in Asks /\ get.served # "no" /\ GetTrue(con[c], get)
  BY <1>1, PageTypes DEF ArriveGet, PageTrue
<1>3. \/ \E k \in {page, shown} : con' = [con EXCEPT ![c] = k]
      \/ get.op # "content" /\ con' = [con EXCEPT ![c] = opened]
  BY Zenon DEF ArriveGet
<1>4. gets \in SUBSET Asks /\ \A a \in gets : a \in con[c].gets
  BY <1>1, PageTypes
<1> HIDE DEF gets
<1>5. page \in Pages /\ Alike(con[c], page) /\ page.gets = gets /\ page.dialog = con[c].dialog
  BY <1>1, <1>4, SetField, Zenon
<1> HIDE DEF page
<1>6. PageTrue(page, db)
  BY <1>1, <1>4, <1>5, AlikeTrue, Zenon
<1>7. <<>> \in Seq(Database) /\ "loading" \in {"graph", "users", "loading"}
  BY EmptySeq
<1>8. reset \in Pages /\ Alike(page, reset) /\ reset.gets = page.gets /\ reset.dialog = page.dialog
  BY <1>5, <1>7, SetField, Zenon
<1> HIDE DEF reset
<1>9. shown \in Pages /\ Alike(reset, shown) /\ shown.gets = reset.gets
      /\ shown.dialog = reset.dialog
  BY <1>7, <1>8, SetField, Zenon
<1> HIDE DEF shown
<1>10. PageTrue(reset, db)
  BY <1>6, <1>8, AlikeTrue, Zenon
<1>11. PageTrue(shown, db)
  BY <1>9, <1>10, AlikeTrue, Zenon
<1>12. opened \in Pages /\ Alike(page, opened) /\ opened.gets = page.gets /\ opened.dialog = get
  BY <1>2, <1>5, SetField, Zenon
<1>13. get.op # "content" => DialogTrue(page, get)
  <2>1. AskTrue(page, get)
    BY <1>2, <1>5, Zenon DEF GetTrue, AskTrue, Alike
  <2>2. Len(get.seen) = 2
    BY <1>2 DEF GetTrue
  <2>3. get.op # "content" => get.op \in ByGet
    BY <1>2 DEF GetTrue
  <2> QED
    BY <2>1, <2>2, <2>3, Zenon DEF DialogTrue
<1> HIDE DEF opened
<1>14. get.op # "content" => PageTrue(opened, db)
  BY <1>6, <1>12, <1>13, AlikeTrue, Zenon
<1>15. page.post = con[c].post /\ shown.post = con[c].post /\ opened.post = con[c].post
  BY <1>5, <1>8, <1>9, <1>12, Zenon DEF Alike
<1>16. UNCHANGED <<db, session>>
  BY Zenon DEF ArriveGet
<1> QED
  BY <1>3, <1>6, <1>11, <1>14, <1>15, <1>16, PageStep, Zenon

\* The graph gets its list.
LEMMA LoadGraphTrue ==
  ASSUME ConsoleInv, NEW c \in Console, LoadGraph(c)
  PROVE  ConsoleInv'
<1> DEFINE graph == IF session = "up" THEN <<db>> ELSE <<>>
           one == [con[c] EXCEPT !.view = "graph"]
           k == [one EXCEPT !.graph = graph]
<1>1. PageTrue(con[c], db) /\ con[c] \in Pages /\ db \in Database
  BY Zenon DEF ConsoleInv, PageTrue
<1>2. con' = [con EXCEPT ![c].view = "graph", ![c].graph = graph] /\ UNCHANGED <<db, session>>
  BY Zenon DEF LoadGraph
<1>3. graph \in Seq(Database) /\ "graph" \in {"graph", "users", "loading"}
  <2>1. <<>> \in Seq(Database) /\ <<db>> \in Seq(Database)
    BY <1>1
  <2> QED
    BY <2>1
<1> HIDE DEF graph
<1>4. con' = [[con EXCEPT ![c] = one] EXCEPT ![c] = [@ EXCEPT !.graph = graph]]
  BY <1>2, Zenon
<1>5. con' = [con EXCEPT ![c] = k]
  BY <1>4, Zenon DEF ConsoleInv
<1>6. one \in Pages /\ Alike(con[c], one) /\ one.gets = con[c].gets /\ one.dialog = con[c].dialog
  BY <1>1, <1>3, SetField, Zenon
<1> HIDE DEF one
<1>7. k \in Pages /\ Alike(one, k) /\ k.gets = one.gets /\ k.dialog = one.dialog
  BY <1>3, <1>6, SetField, Zenon
<1> HIDE DEF k
<1>8. PageTrue(one, db)
  BY <1>1, <1>6, AlikeTrue, Zenon
<1>9. PageTrue(k, db)
  BY <1>7, <1>8, AlikeTrue, Zenon
<1>10. k.post = con[c].post
  BY <1>6, <1>7, Zenon DEF Alike
<1> QED
  BY <1>2, <1>5, <1>9, <1>10, PageStep, Zenon

\* A dialog is closed.
LEMMA CancelTrue ==
  ASSUME ConsoleInv, NEW c \in Console, Cancel(c)
  PROVE  ConsoleInv'
<1> DEFINE k == [con[c] EXCEPT !.dialog = NoAsk]
<1>1. PageTrue(con[c], db) /\ con[c] \in Pages
  BY Zenon DEF ConsoleInv, PageTrue
<1>2. k \in Pages /\ Alike(con[c], k) /\ k.gets = con[c].gets /\ k.dialog = NoAsk
  BY <1>1, NothingAsked, SetField, Zenon
<1>3. con' = [con EXCEPT ![c] = k] /\ UNCHANGED <<db, session>>
  BY Zenon DEF Cancel
<1> HIDE DEF k
<1>4. PageTrue(k, db)
  BY <1>1, <1>2, NothingAsked, AlikeTrue, Zenon
<1>5. k.post = con[c].post
  BY <1>2, Zenon DEF Alike
<1> QED
  BY <1>3, <1>4, <1>5, PageStep, Zenon
-----------------------------------------------------------------------------
(* Requests that are sent *)

\* The fields of a request.
LEMMA PostFacts ==
  ASSUME NEW a \in Asks, a.op \in ByGet \cup Direct, NEW users \in SUBSET User, NEW id \in Ids,
         NEW group \in Group \cup {None}, NEW name \in Name \cup {NoName},
         NEW toggled \in SUBSET Ids
  PROVE  LET p == Post(a, users, id, group, name, toggled)
         IN /\ p \in Requests /\ p.op = a.op /\ p.id = id /\ p.users = users /\ p.group = group
            /\ p.name = name /\ p.toggled = toggled /\ p.seen = a.seen /\ p.status = "sent"
<1>1. NoRow \in Rows
  BY ConsoleAssumption DEF NoRow, Rows, Ids, None
<1>2. a.seen \in Seq(Database)
  BY DEF Asks
<1> QED
  BY <1>1, <1>2 DEF Post, Requests

\* The requests that a dialog of a group can send.
LEMMA GroupPosts ==
  ASSUME NEW a, NEW p \in Posts(a), a.op \in {"create", "modify"}
  PROVE  \E users \in SUBSET Offered(a), name \in Name :
           p = Post(a, users, a.id, None, name,
                    (users \ Prechecked(a)) \cup (Prechecked(a) \ users))
<1>1. a.op \notin {"createUser", "modifyUser"} /\ a.op # "updateUserGroup" /\ a.op \notin Direct
  BY DEF Direct
<1>2. p \in {Post(a, users, a.id, None, name,
                  (users \ Prechecked(a)) \cup (Prechecked(a) \ users))
             : users \in SUBSET Offered(a), name \in Name}
  BY <1>1 DEF Posts
<1> QED
  BY <1>2

\* A request for a group: its users are among those offered, and what was toggled is what
\* differs from the group's users.
LEMMA GroupPostTrue ==
  ASSUME NEW k, NEW a \in Asks, DialogTrue(k, a), a.op \in {"create", "modify"}, NEW p \in Posts(a)
  PROVE  p \in Requests /\ p.op = a.op /\ p.status = "sent" /\ PostTrue(k, p)
<1>1. a.op \notin {"createUser", "modifyUser"} /\ a.op # "updateUserGroup" /\ a.op \notin Direct
      /\ a.op \in ByGet
  BY DEF Direct, ByGet
<1>2. PICK users \in SUBSET Offered(a), name \in Name :
        p = Post(a, users, a.id, None, name,
                 (users \ Prechecked(a)) \cup (Prechecked(a) \ users))
  BY GroupPosts
<1> DEFINE toggled == (users \ Prechecked(a)) \cup (Prechecked(a) \ users)
<1>3. Len(a.seen) = 2 /\ a.seen \in Seq(Database)
  BY <1>1 DEF DialogTrue, Asks
<1>4. Offered(a) = ListOf(a.seen[2], a.op, a.id) /\ Offered(a) \in SUBSET User
  <2>1. \A d, g : nongrouplist(d, g) \in SUBSET User
    BY DEF nongrouplist, Members
  <2>2. Offered(a) = nongrouplist(a.seen[2], a.id)
    BY Zenon DEF Offered, ListOf
  <2>3. Offered(a) = ListOf(a.seen[2], a.op, a.id)
    BY Zenon DEF Offered
  <2>4. Offered(a) \in SUBSET User
    BY <2>1, <2>2
  <2> QED
    BY <2>3, <2>4
<1>5. User \subseteq Ids
  BY ConsoleAssumption DEF User, Ids
<1>6. a.users \in SUBSET User /\ a.id \in Ids
  BY DEF Asks
<1>7. users \in SUBSET User /\ toggled \in SUBSET Ids
  BY <1>4, <1>5, <1>6 DEF Prechecked
<1> HIDE DEF toggled
<1>8. /\ p \in Requests /\ p.op = a.op /\ p.id = a.id /\ p.users = users /\ p.group = None
      /\ p.name = name /\ p.toggled = toggled /\ p.seen = a.seen /\ p.status = "sent"
  <2>1. a.op \in ByGet \cup Direct /\ None \in Group \cup {None} /\ name \in Name \cup {NoName}
    BY <1>1, <1>2
  <2>2. p = Post(a, users, a.id, None, name, toggled)
    BY <1>2, Zenon DEF toggled
  <2> QED
    BY <1>6, <1>7, <2>1, <2>2, PostFacts
<1>9. p.op = "modify" /\ p.id \notin k.gdrift =>
        p.toggled = (p.users \ CheckedUsers(p)) \cup (CheckedUsers(p) \ p.users)
  <2> SUFFICES ASSUME p.op = "modify", p.id \notin k.gdrift
               PROVE  p.toggled = (p.users \ CheckedUsers(p)) \cup (CheckedUsers(p) \ p.users)
    OBVIOUS
  <2>1. a.users = Members(a.seen[1], a.id)
    BY <1>8 DEF DialogTrue, AskTrue
  <2>2. CheckedUsers(p) = Prechecked(a)
    BY <1>4, <1>8, <2>1, Zenon DEF CheckedUsers, Prechecked
  <2> QED
    BY <1>8, <2>2, Zenon DEF toggled
<1>10. users \subseteq ListOf(p.seen[2], p.op, p.id)
  BY <1>2, <1>4, <1>8
<1> QED
  BY <1>1, <1>2, <1>3, <1>8, <1>9, <1>10 DEF PostTrue, Awaits

\* A request for a user: its group is one that was offered, or that he has, or none.
LEMMA UserPostTrue ==
  ASSUME NEW k, NEW a \in Asks, DialogTrue(k, a), a.op \in {"createUser", "modifyUser"},
         NEW p \in Posts(a)
  PROVE  p \in Requests /\ p.op = a.op /\ p.status = "sent" /\ PostTrue(k, p)
<1>1. a.op \notin {"create", "modify"} /\ a.op # "updateUserGroup" /\ a.op \notin Direct
      /\ a.op \in ByGet
  BY DEF Direct, ByGet
<1>2. PICK g \in Offered(a) \cup {Choice(a)} :
        p = Post(a, {}, a.id, g, NoName, IF g = Choice(a) THEN {} ELSE {a.id})
  BY <1>1 DEF Posts
<1> DEFINE toggled == IF g = Choice(a) THEN {} ELSE {a.id}
<1>3. Len(a.seen) = 2 /\ a.seen \in Seq(Database) /\ a.id \in Ids /\ a.group \in Group \cup {None}
  BY <1>1 DEF DialogTrue, Asks
<1>4. Offered(a) = Groups(a.seen[2]) /\ Offered(a) \in SUBSET Group
  <2>1. Offered(a) = Groups(a.seen[2])
    BY <1>1, Zenon DEF Offered, ListOf
  <2>2. a.seen[2] \in Database
    BY <1>3
  <2> QED
    BY <2>1, <2>2, DatabaseFields
<1>5. Choice(a) \in Offered(a) \cup {None}
  BY Zenon DEF Choice
<1>6. g \in Group \cup {None} /\ g \in Groups(a.seen[2]) \cup {None} /\ toggled \in SUBSET Ids
  BY <1>2, <1>3, <1>4, <1>5
<1> HIDE DEF toggled
<1>7. /\ p \in Requests /\ p.op = a.op /\ p.id = a.id /\ p.group = g
      /\ p.toggled = toggled /\ p.seen = a.seen /\ p.status = "sent"
  <2>1. a.op \in ByGet \cup Direct /\ NoName \in Name \cup {NoName} /\ {} \in SUBSET User
    BY <1>1
  <2>2. p = Post(a, {}, a.id, g, NoName, toggled)
    BY <1>2, Zenon DEF toggled
  <2> QED
    BY <1>3, <1>6, <2>1, <2>2, PostFacts
<1>8. p.op = "modifyUser" /\ p.id \notin k.udrift =>
        /\ p.id \in User /\ p.group \in Groups(p.seen[2]) \cup {CheckedGroup(p)}
        /\ p.toggled = IF p.group = CheckedGroup(p) THEN {} ELSE {p.id}
  <2> SUFFICES ASSUME p.op = "modifyUser", p.id \notin k.udrift
               PROVE  /\ p.id \in User /\ p.group \in Groups(p.seen[2]) \cup {CheckedGroup(p)}
                      /\ p.toggled = IF p.group = CheckedGroup(p) THEN {} ELSE {p.id}
    OBVIOUS
  <2>1. a.id \in User /\ a.group = a.seen[1].of[a.id]
    BY <1>7 DEF DialogTrue, AskTrue
  <2>2. CheckedGroup(p) = Choice(a)
    BY <1>4, <1>7, <2>1, Zenon DEF CheckedGroup, Choice
  <2> QED
    BY <1>2, <1>4, <1>7, <2>1, <2>2, Zenon DEF toggled
<1> QED
  BY <1>1, <1>3, <1>6, <1>7, <1>8 DEF PostTrue, Awaits

\* The other requests carry what was selected.
LEMMA OtherPostTrue ==
  ASSUME NEW k, NEW a \in Asks, DialogTrue(k, a), a.op \in {"updateUserGroup"} \cup Direct,
         NEW p \in Posts(a)
  PROVE  p \in Requests /\ p.op = a.op /\ p.status = "sent" /\ PostTrue(k, p)
<1>1. a.op \notin {"create", "modify", "createUser", "modifyUser"} /\ a.op \in ByGet \cup Direct
  BY DEF Direct, ByGet
<1>2. PICK id \in Ids : p = Post(a, a.users, id, None, NoName, {})
  <2>1. CASE a.op = "updateUserGroup"
    <3>1. a.op \notin Direct /\ a.op \in ByGet
      BY <2>1 DEF Direct, ByGet
    <3>2. PICK g \in (Offered(a) \ {a.group}) \cup {0} : p = Post(a, a.users, g, None, NoName, {})
      BY <1>1, <2>1, <3>1 DEF Posts
    <3>3. a.seen[2] \in Database
      BY <3>1 DEF DialogTrue, Asks
    <3>4. Offered(a) \in SUBSET Group
      BY <1>1, <3>3, DatabaseFields DEF Offered, ListOf
    <3>5. Group \subseteq Ids /\ 0 \in Ids
      BY ConsoleAssumption DEF Group, Ids
    <3> QED
      BY <3>2, <3>4, <3>5
  <2>2. CASE a.op \in Direct
    <3>1. a.op # "updateUserGroup"
      BY <2>2 DEF Direct
    <3>2. p \in {Post(a, a.users, a.id, None, NoName, {})}
      BY <1>1, <2>2, <3>1 DEF Posts
    <3>3. a.id \in Ids
      BY DEF Asks
    <3> QED
      BY <3>2, <3>3
  <2> QED
    BY <2>1, <2>2
<1>3. p \in Requests /\ p.op = a.op /\ p.status = "sent"
  <2>1. a.users \in SUBSET User /\ None \in Group \cup {None} /\ NoName \in Name \cup {NoName}
        /\ {} \in SUBSET Ids
    BY DEF Asks
  <2> QED
    BY <1>1, <1>2, <2>1, PostFacts
<1> QED
  BY <1>1, <1>3 DEF PostTrue, Awaits

\* Every request that a dialog can send.
LEMMA PostsTrue ==
  ASSUME NEW k, NEW a \in Asks, DialogTrue(k, a), a # NoAsk, NEW p \in Posts(a)
  PROVE  p \in Requests /\ p.op = a.op /\ p.status = "sent" /\ PostTrue(k, p)
<1>1. \/ a.op \in {"create", "modify"} \/ a.op \in {"createUser", "modifyUser"}
      \/ a.op \in {"updateUserGroup"} \cup Direct
  BY DEF DialogTrue, ByGet
<1> QED
  BY <1>1, GroupPostTrue, UserPostTrue, OtherPostTrue

\* A page with a request under way, or with none.
LEMMA SetRequest ==
  ASSUME NEW k \in Pages, NEW p \in Requests \cup {NoPost}
  PROVE  LET m == [k EXCEPT !.post = p]
         IN /\ m \in Pages /\ m.post = p
            /\ m.rows = k.rows /\ m.urows = k.urows /\ m.gdrift = k.gdrift /\ m.udrift = k.udrift
            /\ m.gets = k.gets /\ m.dialog = k.dialog
  BY DEF Pages

\* What is asked and sent stays true as rows drift.
LEMMA DriftTrue ==
  ASSUME NEW k, NEW m, k.gdrift \subseteq m.gdrift, k.udrift \subseteq m.udrift
  PROVE  \A a : /\ AskTrue(k, a) => AskTrue(m, a)
                /\ GetTrue(k, a) => GetTrue(m, a)
                /\ DialogTrue(k, a) => DialogTrue(m, a)
                /\ PostTrue(k, a) => PostTrue(m, a)
<1>1. \A i : (i \notin m.gdrift => i \notin k.gdrift) /\ (i \notin m.udrift => i \notin k.udrift)
  OBVIOUS
<1>2. \A a : AskTrue(k, a) => AskTrue(m, a)
  BY <1>1, Zenon DEF AskTrue
<1>3. \A a : PostTrue(k, a) => PostTrue(m, a)
  BY <1>1, Zenon DEF PostTrue
<1> QED
  BY <1>2, <1>3, Zenon DEF GetTrue, DialogTrue

\* A page that awaits nothing.
LEMMA ListsSettled ==
  ASSUME NEW k, NEW d, k.post.status # "ok" \/ k.post.op \notin ByGet \cup Direct
  PROVE  ListsShow(k, d) <=>
           /\ \A g \in Group \ k.gdrift : RowsOf(k.rows, g) = GroupTable(d)[g]
           /\ \A u \in User \ k.udrift : RowsOf(k.urows, u) = UserTable(d)[u]
<1> DEFINE p == k.post
<1>1. /\ ~Awaits(p, "create") /\ ~Awaits(p, "modify") /\ ~Awaits(p, "delete")
      /\ ~Awaits(p, "createUser") /\ ~Awaits(p, "modifyUser") /\ ~Awaits(p, "deleteUser")
  BY DEF Awaits, ByGet, Direct
<1> HIDE DEF p
<1>2. Shows(k.rows, Group \ k.gdrift, GroupTable(d), p, "create", "modify", "delete") <=>
        \A g \in Group \ k.gdrift : RowsOf(k.rows, g) = GroupTable(d)[g]
  BY <1>1, Settled
<1>3. Shows(k.urows, User \ k.udrift, UserTable(d), p, "createUser", "modifyUser", "deleteUser") <=>
        \A u \in User \ k.udrift : RowsOf(k.urows, u) = UserTable(d)[u]
  BY <1>1, Settled
<1> QED
  BY <1>2, <1>3, Zenon DEF ListsShow, p

\* What the button of a dialog makes of a page.
Sent(k, p, dialog) == [[k EXCEPT !.post = p] EXCEPT !.dialog = dialog]

\* The page from which a request is sent knows what it did, and what it asks for.
LEMMA SubmitPage ==
  ASSUME NEW k, NEW d, PageTrue(k, d), k.post = NoPost, k.dialog # NoAsk,
         NEW p \in Posts(k.dialog), NEW dialog, dialog = k.dialog \/ dialog = NoAsk
  PROVE  /\ p \in Requests /\ p.op = k.dialog.op /\ p.status = "sent"
         /\ PageTrue(Sent(k, p, dialog), d) /\ Sent(k, p, dialog).post = p
<1> DEFINE one == [k EXCEPT !.post = p]
           m == Sent(k, p, dialog)
<1>1. k \in Pages /\ k.dialog \in Asks /\ DialogTrue(k, k.dialog)
  BY PageTypes DEF PageTrue
<1>2. p \in Requests /\ p.op = k.dialog.op /\ p.status = "sent" /\ PostTrue(k, p)
  BY <1>1, PostsTrue
<1>3. /\ one \in Pages /\ one.post = p
      /\ one.rows = k.rows /\ one.urows = k.urows /\ one.gdrift = k.gdrift
      /\ one.udrift = k.udrift /\ one.gets = k.gets /\ one.dialog = k.dialog
  BY <1>1, <1>2, SetRequest
<1> HIDE DEF one
<1>4. PostTrue(one, p) /\ DialogTrue(one, k.dialog) /\ \A a : GetTrue(k, a) => GetTrue(one, a)
  BY <1>1, <1>2, <1>3, DriftTrue
<1>5. ListsShow(one, d)
  <2>1. NoPost.op \notin ByGet \cup Direct
    BY DEF NoPost, ByGet, Direct
  <2>2. /\ \A g \in Group \ k.gdrift : RowsOf(k.rows, g) = GroupTable(d)[g]
        /\ \A u \in User \ k.udrift : RowsOf(k.urows, u) = UserTable(d)[u]
    BY <2>1, ListsSettled, Zenon DEF PageTrue
  <2>3. one.post.status # "ok"
    BY <1>2, <1>3
  <2>4. /\ \A g \in Group \ one.gdrift : RowsOf(one.rows, g) = GroupTable(d)[g]
        /\ \A u \in User \ one.udrift : RowsOf(one.urows, u) = UserTable(d)[u]
    BY <1>3, <2>2
  <2> QED
    BY <2>3, <2>4, ListsSettled, Zenon
<1>6. PageTrue(one, d)
  BY <1>3, <1>4, <1>5, Zenon DEF PageTrue
<1>7. dialog \in Asks
  BY <1>1, NothingAsked
<1> DEFINE two == [one EXCEPT !.dialog = dialog]
<1>8. two \in Pages /\ Alike(one, two) /\ two.gets = one.gets /\ two.dialog = dialog
  BY <1>3, <1>7, SetField
<1>9. m = two
  BY DEF Sent, one
<1> HIDE DEF two, m
<1>10. m \in Pages /\ Alike(one, m) /\ m.gets = one.gets /\ m.dialog = dialog
  BY <1>8, <1>9, Zenon
<1>11. m.dialog = one.dialog \/ DialogTrue(one, m.dialog)
  BY <1>3, <1>10, NothingAsked
<1>12. PageTrue(m, d) /\ m.post = p
  <2>1. \A a \in m.gets : a \in one.gets
    BY <1>10, Zenon
  <2>2. PageTrue(m, d)
    BY <1>6, <1>10, <1>11, <2>1, AlikeTrue, Zenon
  <2> QED
    BY <1>3, <1>10, <2>2, Zenon DEF Alike
<1> QED
  BY <1>2, <1>12 DEF m

\* How many are under way, when one more is sent or one is taken.
LEMMA CountSenders ==
  ASSUME NEW S \in SUBSET Console, NEW T, NEW c \in Console
  PROVE  /\ Cardinality(S) \in Nat
         /\ c \in S => Cardinality(S) > 0
         /\ T = S \cup {c} /\ c \notin S => Cardinality(T) = Cardinality(S) + 1
         /\ T = S \ {c} /\ c \in S => Cardinality(T) = Cardinality(S) - 1
<1>1. IsFiniteSet(S)
  BY ConsoleAssumption, FS_Subset
<1>2. Cardinality(S) \in Nat
  BY <1>1, FS_CardinalityType
<1>3. c \in S => Cardinality(S) > 0
  BY <1>1, <1>2, FS_EmptySet
<1>4. T = S \cup {c} /\ c \notin S => Cardinality(T) = Cardinality(S) + 1
  BY <1>1, FS_AddElement
<1>5. T = S \ {c} /\ c \in S => Cardinality(T) = Cardinality(S) - 1
  BY <1>1, FS_RemoveElement
<1> QED
  BY <1>2, <1>3, <1>4, <1>5

Senders(op) == {c \in Console : Sends(con[c].post, op)}

\* The next ids are at most one past the bounds.
LEMMA NextIds ==
  ASSUME NEW d \in Database
  PROVE  /\ NextId(Groups(d)) \in 1..(MaxGroup + 1) /\ NextId(Users(d)) \in 1..(MaxUser + 1)
         /\ MaxGroup \in Nat /\ MaxUser \in Nat
<1>1. Groups(d) \in SUBSET (1..MaxGroup) /\ Users(d) \in SUBSET (1..MaxUser)
  BY DatabaseFields DEF Group, User
<1> QED
  BY <1>1, NextIdFacts, ConsoleAssumption

\* A request is sent: there is an id for what it creates.
LEMMA SubmitTrue ==
  ASSUME ConsoleInv, NEW c \in Console, Submit(c)
  PROVE  ConsoleInv'
<1>1. PICK p \in Posts(con[c].dialog) :
        con' = [con EXCEPT ![c].post = p,
                           ![c].dialog = IF p.op = "deleteUser" THEN NoAsk ELSE @]
  BY Zenon DEF Submit
<1> DEFINE dialog == IF p.op = "deleteUser" THEN NoAsk ELSE con[c].dialog
           one == [con[c] EXCEPT !.post = p]
           k == Sent(con[c], p, dialog)
<1>2. /\ PageTrue(con[c], db) /\ con[c].post = NoPost /\ con[c].dialog # NoAsk
      /\ Room(con[c].dialog.op) /\ UNCHANGED <<db, session>> /\ db \in Database
  BY Zenon DEF ConsoleInv, Submit
<1>3. con[c].dialog = one.dialog
  <2>1. con[c] \in Pages
    BY <1>2, Zenon DEF PageTrue
  <2> QED
    BY <2>1 DEF Pages
<1>4. dialog = con[c].dialog \/ dialog = NoAsk
  BY Zenon
<1> HIDE DEF dialog
<1>5. /\ p \in Requests /\ p.op = con[c].dialog.op /\ p.status = "sent"
      /\ PageTrue(k, db) /\ k.post = p
  <2>1. PageTrue(con[c], db) /\ con[c].post = NoPost /\ con[c].dialog # NoAsk
    BY <1>2
  <2> QED
    BY <1>1, <1>4, <2>1, SubmitPage
<1> HIDE DEF one
<1>6. con' = [con EXCEPT ![c] = k]
  BY <1>1, <1>3, Zenon DEF ConsoleInv, one, dialog, Sent
<1> HIDE DEF k
<1>7. con' = [e \in Console |-> IF e = c THEN k ELSE con[e]]
  BY <1>6, Zenon DEF ConsoleInv
<1>8. con' = [e \in Console |-> con'[e]] /\ \A e \in Console : PageTrue(con'[e], db)
  BY <1>5, <1>7, Zenon DEF ConsoleInv
<1>9. ASSUME NEW op \in {"create", "createUser"}
      PROVE  /\ Creating(op) \in Nat
             /\ Creating(op)' = IF p.op = op THEN Creating(op) + 1 ELSE Creating(op)
  <2>1. ~Sends(NoPost, op)
    BY DEF Sends, NoPost
  <2>2. c \notin Senders(op) /\ Senders(op) \in SUBSET Console
    BY <1>2, <2>1 DEF Senders
  <2>3. \A e \in Console : Sends(con'[e].post, op) <=>
                             IF e = c THEN p.op = op ELSE Sends(con[e].post, op)
    BY <1>5, <1>7, Zenon DEF Sends
  <2>4. Senders(op)' = IF p.op = op THEN Senders(op) \cup {c} ELSE Senders(op)
    BY <2>2, <2>3 DEF Senders
  <2>5. Creating(op) = Cardinality(Senders(op)) /\ Creating(op)' = Cardinality(Senders(op)')
    BY Zenon DEF Creating, Senders, Sends
  <2> HIDE DEF Senders
  <2>6. /\ Cardinality(Senders(op)) \in Nat
        /\ Cardinality(Senders(op) \cup {c}) = Cardinality(Senders(op)) + 1
    BY <2>2, CountSenders
  <2> QED
    BY <2>4, <2>5, <2>6
<1>10. RoomLeft'
  <2>1. /\ p.op = "create" => NextId(Groups(db)) + Creating("create") <= MaxGroup
        /\ p.op = "createUser" => NextId(Users(db)) + Creating("createUser") <= MaxUser
    BY <1>2, <1>5, Zenon DEF Room
  <2>2. /\ Creating("create") \in Nat
        /\ Creating("create")' = IF p.op = "create" THEN Creating("create") + 1
                                 ELSE Creating("create")
        /\ Creating("createUser") \in Nat
        /\ Creating("createUser")' = IF p.op = "createUser" THEN Creating("createUser") + 1
                                     ELSE Creating("createUser")
    BY <1>9
  <2>3. NextId(Groups(db)) \in Nat /\ NextId(Users(db)) \in Nat /\ MaxGroup \in Nat
        /\ MaxUser \in Nat
    BY <1>2, NextIds
  <2>4. NextId(Groups(db))' = NextId(Groups(db)) /\ NextId(Users(db))' = NextId(Users(db))
    BY <1>2, Zenon
  <2>5. RoomLeft
    BY Zenon DEF ConsoleInv
  <2> QED
    BY <2>1, <2>2, <2>3, <2>4, <2>5 DEF RoomLeft
<1> QED
  BY <1>2, <1>8, <1>10, Zenon DEF ConsoleInv
-----------------------------------------------------------------------------
(* A request is carried out *)

\* What it makes of a page, and of the request.
Drifted(k, groups, users, q) ==
  [k EXCEPT !.gdrift = @ \cup groups, !.udrift = @ \cup users, !.post = q]
Answered(p, o) == [p EXCEPT !.status = o.status, !.row = o.row]

HasDrifted(k, m, groups, users, q) ==
  /\ m \in Pages /\ m.post = q
  /\ m.rows = k.rows /\ m.urows = k.urows
  /\ m.gdrift = k.gdrift \cup groups /\ m.udrift = k.udrift \cup users
  /\ m.gets = k.gets /\ m.dialog = k.dialog

\* The fields of a page that has drifted.
LEMMA DriftedFacts ==
  ASSUME NEW k \in Pages, NEW groups \in SUBSET Group, NEW users \in SUBSET User,
         NEW q \in Requests \cup {NoPost}
  PROVE  HasDrifted(k, Drifted(k, groups, users, q), groups, users, q)
  BY DEF HasDrifted, Drifted, Pages

\* The fields of a request that has its answer.
LEMMA AnsweredFacts ==
  ASSUME NEW p \in Requests, NEW o, o.status \in {"ok", "refused", "error"}, o.row \in Rows
  PROVE  LET q == Answered(p, o)
         IN /\ q \in Requests /\ q.status = o.status /\ q.row = o.row
            /\ q.op = p.op /\ q.id = p.id /\ q.users = p.users /\ q.group = p.group
            /\ q.name = p.name /\ q.toggled = p.toggled /\ q.seen = p.seen
  BY DEF Answered, Requests

\* What differs between two databases are groups and users.
LEMMA TouchedTypes ==
  ASSUME NEW d, NEW e
  PROVE  Touched(d, e) \in SUBSET Group /\ Regrouped(d, e) \in SUBSET User
  BY DEF Touched, Regrouped

\* The page of somebody else.
LEMMA OtherPage ==
  ASSUME NEW d \in Database, NEW e \in Database, NEW k, PageTrue(k, d),
         Dangling(e) \subseteq Dangling(d) \cup Regrouped(d, e)
  PROVE  PageTrue(Drifted(k, Touched(d, e), Regrouped(d, e), k.post), e)
<1> DEFINE m == Drifted(k, Touched(d, e), Regrouped(d, e), k.post)
<1>1. k \in Pages /\ k.post \in Requests \cup {NoPost}
  BY PageTypes DEF PageTrue
<1>2. /\ m \in Pages /\ m.post = k.post /\ m.rows = k.rows /\ m.urows = k.urows
      /\ m.gdrift = k.gdrift \cup Touched(d, e) /\ m.udrift = k.udrift \cup Regrouped(d, e)
      /\ m.gets = k.gets /\ m.dialog = k.dialog
  <2>1. HasDrifted(k, m, Touched(d, e), Regrouped(d, e), k.post)
    BY <1>1, TouchedTypes, DriftedFacts
  <2> QED
    BY <2>1, Zenon DEF HasDrifted
<1> HIDE DEF m
<1>3. /\ \A a \in m.gets : GetTrue(m, a)
      /\ DialogTrue(m, m.dialog) /\ PostTrue(m, m.post)
  <2>1. k.gdrift \subseteq m.gdrift /\ k.udrift \subseteq m.udrift
    BY <1>2
  <2> QED
    BY <1>2, <2>1, DriftTrue DEF PageTrue
<1>4. ListsShow(m, e)
  <2>1. /\ Group \ m.gdrift \in SUBSET (Group \ k.gdrift)
        /\ User \ m.udrift \in SUBSET (User \ k.udrift)
        /\ \A i \in Group \ m.gdrift : i \in Group /\ i \notin Touched(d, e)
        /\ \A i \in User \ m.udrift : i \in User /\ i \notin Regrouped(d, e)
    BY <1>2
  <2>2. /\ \A i \in Group \ m.gdrift : GroupTable(e)[i] = GroupTable(d)[i]
        /\ \A i \in User \ m.udrift : UserTable(e)[i] = UserTable(d)[i]
    BY <2>1, TablesAgree, Zenon
  <2>3. /\ Shows(k.rows, Group \ k.gdrift, GroupTable(d), k.post, "create", "modify", "delete")
        /\ Shows(k.urows, User \ k.udrift, UserTable(d), k.post, "createUser", "modifyUser",
                 "deleteUser")
    BY Zenon DEF PageTrue, ListsShow
  <2>4. Shows(k.rows, Group \ m.gdrift, GroupTable(e), k.post, "create", "modify", "delete")
    BY <2>1, <2>2, <2>3, OthersShow
  <2>5. Shows(k.urows, User \ m.udrift, UserTable(e), k.post, "createUser", "modifyUser",
              "deleteUser")
    BY <2>1, <2>2, <2>3, OthersShow
  <2> QED
    BY <1>2, <2>4, <2>5, Zenon DEF ListsShow
<1>5. Dangling(e) \subseteq m.udrift
  BY <1>2 DEF PageTrue
<1> QED
  BY <1>2, <1>3, <1>4, <1>5, Zenon DEF PageTrue, m

\* What the sender's lists go by, before and after.
LEMMA SenderTables ==
  ASSUME NEW d \in Database, NEW p, NEW o, Effect(d, p, o), NEW q, q.op = p.op, q.id = p.id,
         q.status = o.status, q.row = o.row
  PROVE  /\ \A i \in Group : i \notin Touched(d, o.db) \ Shown(p, o).groups =>
              Becomes(GroupTable(d), GroupTable(o.db), i, q, "create", "modify", "delete")
         /\ \A i \in User : i \notin Regrouped(d, o.db) \ Shown(p, o).users =>
              Becomes(UserTable(d), UserTable(o.db), i, q, "createUser", "modifyUser", "deleteUser")
<1>1. o.db \in Database
  BY Zenon DEF Effect
<1>2. ASSUME NEW i \in Group, i \notin Touched(d, o.db) \ Shown(p, o).groups
      PROVE  Becomes(GroupTable(d), GroupTable(o.db), i, q, "create", "modify", "delete")
  <2>1. /\ GroupTable(d)[i] = IF i \in Groups(d) THEN {GroupRow(d, i)} ELSE {}
        /\ GroupTable(o.db)[i] = IF i \in Groups(o.db) THEN {GroupRow(o.db, i)} ELSE {}
    BY Zenon DEF GroupTable
  <2>2. CASE Awaits(q, "create") /\ q.row.id = i
    BY <2>1, <2>2, Zenon DEF Effect, Awaits, Becomes
  <2>3. CASE Awaits(q, "modify") /\ q.row.id = i
    <3>1. ~Awaits(q, "create")
      BY <2>3 DEF Awaits
    <3> QED
      BY <2>1, <2>3, <3>1, Zenon DEF Effect, Awaits, Becomes
  <2>4. CASE Awaits(q, "delete") /\ q.id = i
    <3>1. ~Awaits(q, "create") /\ ~Awaits(q, "modify")
      BY <2>4 DEF Awaits
    <3> QED
      BY <2>1, <2>4, <3>1, Zenon DEF Effect, Awaits, Becomes
  <2>5. CASE /\ ~(Awaits(q, "create") /\ q.row.id = i) /\ ~(Awaits(q, "modify") /\ q.row.id = i)
             /\ ~(Awaits(q, "delete") /\ q.id = i)
    <3>1. i \notin Shown(p, o).groups
      BY <2>5 DEF Shown, Awaits
    <3>2. GroupTable(o.db)[i] = GroupTable(d)[i]
      BY <1>1, <1>2, <3>1, TablesAgree
    <3> QED
      BY <2>5, <3>2, Zenon DEF Becomes
  <2> QED
    BY <2>2, <2>3, <2>4, <2>5, Zenon
<1>3. ASSUME NEW i \in User, i \notin Regrouped(d, o.db) \ Shown(p, o).users
      PROVE  Becomes(UserTable(d), UserTable(o.db), i, q, "createUser", "modifyUser", "deleteUser")
  <2>1. /\ UserTable(d)[i] = IF i \in Users(d) THEN {UserRow(d, i)} ELSE {}
        /\ UserTable(o.db)[i] = IF i \in Users(o.db) THEN {UserRow(o.db, i)} ELSE {}
    BY Zenon DEF UserTable
  <2>2. CASE Awaits(q, "createUser") /\ q.row.id = i
    BY <2>1, <2>2, Zenon DEF Effect, Awaits, Becomes
  <2>3. CASE Awaits(q, "modifyUser") /\ q.row.id = i
    <3>1. ~Awaits(q, "createUser")
      BY <2>3 DEF Awaits
    <3> QED
      BY <2>1, <2>3, <3>1, Zenon DEF Effect, Awaits, Becomes
  <2>4. CASE Awaits(q, "deleteUser") /\ q.id = i
    <3>1. ~Awaits(q, "createUser") /\ ~Awaits(q, "modifyUser")
      BY <2>4 DEF Awaits
    <3> QED
      BY <2>1, <2>4, <3>1, Zenon DEF Effect, Awaits, Becomes
  <2>5. CASE /\ ~(Awaits(q, "createUser") /\ q.row.id = i)
             /\ ~(Awaits(q, "modifyUser") /\ q.row.id = i)
             /\ ~(Awaits(q, "deleteUser") /\ q.id = i)
    <3>1. i \notin Shown(p, o).users
      BY <2>5 DEF Shown, Awaits
    <3>2. UserTable(o.db)[i] = UserTable(d)[i]
      BY <1>1, <1>3, <3>1, TablesAgree
    <3> QED
      BY <2>5, <3>2, Zenon DEF Becomes
  <2> QED
    BY <2>2, <2>3, <2>4, <2>5, Zenon
<1> QED
  BY <1>2, <1>3

\* The page that sent the request.
LEMMA SenderPage ==
  ASSUME NEW d \in Database, NEW k, PageTrue(k, d), k.post \in Requests, k.post.status = "sent",
         NEW o, Effect(d, k.post, o), KeepsReferences(d, k.post, o)
  PROVE  PageTrue(Drifted(k, Touched(d, o.db) \ Shown(k.post, o).groups,
                          Regrouped(d, o.db) \ Shown(k.post, o).users, Answered(k.post, o)), o.db)
<1> DEFINE p == k.post
           q == Answered(p, o)
           groups == Touched(d, o.db) \ Shown(p, o).groups
           users == Regrouped(d, o.db) \ Shown(p, o).users
           m == Drifted(k, groups, users, q)
<1>0. groups \in SUBSET Group /\ users \in SUBSET User
  BY TouchedTypes
<1>1. /\ k \in Pages /\ o.status \in {"ok", "refused", "error"} /\ o.row \in Rows
      /\ o.db \in Database
  BY Zenon DEF PageTrue, Effect
<1>2. /\ q \in Requests /\ q.status = o.status /\ q.row = o.row
      /\ q.op = p.op /\ q.id = p.id /\ q.users = p.users /\ q.group = p.group
      /\ q.name = p.name /\ q.toggled = p.toggled /\ q.seen = p.seen
  BY <1>1, AnsweredFacts
<1> HIDE DEF q
<1>3. \A i \in Group : i \notin groups =>
        Becomes(GroupTable(d), GroupTable(o.db), i, q, "create", "modify", "delete")
  BY <1>2, SenderTables
<1>4. \A i \in User : i \notin users =>
        Becomes(UserTable(d), UserTable(o.db), i, q, "createUser", "modifyUser", "deleteUser")
  BY <1>2, SenderTables
<1>5. Dangling(o.db) \subseteq Dangling(d) \cup users
  BY Zenon DEF KeepsReferences
<1> HIDE DEF groups, users
<1>6. /\ m \in Pages /\ m.post = q /\ m.rows = k.rows /\ m.urows = k.urows
      /\ m.gdrift = k.gdrift \cup groups /\ m.udrift = k.udrift \cup users
      /\ m.gets = k.gets /\ m.dialog = k.dialog
  <2>1. HasDrifted(k, m, groups, users, q)
    BY <1>0, <1>1, <1>2, DriftedFacts
  <2> QED
    BY <2>1, Zenon DEF HasDrifted
<1> HIDE DEF m
<1>7. /\ \A a \in m.gets : GetTrue(m, a)
      /\ DialogTrue(m, m.dialog) /\ PostTrue(m, p)
  <2>1. k.gdrift \subseteq m.gdrift /\ k.udrift \subseteq m.udrift
    BY <1>6
  <2> QED
    BY <1>6, <2>1, DriftTrue DEF PageTrue
<1>8. PostTrue(m, q)
  <2>1. Awaits(q, "create") \/ Awaits(q, "modify") => q.row \in GroupRows
    <3>1. Groups(o.db) \subseteq Group
      BY <1>1, DatabaseFields
    <3> QED
      BY <1>1, <1>2, <3>1, RowFacts DEF Awaits, Effect
  <2>2. Awaits(q, "createUser") \/ Awaits(q, "modifyUser") => q.row \in UserRows
    BY <1>1, <1>2, RowFacts DEF Awaits, Effect
  <2>3. CheckedUsers(q) = CheckedUsers(p) /\ CheckedGroup(q) = CheckedGroup(p)
    BY <1>2, Zenon DEF CheckedUsers, CheckedGroup
  <2> HIDE DEF p
  <2> QED
    BY <1>2, <1>7, <2>1, <2>2, <2>3, Zenon DEF PostTrue
<1>9. ListsShow(m, o.db)
  <2>1. /\ \A g \in Group \ k.gdrift : RowsOf(k.rows, g) = GroupTable(d)[g]
        /\ \A u \in User \ k.udrift : RowsOf(k.urows, u) = UserTable(d)[u]
    BY ListsSettled DEF PageTrue
  <2>2. /\ Group \ m.gdrift \in SUBSET (Group \ k.gdrift)
        /\ User \ m.udrift \in SUBSET (User \ k.udrift)
        /\ \A i \in Group \ m.gdrift : i \in Group /\ i \notin groups
        /\ \A i \in User \ m.udrift : i \in User /\ i \notin users
    BY <1>6
  <2>3. \A i \in Group \ m.gdrift :
          Becomes(GroupTable(d), GroupTable(o.db), i, q, "create", "modify", "delete")
    BY <1>3, <2>2, Zenon
  <2>4. Shows(k.rows, Group \ m.gdrift, GroupTable(o.db), q, "create", "modify", "delete")
    BY <2>1, <2>2, <2>3, SenderShows
  <2>5. \A i \in User \ m.udrift :
          Becomes(UserTable(d), UserTable(o.db), i, q, "createUser", "modifyUser", "deleteUser")
    BY <1>4, <2>2, Zenon
  <2>6. Shows(k.urows, User \ m.udrift, UserTable(o.db), q, "createUser", "modifyUser",
              "deleteUser")
    BY <2>1, <2>2, <2>5, SenderShows
  <2> QED
    BY <1>6, <2>4, <2>6, Zenon DEF ListsShow
<1>10. Dangling(o.db) \subseteq m.udrift
  BY <1>6, <1>5 DEF PageTrue
<1>11. PageTrue(m, o.db)
  BY <1>6, <1>7, <1>8, <1>9, <1>10, Zenon DEF PageTrue
<1> QED
  BY <1>11, Zenon DEF m, q, p, groups, users

\* Creating counts the senders.
LEMMA SendersFacts ==
  ASSUME NEW op
  PROVE  /\ Creating(op) = Cardinality(Senders(op)) /\ Senders(op) \in SUBSET Console
         /\ Creating(op)' = Cardinality(Senders(op)')
  BY Zenon DEF Creating, Senders, Sends

\* A request that is about to be carried out has an id for what it creates.
LEMMA RequestAcceptable ==
  ASSUME ConsoleInv, NEW c \in Console, con[c].post # NoPost, con[c].post.status = "sent"
  PROVE  con[c].post \in Requests /\ Acceptable(db, con[c].post)
<1> DEFINE p == con[c].post
<1>1. db \in Database /\ NamesUnique(db) /\ PageTrue(con[c], db) /\ RoomLeft
  BY Zenon DEF ConsoleInv
<1>2. p \in Requests /\ PostTrue(con[c], p)
  BY <1>1, PageTypes DEF PageTrue
<1>3. p.op \in {"create", "modify"} => p.name \in Name
  BY <1>2, Zenon DEF PostTrue
<1>4. ASSUME NEW op, p.op = op
      PROVE  Creating(op) \in Nat /\ Creating(op) > 0
  <2>1. c \in Senders(op)
    BY <1>4 DEF Senders, Sends
  <2> QED
    BY <2>1, SendersFacts, CountSenders
<1>5. /\ NextId(Groups(db)) \in 1..(MaxGroup + 1) /\ NextId(Users(db)) \in 1..(MaxUser + 1)
      /\ MaxGroup \in Nat /\ MaxUser \in Nat
  BY <1>1, NextIds
<1>6. p.op = "create" => NextId(Groups(db)) \in Group
  BY <1>1, <1>4, <1>5 DEF RoomLeft, Group
<1>7. p.op = "createUser" => NextId(Users(db)) \in User
  BY <1>1, <1>4, <1>5 DEF RoomLeft, User
<1> QED
  BY <1>1, <1>2, <1>3, <1>6, <1>7, Zenon DEF Acceptable

\* What a page becomes when the request of c comes to o.
PageAfter(c, k, o) ==
  IF k = c THEN Drifted(con[c], Touched(db, o.db) \ Shown(con[c].post, o).groups,
                        Regrouped(db, o.db) \ Shown(con[c].post, o).users,
                        Answered(con[c].post, o))
  ELSE Drifted(con[k], Touched(db, o.db), Regrouped(db, o.db), con[k].post)

\* What ServePost does, by its outcome.
LEMMA ServePostSteps ==
  ASSUME ConsoleInv, NEW c \in Console, ServePost(c)
  PROVE  \E o :
           /\ \/ session = "up" /\ o \in Perform(db, con[c].post)
              \/ session = "failed" /\ o \in FlushFails(db)
           /\ Effect(db, con[c].post, o) /\ KeepsReferences(db, con[c].post, o)
           /\ db' = o.db /\ session' = o.session
           /\ con' = [k \in Console |-> PageAfter(c, k, o)]
<1> DEFINE p == con[c].post
           learns(k, o) == IF k = c THEN Shown(p, o) ELSE [groups |-> {}, users |-> {}]
<1>1. PICK o \in IF session = "failed"
                   THEN {[Outcome(db, "error", NoRow) EXCEPT !.session = "failed"]}
                   ELSE Perform(db, p) :
        /\ db' = o.db /\ session' = o.session
        /\ con' = [k \in Console |->
             [con[k] EXCEPT !.gdrift = @ \cup (Touched(db, o.db) \ learns(k, o).groups),
                            !.udrift = @ \cup (Regrouped(db, o.db) \ learns(k, o).users),
                            !.post = IF k = c THEN [p EXCEPT !.status = o.status, !.row = o.row]
                                     ELSE @]]
  BY Zenon DEF ServePost
<1>2. \/ session = "up" /\ o \in Perform(db, p)
      \/ session = "failed" /\ o \in FlushFails(db)
  <2>1. session = "up" \/ session = "failed"
    BY DEF ConsoleInv
  <2>2. "up" # "failed"
    OBVIOUS
  <2> QED
    BY <1>1, <2>1, <2>2, Zenon DEF FlushFails
<1>3. Acceptable(db, p)
  BY RequestAcceptable DEF ServePost
<1>4. Effect(db, p, o) /\ KeepsReferences(db, p, o)
  BY <1>2, <1>3, PerformEffect, NothingDone
<1>5. ASSUME NEW k \in Console
      PROVE  [con[k] EXCEPT !.gdrift = @ \cup (Touched(db, o.db) \ learns(k, o).groups),
                            !.udrift = @ \cup (Regrouped(db, o.db) \ learns(k, o).users),
                            !.post = IF k = c THEN [p EXCEPT !.status = o.status, !.row = o.row]
                                     ELSE @] = PageAfter(c, k, o)
  <2>1. CASE k = c
    BY <2>1, Zenon DEF PageAfter, Drifted, Answered
  <2>2. CASE k # c
    <3>1. learns(k, o).groups = {} /\ learns(k, o).users = {}
      BY <2>2
    <3>2. /\ Touched(db, o.db) \ learns(k, o).groups = Touched(db, o.db)
          /\ Regrouped(db, o.db) \ learns(k, o).users = Regrouped(db, o.db)
      BY <3>1, Zenon
    <3> HIDE DEF learns
    <3> QED
      BY <2>2, <3>2, Zenon DEF PageAfter, Drifted
  <2> QED
    BY <2>1, <2>2, Zenon
<1>6. con' = [k \in Console |-> PageAfter(c, k, o)]
  BY <1>1, <1>5, Zenon
<1> QED
  BY <1>1, <1>2, <1>4, <1>6, Zenon

\* The next ids after an outcome.
LEMMA EffectIds ==
  ASSUME NEW d \in Database, NEW p, NEW o, Effect(d, p, o)
  PROVE  /\ NextId(Groups(d)) \in Nat /\ NextId(Groups(o.db)) \in Nat
         /\ NextId(Users(d)) \in Nat /\ NextId(Users(o.db)) \in Nat
         /\ NextId(Groups(o.db)) <= NextId(Groups(d)) + (IF p.op = "create" THEN 1 ELSE 0)
         /\ NextId(Users(o.db)) <= NextId(Users(d)) + (IF p.op = "createUser" THEN 1 ELSE 0)
<1>1. /\ o.db \in Database
      /\ p.op = "create" => Groups(o.db) \subseteq Groups(d) \cup {NextId(Groups(d))}
      /\ p.op # "create" => Groups(o.db) \subseteq Groups(d)
      /\ p.op = "createUser" => Users(o.db) \subseteq Users(d) \cup {NextId(Users(d))}
      /\ p.op # "createUser" => Users(o.db) \subseteq Users(d)
  BY DEF Effect
<1>2. /\ Groups(d) \in SUBSET (1..MaxGroup) /\ Groups(o.db) \in SUBSET (1..MaxGroup)
      /\ Users(d) \in SUBSET (1..MaxUser) /\ Users(o.db) \in SUBSET (1..MaxUser)
      /\ MaxGroup \in Nat /\ MaxUser \in Nat
  BY <1>1, DatabaseFields, ConsoleAssumption DEF Group, User
<1>3. /\ Groups(o.db) \subseteq Groups(d) => NextId(Groups(o.db)) <= NextId(Groups(d))
      /\ Groups(o.db) \subseteq Groups(d) \cup {NextId(Groups(d))} =>
           NextId(Groups(o.db)) <= NextId(Groups(d)) + 1
  BY <1>2, NextIdGrows
<1>4. /\ Users(o.db) \subseteq Users(d) => NextId(Users(o.db)) <= NextId(Users(d))
      /\ Users(o.db) \subseteq Users(d) \cup {NextId(Users(d))} =>
           NextId(Users(o.db)) <= NextId(Users(d)) + 1
  BY <1>2, NextIdGrows
<1>5. /\ NextId(Groups(d)) \in 1..(MaxGroup + 1) /\ NextId(Groups(o.db)) \in 1..(MaxGroup + 1)
      /\ NextId(Users(d)) \in 1..(MaxUser + 1) /\ NextId(Users(o.db)) \in 1..(MaxUser + 1)
  BY <1>1, NextIds
<1> QED
  BY <1>1, <1>2, <1>3, <1>4, <1>5

\* A request is carried out: the pages that do not learn of it drift, and there is still an
\* id for each of the others.
LEMMA ServePostTrue ==
  ASSUME ConsoleInv, NEW c \in Console, ServePost(c)
  PROVE  ConsoleInv'
<1> DEFINE p == con[c].post
<1>1. PICK o :
        /\ Effect(db, p, o) /\ KeepsReferences(db, p, o) /\ db' = o.db /\ session' = o.session
        /\ con' = [k \in Console |-> PageAfter(c, k, o)]
  BY ServePostSteps
<1>2. db \in Database /\ RoomLeft /\ \A k \in Console : PageTrue(con[k], db)
  BY Zenon DEF ConsoleInv
<1>3. p \in Requests /\ p.status = "sent"
  BY RequestAcceptable DEF ServePost
<1>4. o.db \in Database /\ NamesUnique(o.db) /\ o.session \in {"up", "failed"}
      /\ o.status \in {"ok", "refused", "error"} /\ o.row \in Rows
  BY <1>1, Zenon DEF Effect
<1>5. PageTrue(PageAfter(c, c, o), o.db) /\ PageAfter(c, c, o).post = Answered(p, o)
  <2>1. Touched(db, o.db) \ Shown(p, o).groups \in SUBSET Group
        /\ Regrouped(db, o.db) \ Shown(p, o).users \in SUBSET User
    BY TouchedTypes
  <2>2. con[c] \in Pages
    BY <1>2, Zenon DEF PageTrue
  <2>3. Answered(p, o) \in Requests
    BY <1>3, <1>4, AnsweredFacts
  <2>4. HasDrifted(con[c], PageAfter(c, c, o), Touched(db, o.db) \ Shown(p, o).groups,
                   Regrouped(db, o.db) \ Shown(p, o).users, Answered(p, o))
    BY <2>1, <2>2, <2>3, DriftedFacts DEF PageAfter
  <2>5. PageTrue(con[c], db)
    BY <1>2
  <2>6. PageTrue(PageAfter(c, c, o), o.db)
    BY <1>1, <1>2, <1>3, <2>5, SenderPage DEF PageAfter
  <2> QED
    BY <2>4, <2>6, Zenon DEF HasDrifted
<1>6. ASSUME NEW k \in Console, k # c
      PROVE  PageTrue(PageAfter(c, k, o), o.db) /\ PageAfter(c, k, o).post = con[k].post
  <2>1. con[k] \in Pages /\ con[k].post \in Requests \cup {NoPost} /\ PageTrue(con[k], db)
    BY <1>2, PageTypes DEF PageTrue
  <2>2. HasDrifted(con[k], PageAfter(c, k, o), Touched(db, o.db), Regrouped(db, o.db), con[k].post)
    BY <1>6, <2>1, TouchedTypes, DriftedFacts DEF PageAfter
  <2>3. Dangling(o.db) \subseteq Dangling(db) \cup Regrouped(db, o.db)
    BY <1>1 DEF KeepsReferences
  <2>4. PageTrue(PageAfter(c, k, o), o.db)
    BY <1>2, <1>4, <1>6, <2>1, <2>3, OtherPage DEF PageAfter
  <2> QED
    BY <2>2, <2>4, Zenon DEF HasDrifted
<1>7. /\ con' = [k \in Console |-> con'[k]]
      /\ \A k \in Console : PageTrue(con'[k], db') /\ con'[k].post = IF k = c THEN Answered(p, o)
                                                                     ELSE con[k].post
  BY <1>1, <1>5, <1>6, Zenon
<1>8. Answered(p, o).op = p.op /\ Answered(p, o).status # "sent"
  BY <1>3, <1>4, AnsweredFacts
<1>9. ASSUME NEW op
      PROVE  /\ Creating(op) \in Nat /\ Creating(op)' \in Nat
             /\ p.op = op => Creating(op)' = Creating(op) - 1 /\ Creating(op) > 0
             /\ p.op # op => Creating(op)' = Creating(op)
  <2>1. /\ p.op = op => c \in Senders(op) /\ Senders(op)' = Senders(op) \ {c}
        /\ p.op # op => Senders(op)' = Senders(op)
    BY <1>3, <1>7, <1>8 DEF Senders, Sends
  <2>2. /\ Creating(op) = Cardinality(Senders(op)) /\ Creating(op)' = Cardinality(Senders(op)')
        /\ Senders(op) \in SUBSET Console
    BY SendersFacts
  <2>3. /\ Cardinality(Senders(op)) \in Nat
        /\ c \in Senders(op) => Cardinality(Senders(op)) > 0
        /\ c \in Senders(op) => Cardinality(Senders(op) \ {c}) = Cardinality(Senders(op)) - 1
    BY <2>2, CountSenders
  <2> HIDE DEF Senders, p
  <2>4. CASE p.op = op
    <3>1. Creating(op)' = Cardinality(Senders(op) \ {c}) /\ c \in Senders(op)
      BY <2>1, <2>2, <2>4, Zenon
    <3>2. Creating(op)' = Cardinality(Senders(op)) - 1 /\ Cardinality(Senders(op)) > 0
      BY <2>3, <3>1, Zenon
    <3> QED
      BY <2>2, <2>3, <2>4, <3>2
  <2>5. CASE p.op # op
    <3>1. Creating(op)' = Creating(op)
      BY <2>1, <2>2, <2>5, Zenon
    <3> QED
      BY <2>2, <2>3, <2>5, <3>1
  <2> QED
    BY <2>4, <2>5
<1>10. RoomLeft'
  <2>1. /\ NextId(Groups(db)) \in Nat /\ NextId(Groups(db')) \in Nat
        /\ NextId(Users(db)) \in Nat /\ NextId(Users(db')) \in Nat
        /\ NextId(Groups(db')) <= NextId(Groups(db)) + (IF p.op = "create" THEN 1 ELSE 0)
        /\ NextId(Users(db')) <= NextId(Users(db)) + (IF p.op = "createUser" THEN 1 ELSE 0)
    BY <1>1, <1>2, EffectIds
  <2>2. NextId(Groups(db))' = NextId(Groups(db')) /\ NextId(Users(db))' = NextId(Users(db'))
    BY Zenon DEF Groups, Users
  <2>3. /\ Creating("create") \in Nat /\ Creating("create")' \in Nat
        /\ p.op = "create" => Creating("create")' = Creating("create") - 1 /\ Creating("create") > 0
        /\ p.op # "create" => Creating("create")' = Creating("create")
    BY <1>9
  <2>4. /\ Creating("createUser") \in Nat /\ Creating("createUser")' \in Nat
        /\ p.op = "createUser" =>
             Creating("createUser")' = Creating("createUser") - 1 /\ Creating("createUser") > 0
        /\ p.op # "createUser" => Creating("createUser")' = Creating("createUser")
    BY <1>9
  <2>5. MaxGroup \in Nat /\ MaxUser \in Nat
    BY ConsoleAssumption
  <2> HIDE DEF p
  <2> QED
    BY <1>2, <2>1, <2>2, <2>3, <2>4, <2>5 DEF RoomLeft
<1> QED
  BY <1>1, <1>4, <1>7, <1>10, Zenon DEF ConsoleInv
-----------------------------------------------------------------------------
(* The answer to a request arrives *)

\* What a page becomes, but for what it shows.
Became(k, m, rows, urows) ==
  /\ m \in Pages /\ m.post = NoPost /\ m.rows = rows /\ m.urows = urows
  /\ m.gdrift = k.gdrift /\ m.udrift = k.udrift
  /\ \A a \in m.gets : a \in k.gets \/ GetTrue(k, a)
  /\ m.dialog = k.dialog \/ m.dialog = NoAsk
ListsRight(k, rows, urows, d) ==
  /\ \A g \in Group \ k.gdrift : RowsOf(rows, g) = GroupTable(d)[g]
  /\ \A u \in User \ k.udrift : RowsOf(urows, u) = UserTable(d)[u]

\* A page that waits for nothing has nothing to know of a request.
LEMMA NoPostTrue == NoPost.op \notin ByGet \cup Direct /\ \A k : PostTrue(k, NoPost)
<1>1. NoPost.op = "none"
  BY DEF NoPost
<1> HIDE DEF NoPost
<1> QED
  BY <1>1 DEF PostTrue, Awaits, ByGet, Direct

\* A page with lists that are right is as it should be.
LEMMA BecameTrue ==
  ASSUME NEW k, NEW d, PageTrue(k, d), NEW m, NEW rows, NEW urows, Became(k, m, rows, urows),
         ListsRight(k, rows, urows, d)
  PROVE  PageTrue(m, d) /\ m.post = NoPost
<1>1. k.gdrift \subseteq m.gdrift /\ k.udrift \subseteq m.udrift
  BY Zenon DEF Became
<1>2. \A a \in m.gets : GetTrue(m, a)
  BY <1>1, DriftTrue DEF Became, PageTrue
<1>3. DialogTrue(m, m.dialog)
  <2>1. DialogTrue(k, k.dialog) => DialogTrue(m, k.dialog)
    BY <1>1, DriftTrue
  <2> QED
    BY <2>1, NothingAsked, Zenon DEF Became, PageTrue
<1>4. PostTrue(m, m.post)
  BY NoPostTrue, Zenon DEF Became
<1>5. ListsShow(m, d)
  BY NoPostTrue, ListsSettled, Zenon DEF Became, ListsRight
<1> QED
  BY <1>2, <1>3, <1>4, <1>5, Zenon DEF PageTrue, Became

\* A page with other rows.
LEMMA SetRows ==
  ASSUME NEW k \in Pages
  PROVE  /\ \A v \in SUBSET GroupRows :
              LET m == [k EXCEPT !.rows = v]
              IN /\ m \in Pages /\ m.post = k.post /\ m.rows = v /\ m.urows = k.urows
                 /\ m.gdrift = k.gdrift /\ m.udrift = k.udrift /\ m.gets = k.gets
                 /\ m.dialog = k.dialog
         /\ \A v \in SUBSET UserRows :
              LET m == [k EXCEPT !.urows = v]
              IN /\ m \in Pages /\ m.post = k.post /\ m.rows = k.rows /\ m.urows = v
                 /\ m.gdrift = k.gdrift /\ m.udrift = k.udrift /\ m.gets = k.gets
                 /\ m.dialog = k.dialog
  BY DEF Pages

\* The steps that the answers are made of.
LEMMA IdleBecame ==
  ASSUME NEW k \in Pages
  PROVE  Became(k, [k EXCEPT !.post = NoPost], k.rows, k.urows)
<1> DEFINE m == [k EXCEPT !.post = NoPost]
<1>1. NoPost \in Requests \cup {NoPost}
  OBVIOUS
<1>2. /\ m \in Pages /\ m.post = NoPost
      /\ m.rows = k.rows /\ m.urows = k.urows /\ m.gdrift = k.gdrift /\ m.udrift = k.udrift
      /\ m.gets = k.gets /\ m.dialog = k.dialog
  BY <1>1, SetRequest
<1> HIDE DEF m
<1>3. Became(k, m, k.rows, k.urows)
  BY <1>2, Zenon DEF Became
<1> QED
  BY <1>3 DEF m

\* The dialog goes.
LEMMA ClosedBecame ==
  ASSUME NEW k, NEW i, NEW rows, NEW urows, Became(k, i, rows, urows), NEW oprs
  PROVE  Became(k, Closed(i, oprs), rows, urows)
<1> DEFINE m == [i EXCEPT !.dialog = NoAsk]
<1>1. i \in Pages
  BY Zenon DEF Became
<1>2. m \in Pages /\ Alike(i, m) /\ m.gets = i.gets /\ m.dialog = NoAsk
  BY <1>1, SetField, NothingAsked, Zenon
<1>3. Closed(i, oprs) = m \/ Closed(i, oprs) = i
  BY Zenon DEF Closed
<1> HIDE DEF m
<1>4. Became(k, m, rows, urows)
  BY <1>2, Zenon DEF Became, Alike
<1> QED
  BY <1>3, <1>4, Zenon

\* The graph is loaded again.
LEMMA ResetBecame ==
  ASSUME NEW k, NEW i, NEW rows, NEW urows, Became(k, i, rows, urows)
  PROVE  Became(k, Reset(i), rows, urows)
<1> DEFINE one == [i EXCEPT !.graph = <<>>]
           two == [one EXCEPT !.view = "loading"]
<1>1. i \in Pages /\ <<>> \in Seq(Database)
  BY EmptySeq, Zenon DEF Became
<1>2. one \in Pages /\ Alike(i, one) /\ one.gets = i.gets /\ one.dialog = i.dialog
  BY <1>1, SetField, Zenon
<1>3. Reset(i) = two
  BY Zenon DEF Reset
<1> HIDE DEF one
<1>4. "loading" \in {"graph", "users", "loading"}
  OBVIOUS
<1>5. two \in Pages /\ Alike(one, two) /\ two.gets = one.gets /\ two.dialog = one.dialog
  BY <1>2, <1>4, SetField, Zenon
<1> HIDE DEF two
<1> QED
  BY <1>2, <1>3, <1>5, Zenon DEF Became, Alike

\* A list gets other rows.
LEMMA RowsBecame ==
  ASSUME NEW k, NEW i, NEW rows, NEW urows, Became(k, i, rows, urows)
  PROVE  /\ \A v \in SUBSET GroupRows : Became(k, [i EXCEPT !.rows = v], v, urows)
         /\ \A v \in SUBSET UserRows : Became(k, [i EXCEPT !.urows = v], rows, v)
<1>1. i \in Pages
  BY Zenon DEF Became
<1>2. ASSUME NEW v \in SUBSET GroupRows
      PROVE  Became(k, [i EXCEPT !.rows = v], v, urows)
  <2> DEFINE m == [i EXCEPT !.rows = v]
  <2>1. /\ m \in Pages /\ m.post = i.post /\ m.rows = v /\ m.urows = i.urows
        /\ m.gdrift = i.gdrift /\ m.udrift = i.udrift /\ m.gets = i.gets
        /\ m.dialog = i.dialog
    BY <1>1, SetRows
  <2> HIDE DEF m
  <2>2. Became(k, m, v, urows)
    BY <2>1, Zenon DEF Became
  <2> QED
    BY <2>2 DEF m
<1>3. ASSUME NEW v \in SUBSET UserRows
      PROVE  Became(k, [i EXCEPT !.urows = v], rows, v)
  <2> DEFINE m == [i EXCEPT !.urows = v]
  <2>1. /\ m \in Pages /\ m.post = i.post /\ m.rows = i.rows /\ m.urows = v
        /\ m.gdrift = i.gdrift /\ m.udrift = i.udrift /\ m.gets = i.gets
        /\ m.dialog = i.dialog
    BY <1>1, SetRows
  <2> HIDE DEF m
  <2>2. Became(k, m, rows, v)
    BY <2>1, Zenon DEF Became
  <2> QED
    BY <2>2 DEF m
<1> QED
  BY <1>2, <1>3

\* groupsContent, whose new graph asks for a list.
LEMMA ContentBecame ==
  ASSUME db \in Database, NEW k, NEW i, NEW rows, NEW urows, Became(k, i, rows, urows),
         NEW m \in groupsContent(i)
  PROVE  Became(k, m, rows, urows)
<1> DEFINE ask == [Ask("content", 0, {}, None) EXCEPT !.n = i.clicks]
           one == [i EXCEPT !.gets = @ \cup {ask}]
<1>1. i \in Pages /\ i.clicks \in Nat /\ i.gets \in SUBSET Asks
  BY PageTypes, Zenon DEF Became
<1>2. AsksFor(ask, "content", 0, {}, None)
  <2>1. "content" \in ByGet \cup Direct \cup {"content"} /\ 0 \in Ids /\ {} \in SUBSET User
        /\ None \in Group \cup {None}
    BY ConsoleAssumption DEF Ids
  <2>2. db \in Database
    OBVIOUS
  <2>3. \A n \in Nat : AsksFor([Ask("content", 0, {}, None) EXCEPT !.n = n], "content", 0, {}, None)
    BY <2>1, <2>2, AskFacts
  <2> QED
    BY <1>1, <2>3
<1>3. m = Closed(one, GroupOprs)
  BY Zenon DEF groupsContent
<1> HIDE DEF ask
<1>4. ask \in Asks /\ GetTrue(k, ask)
  <2>1. Len(<<db>>) = 1 /\ "content" # "modify" /\ "content" # "modifyUser"
        /\ "content" \in ByGet \cup {"content"}
    OBVIOUS
  <2> QED
    BY <1>2, <2>1, Zenon DEF AsksFor, GetTrue, AskTrue
<1>5. /\ i.gets \cup {ask} \in SUBSET Asks
      /\ \A a \in i.gets \cup {ask} : a \in k.gets \/ GetTrue(k, a)
  BY <1>1, <1>4 DEF Became
<1>6. one \in Pages /\ Alike(i, one) /\ one.gets = i.gets \cup {ask} /\ one.dialog = i.dialog
  <2>1. \A v \in SUBSET Asks :
          LET n == [i EXCEPT !.gets = v]
          IN n \in Pages /\ Alike(i, n) /\ n.gets = v /\ n.dialog = i.dialog
    BY <1>1, SetField
  <2>2. one = [i EXCEPT !.gets = i.gets \cup {ask}]
    BY Zenon
  <2> HIDE DEF one
  <2> QED
    BY <1>5, <2>1, <2>2, Zenon
<1> HIDE DEF one
<1>7. Became(k, one, rows, urows)
  BY <1>5, <1>6, Zenon DEF Became, Alike
<1> QED
  BY <1>3, <1>7, ClosedBecame

\* What the answer to k's request can make of k.
MadeOf(k, m, d) ==
  \E rows, urows : Became(k, m, rows, urows) /\ ListsRight(k, rows, urows, d)

\* An answer that the lists do not wait for.
LEMMA ContentsMade ==
  ASSUME NEW k, NEW d, PageTrue(k, d),
         k.post.status # "ok" \/ k.post.op \in {"removeUser", "updateUserGroup"}
  PROVE  ListsRight(k, k.rows, k.urows, d)
<1> DEFINE p == k.post
<1>1. /\ ~Awaits(p, "create") /\ ~Awaits(p, "modify") /\ ~Awaits(p, "delete")
      /\ ~Awaits(p, "createUser") /\ ~Awaits(p, "modifyUser") /\ ~Awaits(p, "deleteUser")
  BY DEF Awaits
<1>2. /\ Shows(k.rows, Group \ k.gdrift, GroupTable(d), p, "create", "modify", "delete")
      /\ Shows(k.urows, User \ k.udrift, UserTable(d), p, "createUser", "modifyUser", "deleteUser")
  BY Zenon DEF PageTrue, ListsShow
<1> HIDE DEF p
<1>3. \A g \in Group \ k.gdrift : RowsOf(k.rows, g) = GroupTable(d)[g]
  BY <1>1, <1>2, Settled
<1>4. \A u \in User \ k.udrift : RowsOf(k.urows, u) = UserTable(d)[u]
  BY <1>1, <1>2, Settled
<1> QED
  BY <1>3, <1>4, Zenon DEF ListsRight

\* groupCreate, groupChange and groupDelete bring the list of groups up to date.
LEMMA GroupAnswered ==
  ASSUME NEW k, NEW d, PageTrue(k, d), NEW p, p = k.post, p.status = "ok",
         NEW i, Became(k, i, k.rows, k.urows), NEW m,
         \/ p.op = "create" /\ m \in groupCreate(i, p.row)
         \/ p.op = "modify" /\ m \in groupChange(i, p.row)
         \/ p.op = "delete" /\ m \in groupDelete(i, p.id)
  PROVE  MadeOf(k, m, d)
<1>1. /\ Shows(k.rows, Group \ k.gdrift, GroupTable(d), p, "create", "modify", "delete")
      /\ Shows(k.urows, User \ k.udrift, UserTable(d), p, "createUser", "modifyUser", "deleteUser")
  BY Zenon DEF PageTrue, ListsShow
<1>2. ~Awaits(p, "createUser") /\ ~Awaits(p, "modifyUser") /\ ~Awaits(p, "deleteUser")
  BY DEF Awaits
<1>3. \A u \in User \ k.udrift : RowsOf(k.urows, u) = UserTable(d)[u]
  BY <1>1, <1>2, Settled
<1>4. k.rows \in SUBSET GroupRows /\ PostTrue(k, p)
  BY PageTypes DEF PageTrue
<1>5. i.rows = k.rows
  BY Zenon DEF Became
<1>6. ASSUME NEW rows \in SUBSET GroupRows,
             \A g \in Group \ k.gdrift : RowsOf(rows, g) = GroupTable(d)[g],
             NEW n, Became(k, n, rows, k.urows)
      PROVE  MadeOf(k, n, d)
  BY <1>3, <1>6, Zenon DEF MadeOf, ListsRight
<1>7. ASSUME NEW rows \in SUBSET GroupRows,
             \A g \in Group \ k.gdrift : RowsOf(rows, g) = GroupTable(d)[g]
      PROVE  MadeOf(k, Closed(Reset([i EXCEPT !.rows = rows]), GroupOprs), d)
  <2>1. Became(k, [i EXCEPT !.rows = rows], rows, k.urows)
    BY RowsBecame
  <2>2. Became(k, Closed(Reset([i EXCEPT !.rows = rows]), GroupOprs), rows, k.urows)
    BY <2>1, ResetBecame, ClosedBecame
  <2> QED
    BY <1>6, <1>7, <2>2
<1>8. CASE p.op = "create" /\ m \in groupCreate(i, p.row)
  <2>1. Awaits(p, "create") /\ p.row \in GroupRows
    BY <1>4, <1>8 DEF Awaits, PostTrue
  <2>2. \A g \in Group \ k.gdrift : RowsOf(k.rows \cup {p.row}, g) = GroupTable(d)[g]
    BY <1>1, <2>1, AddedShows
  <2>3. m = Closed(Reset([i EXCEPT !.rows = k.rows \cup {p.row}]), GroupOprs)
    BY <1>5, <1>8, Zenon DEF groupCreate
  <2>4. k.rows \cup {p.row} \in SUBSET GroupRows
    BY <1>4, <2>1
  <2> QED
    BY <1>7, <2>2, <2>3, <2>4
<1>9. CASE p.op = "modify" /\ m \in groupChange(i, p.row)
  <2>1. Awaits(p, "modify") /\ p.row \in GroupRows
    BY <1>4, <1>9 DEF Awaits, PostTrue
  <2>2. \A g \in Group \ k.gdrift :
          /\ Replaced(k.rows, p.row) = {} => RowsOf(k.rows, g) = GroupTable(d)[g]
          /\ \A new \in Replaced(k.rows, p.row) : RowsOf(new, g) = GroupTable(d)[g]
    BY <1>1, <2>1, ReplacedShows
  <2>3. CASE Replaced(k.rows, p.row) = {}
    <3>1. m = Reset(i)
      BY <1>5, <1>9, <2>3 DEF groupChange
    <3>2. Became(k, m, k.rows, k.urows)
      BY <3>1, ResetBecame
    <3> QED
      BY <1>4, <1>6, <2>2, <2>3, <3>2
  <2>4. CASE Replaced(k.rows, p.row) # {}
    <3>1. PICK rows \in Replaced(k.rows, p.row) : m = Closed(Reset([i EXCEPT !.rows = rows]), GroupOprs)
      BY <1>5, <1>9, <2>4, Zenon DEF groupChange
    <3>2. rows \in SUBSET GroupRows
      BY <1>4, <2>1 DEF Replaced
    <3> QED
      BY <1>7, <2>2, <3>1, <3>2
  <2> QED
    BY <2>3, <2>4
<1>10. CASE p.op = "delete" /\ m \in groupDelete(i, p.id)
  <2>1. Awaits(p, "delete")
    BY <1>10 DEF Awaits
  <2>2. \A g \in Group \ k.gdrift :
          /\ RowsOf(k.rows, p.id) = {} => RowsOf(k.rows, g) = GroupTable(d)[g]
          /\ \A r \in k.rows : r.id = p.id => RowsOf(k.rows \ {r}, g) = GroupTable(d)[g]
    BY <1>1, <2>1, RemovedShows
  <2>3. \/ \E r \in k.rows : r.id = p.id /\ m = Closed(Reset([i EXCEPT !.rows = k.rows \ {r}]), GroupOprs)
        \/ RowsOf(k.rows, p.id) = {} /\ m = Closed(Reset(i), GroupOprs)
    <3>1. groupDelete(i, p.id) =
            {Closed(Reset([i EXCEPT !.rows = k.rows \ {r}]), GroupOprs) : r \in {r \in k.rows : r.id = p.id}}
              \cup IF {r \in k.rows : r.id = p.id} = {} THEN {Closed(Reset(i), GroupOprs)} ELSE {}
      BY <1>5, Zenon DEF groupDelete
    <3> QED
      BY <1>10, <3>1, Zenon DEF RowsOf
  <2>4. CASE \E r \in k.rows : r.id = p.id /\ m = Closed(Reset([i EXCEPT !.rows = k.rows \ {r}]), GroupOprs)
    <3>1. PICK r \in k.rows : r.id = p.id /\ m = Closed(Reset([i EXCEPT !.rows = k.rows \ {r}]), GroupOprs)
      BY <2>4
    <3>2. k.rows \ {r} \in SUBSET GroupRows
      BY <1>4
    <3> QED
      BY <1>7, <2>2, <3>1, <3>2
  <2>5. CASE RowsOf(k.rows, p.id) = {} /\ m = Closed(Reset(i), GroupOprs)
    <3>1. Became(k, m, k.rows, k.urows)
      BY <2>5, ResetBecame, ClosedBecame
    <3> QED
      BY <1>4, <1>6, <2>2, <2>5, <3>1
  <2> QED
    BY <2>3, <2>4, <2>5
<1> QED
  BY <1>8, <1>9, <1>10

\* userCreate, userChange and userDelete bring the list of users up to date.
LEMMA UserAnswered ==
  ASSUME NEW k, NEW d, PageTrue(k, d), NEW p, p = k.post, p.status = "ok",
         NEW i, Became(k, i, k.rows, k.urows), NEW m,
         \/ p.op = "createUser" /\ m \in userCreate(i, p.row)
         \/ p.op = "modifyUser" /\ m \in userChange(i, p.row)
         \/ p.op = "deleteUser" /\ m \in userDelete(i, p.id)
  PROVE  MadeOf(k, m, d)
<1>1. /\ Shows(k.rows, Group \ k.gdrift, GroupTable(d), p, "create", "modify", "delete")
      /\ Shows(k.urows, User \ k.udrift, UserTable(d), p, "createUser", "modifyUser", "deleteUser")
  BY Zenon DEF PageTrue, ListsShow
<1>2. ~Awaits(p, "create") /\ ~Awaits(p, "modify") /\ ~Awaits(p, "delete")
  BY DEF Awaits
<1>3. \A g \in Group \ k.gdrift : RowsOf(k.rows, g) = GroupTable(d)[g]
  BY <1>1, <1>2, Settled
<1>4. k.urows \in SUBSET UserRows /\ PostTrue(k, p)
  BY PageTypes DEF PageTrue
<1>5. i.urows = k.urows
  BY Zenon DEF Became
<1>6. ASSUME NEW urows \in SUBSET UserRows,
             \A u \in User \ k.udrift : RowsOf(urows, u) = UserTable(d)[u],
             NEW n, Became(k, n, k.rows, urows)
      PROVE  MadeOf(k, n, d)
  BY <1>3, <1>6, Zenon DEF MadeOf, ListsRight
<1>7. ASSUME NEW urows \in SUBSET UserRows
      PROVE  /\ Became(k, [i EXCEPT !.urows = urows], k.rows, urows)
             /\ Became(k, Closed([i EXCEPT !.urows = urows], UserOprs), k.rows, urows)
  <2>1. Became(k, [i EXCEPT !.urows = urows], k.rows, urows)
    BY RowsBecame
  <2> QED
    BY <2>1, ClosedBecame
<1>8. CASE p.op = "createUser" /\ m \in userCreate(i, p.row)
  <2>1. Awaits(p, "createUser") /\ p.row \in UserRows
    BY <1>4, <1>8 DEF Awaits, PostTrue
  <2>2. \A u \in User \ k.udrift : RowsOf(k.urows \cup {p.row}, u) = UserTable(d)[u]
    BY <1>1, <2>1, AddedShows
  <2>3. m = Closed([i EXCEPT !.urows = k.urows \cup {p.row}], UserOprs)
    BY <1>5, <1>8, Zenon DEF userCreate
  <2>4. k.urows \cup {p.row} \in SUBSET UserRows
    BY <1>4, <2>1
  <2> QED
    BY <1>6, <1>7, <2>2, <2>3, <2>4
<1>9. CASE p.op = "modifyUser" /\ m \in userChange(i, p.row)
  <2>1. Awaits(p, "modifyUser") /\ p.row \in UserRows
    BY <1>4, <1>9 DEF Awaits, PostTrue
  <2>2. \A u \in User \ k.udrift :
          /\ Replaced(k.urows, p.row) = {} => RowsOf(k.urows, u) = UserTable(d)[u]
          /\ \A new \in Replaced(k.urows, p.row) : RowsOf(new, u) = UserTable(d)[u]
    BY <1>1, <2>1, ReplacedShows
  <2>3. CASE Replaced(k.urows, p.row) = {}
    <3>1. m = i
      BY <1>5, <1>9, <2>3 DEF userChange
    <3> QED
      BY <1>4, <1>6, <2>2, <2>3, <3>1
  <2>4. CASE Replaced(k.urows, p.row) # {}
    <3>1. PICK urows \in Replaced(k.urows, p.row) : m = Closed([i EXCEPT !.urows = urows], UserOprs)
      BY <1>5, <1>9, <2>4, Zenon DEF userChange
    <3>2. urows \in SUBSET UserRows
      BY <1>4, <2>1 DEF Replaced
    <3> QED
      BY <1>6, <1>7, <2>2, <3>1, <3>2
  <2> QED
    BY <2>3, <2>4
<1>10. CASE p.op = "deleteUser" /\ m \in userDelete(i, p.id)
  <2>1. Awaits(p, "deleteUser")
    BY <1>10 DEF Awaits
  <2>2. \A u \in User \ k.udrift :
          /\ RowsOf(k.urows, p.id) = {} => RowsOf(k.urows, u) = UserTable(d)[u]
          /\ \A r \in k.urows : r.id = p.id => RowsOf(k.urows \ {r}, u) = UserTable(d)[u]
    BY <1>1, <2>1, RemovedShows
  <2>3. \/ \E r \in k.urows : r.id = p.id /\ m = [i EXCEPT !.urows = k.urows \ {r}]
        \/ RowsOf(k.urows, p.id) = {} /\ m = i
    <3>1. userDelete(i, p.id) =
            {[i EXCEPT !.urows = k.urows \ {r}] : r \in {r \in k.urows : r.id = p.id}}
              \cup IF {r \in k.urows : r.id = p.id} = {} THEN {i} ELSE {}
      BY <1>5, Zenon DEF userDelete
    <3> QED
      BY <1>10, <3>1, Zenon DEF RowsOf
  <2>4. CASE \E r \in k.urows : r.id = p.id /\ m = [i EXCEPT !.urows = k.urows \ {r}]
    <3>1. PICK r \in k.urows : r.id = p.id /\ m = [i EXCEPT !.urows = k.urows \ {r}]
      BY <2>4
    <3>2. k.urows \ {r} \in SUBSET UserRows
      BY <1>4
    <3> QED
      BY <1>6, <1>7, <2>2, <3>1, <3>2
  <2>5. CASE RowsOf(k.urows, p.id) = {} /\ m = i
    BY <1>4, <1>6, <2>2, <2>5
  <2> QED
    BY <2>3, <2>4, <2>5
<1> QED
  BY <1>8, <1>9, <1>10

\* Every answer leaves a page that waits for nothing and knows what it should.
LEMMA ArrivedTrue ==
  ASSUME db \in Database, NEW k, PageTrue(k, db), k.post # NoPost, NEW m \in Arrived(k, k.post)
  PROVE  PageTrue(m, db) /\ m.post = NoPost
<1> DEFINE p == k.post
           idle == [k EXCEPT !.post = NoPost]
<1>1. k \in Pages /\ p \in Requests
  BY PageTypes DEF PageTrue
<1>2. Became(k, idle, k.rows, k.urows)
  BY <1>1, IdleBecame
<1>3. p.op \in ByGet \cup Direct
  BY <1>1 DEF Requests
<1>4. \/ p.status # "ok" /\ (m = idle \/ m = Closed(idle, UserOprs))
      \/ p.status = "ok" /\ m \in Succeeded(idle, p)
  BY Zenon DEF Arrived
<1> HIDE DEF idle
<1>5. MadeOf(k, m, db)
  <2>1. CASE p.status # "ok" /\ (m = idle \/ m = Closed(idle, UserOprs))
    <3>1. Became(k, m, k.rows, k.urows)
      BY <1>2, <2>1, ClosedBecame
    <3>2. ListsRight(k, k.rows, k.urows, db)
      BY <2>1, ContentsMade
    <3> QED
      BY <3>1, <3>2 DEF MadeOf
  <2>2. CASE p.status = "ok" /\ m \in Succeeded(idle, p)
    <3>1. Succeeded(idle, p) =
            IF p.op = "create" THEN groupCreate(idle, p.row)
            ELSE IF p.op = "modify" THEN groupChange(idle, p.row)
            ELSE IF p.op = "delete" THEN groupDelete(idle, p.id)
            ELSE IF p.op \in {"removeUser", "updateUserGroup"} THEN groupsContent(idle)
            ELSE IF p.op = "createUser" THEN userCreate(idle, p.row)
            ELSE IF p.op = "modifyUser" THEN userChange(idle, p.row)
            ELSE userDelete(idle, p.id)
      BY <1>3 DEF Succeeded, ByGet, Direct
    <3>2. p.op \in {"create", "modify", "delete", "removeUser", "updateUserGroup", "createUser",
                    "modifyUser", "deleteUser"}
      BY <1>3 DEF ByGet, Direct
    <3> HIDE DEF p
    <3>3. \/ p.op = "create" /\ m \in groupCreate(idle, p.row)
          \/ p.op = "modify" /\ m \in groupChange(idle, p.row)
          \/ p.op = "delete" /\ m \in groupDelete(idle, p.id)
          \/ p.op \in {"removeUser", "updateUserGroup"} /\ m \in groupsContent(idle)
          \/ p.op = "createUser" /\ m \in userCreate(idle, p.row)
          \/ p.op = "modifyUser" /\ m \in userChange(idle, p.row)
          \/ p.op = "deleteUser" /\ m \in userDelete(idle, p.id)
      BY <2>2, <3>1, <3>2
    <3>4. p = k.post /\ p.status = "ok"
      BY <2>2 DEF p
    <3>5. CASE \/ p.op = "create" /\ m \in groupCreate(idle, p.row)
               \/ p.op = "modify" /\ m \in groupChange(idle, p.row)
               \/ p.op = "delete" /\ m \in groupDelete(idle, p.id)
      BY <1>2, <3>4, <3>5, GroupAnswered
    <3>6. CASE \/ p.op = "createUser" /\ m \in userCreate(idle, p.row)
               \/ p.op = "modifyUser" /\ m \in userChange(idle, p.row)
               \/ p.op = "deleteUser" /\ m \in userDelete(idle, p.id)
      BY <1>2, <3>4, <3>6, UserAnswered
    <3>7. CASE p.op \in {"removeUser", "updateUserGroup"} /\ m \in groupsContent(idle)
      <4>1. Became(k, m, k.rows, k.urows)
        BY <1>2, <3>7, ContentBecame
      <4>2. ListsRight(k, k.rows, k.urows, db)
        BY <3>4, <3>7, ContentsMade
      <4> QED
        BY <4>1, <4>2 DEF MadeOf
    <3> QED
      BY <3>3, <3>5, <3>6, <3>7, Zenon
  <2> QED
    BY <1>4, <2>1, <2>2
<1>6. PICK rows, urows : Became(k, m, rows, urows) /\ ListsRight(k, rows, urows, db)
  BY <1>5 DEF MadeOf
<1> QED
  BY <1>6, BecameTrue

\* An answer arrives.
LEMMA ArrivePostTrue ==
  ASSUME ConsoleInv, NEW c \in Console, ArrivePost(c)
  PROVE  ConsoleInv'
<1>1. /\ db \in Database /\ PageTrue(con[c], db) /\ con[c].post # NoPost
      /\ UNCHANGED <<db, session>>
  BY Zenon DEF ConsoleInv, ArrivePost
<1>2. PICK k \in Arrived(con[c], con[c].post) : con' = [con EXCEPT ![c] = k]
  BY Zenon DEF ArrivePost
<1>3. PageTrue(k, db) /\ k.post = NoPost
  BY <1>1, ArrivedTrue
<1> QED
  BY <1>1, <1>2, <1>3, PageStep
-----------------------------------------------------------------------------
(* The invariant *)

\* The pages start with the lists of one database.
LEMMA InitConsoleInv == Init => ConsoleInv
<1> SUFFICES ASSUME Init PROVE ConsoleInv
  OBVIOUS
<1>1. db \in Database /\ NamesUnique(db) /\ session \in {"up", "failed"}
  BY ConsoleAssumption DEF Init
<1>2. Dangling(db) = {}
  BY ConsoleAssumption DEF Init
<1>3. con = [c \in Console |-> Page(db)]
  BY Zenon DEF Init
<1> DEFINE k == Page(db)
<1>4. /\ k.rows = {GroupRow(db, g) : g \in Groups(db)}
      /\ k.urows = {UserRow(db, u) : u \in Users(db)}
      /\ k.post = NoPost /\ k.gets = {} /\ k.dialog = NoAsk /\ k.gdrift = {} /\ k.udrift = {}
  BY DEF Page
<1>5. /\ Groups(db) \in SUBSET Group /\ Users(db) \in SUBSET User
      /\ \A g \in Group : GroupRow(db, g) \in GroupRows /\ GroupRow(db, g).id = g
      /\ \A u \in Users(db) : UserRow(db, u) \in UserRows /\ UserRow(db, u).id = u
  BY <1>1, DatabaseFields, RowFacts
<1>6. k \in Pages
  <2>1. <<db>> \in Seq(Database)
    BY <1>1
  <2>2. /\ {GroupRow(db, g) : g \in Groups(db)} \in SUBSET GroupRows
        /\ {UserRow(db, u) : u \in Users(db)} \in SUBSET UserRows
    BY <1>5
  <2>3. NoAsk \in Asks
    BY NothingAsked
  <2> QED
    BY <2>1, <2>2, <2>3 DEF Page, Pages
<1> HIDE DEF k
<1>7. ListsRight(k, k.rows, k.urows, db)
  <2>1. ASSUME NEW g \in Group
        PROVE  RowsOf(k.rows, g) = GroupTable(db)[g]
    <3>1. GroupTable(db)[g] = IF g \in Groups(db) THEN {GroupRow(db, g)} ELSE {}
      BY Zenon DEF GroupTable
    <3> QED
      BY <1>4, <1>5, <3>1 DEF RowsOf
  <2>2. ASSUME NEW u \in User
        PROVE  RowsOf(k.urows, u) = UserTable(db)[u]
    <3>1. UserTable(db)[u] = IF u \in Users(db) THEN {UserRow(db, u)} ELSE {}
      BY Zenon DEF UserTable
    <3> QED
      BY <1>4, <1>5, <3>1 DEF RowsOf
  <2> QED
    BY <2>1, <2>2 DEF ListsRight
<1>8. ListsShow(k, db)
  BY <1>4, <1>7, NoPostTrue, ListsSettled, Zenon DEF ListsRight
<1>9. PageTrue(k, db)
  <2>1. (\A a \in k.gets : GetTrue(k, a)) /\ DialogTrue(k, k.dialog) /\ PostTrue(k, k.post)
    BY <1>4, NoPostTrue, NothingAsked
  <2> QED
    BY <1>6, <1>8, <1>2, <2>1 DEF PageTrue
<1>10. con = [c \in Console |-> con[c]] /\ \A c \in Console : PageTrue(con[c], db)
                                                          /\ con[c].post = NoPost
  BY <1>3, <1>4, <1>9, Zenon DEF k
<1>11. RoomLeft
  <2>1. ASSUME NEW op \in {"create", "createUser"}
        PROVE  Creating(op) = 0
    <3>1. ~Sends(NoPost, op)
      BY DEF Sends, NoPost
    <3>2. Senders(op) = {}
      BY <1>10, <3>1 DEF Senders
    <3> QED
      BY <3>2, SendersFacts, FS_EmptySet
  <2> QED
    BY <2>1 DEF RoomLeft
<1> QED
  BY <1>1, <1>10, <1>11, Zenon DEF ConsoleInv

\* Every step of every page and of the server.
LEMMA NextConsoleInv == ConsoleInv /\ [Next]_vars => ConsoleInv'
<1> SUFFICES ASSUME ConsoleInv, [Next]_vars PROVE ConsoleInv'
  OBVIOUS
<1>1. CASE UNCHANGED vars
  <2>1. db' = db /\ session' = session /\ con' = con
    BY <1>1, Zenon DEF vars
  <2>2. RoomLeft'
    BY <2>1, RoomStays, Zenon DEF ConsoleInv
  <2> QED
    BY <2>1, <2>2, Zenon DEF ConsoleInv
<1>2. ASSUME NEW c \in Console,
             \/ ClickGroups(c) \/ ClickUsers(c) \/ ClickGraph(c) \/ ShowGroupInfo(c)
             \/ ShowAllGroups(c)
      PROVE  ConsoleInv'
  BY <1>2, ClickGroupsTrue, ClickUsersTrue, ClickGraphTrue, ShowTrue, Zenon
<1>3. ASSUME NEW c \in Console, NEW get, ServeGet(c, get) \/ ArriveGet(c, get)
      PROVE  ConsoleInv'
  BY <1>3, ServeGetTrue, ArriveGetTrue, Zenon
<1>4. ASSUME NEW c \in Console, LoadGraph(c) \/ Cancel(c) \/ Submit(c)
      PROVE  ConsoleInv'
  BY <1>4, LoadGraphTrue, CancelTrue, SubmitTrue, Zenon
<1>5. ASSUME NEW c \in Console, ServePost(c) \/ ArrivePost(c)
      PROVE  ConsoleInv'
  BY <1>5, ServePostTrue, ArrivePostTrue, Zenon
<1> QED
  BY <1>1, <1>2, <1>3, <1>4, <1>5, Zenon DEF Next

\* Whatever the pages do, in whatever order lists and answers come: the tables keep their
\* form and their names unique, the pages know what they asked by and show what they should.
THEOREM ConsoleInvariant == Spec => []ConsoleInv
  BY InitConsoleInv, NextConsoleInv, PTL DEF Spec
-----------------------------------------------------------------------------
(* The properties *)

\* The types follow from the invariant.
LEMMA ConsoleTypes == ConsoleInv => TypeOK
<1> SUFFICES ASSUME ConsoleInv PROVE TypeOK
  OBVIOUS
<1>1. ASSUME NEW c \in Console
      PROVE  /\ con[c].rows \subseteq [id : Group, users : SUBSET User, group : {None}]
             /\ con[c].urows \subseteq [id : User, users : {{}}, group : Group \cup {None}]
             /\ con[c].dialog.op \in ByGet \cup Direct \cup {"none"}
             /\ con[c].dialog.id \in 0..(MaxGroup + MaxUser)
             /\ con[c].post = NoPost \/ con[c].post.op \in ByGet \cup Direct
             /\ \A get \in con[c].gets : get.op \in ByGet \cup {"content"}
             /\ con[c].view \in {"graph", "users", "loading"}
  <2> DEFINE k == con[c]
  <2>1. k \in Pages /\ DialogTrue(k, k.dialog) /\ \A a \in k.gets : GetTrue(k, a)
    BY Zenon DEF ConsoleInv, PageTrue
  <2>2. /\ k.rows \in SUBSET GroupRows /\ k.urows \in SUBSET UserRows
        /\ k.view \in {"graph", "users", "loading"}
        /\ k.dialog \in Asks /\ k.post \in Requests \cup {NoPost}
    BY <2>1, PageTypes
  <2>3. k.dialog.op \in ByGet \cup Direct \cup {"none"}
    BY <2>1, NothingAsked DEF DialogTrue
  <2>4. k.dialog.id \in 0..(MaxGroup + MaxUser)
    BY <2>2 DEF Asks, Ids
  <2>5. k.post = NoPost \/ k.post.op \in ByGet \cup Direct
    BY <2>2 DEF Requests
  <2>6. \A get \in k.gets : get.op \in ByGet \cup {"content"}
    BY <2>1, Zenon DEF GetTrue
  <2> QED
    BY <2>2, <2>3, <2>4, <2>5, <2>6 DEF GroupRows, UserRows
<1> QED
  BY <1>1, Zenon DEF TypeOK, ConsoleInv

\* Whatever the pages, the names and the bounds on ids, and however requests overlap: the
\* tables are well formed, group names are unique (group_create and group_update look them
\* up, and the flush refuses the rest), and the pages hold rows and requests of their types.
THEOREM ConsoleTyped == Spec => []TypeOK
  BY ConsoleInvariant, ConsoleTypes, PTL

\* So do the rows of a page that waits for nothing.
LEMMA ConsoleRows == ConsoleInv => RowsCurrent
<1> SUFFICES ASSUME ConsoleInv, NEW c \in Console, con[c].post = NoPost
             PROVE  /\ \A g \in Group \ con[c].gdrift :
                         {r \in con[c].rows : r.id = g} =
                           IF g \in Groups(db) THEN {GroupRow(db, g)} ELSE {}
                    /\ \A u \in User \ con[c].udrift :
                         {r \in con[c].urows : r.id = u} =
                           IF u \in Users(db) THEN {UserRow(db, u)} ELSE {}
  BY Zenon DEF RowsCurrent
<1>1. /\ \A g \in Group \ con[c].gdrift : RowsOf(con[c].rows, g) = GroupTable(db)[g]
      /\ \A u \in User \ con[c].udrift : RowsOf(con[c].urows, u) = UserTable(db)[u]
  BY FreeRows
<1>2. \A g \in Group : GroupTable(db)[g] = IF g \in Groups(db) THEN {GroupRow(db, g)} ELSE {}
  BY Zenon DEF GroupTable
<1>3. \A u \in User : UserTable(db)[u] = IF u \in Users(db) THEN {UserRow(db, u)} ELSE {}
  BY Zenon DEF UserTable
<1> QED
  BY <1>1, <1>2, <1>3, Zenon DEF RowsOf

\* A page with nothing under way shows each group with its members and each user with his
\* group (groupCreate, groupChange, groupDelete, userCreate, userChange and userDelete of the
\* lists), unless somebody else, the graph or the other list has changed it.
THEOREM RowsAreCurrent == Spec => []RowsCurrent
  BY ConsoleInvariant, ConsoleRows, PTL

\* Nobody but ServePost(c) serves what c has posted, and nothing else changes the tables.
LEMMA ServedBy ==
  ASSUME ConsoleInv, [Next]_vars, NEW c \in Console, Served(c)
  PROVE  (db' = db /\ session' = session) \/ ServePost(c)
<1>1. ASSUME UNCHANGED vars
      PROVE  db' = db /\ session' = session
  BY <1>1 DEF vars
<1>2. ASSUME NEW k \in Console, ServePost(k), k # c
      PROVE  FALSE
  <2>1. PICK o : con' = [e \in Console |-> PageAfter(k, e, o)]
    BY <1>2, ServePostSteps
  <2>2. con[c].post \in Requests \cup {NoPost} /\ con[c] \in Pages
    BY PageTypes DEF ConsoleInv, PageTrue
  <2>3. con'[c] = Drifted(con[c], Touched(db, o.db), Regrouped(db, o.db), con[c].post)
    BY <1>2, <2>1, Zenon DEF PageAfter
  <2>4. HasDrifted(con[c], con'[c], Touched(db, o.db), Regrouped(db, o.db), con[c].post)
    BY <2>2, <2>3, TouchedTypes, DriftedFacts
  <2> QED
    BY <2>4, Zenon DEF HasDrifted, Served
<1>3. ASSUME NEW k \in Console,
             \/ ClickGroups(k) \/ ClickUsers(k) \/ ClickGraph(k) \/ ShowGroupInfo(k)
             \/ ShowAllGroups(k)
      PROVE  db' = db /\ session' = session
  BY <1>3, Zenon DEF ClickGroups, ClickUsers, ClickGraph, ShowGroupInfo, ShowAllGroups, Get, Open,
     Clicked
<1>4. ASSUME NEW k \in Console, NEW get, ServeGet(k, get) \/ ArriveGet(k, get)
      PROVE  db' = db /\ session' = session
  BY <1>4, Zenon DEF ServeGet, ArriveGet
<1>5. ASSUME NEW k \in Console, LoadGraph(k) \/ Cancel(k) \/ Submit(k) \/ ArrivePost(k)
      PROVE  db' = db /\ session' = session
  BY <1>5, Zenon DEF LoadGraph, Cancel, Submit, ArrivePost
<1>6. UNCHANGED vars \/ Next
  OBVIOUS
<1> QED
  BY <1>1, <1>2, <1>3, <1>4, <1>5, <1>6, Zenon DEF Next

\* What a request that is served without delay goes by is the database as it is.
LEMMA FreshRequest ==
  ASSUME ConsoleInv, NEW c \in Console, Fresh(c), con[c].post \in Requests,
         Len(con[c].post.seen) = 2
  PROVE  con[c].post.seen[1] = db /\ con[c].post.seen[2] = db
<1>1. con[c].post.seen \in Seq(Database)
  BY DEF Requests
<1>2. 1 \in DOMAIN con[c].post.seen /\ 2 \in DOMAIN con[c].post.seen
  BY <1>1
<1> QED
  BY <1>2, Zenon DEF Fresh

\* What is served, in one place.
LEMMA ServedFacts ==
  ASSUME ConsoleInv, [Next]_vars, NEW c \in Console, Served(c)
  PROVE  \/ db' = db /\ session' = session
         \/ \E o : /\ \/ session = "up" /\ o \in Perform(db, con[c].post)
                      \/ session = "failed" /\ o \in FlushFails(db)
                   /\ KeepsReferences(db, con[c].post, o)
                   /\ db' = o.db /\ session' = o.session
<1>1. (db' = db /\ session' = session) \/ ServePost(c)
  <2>1. [Next]_vars
    OBVIOUS
  <2> QED
    BY <2>1, ServedBy
<1> QED
  BY <1>1, ServePostSteps, Zenon

\* What is known of a request when it is served.
LEMMA PostKnown ==
  ASSUME ConsoleInv, NEW c \in Console, Served(c)
  PROVE  /\ con[c].post \in Requests /\ Acceptable(db, con[c].post)
         /\ PostTrue(con[c], con[c].post) /\ Dangling(db) \subseteq con[c].udrift
<1>1. con[c].post # NoPost /\ con[c].post.status = "sent"
  BY Zenon DEF Served
<1>2. con[c].post \in Requests /\ Acceptable(db, con[c].post)
  BY <1>1, RequestAcceptable
<1>3. PageTrue(con[c], db)
  BY Zenon DEF ConsoleInv
<1> QED
  BY <1>2, <1>3, Zenon DEF PageTrue
-----------------------------------------------------------------------------
(* References *)

KeptReferences == \A c \in Console : Served(c) /\ Fresh(c) => Dangling(db') \subseteq Dangling(db)

\* Every step keeps the references.
LEMMA StepKeepsReferences == ConsoleInv /\ [Next]_vars => KeptReferences
<1> SUFFICES ASSUME ConsoleInv, [Next]_vars, NEW c \in Console, Served(c), Fresh(c)
             PROVE  Dangling(db') \subseteq Dangling(db)
  BY Zenon DEF KeptReferences
<1> DEFINE p == con[c].post
<1>1. CASE db' = db
  BY <1>1, Zenon
<1>2. CASE \E o : KeepsReferences(db, p, o) /\ db' = o.db
  <2>1. PICK o : KeepsReferences(db, p, o) /\ db' = o.db
    BY <1>2
  <2>2. ASSUME p.op \in {"createUser", "modifyUser"}
        PROVE  p.group \in Groups(db) \cup {None}
    <3>1. p \in Requests /\ Len(p.seen) = 2 /\ p.group \in Groups(p.seen[2]) \cup {None}
      BY <2>2, PostKnown DEF PostTrue
    <3>2. p.seen[2] = db
      BY <3>1, FreshRequest
    <3> QED
      BY <3>1, <3>2, Zenon
  <2> HIDE DEF p
  <2>3. Dangling(o.db) \subseteq Dangling(db)
    BY <2>1, <2>2, Zenon DEF KeepsReferences
  <2> QED
    BY <2>1, <2>3, Zenon
<1> QED
  BY <1>1, <1>2, ServedFacts, Zenon

\* Whatever the pages and whatever else they do: a request whose list was up to date leaves
\* nobody with a group that does not exist (group_delete, user_create and user_update).
THEOREM ReferencesAreKept == Spec => ReferencesKept
<1>1. Spec => [][KeptReferences]_vars
  BY StepKeepsReferences, ConsoleInvariant, PTL DEF Spec
<1> QED
  BY <1>1, PTL DEF ReferencesKept, KeptReferences
-----------------------------------------------------------------------------
(* Toggles *)

\* group_create moves nobody but the users of the request.
LEMMA CreateMoves ==
  ASSUME NEW d, NEW p, p.op = "create", Acceptable(d, p), NEW o \in group_create(d, p),
         NEW u \in User, o.db.of[u] # d.of[u]
  PROVE  u \in p.users
<1> DEFINE g == NextId(Groups(d))
           m == Moved(d, p.users, g)
           new == [m EXCEPT !.name[g] = Lower[p.name]]
<1>1. /\ d \in Database /\ g \in Group /\ g \in Group \cup {None}
      /\ Lower[p.name] \in Name \cup {NoName}
  BY ConsoleAssumption DEF Acceptable
<1>2. o \in Refused(d) \/ o \in FlushFails(d) \/ o \in Changed(new, GroupRow(new, g))
  BY Zenon DEF group_create
<1>3. o.db = new
  BY <1>2, OutcomeFacts
<1> HIDE DEF g
<1>4. m \in Database /\ \A v \in User : m.of[v] = IF v \in p.users /\ v \in Users(d)
                                                  THEN g ELSE d.of[v]
  BY <1>1, MovedFacts
<1> HIDE DEF m
<1>5. new.of = m.of
  BY <1>1, <1>4, NamedFacts
<1> QED
  BY <1>3, <1>4, <1>5

\* group_update moves the users that join the group, and the members that leave it.
LEMMA UpdateMoves ==
  ASSUME NEW d, NEW p, p.op = "modify", Acceptable(d, p), NEW o \in group_update(d, p),
         NEW u \in User, o.db.of[u] # d.of[u]
  PROVE  \/ u \in p.users /\ d.of[u] # p.id
         \/ u \notin p.users /\ d.of[u] = p.id
<1> DEFINE emptied == Moved(d, Members(d, p.id), None)
           m == Moved(emptied, p.users, p.id)
           new == [m EXCEPT !.name[p.id] = p.name]
<1>1. d \in Database /\ p.name \in Name \cup {NoName}
  BY DEF Acceptable
<1>2. \/ o \in Refused(d) \/ o \in Raised(d)
      \/ p.id \in Groups(d) /\ o \in Changed(new, GroupRow(new, p.id))
  BY Zenon DEF group_update
<1>3. o.db = new /\ p.id \in Group /\ p.id \in Group \cup {None}
  BY <1>1, <1>2, OutcomeFacts, DatabaseFields, SMTT(30)
<1>4. /\ emptied \in Database /\ Users(emptied) = Users(d)
      /\ \A v \in User : emptied.of[v] = IF v \in Members(d, p.id) /\ v \in Users(d)
                                         THEN None ELSE d.of[v]
  BY <1>1, MovedFacts
<1> HIDE DEF emptied
<1>5. m \in Database /\ \A v \in User : m.of[v] = IF v \in p.users /\ v \in Users(emptied)
                                                  THEN p.id ELSE emptied.of[v]
  BY <1>3, <1>4, MovedFacts
<1> HIDE DEF m
<1>6. new.of = m.of
  BY <1>1, <1>3, <1>5, NamedFacts
<1> QED
  BY <1>3, <1>4, <1>5, <1>6 DEF Members

\* user_update changes one user, and fails to flush if no group stands for the one he has.
LEMMA UpdateUserMoves ==
  ASSUME NEW d, NEW p, p.op = "modifyUser", Acceptable(d, p), NEW o \in user_update(d, p)
  PROVE  /\ \/ o.db = d
            \/ /\ p.id \in Users(d)
               /\ \A u \in User : o.db.of[u] = IF u = p.id THEN p.group ELSE d.of[u]
         /\ o.session = "up" \/ (p.group = None /\ d.of[p.id] \in Groups(d))
<1> DEFINE e == [d EXCEPT !.of[p.id] = p.group]
<1>1. d \in Database /\ p.group \in Group \cup {None, Absent}
  BY DEF Acceptable, Requests
<1>2. \/ o \in Refused(d) \/ o \in Raised(d)
      \/ o \in FlushFails(d) /\ p.group = None /\ d.of[p.id] \in Groups(d)
      \/ p.id \in Users(d) /\ (o \in Raised(e) \/ o \in Changed(e, UserRow(e, p.id)))
  BY Zenon DEF user_update, Committed
<1>3. CASE o \in Refused(d) \/ o \in Raised(d)
  BY <1>3, OutcomeFacts
<1>4. CASE o \in FlushFails(d) /\ p.group = None /\ d.of[p.id] \in Groups(d)
  BY <1>4, OutcomeFacts
<1>5. CASE p.id \in Users(d) /\ (o \in Raised(e) \/ o \in Changed(e, UserRow(e, p.id)))
  <2>1. o.db = e /\ o.session = "up"
    BY <1>5, OutcomeFacts
  <2>2. p.id \in User
    BY <1>1, <1>5, DatabaseFields
  <2>3. \A u \in User : e.of[u] = IF u = p.id THEN p.group ELSE d.of[u]
    <3>1. ASSUME NEW u \in User, NEW g \in Group \cup {None, Absent}
          PROVE  LET f == [d EXCEPT !.of[u] = g]
                 IN /\ f \in Database /\ f.name = d.name /\ Groups(f) = Groups(d)
                    /\ \A v \in User : f.of[v] = IF v = u THEN g ELSE d.of[v]
                    /\ g = Absent => Users(f) = Users(d) \ {u}
                    /\ g # Absent => Users(f) = Users(d) \cup {u}
      BY <1>1, OfFacts
    <3> QED
      BY <1>1, <2>2, <3>1, Zenon
  <2> QED
    BY <1>5, <2>1, <2>3
<1> QED
  BY <1>2, <1>3, <1>4, <1>5

OnlyToggled(c) ==
  LET p == con[c].post IN
  /\ p.op = "modify" /\ p.id \notin con[c].gdrift => Regrouped(db, db') \subseteq p.toggled
  /\ p.op = "modifyUser" /\ p.id \notin con[c].udrift =>
       Regrouped(db, db') \subseteq p.toggled /\ session' = session

\* A request to modify a group moves those who were toggled.
LEMMA UpdateToggles ==
  ASSUME ConsoleInv, NEW c \in Console, Served(c), Fresh(c), con[c].post.op = "modify",
         con[c].post.id \notin con[c].gdrift, NEW o \in Perform(db, con[c].post)
  PROVE  Regrouped(db, o.db) \subseteq con[c].post.toggled
<1> DEFINE p == con[c].post
<1>1. p \in Requests /\ Acceptable(db, p) /\ PostTrue(con[c], p)
  BY PostKnown
<1>2. /\ Len(p.seen) = 2
      /\ p.toggled = (p.users \ CheckedUsers(p)) \cup (CheckedUsers(p) \ p.users)
  BY <1>1 DEF PostTrue
<1>3. CheckedUsers(p) = Members(db, p.id)
  <2>1. p.seen[1] = db /\ p.seen[2] = db
    BY <1>1, <1>2, FreshRequest
  <2>2. CheckedUsers(p) = Members(db, p.id) \cap (Members(db, None) \cup Members(db, p.id))
    BY <2>1 DEF CheckedUsers, ListOf, nongrouplist
  <2> QED
    BY <2>2, Zenon
<1>4. o \in group_update(db, p)
  <2>1. p.op \in ByGet \cup Direct /\ "modify" # "create"
    BY <1>1 DEF Requests
  <2> QED
    BY <2>1, PerformCases
<1> HIDE DEF p
<1>5. ASSUME NEW u \in Regrouped(db, o.db)
      PROVE  u \in p.toggled
  <2>1. u \in User /\ o.db.of[u] # db.of[u]
    BY DEF Regrouped
  <2>2. \/ u \in p.users /\ db.of[u] # p.id
        \/ u \notin p.users /\ db.of[u] = p.id
    BY <1>1, <1>4, <2>1, UpdateMoves DEF p
  <2> QED
    BY <1>2, <1>3, <2>1, <2>2 DEF Members
<1> QED
  BY <1>5 DEF p

\* A request to modify a user moves him if he was toggled, and does not fail to flush.
LEMMA UpdateUserToggles ==
  ASSUME ConsoleInv, NEW c \in Console, Served(c), Fresh(c), con[c].post.op = "modifyUser",
         con[c].post.id \notin con[c].udrift, NEW o \in Perform(db, con[c].post)
  PROVE  Regrouped(db, o.db) \subseteq con[c].post.toggled /\ o.session = "up"
<1> DEFINE p == con[c].post
<1>1. /\ p \in Requests /\ Acceptable(db, p) /\ PostTrue(con[c], p)
      /\ Dangling(db) \subseteq con[c].udrift
  BY PostKnown
<1>2. /\ Len(p.seen) = 2 /\ p.id \in User
      /\ p.group \in Groups(p.seen[2]) \cup {CheckedGroup(p)}
      /\ p.toggled = IF p.group = CheckedGroup(p) THEN {} ELSE {p.id}
  BY <1>1 DEF PostTrue
<1>3. p.seen[1] = db /\ p.seen[2] = db
  BY <1>1, <1>2, FreshRequest
<1>4. CheckedGroup(p) = IF db.of[p.id] \in Groups(db) THEN db.of[p.id] ELSE None
  BY <1>3, Zenon DEF CheckedGroup
<1>5. o \in user_update(db, p)
  <2>1. p.op \in ByGet \cup Direct /\ "modifyUser" \notin {"create", "modify", "delete",
          "removeUser", "updateUserGroup", "createUser"}
    BY <1>1 DEF Requests
  <2> QED
    BY <2>1, PerformCases
<1>6. /\ \/ o.db = db
         \/ /\ p.id \in Users(db)
            /\ \A u \in User : o.db.of[u] = IF u = p.id THEN p.group ELSE db.of[u]
      /\ o.session = "up" \/ (p.group = None /\ db.of[p.id] \in Groups(db))
  BY <1>1, <1>5, UpdateUserMoves
<1>7. None \notin Groups(db)
  BY ConsoleAssumption DEF Groups, Group, None
<1>8. p.id \notin Dangling(db)
  BY <1>1
<1> HIDE DEF p
<1>9. o.session = "up"
  BY <1>2, <1>3, <1>4, <1>6, <1>7
<1>10. ASSUME NEW u \in Regrouped(db, o.db)
       PROVE  u \in p.toggled
  <2>1. u \in User /\ o.db.of[u] # db.of[u]
    BY DEF Regrouped
  <2>2. u = p.id /\ p.id \in Users(db) /\ p.group # db.of[p.id]
    BY <1>6, <2>1
  <2>3. CheckedGroup(p) = db.of[p.id]
    BY <1>4, <1>8, <2>2 DEF Dangling
  <2> QED
    BY <1>2, <2>2, <2>3
<1> QED
  BY <1>9, <1>10 DEF p

TogglesOnly == \A c \in Console : Served(c) /\ Fresh(c) => OnlyToggled(c)

\* Every step changes what was toggled, and nothing else.
LEMMA StepTogglesOnly == ConsoleInv /\ [Next]_vars => TogglesOnly
<1> SUFFICES ASSUME ConsoleInv, [Next]_vars, NEW c \in Console, Served(c), Fresh(c)
             PROVE  OnlyToggled(c)
  BY Zenon DEF TogglesOnly
<1> DEFINE p == con[c].post
<1>1. CASE db' = db /\ session' = session
  <2>1. Regrouped(db, db') = {}
    BY <1>1 DEF Regrouped
  <2> QED
    BY <1>1, <2>1 DEF OnlyToggled
<1>2. CASE \E o : /\ \/ session = "up" /\ o \in Perform(db, p)
                     \/ session = "failed" /\ o \in FlushFails(db)
                  /\ db' = o.db /\ session' = o.session
  <2>1. PICK o : /\ \/ session = "up" /\ o \in Perform(db, p)
                    \/ session = "failed" /\ o \in FlushFails(db)
                 /\ db' = o.db /\ session' = o.session
    BY <1>2
  <2>2. CASE session = "failed" /\ o \in FlushFails(db)
    <3>1. db' = db /\ session' = session
      BY <2>1, <2>2, OutcomeFacts
    <3> QED
      BY <1>1, <3>1
  <2>3. CASE session = "up" /\ o \in Perform(db, p)
    <3>1. ASSUME p.op = "modify", p.id \notin con[c].gdrift
          PROVE  Regrouped(db, db') \subseteq p.toggled
      BY <2>1, <2>3, <3>1, UpdateToggles
    <3>2. ASSUME p.op = "modifyUser", p.id \notin con[c].udrift
          PROVE  Regrouped(db, db') \subseteq p.toggled /\ session' = session
      BY <2>1, <2>3, <3>2, UpdateUserToggles
    <3> QED
      BY <3>1, <3>2, Zenon DEF OnlyToggled
  <2> QED
    BY <2>1, <2>2, <2>3
<1> QED
  BY <1>1, <1>2, ServedFacts, Zenon

\* Whatever the pages, the groups and the users: a dialog that opened on a row that was up to
\* date, and is served before anything else changes, changes nothing but what was changed in
\* it (onChange, group_update, user_update), and a user's leaves the session as it is.
THEOREM TogglesOnlyChange == Spec => OnlyTogglesChange
<1>1. Spec => [][TogglesOnly]_vars
  BY StepTogglesOnly, ConsoleInvariant, PTL DEF Spec
<1> QED
  BY <1>1, PTL DEF OnlyTogglesChange, TogglesOnly, OnlyToggled
-----------------------------------------------------------------------------
(* Dialogs of groups *)

\* A dialog of a group that is open has had its list, and a request for one has no users but
\* those that the list offered.
ListInv ==
  \A c \in Console :
    /\ con[c].dialog.op \in {"create", "modify"} => Len(con[c].dialog.seen) = 2
    /\ con[c].post.op \in {"create", "modify"} =>
         /\ Len(con[c].post.seen) = 2
         /\ con[c].post.users \subseteq ListOf(con[c].post.seen[2], con[c].post.op, con[c].post.id)

\* What the invariant says of the users in a request.
LEMMA ConsoleLists == ConsoleInv => ListInv
<1> SUFFICES ASSUME ConsoleInv, NEW c \in Console
             PROVE  /\ con[c].dialog.op \in {"create", "modify"} => Len(con[c].dialog.seen) = 2
                    /\ con[c].post.op \in {"create", "modify"} =>
                         /\ Len(con[c].post.seen) = 2
                         /\ con[c].post.users \subseteq
                              ListOf(con[c].post.seen[2], con[c].post.op, con[c].post.id)
  BY Zenon DEF ListInv
<1>1. DialogTrue(con[c], con[c].dialog) /\ PostTrue(con[c], con[c].post)
  BY Zenon DEF ConsoleInv, PageTrue
<1>2. "create" \in ByGet /\ "modify" \in ByGet
  BY DEF ByGet
<1>3. con[c].dialog.op \in {"create", "modify"} => Len(con[c].dialog.seen) = 2
  BY <1>1, <1>2 DEF DialogTrue
<1> QED
  BY <1>1, <1>3, Zenon DEF PostTrue

\* A dialog that is open has had its list, and a request for a group that is on its way
\* names no users but those that the list of its dialog offered (nongrouplist, onCreate and
\* onChange of the list of groups).
THEOREM RequestsAsOffered == Spec => []ListInv
  BY ConsoleInvariant, ConsoleLists, PTL

TakesNobody ==
  \A c \in Console :
    Served(c) /\ Fresh(c) /\ con[c].post.op \in {"create", "modify"} =>
      \A u \in Users(db) : db'.of[u] # db.of[u] => db.of[u] \in {None, con[c].post.id}

\* No step takes a user from another group, if his list was up to date.
LEMMA StepTakesNobody == ConsoleInv /\ [Next]_vars => TakesNobody
<1> SUFFICES ASSUME ConsoleInv, [Next]_vars, NEW c \in Console, Served(c), Fresh(c),
                    con[c].post.op \in {"create", "modify"},
                    NEW u \in Users(db), db'.of[u] # db.of[u]
             PROVE  db.of[u] \in {None, con[c].post.id}
  BY Zenon DEF TakesNobody
<1> DEFINE p == con[c].post
<1>1. p \in Requests /\ Acceptable(db, p)
  BY PostKnown
<1>2. PICK o : /\ \/ o \in Perform(db, p)
                  \/ o \in FlushFails(db)
               /\ db' = o.db
  BY ServedFacts, Zenon
<1>3. o \in Perform(db, p)
  BY <1>2, OutcomeFacts
<1>4. u \in User
  BY <1>1, DatabaseFields DEF Acceptable
<1>5. p.op \in ByGet \cup Direct
  BY <1>1 DEF Requests
<1>6. u \in p.users => db.of[u] = None \/ db.of[u] = p.id
  <2>1. Len(p.seen) = 2 /\ p.users \subseteq ListOf(p.seen[2], p.op, p.id)
    BY ConsoleLists, Zenon DEF ListInv
  <2>2. p.seen[2] = db
    BY <1>1, <2>1, FreshRequest
  <2>3. ListOf(db, p.op, p.id) = Members(db, None) \cup Members(db, p.id)
    BY Zenon DEF ListOf, nongrouplist
  <2> QED
    BY <2>1, <2>2, <2>3 DEF Members
<1>7. CASE p.op = "create"
  <2>1. o \in group_create(db, p)
    BY <1>3, <1>5, <1>7, PerformCases, Zenon
  <2>2. u \in p.users
    BY <1>1, <1>2, <1>4, <1>7, <2>1, CreateMoves
  <2> QED
    BY <1>6, <2>2
<1>8. CASE p.op = "modify"
  <2>1. "modify" # "create"
    OBVIOUS
  <2>2. o \in group_update(db, p)
    BY <1>3, <1>5, <1>8, <2>1, PerformCases, Zenon
  <2>3. u \in p.users \/ db.of[u] = p.id
    BY <1>1, <1>2, <1>4, <1>8, <2>2, UpdateMoves
  <2> QED
    BY <1>6, <2>3
<1> QED
  BY <1>7, <1>8, Zenon

\* Whatever the pages, the groups and the users: a dialog of a group (onCreate and onChange
\* of groups.js, nongrouplist, group_create and group_update) takes nobody from another
\* group, as long as nothing has changed since it was asked for.
THEOREM NobodyTaken == Spec => UpdateTakesNobody
<1>1. Spec => [][TakesNobody]_vars
  BY StepTakesNobody, ConsoleInvariant, PTL DEF Spec
<1> QED
  BY <1>1, PTL DEF UpdateTakesNobody, TakesNobody
=============================================================================
