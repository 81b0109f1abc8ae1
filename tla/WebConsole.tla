------------------------------ MODULE WebConsole ------------------------------
(***************************************************************************)
(* The users and groups of the web console: the widgets of                  *)
(* src/rws/static/scripts/stomp/widgets/groups and .../users in the pages of *)
(* one or more administrators, and the handlers of src/rws/src/groups.py and *)
(* users.py with the database session that all requests share.              *)
(*                                                                         *)
(* A click asks the server for a list, the answer opens the one dialog that  *)
(* a page can have, and its button posts a change, until whose answer an     *)
(* overlay blocks the page.  No overlay waits for a list.                   *)
(***************************************************************************)
EXTENDS Integers, Sequences, FiniteSets, FiniteSetsExt

CONSTANTS Console,
          Name, Lower,       \* names that are typed, and what lower() makes of each
          MaxGroup, MaxUser, \* bounds on ids
          MaxClicks,         \* bound on the clicks in each page
          Databases          \* what the database may hold at first

Group == 1..MaxGroup
User == 1..MaxUser
NoName == "" \* the name of a group that does not exist
None == 0    \* the group of a user without one
Absent == -1 \* the group of a user that does not exist

Database == [name : [Group -> Name \cup {NoName}], of : [User -> Group \cup {None, Absent}]]
Groups(d) == {g \in Group : d.name[g] # NoName}
Users(d) == {u \in User : d.of[u] # Absent}
Dangling(d) == {u \in Users(d) : d.of[u] # None /\ d.of[u] \notin Groups(d)}
NamesUnique(d) == \A g, h \in Groups(d) : d.name[g] = d.name[h] => g = h
ASSUME ConsoleAssumption ==
  /\ Lower \in [Name -> Name] /\ NoName \notin Name
  /\ MaxGroup \in Nat /\ MaxUser \in Nat
  /\ IsFiniteSet(Console) /\ MaxClicks \in [Console -> Nat]
  \* A page that starts has its lists: /user/list raises for a user of a group that is gone.
  /\ Databases \subseteq {d \in Database : NamesUnique(d) /\ Dangling(d) = {}}

VARIABLES db,      \* the rows of the tables group and user, as the session has them
          session, \* the session of configdb.py: "up", or "failed" after a failed flush
          con      \* the page of each console
vars == <<db, session, con>>

Members(d, g) == {u \in User : d.of[u] = g}
\* The next primary key: SQLite counts on from the largest in the table.
NextId(ids) == IF ids = {} THEN 1 ELSE Max(ids) + 1
Moved(d, users, g) ==
  [d EXCEPT !.of = [u \in User |-> IF u \in users \cap Users(d) THEN g ELSE @[u]]]
-----------------------------------------------------------------------------
(* The handlers: for a request p, the outcomes that the session may come to. *)

Outcome(d, status, row) == [db |-> d, session |-> "up", status |-> status, row |-> row]
NoRow == [id |-> 0, users |-> {}, group |-> None]
GroupRow(d, g) == [NoRow EXCEPT !.id = g, !.users = Members(d, g)]
UserRow(d, u) == [NoRow EXCEPT !.id = u, !.group = d.of[u]]
Changed(d, row) == {Outcome(d, "ok", row)}
Refused(d) == {Outcome(d, "refused", NoRow)}
Raised(d) == {Outcome(d, "error", NoRow)}
\* The flush fails.  Nothing rolls the session back: no later request gets through, so that
\* what is lost with it of the removals not yet committed is never seen, and stays in d.
FlushFails(d) == {[Outcome(d, "error", NoRow) EXCEPT !.session = "failed"]}

\* Faulty variant of group_create: names are compared as they are typed.
group_create_anyway(d, p) ==
  LET g == NextId(Groups(d))
      new == [Moved(d, p.users, g) EXCEPT !.name[g] = Lower[p.name]]
  IN Changed(new, GroupRow(new, g))
\* The name is looked up as it was typed and stored in lower case.
group_create(d, p) ==
  LET g == NextId(Groups(d))
      taken(name) == \E h \in Groups(d) : d.name[h] = name
      new == [Moved(d, p.users, g) EXCEPT !.name[g] = Lower[p.name]]
  IN IF taken(p.name) THEN Refused(d)
     ELSE IF taken(Lower[p.name]) THEN FlushFails(d)
     ELSE Changed(new, GroupRow(new, g))

group_update(d, p) ==
  LET emptied == Moved(d, Members(d, p.id), None)
      new == [Moved(emptied, p.users, p.id) EXCEPT !.name[p.id] = p.name]
  IN IF \E h \in Groups(d) \ {p.id} : d.name[h] = p.name THEN Refused(d)
     ELSE IF p.id \notin Groups(d) THEN Raised(d)
     ELSE Changed(new, GroupRow(new, p.id))

\* Faulty variant of group_delete: the users keep the group's id.
group_delete_only(d, p) ==
  IF p.id \notin Groups(d) THEN Raised(d)
  ELSE Changed([d EXCEPT !.name[p.id] = NoName], NoRow)
group_delete(d, p) ==
  IF p.id \notin Groups(d) THEN Raised(d)
  ELSE Changed([Moved(d, Members(d, p.id), None) EXCEPT !.name[p.id] = NoName], NoRow)

\* The users are removed one by one, until one is not in the group: the next commit, of
\* whatever request, stores the removals before it.
group_removeuser(d, p) ==
  LET members == p.users \cap Members(d, p.id)
  IN IF p.id \notin Groups(d) THEN Raised(d)
     ELSE IF p.users = members THEN Changed(Moved(d, members, None), NoRow)
     ELSE UNION {Raised(Moved(d, removed, None)) : removed \in SUBSET members}

\* Without a choice of a group the request has no id, which no group has.
group_addusertogroup(d, p) ==
  IF p.id \notin Groups(d) THEN Raised(d)
  ELSE Changed(Moved(d, p.users, p.id), NoRow)

\* What to_dict makes of a user that has just been committed.
Committed(d, u) == IF u \in Dangling(d) THEN Raised(d) ELSE Changed(d, UserRow(d, u))

user_create(d, p) ==
  LET u == NextId(Users(d))
  IN (IF Users(d) # {} THEN Refused(d) ELSE {}) \cup
     Committed([d EXCEPT !.of[u] = p.group], u)

\* A request without a group stands for the one the user has; what is stored is then not
\* its id but the object, and the flush fails unless there is none.
user_update(d, p) ==
  (IF Users(d) \ {p.id} # {} THEN Refused(d) ELSE {}) \cup
  (IF p.id \notin Users(d) THEN Raised(d)
   ELSE IF p.group = None /\ d.of[p.id] \in Groups(d) THEN FlushFails(d)
   ELSE Committed([d EXCEPT !.of[p.id] = p.group], p.id))

user_delete(d, p) ==
  IF p.id \notin Users(d) THEN Raised(d)
  ELSE Changed([d EXCEPT !.of[p.id] = Absent], NoRow)

Perform(d, p) ==
  CASE p.op = "create" -> group_create(d, p)
    [] p.op = "modify" -> group_update(d, p)
    [] p.op = "delete" -> group_delete(d, p)
    [] p.op = "removeUser" -> group_removeuser(d, p)
    [] p.op = "updateUserGroup" -> group_addusertogroup(d, p)
    [] p.op = "createUser" -> user_create(d, p)
    [] p.op = "modifyUser" -> user_update(d, p)
    [] p.op = "deleteUser" -> user_delete(d, p)

\* /user/nongrouplist and /user/nongrouplist/<id>, where g is None or the id.
\* Faulty variant of nongrouplist: every user is listed.
nongrouplist_all(d, g) == Users(d)
nongrouplist(d, g) == Members(d, None) \cup Members(d, g)
\* The lists that the GETs return; to_dict raises for a user of a deleted group.
ListOf(d, op, g) == IF op \in {"create", "modify"} THEN nongrouplist(d, g) ELSE Groups(d)
ListFails(d, op, g) == op = "modify" /\ nongrouplist(d, g) \cap Dangling(d) # {}
-----------------------------------------------------------------------------
(* The page.  A row is what the list of groups or of users shows.  A GET and the dialog *)
(* it opens carry the row or the selection that was clicked: its id, users and group.   *)

ByGet == {"create", "modify", "updateUserGroup", "createUser", "modifyUser"}
Direct == {"delete", "removeUser", "deleteUser"}
\* seen: the databases that the click and the list go by (the first only history).
NoAsk == [op |-> "none", id |-> 0, users |-> {}, group |-> None, n |-> 0,
          served |-> "no", seen |-> <<>>]
NoPost == [op |-> "none"]
Page(d) ==
  [rows |-> {GroupRow(d, g) : g \in Groups(d)}, urows |-> {UserRow(d, u) : u \in Users(d)},
   graph |-> <<d>>, view |-> "graph", dialog |-> NoAsk, gets |-> {}, post |-> NoPost,
   clicks |-> 0, gdrift |-> {}, udrift |-> {}]

Free(c) == con[c].dialog = NoAsk /\ con[c].post = NoPost /\ con[c].clicks < MaxClicks[c]
Clicked(c, page) ==
  con' = [con EXCEPT ![c] = [page EXCEPT !.clicks = @ + 1]] /\ UNCHANGED <<db, session>>
Ask(op, id, users, group) ==
  [NoAsk EXCEPT !.op = op, !.id = id, !.users = users, !.group = group, !.seen = <<db>>]
Get(c, ask) == Clicked(c, [con[c] EXCEPT !.gets = @ \cup {[ask EXCEPT !.n = con[c].clicks]}])
Open(c, ask) == Clicked(c, [con[c] EXCEPT !.dialog = ask])

\* onCreate, and onChange and onDelete of a row.
ClickGroups(c) ==
  /\ Free(c)
  /\ \/ Get(c, Ask("create", 0, {}, None))
     \/ \E r \in con[c].rows : \/ Get(c, Ask("modify", r.id, r.users, None))
                               \/ Open(c, Ask("delete", r.id, {}, None))
ClickUsers(c) ==
  /\ Free(c)
  /\ \/ Get(c, Ask("createUser", 0, {}, None))
     \/ \E r \in con[c].urows : \/ Get(c, Ask("modifyUser", r.id, {}, r.group))
                                \/ Open(c, Ask("deleteUser", r.id, {}, None))

\* removeUser, deleteGroup and updateUserGroup of the graph, where users of one group
\* can be selected.
ClickGraph(c) ==
  /\ Free(c) /\ con[c].graph # <<>>
  /\ \E g \in Groups(con[c].graph[1]) :
       \/ Open(c, Ask("delete", g, {}, None))
       \/ \E users \in SUBSET Members(con[c].graph[1], g) \ {{}} :
            \/ Open(c, Ask("removeUser", g, users, None))
            \/ Get(c, Ask("updateUserGroup", 0, users, g))

\* showGroupInfo puts a group's users in the place of the graph; showAllGroups asks for
\* the graph.
ShowGroupInfo(c) ==
  /\ Free(c) /\ con[c].rows # {}
  /\ Clicked(c, [con[c] EXCEPT !.graph = <<>>, !.view = "users"])
ShowAllGroups(c) == Free(c) /\ con[c].view = "users" /\ Get(c, Ask("content", 0, {}, None))

\* A list is made: of the database as it is now.
ServeGet(c, get) ==
  /\ get \in con[c].gets /\ get.served = "no"
  /\ LET fails == session = "failed" \/ ListFails(db, get.op, get.id)
         answer == [get EXCEPT !.served = IF fails THEN "error" ELSE "ok", !.seen = Append(@, db)]
     IN con' = [con EXCEPT ![c].gets = (@ \ {get}) \cup {answer}]
  /\ UNCHANGED <<db, session>>

\* A list arrives.  A second dialog would have the id of the first: it is not made.
\* The new groupContent of groupsContent asks for its own list, which it is shown with.
ArriveGet(c, get) ==
  /\ get \in con[c].gets /\ get.served # "no"
  /\ LET page == [con[c] EXCEPT !.gets = @ \ {get}]
     IN con' = [con EXCEPT ![c] =
          IF get.served = "error" THEN page
          ELSE IF get.op = "content" THEN [page EXCEPT !.graph = <<>>, !.view = "loading"]
          ELSE IF con[c].dialog = NoAsk THEN [page EXCEPT !.dialog = get]
          ELSE page]
  /\ UNCHANGED <<db, session>>

\* initGroupContent: the newest groupContent gets its list.  An older one's is not seen.
LoadGraph(c) ==
  /\ con[c].view = "loading"
  /\ con' = [con EXCEPT ![c].view = "graph", ![c].graph = IF session = "up" THEN <<db>> ELSE <<>>]
  /\ UNCHANGED <<db, session>>

\* The button, or the Esc key, which the overlay of a request does not stop.
Cancel(c) ==
  /\ con[c].dialog # NoAsk
  /\ con' = [con EXCEPT ![c].dialog = NoAsk] /\ UNCHANGED <<db, session>>

Offered(a) == ListOf(a.seen[2], a.op, a.id)
\* The boxes and buttons that onChange checks in the dialog it opens.
\* Faulty variant of Prechecked: the users of the row are not checked.
PrecheckedNone(a) == {}
Prechecked(a) == a.users \cap Offered(a)
Choice(a) == IF a.op = "modifyUser" /\ a.group \in Offered(a) THEN a.group ELSE None

\* What can be sent from a dialog: a radio button that is checked cannot be unchecked.
Post(a, users, id, group, name, toggled) ==
  [op |-> a.op, id |-> id, users |-> users, group |-> group, name |-> name,
   toggled |-> toggled, seen |-> a.seen, status |-> "sent", row |-> NoRow]
Posts(a) ==
  CASE a.op \in {"create", "modify"} ->
         {Post(a, users, a.id, None, name,
               (users \ Prechecked(a)) \cup (Prechecked(a) \ users))
          : users \in SUBSET Offered(a), name \in Name}
    [] a.op \in {"createUser", "modifyUser"} ->
         {Post(a, {}, a.id, g, NoName, IF g = Choice(a) THEN {} ELSE {a.id})
          : g \in Offered(a) \cup {Choice(a)}}
    [] a.op = "updateUserGroup" ->
         {Post(a, a.users, g, None, NoName, {}) : g \in (Offered(a) \ {a.group}) \cup {0}}
    [] a.op \in Direct -> {Post(a, a.users, a.id, None, NoName, {})}

\* Bounds: as many groups and users are created as there are ids.
Creating(op) == Cardinality({c \in Console : con[c].post.op = op /\ con[c].post.status = "sent"})
Room(op) ==
  /\ op = "create" => NextId(Groups(db)) + Creating(op) <= MaxGroup
  /\ op = "createUser" => NextId(Users(db)) + Creating(op) <= MaxUser

\* The button of the dialog: the overlay appears, and del of a user closes the dialog.
Submit(c) ==
  /\ con[c].dialog # NoAsk /\ con[c].post = NoPost /\ Room(con[c].dialog.op)
  /\ \E p \in Posts(con[c].dialog) :
       con' = [con EXCEPT ![c].post = p,
                          ![c].dialog = IF p.op = "deleteUser" THEN NoAsk ELSE @]
  /\ UNCHANGED <<db, session>>

Touched(d, e) ==
  {g \in Group : Members(d, g) # Members(e, g) \/ (g \in Groups(d)) # (g \in Groups(e))}
Regrouped(d, e) == {u \in User : d.of[u] # e.of[u]}
\* The group or user whose row the answer to a request brings up to date.
Shown(p, o) ==
  [groups |-> IF p.op = "delete" /\ o.status = "ok" THEN {p.id}
              ELSE IF p.op \in {"create", "modify"} /\ o.status = "ok" THEN {o.row.id} ELSE {},
   users |-> IF p.op = "deleteUser" /\ o.status = "ok" THEN {p.id}
             ELSE IF p.op \in {"createUser", "modifyUser"} /\ o.status = "ok" THEN {o.row.id}
             ELSE {}]

\* A request is carried out.  History: what the pages do not learn of drifts.
ServePost(c) ==
  /\ con[c].post # NoPost /\ con[c].post.status = "sent"
  /\ \E o \in IF session = "failed"
              THEN {[Outcome(db, "error", NoRow) EXCEPT !.session = "failed"]}
              ELSE Perform(db, con[c].post) :
       LET p == con[c].post
           learns(k) == IF k = c THEN Shown(p, o) ELSE [groups |-> {}, users |-> {}]
       IN /\ db' = o.db /\ session' = o.session
          /\ con' = [k \in Console |->
               [con[k] EXCEPT !.gdrift = @ \cup (Touched(db, o.db) \ learns(k).groups),
                              !.udrift = @ \cup (Regrouped(db, o.db) \ learns(k).users),
                              !.post = IF k = c THEN [p EXCEPT !.status = o.status, !.row = o.row]
                                       ELSE @]]
-----------------------------------------------------------------------------
(* The answer to a request arrives: what the page makes of it. *)

Reset(k) == [k EXCEPT !.graph = <<>>, !.view = "loading"]
\* The dialog that the answer closes, if it is of group-opr.js or of user-opr.js, as oprs says.
GroupOprs == {"create", "modify", "delete", "removeUser", "updateUserGroup"}
UserOprs == {"createUser", "modifyUser", "deleteUser"}
Closed(k, oprs) == IF k.dialog.op \in oprs THEN [k EXCEPT !.dialog = NoAsk] ELSE k
\* A new row in place of one with its id; without one placeAt raises, and the dialog stays.
Replaced(rows, row) == {(rows \ {r}) \cup {row} : r \in {r \in rows : r.id = row.id}}

groupCreate(k, row) == {Closed(Reset([k EXCEPT !.rows = @ \cup {row}]), GroupOprs)}
groupChange(k, row) ==
  IF Replaced(k.rows, row) = {} THEN {Reset(k)}
  ELSE {Closed(Reset([k EXCEPT !.rows = rows]), GroupOprs) : rows \in Replaced(k.rows, row)}
\* Faulty variant of groupDelete: it looks for another element, as the onDelete of the
\* list does.
groupDeleteKeepsRow(k, id) == {Closed(Reset(k), GroupOprs)}
groupDelete(k, id) ==
  LET gone == {r \in k.rows : r.id = id}
  IN {Closed(Reset([k EXCEPT !.rows = @ \ {r}]), GroupOprs) : r \in gone}
       \cup IF gone = {} THEN {Closed(Reset(k), GroupOprs)} ELSE {}
groupsContent(k) ==
  {Closed([k EXCEPT !.gets = @ \cup {[Ask("content", 0, {}, None) EXCEPT !.n = k.clicks]}], GroupOprs)}
userCreate(k, row) == {Closed([k EXCEPT !.urows = @ \cup {row}], UserOprs)}
userChange(k, row) ==
  IF Replaced(k.urows, row) = {} THEN {k}
  ELSE {Closed([k EXCEPT !.urows = rows], UserOprs) : rows \in Replaced(k.urows, row)}
userDelete(k, id) ==
  LET gone == {r \in k.urows : r.id = id}
  IN {[k EXCEPT !.urows = @ \ {r}] : r \in gone} \cup IF gone = {} THEN {k} ELSE {}

Succeeded(k, p) ==
  CASE p.op = "create" -> groupCreate(k, p.row)
    [] p.op = "modify" -> groupChange(k, p.row)
    [] p.op = "delete" -> groupDelete(k, p.id)
    [] p.op \in {"removeUser", "updateUserGroup"} -> groupsContent(k)
    [] p.op = "createUser" -> userCreate(k, p.row)
    [] p.op = "modifyUser" -> userChange(k, p.row)
    [] p.op = "deleteUser" -> userDelete(k, p.id)

\* stop_load comes first.  The error handlers raise when they look for a message in the
\* answer, an HTML page: only add of a user has closed its dialog by then.
\* Faulty variant of Arrived: an error leaves the overlay.
ArrivedButStuck(k, p) ==
  LET idle == [k EXCEPT !.post = NoPost]
  IN IF p.status = "ok" THEN Succeeded(idle, p)
     ELSE IF p.status = "error" THEN {k}
     ELSE {idle}
Arrived(k, p) ==
  LET idle == [k EXCEPT !.post = NoPost]
  IN IF p.status = "ok" THEN Succeeded(idle, p)
     ELSE IF p.status = "error" /\ p.op = "createUser" THEN {Closed(idle, UserOprs)}
     ELSE {idle}

ArrivePost(c) ==
  /\ con[c].post # NoPost /\ con[c].post.status # "sent"
  /\ \E k \in Arrived(con[c], con[c].post) : con' = [con EXCEPT ![c] = k]
  /\ UNCHANGED <<db, session>>

Init ==
  /\ db \in Databases /\ session = "up"
  /\ con = [c \in Console |-> Page(db)]

Next ==
  \E c \in Console :
    \/ ClickGroups(c) \/ ClickUsers(c) \/ ClickGraph(c) \/ ShowGroupInfo(c) \/ ShowAllGroups(c)
    \/ \E get \in con[c].gets : ServeGet(c, get) \/ ArriveGet(c, get)
    \/ LoadGraph(c) \/ Cancel(c) \/ Submit(c) \/ ServePost(c) \/ ArrivePost(c)
Spec == Init /\ [][Next]_vars

\* The server answers each request, and the browser handles each answer.  Nobody has to
\* click, and a list may be as late as it likes.
FairSpec == Spec /\ \A c \in Console : WF_vars(ServePost(c)) /\ WF_vars(ArrivePost(c))
-----------------------------------------------------------------------------
(* Properties *)

\* The tables are well formed, names unique, and the page has the parts it should.
TypeOK ==
  /\ db \in Database /\ NamesUnique(db) /\ session \in {"up", "failed"}
  /\ \A c \in Console : LET k == con[c] IN
       /\ k.rows \subseteq [id : Group, users : SUBSET User, group : {None}]
       /\ k.urows \subseteq [id : User, users : {{}}, group : Group \cup {None}]
       /\ k.dialog.op \in ByGet \cup Direct \cup {"none"} /\ k.dialog.id \in 0..(MaxGroup + MaxUser)
       /\ k.post = NoPost \/ k.post.op \in ByGet \cup Direct
       /\ \A get \in k.gets : get.op \in ByGet \cup {"content"}
       /\ k.view \in {"graph", "users", "loading"}

\* While nothing is under way the lists of a page show the groups with their members and
\* the users with their groups, but for what somebody else, the graph or the other list
\* has changed (groupCreate, groupChange, groupDelete, userCreate, userChange, userDelete).
RowsCurrent ==
  \A c \in Console : con[c].post = NoPost =>
    /\ \A g \in Group \ con[c].gdrift :
         {r \in con[c].rows : r.id = g} = IF g \in Groups(db) THEN {GroupRow(db, g)} ELSE {}
    /\ \A u \in User \ con[c].udrift :
         {r \in con[c].urows : r.id = u} = IF u \in Users(db) THEN {UserRow(db, u)} ELSE {}

\* The request that is carried out in a step, if nothing has changed since
\* the click that led to it.
Served(c) == con[c].post # NoPost /\ con[c].post.status = "sent" /\ con'[c].post.status # "sent"
Fresh(c) == \A i \in DOMAIN con[c].post.seen : con[c].post.seen[i] = db

\* A dialog of a group offers no users of others (nongrouplist): nobody loses a member to
\* it, unless its list was late.
UpdateTakesNobody ==
  [][\A c \in Console :
       Served(c) /\ Fresh(c) /\ con[c].post.op \in {"create", "modify"} =>
         \A u \in Users(db) : db'.of[u] # db.of[u] => db.of[u] \in {None, con[c].post.id}]_vars

\* A dialog that opens on a row that is up to date (onChange) changes nothing but what the
\* administrator changed in it.
OnlyTogglesChange ==
  [][\A c \in Console : Served(c) /\ Fresh(c) =>
       LET p == con[c].post IN
       /\ p.op = "modify" /\ p.id \notin con[c].gdrift => Regrouped(db, db') \subseteq p.toggled
       /\ p.op = "modifyUser" /\ p.id \notin con[c].udrift =>
            Regrouped(db, db') \subseteq p.toggled /\ session' = session]_vars

\* No request whose list is up to date leaves a user with a group that does not exist.
ReferencesKept ==
  [][\A c \in Console : Served(c) /\ Fresh(c) => Dangling(db') \subseteq Dangling(db)]_vars

\* The overlay that start_load puts over the page goes, whatever the answer is.
OverlayEnds == \A c \in Console : con[c].post # NoPost ~> con[c].post = NoPost
=============================================================================
