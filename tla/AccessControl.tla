---------------------------- MODULE AccessControl ----------------------------
(***************************************************************************)
(* Users, user groups, collections and grants: authorizeCollection, the    *)
(* handlers that create and change them, and their statements, one step    *)
(* each.  Grants and group memberships are the links.                      *)
(*                                                                         *)
(* An edit is a POST, PATCH or PUT of a user or of a group: a transaction  *)
(* that writes the row and then replaces its lists of links one by one.    *)
(* Only an UPDATE of the row's columns locks it.  Names are left out but   *)
(* for the username that an administrator gives a user in advance.         *)
(***************************************************************************)
EXTENDS LinkTables

CONSTANTS Users, Groups, Colls,   \* ids, each given out once
          People,                 \* who signs in: subject and username
          Ops,                    \* what requests ask for
          Seeds,                  \* the grants and memberships at first
          SeededUsers,            \* the users at first
          Faulty                  \* the requests whose statements may fail

Owner == 4
Member == 0        \* the role of a membership
Kinds == {"login", "collection", "post", "put", "delete",
          "create", "patch", "deleteUser", "deleteGroup"}
Edits == {"create", "patch"}
Parts == {"groups", "members", "grants"}

UserRow == [sub : People \cup {NULL}, name : People]
LinkRow == [by : Requests \cup {NULL}, of : Groups \cup Colls,
            to : Users \cup Groups, role : 0..Owner]
LinkId == (Requests \cup {NULL}) \X (Groups \cup Colls) \X (Users \cup Groups)

\* An item of a body is a link without the id of its request.
Item == [of : Groups \cup Colls, to : Users \cup Groups, role : 0..Owner]
List == [part : Parts, items : Seq(Item)]

\* The links that a list of the user or group e replaces.
InPart(e, part, l) ==
    CASE part = "groups" -> l.to = e /\ l.of \in Groups
      [] part = "members" -> l.of = e
      [] part = "grants" -> l.to = e /\ l.of \in Colls

\* at: the collection, user or group of the path.  lists: what replaces a
\* part, and nothing but that part; in a POST of grants or of a collection,
\* the one list of new grants.  columns: the body sets a column, so that the
\* row is updated.
OpType(o) ==
    /\ o.kind \in Kinds
    /\ o.who \in People \cup {NULL}
    /\ o.kind \in {"login", "collection", "post", "put", "delete"} => o.who \in People
    /\ o.kind \in {"collection", "post", "put", "delete"} => o.at \in Colls
    /\ o.kind \in {"collection", "post"} => o.lists # <<>>
    /\ o.kind = "deleteUser" => o.at \in Users
    /\ o.kind = "deleteGroup" => o.at \in Groups
    /\ o.kind \in Edits => o.at \in Users \cup Groups
    /\ o.kind = "create" /\ o.at \in Users => o.who \in People
    /\ o.role \in 0..Owner
    /\ o.columns \in BOOLEAN
    /\ o.lists \in Seq(List)
    /\ o.kind \in Edits =>
          \A n \in DOMAIN o.lists : \A m \in DOMAIN o.lists[n].items : \A part \in Parts :
             InPart(o.at, part, o.lists[n].items[m]) <=> part = o.lists[n].part

\* The tables at first keep their constraints: a key once, and every link
\* between rows that are there.
SeedType(S) ==
    /\ S \subseteq LinkRow
    /\ \A k, l \in S : Key(k) = Key(l) => k = l
    /\ \A l \in S : l.by = NULL /\ l.to \in DOMAIN SeededUsers \cup {k.of : k \in S}

ASSUME AccessAssumption ==
    /\ \A o \in Ops : OpType(o)
    /\ \A S \in Seeds : SeedType(S)
    /\ DOMAIN SeededUsers \subseteq Users
    /\ \A u \in DOMAIN SeededUsers : SeededUsers[u] \in UserRow
    /\ Users \cap Groups = {} /\ Users \cap Colls = {} /\ Groups \cap Colls = {}
    /\ NULL \notin Users \cup Groups \cup Colls \cup People \cup Requests
    /\ NULL \notin Ops /\ NULL \notin UserRow /\ NULL \notin LinkId

VARIABLES
    user,       \* app_user: subject and username of each id, or NULL
    groups,     \* user_group
    colls,      \* collection
    given,      \* the ids of users and groups given out so far
    pc, op, me, target, todo, parts     \* the requests

rowVars == <<user, groups, colls, given>>
localVars == <<op, me, target, todo, parts>>
vars == <<linkVars, rowVars, pc, localVars>>

Finished == {"ok", "failed"}

TypeOK ==
    /\ LinksOK(LinkRow, Users \cup Groups)
    /\ user \in [Users -> UserRow \cup {NULL}]
    /\ groups \subseteq Groups
    /\ colls \subseteq Colls
    /\ given \subseteq Users \cup Groups
    /\ pc \in [Requests -> Finished \cup
                  {"idle", "upsert", "role", "collection", "grants", "update", "lookup", "count",
                   "remove", "begin", "part", "clear", "insert", "reread",
                   "readUser", "drop", "cascade"}]
    /\ op \in [Requests -> Ops \cup {NULL}]
    /\ me \in [Requests -> Users \cup {NULL}]
    /\ target \in [Requests -> LinkId \cup {NULL}]

Init ==
    /\ \E s \in Seeds : LinksInit(s)
    /\ user = [u \in Users |-> IF u \in DOMAIN SeededUsers THEN SeededUsers[u] ELSE NULL]
    /\ groups = {l.of : l \in links} \cap Groups
    /\ colls = {l.of : l \in links} \cap Colls
    /\ given = DOMAIN SeededUsers \cup groups
    /\ pc = [r \in Requests |-> "idle"]
    /\ op = [r \in Requests |-> NULL]
    /\ me = [r \in Requests |-> NULL]
    /\ target = [r \in Requests |-> NULL]
    /\ todo = [r \in Requests |-> <<>>]
    /\ parts = [r \in Requests |-> <<>>]

Goto(r, here, there) == pc[r] = here /\ pc' = [pc EXCEPT ![r] = there]
Exists(e) == e \in groups \cup colls \/ (e \in Users /\ user[e] # NULL)
Owns(u, c) == \E l \in links : Key(l) = <<c, u>> /\ l.role = Owner
Owners(c) == {l \in links : l.of = c /\ l.role = Owner}
TargetRow(r) == {l \in links : Id(l) = target[r]}

-----------------------------------------------------------------------------
(* Arrival, principal and role.                                            *)

FirstStep(o) ==
    CASE o.kind \in {"login", "collection", "post", "put", "delete"} -> "upsert"
      [] o.kind \in Edits -> "begin"
      [] o.kind = "deleteUser" -> "readUser"
      [] o.kind = "deleteGroup" -> "drop"

\* The body is parsed.  A PUT or DELETE names a grant that its client has
\* seen; a new user or group takes an id that no other row ever has.
Receive(r, o) ==
    /\ Goto(r, "idle", FirstStep(o))
    /\ op' = [op EXCEPT ![r] = o]
    /\ IF o.kind \in {"put", "delete"}
       THEN \E l \in links : l.of = o.at /\ target' = [target EXCEPT ![r] = Id(l)]
       ELSE UNCHANGED target
    /\ IF o.kind = "create"
       THEN o.at \notin given /\ given' = given \cup {o.at}
       ELSE UNCHANGED given
    /\ todo' = [todo EXCEPT ![r] = IF o.kind = "post" THEN o.lists[1].items ELSE <<>>]
    /\ parts' = [parts EXCEPT ![r] = IF o.kind \in Edits THEN o.lists ELSE <<>>]
    /\ UNCHANGED <<linkVars, user, groups, colls, me>>

CollectionNotFound(r) ==
    /\ pc[r] = "upsert" /\ op[r].kind = "post" /\ op[r].at \notin colls
    /\ Goto(r, "upsert", "failed")
    /\ UNCHANGED <<linkVars, rowVars, localVars>>

AfterUpsert(o) ==
    CASE o.kind = "login" -> "ok" [] o.kind = "collection" -> "collection" [] OTHER -> "role"

\* Mutant of OwnRow: a row that was created in advance counts too, and so
\* gets the subject.
OwnRowByName(p) == {u \in Users : user[u] # NULL /\ user[u].name = p}
OwnRow(p) == {u \in Users : user[u] # NULL /\ user[u].sub = p}

\* INSERT ... ON CONFLICT (sub) DO UPDATE.
Upsert(r) ==
    /\ Goto(r, "upsert", AfterUpsert(op[r]))
    /\ op[r].kind = "post" => op[r].at \in colls
    /\ \E u \in Users :
          /\ IF OwnRow(op[r].who) = {} THEN u \notin given ELSE u \in OwnRow(op[r].who)
          /\ Updating(r, u) = {}
          /\ user' = [user EXCEPT ![u] = [sub |-> op[r].who, name |-> op[r].who]]
          /\ given' = given \cup {u}
          /\ me' = [me EXCEPT ![r] = u]
    /\ UNCHANGED <<linkVars, groups, colls, op, target, todo, parts>>

AfterRole(o) ==
    CASE o.kind = "post" -> "grants" [] o.kind = "put" -> "update" [] OTHER -> "lookup"

\* The role of a user in a collection is that of the user's own grant; the
\* handlers that change grants ask for an owner.
ResolveUserRole(r) ==
    /\ Goto(r, "role", IF Owns(me[r], op[r].at) THEN AfterRole(op[r]) ELSE "failed")
    /\ UNCHANGED <<linkVars, rowVars, localVars>>

-----------------------------------------------------------------------------
(* Collections and the grants of a collection.                             *)

\* The collection and its grants, one transaction that no other can meet;
\* the last grant to a user counts.
CreateCollection(r) ==
    LET c == op[r].at
        items == op[r].lists[1].items
        Last(i) == \A j \in DOMAIN items : j > i => items[j].to # items[i].to
    IN /\ Goto(r, "collection", "ok")
       /\ c \notin colls
       /\ \A i \in DOMAIN items : Deleting(r, items[i].to) = {}
       /\ \A i \in DOMAIN items : Exists(items[i].to)
       /\ colls' = colls \cup {c}
       /\ Write(links \cup {Link(r, c, items[i].to, items[i].role) :
                               i \in {j \in DOMAIN items : Last(j)}})
       /\ UNCHANGED <<user, groups, given, localVars>>

CreateCollectionFails(r) ==
    /\ pc[r] = "collection"
    /\ \/ op[r].at \in colls
       \/ \E i \in DOMAIN op[r].lists[1].items : ~Exists(op[r].lists[1].items[i].to)
    /\ Goto(r, "collection", "failed")
    /\ UNCHANGED <<linkVars, rowVars, localVars>>

\* One statement per entry of the body, each for itself.
CreateGrant(r) ==
    /\ pc[r] = "grants" /\ todo[r] # <<>>
    /\ LET g == Head(todo[r])
           k == <<op[r].at, g.to>>
       IN /\ InsertWaits(r, k) = {}
          /\ IF Present(r, k) \/ ~Exists(g.to)
             THEN /\ Goto(r, "grants", "failed")
                  /\ UNCHANGED <<linkVars, target, todo>>
             ELSE /\ Goto(r, "grants", "reread")
                  /\ Write(links \cup {Link(r, op[r].at, g.to, g.role)})
                  /\ target' = [target EXCEPT ![r] = <<r, op[r].at, g.to>>]
                  /\ todo' = [todo EXCEPT ![r] = Tail(@)]
    /\ UNCHANGED <<rowVars, op, me, parts>>

GrantsCreated(r) ==
    /\ todo[r] = <<>>
    /\ Goto(r, "grants", "ok")
    /\ UNCHANGED <<linkVars, rowVars, localVars>>

UpdateRole(r) ==
    /\ HoldRows(r, {target[r]}) = {}
    /\ Goto(r, "update", IF TargetRow(r) = {} THEN "failed" ELSE "reread")
    /\ Write((links \ TargetRow(r)) \cup {[l EXCEPT !.role = op[r].role] : l \in TargetRow(r)})
    /\ UNCHANGED <<rowVars, localVars>>

\* What a handler answers with is read again; GrantRepo.Get joins the user,
\* and so does not find the grant of a group.
Reread(r) ==
    LET found == IF op[r].kind \in Edits THEN Exists(op[r].at)
                 ELSE \E l \in TargetRow(r) : l.to \in Users
    IN /\ Goto(r, "reread", IF ~found THEN "failed"
                            ELSE IF op[r].kind = "post" THEN "grants" ELSE "ok")
       /\ UNCHANGED <<linkVars, rowVars, localVars>>

LookupGrant(r) ==
    /\ Goto(r, "lookup", IF TargetRow(r) = {} THEN "failed"
                         ELSE IF TargetRow(r) \subseteq Owners(op[r].at) THEN "count" ELSE "remove")
    /\ UNCHANGED <<linkVars, rowVars, localVars>>

CountOwners(r) ==
    /\ Goto(r, "count", IF Cardinality(Owners(op[r].at)) <= 1 THEN "failed" ELSE "remove")
    /\ UNCHANGED <<linkVars, rowVars, localVars>>

\* The DELETE does not say what it deleted, and the transaction commits.
RemoveGrant(r) ==
    /\ HoldRows(r, {target[r]}) = {}
    /\ Goto(r, "remove", "ok")
    /\ Write(links \ TargetRow(r))
    /\ UNCHANGED <<rowVars, localVars>>

-----------------------------------------------------------------------------
(* Users and groups.                                                       *)

\* INSERT or UPDATE of the row, or a look at whether it exists.
BeginEdit(r) ==
    LET o == op[r]
        writes == o.kind = "patch" /\ o.columns
    IN /\ Goto(r, "begin", IF o.kind = "create" \/ Exists(o.at) THEN "part" ELSE "failed")
       /\ writes => Updating(r, o.at) = {}
       /\ LockRows(r, IF writes /\ Exists(o.at) THEN {o.at} ELSE {})
       /\ UNCHANGED <<rowVars, localVars>>

Part(e, part) == {l \in links : InPart(e, part, l)}

NextPart(r) ==
    /\ parts[r] # <<>>
    /\ Goto(r, "part", "clear")
    /\ StartDelete(r, Part(op[r].at, Head(parts[r]).part))
    /\ todo' = [todo EXCEPT ![r] = Head(parts[r]).items]
    /\ parts' = [parts EXCEPT ![r] = Tail(@)]
    /\ UNCHANGED <<rowVars, op, me, target>>

ClearPart(r) ==
    /\ Goto(r, "clear", "insert")
    /\ FinishDelete(r)
    /\ UNCHANGED <<rowVars, localVars>>

\* What an INSERT fails on: a key that is there, or a row that is not.
Refused(r, i) ==
    \/ Present(r, Key(i))
    \/ \E e \in {i.of, i.to} : e # op[r].at /\ ~Exists(e)
    \/ op[r].kind = "patch" /\ ~Exists(op[r].at)

InsertItem(r) ==
    /\ pc[r] = "insert" /\ todo[r] # <<>>
    /\ InsertWaits(r, Key(Head(todo[r]))) = {}
    /\ ~Refused(r, Head(todo[r]))
    /\ InsertLink(r, Link(r, Head(todo[r]).of, Head(todo[r]).to, Head(todo[r]).role))
    /\ todo' = [todo EXCEPT ![r] = Tail(@)]
    /\ UNCHANGED <<rowVars, pc, op, me, target, parts>>

PartDone(r) ==
    /\ todo[r] = <<>>
    /\ Goto(r, "insert", "part")
    /\ UNCHANGED <<linkVars, rowVars, localVars>>

\* The row that an edit creates, to the others, when it commits.
CommitEdit(r) ==
    LET o == op[r]
    IN /\ parts[r] = <<>>
       /\ Goto(r, "part", "reread")
       /\ CommitLinks(r)
       /\ user' = IF o.kind = "create" /\ o.at \in Users
                  THEN [user EXCEPT ![o.at] = [sub |-> NULL, name |-> o.who]] ELSE user
       /\ groups' = groups \cup (IF o.kind = "create" THEN {o.at} \cap Groups ELSE {})
       /\ UNCHANGED <<colls, given, localVars>>

\* Mutant of Abort: no deferred Rollback, so that the transaction stays open.
AbortLeavesOpen(r) ==
    /\ pc' = [pc EXCEPT ![r] = "failed"]
    /\ UNCHANGED <<linkVars, rowVars, localVars>>
Abort(r) ==
    /\ pc' = [pc EXCEPT ![r] = "failed"]
    /\ Rollback(r)
    /\ UNCHANGED <<user, groups, colls, given, localVars>>

\* Mutant of InsertFails: ON CONFLICT DO NOTHING.
InsertSkips(r) ==
    /\ pc[r] = "insert" /\ todo[r] # <<>>
    /\ InsertWaits(r, Key(Head(todo[r]))) = {}
    /\ Refused(r, Head(todo[r]))
    /\ todo' = [todo EXCEPT ![r] = Tail(@)]
    /\ UNCHANGED <<linkVars, rowVars, pc, op, me, target, parts>>
InsertFails(r) ==
    /\ pc[r] = "insert" /\ todo[r] # <<>>
    /\ InsertWaits(r, Key(Head(todo[r]))) = {}
    /\ Refused(r, Head(todo[r]))
    /\ Abort(r)

\* DeleteAdmin: only a user that has never signed in can be deleted.
ReadUser(r) ==
    LET row == user[op[r].at]
    IN /\ Goto(r, "readUser", IF row = NULL \/ row.sub # NULL THEN "failed" ELSE "drop")
       /\ UNCHANGED <<linkVars, rowVars, localVars>>

DropRow(r) ==
    LET e == op[r].at
    IN /\ Goto(r, "drop", IF Exists(e) THEN "cascade"
                          ELSE IF op[r].kind = "deleteUser" THEN "ok" ELSE "failed")
       /\ DropWaits(r, e) = {}
       /\ StartDrop(r, IF Exists(e) THEN {e} ELSE {})
       /\ UNCHANGED <<rowVars, localVars>>

LinksTo(e) == {l \in links : e \in {l.of, l.to}}
Drop(r, S) ==
    LET e == op[r].at
    IN /\ Goto(r, "cascade", "ok")
       /\ HasDeleted(r, e) = {}
       /\ FinishDrop(r, S)
       /\ user' = [u \in Users |-> IF u = e THEN NULL ELSE user[u]]
       /\ groups' = groups \ {e}
       /\ UNCHANGED <<colls, given, localVars>>

\* Mutant of CascadeDrop: only the memberships of a group go with it.
CascadeDropMembers(r) == Drop(r, {l \in links : l.of = op[r].at})
CascadeDrop(r) == Drop(r, LinksTo(op[r].at))

-----------------------------------------------------------------------------
(* Statements that fail, and waits.                                        *)

\* A statement fails, or the client goes away: what a transaction has done
\* is undone, what single statements have done is not.
Fault(r) ==
    /\ r \in Faulty
    /\ pc[r] \notin {"idle"} \cup Finished
    /\ Abort(r)

\* The requests that the next statement of r waits for, unless r holds
\* nothing that others could wait for.
WaitsFor(r) ==
    CASE pc[r] = "clear" -> HoldRows(r, snap[r])
      [] pc[r] = "insert" /\ todo[r] # <<>> -> InsertWaits(r, Key(Head(todo[r])))
      [] pc[r] = "cascade" -> HasDeleted(r, op[r].at)
      [] OTHER -> {}

Deadlock(r) == Deadlocked(r, [q \in Requests |-> WaitsFor(q)]) /\ Abort(r)

Step(r) ==
    \/ CollectionNotFound(r) \/ Upsert(r) \/ ResolveUserRole(r)
    \/ CreateCollection(r) \/ CreateCollectionFails(r)
    \/ CreateGrant(r) \/ GrantsCreated(r) \/ UpdateRole(r) \/ Reread(r)
    \/ LookupGrant(r) \/ CountOwners(r) \/ RemoveGrant(r)
    \/ BeginEdit(r) \/ NextPart(r) \/ ClearPart(r) \/ InsertItem(r) \/ PartDone(r)
    \/ CommitEdit(r) \/ InsertFails(r) \/ ReadUser(r) \/ DropRow(r) \/ CascadeDrop(r)
    \/ Deadlock(r)

AllDone == (\A r \in Requests : pc[r] \in Finished) /\ UNCHANGED vars

Next ==
    \/ \E r \in Requests : Step(r) \/ Fault(r) \/ \E o \in Ops : Receive(r, o)
    \/ AllDone

Spec == Init /\ [][Next]_vars

\* Every request is a goroutine that runs its handler to the end.
FairSpec == Spec /\ \A r \in Requests : WF_vars(Step(r))

-----------------------------------------------------------------------------
(* Properties.                                                             *)

IsEdit(r) == r \in Requests /\ op[r] # NULL /\ op[r].kind \in Edits
ByEdit(r, o) == {Link(r, i.of, i.to, i.role) :
                    i \in UNION {{o.lists[n].items[m] : m \in DOMAIN o.lists[n].items}
                                 : n \in DOMAIN o.lists}}

\* An edit of a user or of a group takes effect whole or not at all: when
\* one of its links gets into the tables, all of them do
\* (users_admin.go:175, user_groups.go:104).
EditsAreWhole ==
    [][\A i \in Ids(links') \ Ids(links) :
          IsEdit(i[1]) => ByEdit(i[1], op[i[1]]) \subseteq links']_vars

\* Two requests that both update the row of a user or group do not mix
\* their lists: what is in a list comes from one of them (PatchAdmin and
\* Patch update the row before they replace a list).
OneListAtATime ==
    \A k, l \in links :
       ( /\ k.by # l.by /\ IsEdit(k.by) /\ IsEdit(l.by)
         /\ op[k.by].at = op[l.by].at
         /\ op[k.by].columns /\ op[l.by].columns )
       => \A part \in Parts : ~({k, l} \subseteq Part(op[k.by].at, part))

\* The row of somebody who has signed in stays: DeleteAdmin looks at the
\* subject, and nothing sets it afterwards.
SignedInStay ==
    [][\A u \in Users : user[u] # NULL /\ user[u].sub # NULL
          => user'[u] # NULL /\ user'[u].sub = user[u].sub]_vars

\* No grant or membership outlives its user or group, whatever edits are
\* under way when it is deleted (ON DELETE CASCADE).
NothingDangles == \A l \in links : Exists(l.of) /\ Exists(l.to)

\* What is committed in the tables of users, groups and grants is sound after
\* every statement: rows of their types, lists that one request has written,
\* and no link to a row that has gone (users_admin.go:403, grants.go:109).
TablesAgree == TypeOK /\ OneListAtATime /\ NothingDangles

\* Every request is answered: waits for rows end.
RequestsFinish == \A r \in Requests : pc[r] # "idle" ~> pc[r] \in Finished
=============================================================================
