-------------------------------- MODULE Api --------------------------------
(***************************************************************************)
(* One request through the API: the router, the generated wrapper, the     *)
(* handler's program, while other requests change the user's roles and the *)
(* row that the path names.  There are two collections: the one that the   *)
(* path or the body names, and another, where that row may lie as well.    *)
(*                                                                         *)
(* In front of this are the middlewares of HttpServer, with a provider     *)
(* configured; what a commit does to the tables is in ReviewStore,         *)
(* AccessControl, AssetLabels, ChecklistFiles and Reports.                 *)
(***************************************************************************)
EXTENDS ApiHandlers, AccessToken

CONSTANTS Requests,   \* [method, path, token]; a path has literals only
          Pools,      \* whether the server has a database: TRUE, FALSE or both
          MaxItems    \* the items of a request that commits one by one

ASSUME RequestsAssumption ==
    /\ Requests # {} /\ Pools \in SUBSET BOOLEAN
    /\ MaxItems \in Nat

VARIABLES
    pool,      \* the server runs with a database
    request,
    op,        \* the operation it was routed to, or ""
    at,        \* the step of its program, 0 in the wrapper
    status,    \* the status of the answer, 0 before
    asked,     \* the collection whose roles decide
    named,     \* the collection that the path or the body names has a row
    role,      \* the user's role in each collection, 0 without a grant
    known,     \* the user has a row
    row,       \* where the row lies that the path names: a review is where
               \* its asset is, and what has no collection is Here
    group,     \* the grant that the path names is a group's
    did,       \* the commits of this request
    touched,   \* history: the collections that these have changed
    held,      \* history: the highest roles the user had during the request
    acted      \* history: what another request has changed in between

database == <<pool, named, role, known, row, group>>
history == <<touched, held, acted>>
vars == <<request, op, at, status, asked, did, history, database>>

\* A row that is not there: never made, removed, or an asset disabled.
Nowhere == "nowhere"
Roles == {0, Restricted, Full, Manage, Owner}

\* The scope that protects the tables an operation's path is about.
Area(path) ==
    CASE path[1] \in {"assets", "collections"} -> "collection"
      [] path[1] = "stigs" -> "stig"
      [] path[1] \in {"user", "users", "user-groups"} -> "user"
      [] path[1] \in {"jobs", "op"} -> "op"
Grants(path) == \E i \in DOMAIN path : path[i] = "grants"
\* Assets are numbered across the collections, and so a path may name one of
\* another; what is looked up in one collection only is not there then.
OfAnAsset(path) ==
    \/ Len(path) >= 2 /\ path[1] = "assets"
    \/ Len(path) >= 4 /\ path[3] = "reviews"

\* Where the row of the path may lie.
Lie ==
    {Nowhere} \cup (IF OfAnAsset(request.path) THEN {There} ELSE {})
              \cup (IF Area(request.path) # "collection" \/ named THEN {Here} ELSE {})

token == request.token
Running == status = 0 /\ op # ""
\* The step of that kind that the handler is at, if it is at one.
Doing(kind) ==
    IF Running /\ at > 0
       THEN {Program[op][n] : n \in {m \in {at} : Program[op][m].does = kind}}
       ELSE {}

Max2(m, n) == IF m > n THEN m ELSE n

\* Without a token there is no user, one without a row has no grant, nor has
\* anybody in a collection that is missing; and without a database nothing is
\* there.
Init ==
    /\ pool \in Pools /\ request \in Requests
    /\ op = "" /\ at = 0 /\ status = 0 /\ asked = Here /\ did = 0
    /\ touched = {} /\ acted = "none"
    /\ named \in IF pool THEN BOOLEAN ELSE {FALSE}
    /\ known \in IF pool /\ HasUser(token, TRUE) THEN BOOLEAN ELSE {FALSE}
    /\ row \in IF pool THEN Lie ELSE {Nowhere}
    /\ group \in IF pool /\ Grants(request.path) THEN BOOLEAN ELSE {FALSE}
    /\ role \in [Places -> Roles]
    /\ named \/ role[Here] = 0
    /\ There \in Lie \/ role[There] = 0
    /\ known \/ \A c \in Places : role[c] = 0
    /\ held = role

Answer(code) ==
    /\ status' = code
    /\ UNCHANGED <<request, op, at, asked, did, history, database>>

GoOn ==
    /\ at' = at + 1
    /\ UNCHANGED <<request, op, status, held, acted>>

Pass == GoOn /\ UNCHANGED <<asked, did, touched, database>>

-----------------------------------------------------------------------------
(* The router and the wrapper *)

RouteRequest ==
    /\ op = "" /\ status = 0
    /\ \E found \in {FindRoute(request.method, request.path)} :
          \/ /\ found = {}
             /\ \E code \in {NoRoute(request.path)} : Answer(code)
          \/ /\ op' \in found
             /\ UNCHANGED <<request, at, status, asked, did, history, database>>

\* A parameter that does not bind is refused before the handler runs.
BindParameters ==
    /\ Running /\ at = 0
    /\ \/ Pass
       \/ Route[op].checked # {} /\ Answer(400)

-----------------------------------------------------------------------------
(* The steps of a handler *)

CheckScope ==
    \E step \in Doing("scope") : \E gate \in {Gate(token, TRUE, step.with)} :
       IF gate = 200 THEN Pass ELSE Answer(gate)

CheckUser ==
    \E step \in Doing("user") : IF HasUser(token, TRUE) THEN Pass ELSE Answer(step.with)

CheckPool ==
    \E step \in Doing("pool") : IF pool THEN Pass ELSE Answer(step.with)

Refuse(codes) == \E code \in codes : Answer(code)

CheckInput ==
    \E step \in Doing("check") \cup Doing("look") : Pass \/ Refuse(step.with)

FindAsset ==
    \E step \in Doing("asset") :
       IF row = Nowhere THEN Answer(step.with)
       ELSE asked' = row /\ GoOn /\ UNCHANGED <<did, touched, database>>

LookUpCollection ==
    \E step \in Doing("known") : IF named \/ asked # Here THEN Pass ELSE Answer(step.with)

\* UserRepo.Upsert.
RecordPrincipal ==
    /\ Doing("principal") # {}
    /\ known' = TRUE
    /\ GoOn /\ UNCHANGED <<asked, did, touched, pool, named, role, row, group>>

CheckRole ==
    \E step \in Doing("role") : IF role[asked] >= step.with THEN Pass ELSE Answer(403)

FindRow ==
    \E step \in Doing("find") \cup Doing("tie") :
       IF row \in step.in THEN Pass ELSE Answer(step.with)

\* The grant is joined with app_user, where a group has no row.
FindHolder ==
    \E step \in Doing("holder") : IF row = Here /\ ~group THEN Pass ELSE Answer(step.with)

ReadRows == Doing("query") # {} /\ Pass

\* A commit that leaves the row there.
Commit(there, changed) ==
    /\ did' = did + 1
    /\ touched' = touched \cup (changed \cap Places)
    /\ row' = there
    /\ GoOn /\ UNCHANGED <<asked, pool, named, role, known, group>>

StoreRow ==
    \E step \in Doing("store") : Commit(Here, {Here}) \/ Refuse(step.with)

WriteRow ==
    \E step \in Doing("write") : Commit(row, {row}) \/ Refuse(step.with)

ChangeRow ==
    \E step \in Doing("change") :
       IF row \in step.in THEN Commit(row, {row}) \/ Refuse(step.with) ELSE Answer(404)

\* AssetRepo.Update asks whether the asset is enabled only if it changes a
\* column; a body with lists of STIGs or labels alone is committed anyway.
MoveRow ==
    \E step \in Doing("move") :
       \/ Commit(row, {row})
       \/ row \in step.in /\ named /\ Commit(Here, {row, Here})
       \/ Refuse(step.with)
       \/ row \notin step.in /\ Answer(404)

DropRow ==
    \E step \in Doing("drop") :
       IF row \in step.in THEN Commit(Nowhere, {row}) \/ Refuse(step.with) ELSE Answer(404)

\* One transaction for every item, and no step back over those before.  The
\* items are of the collection asked, or of the asset of the path.
StoreNext ==
    \E step \in Doing("each") \cup Doing("try") :
       /\ did < MaxItems
       /\ did' = did + 1
       /\ touched' = touched \cup (IF step.in = {Here} THEN {Here} ELSE {row} \cap Places)
       /\ UNCHANGED <<request, op, at, status, asked, held, acted, database>>

FinishItems ==
    \/ \E step \in Doing("each") : Pass \/ Refuse(step.with)
    \/ Doing("try") # {} /\ Pass

\* Whatever reaches the database can fail, and is then rolled back.
FailStatement ==
    /\ \E kind \in {"look", "asset", "known", "principal", "role", "tie", "find", "holder",
                     "query", "store", "write", "change", "move", "drop", "each"} :
          Doing(kind) # {}
    /\ Answer(500)

Finish == \E step \in Doing("done") : Answer(step.with)

-----------------------------------------------------------------------------
(* Another request, once: a grant edited, or the row made, moved or        *)
(* removed.                                                                *)

ChangeRole(c) ==
    /\ known /\ (c = Here => named) /\ (c = There => There \in Lie)
    /\ \E r \in Roles \ {role[c]} : role' = [role EXCEPT ![c] = r]
    /\ held' = [held EXCEPT ![c] = Max2(@, role'[c])]
    /\ acted' = "role"
    /\ UNCHANGED <<pool, named, known, row, group>>

ChangeOtherRow ==
    /\ row' \in Lie \ {row}
    /\ acted' = "row"
    /\ UNCHANGED <<pool, named, known, role, group, held>>

OthersAct ==
    /\ Running /\ at > 0 /\ pool /\ acted = "none"
    /\ ChangeOtherRow \/ \E c \in Places : ChangeRole(c)
    /\ UNCHANGED <<request, op, at, status, asked, did, touched>>

Next ==
    \/ RouteRequest \/ BindParameters
    \/ CheckScope \/ CheckUser \/ CheckPool \/ CheckInput
    \/ FindAsset \/ LookUpCollection \/ RecordPrincipal \/ CheckRole
    \/ FindRow \/ FindHolder \/ ReadRows
    \/ StoreRow \/ WriteRow \/ ChangeRow \/ MoveRow \/ DropRow \/ StoreNext \/ FinishItems
    \/ FailStatement \/ Finish
    \/ OthersAct

Spec == Init /\ [][Next]_vars

-----------------------------------------------------------------------------
(* Properties *)

\* The types of the variables, and that a program is never run past its end:
\* each ends in an answer.  A conjunct of ReachesItsOperation.
TypeOK ==
    /\ request \in Requests
    /\ op \in Operations \cup {""}
    /\ at \in IF op = "" THEN {0} ELSE 0..Len(Program[op])
    /\ status \in {0} \cup 200..599
    /\ role \in [Places -> Roles]
    /\ held \in [Places -> Roles] /\ \A c \in Places : role[c] <= held[c]
    /\ asked \in Places /\ row \in Places \cup {Nowhere} /\ touched \subseteq Places
    /\ did \in Nat
    /\ acted \in {"none", "role", "row"}
    /\ {named, known, group, pool} \subseteq BOOLEAN

\* a is preferred to b: the same up to where a has the literal.
Preferred(a, b) ==
    \E i \in 1..Len(a) :
       /\ SubSeq(a, 1, i - 1) = SubSeq(b, 1, i - 1)
       /\ a[i] # Var /\ b[i] = Var

Candidates ==
    {o \in Operations : Route[o].method = request.method /\ Fits(Route[o].path, request.path)}

\* A request reaches the operation of its method whose template is the most
\* literal from the left, though the tree is searched literal child first and
\* a literal that serves another method only leads the search astray; it is
\* turned away by the router only when no operation fits.  It is never run
\* past the end of its program (TypeOK).
ReachesItsOperation ==
    /\ TypeOK
    /\ op # "" /\ at = 0 =>
         /\ op \in Candidates
         /\ \A o \in Candidates : ~Preferred(Route[o].path, Route[op].path)
    /\ op = "" /\ status # 0 => Candidates = {}

RoleToChange(o) ==
    IF o = "CreateCollection" \/ Area(Route[o].path) # "collection" THEN 0
    ELSE IF Grants(Route[o].path) THEN Owner
    ELSE Manage

\* These may change another collection than the one whose role they ask for:
\* two take a review by its asset, wherever that is, and one moves an asset
\* to the collection that its body names.
Crossing == {"PatchReviewByAssetRule", "DeleteReviewByAssetRule", "UpdateAsset"}

\* Only a token with the writing scope of the area changes anything, and in a
\* collection only a user who, during the request, could manage it, or owned
\* it where its grants are changed: whatever the order of an operation's
\* checks, and whatever others do between them.  What is changed lies in that
\* collection, but for the operations above, and for a row that another
\* request has moved between the check and the change.
ChangesAreGranted ==
    did > 0 =>
       /\ <<Area(request.path), FALSE>> \in token.scopes
       /\ held[asked] >= RoleToChange(op)
       /\ touched \subseteq {asked} \/ op \in Crossing \/ acted = "row"

\* As the guard of PUT says, no caller writes to another collection than the
\* one in the path by naming an asset of it there: an asset must be in the
\* collection whose grant the request relies on.  Not so for PATCH and DELETE.
GrantAndPathAgree ==
    did > 0 /\ request.path[1] = "collections" /\ acted # "row" => touched \subseteq {Here}

OneByOne(o) == \E i \in 1..Len(Program[o]) : Program[o][i].does = "each"

\* The change of a group's grant is committed and then not found: the grant
\* is read back with a user.
GroupsGrant == op = "PutGrantByCollectionGrant" /\ group /\ status = 404

\* A request that is refused has changed nothing, with three exceptions.  The
\* operations that commit item by item keep what came before the item they
\* refuse.  One that reads its row back, or its role, after the commit is
\* refused if another request has taken it away in between (as is an update of
\* the lists of an asset that another has disabled).  And so is, whatever
\* others do, the change of a group's grant.
RefusedChangesNothing ==
    status \in 400..499 /\ did > 0 =>
       \/ OneByOne(op)
       \/ acted # "none" /\ status \in {403, 404}
       \/ GroupsGrant

\* These do not ask for the scope that the API's document says they need.
AsksLess == {"GetUser", "GetChecklistByAsset", "GetChecklistByAssetStig"}

\* The handlers check the scopes themselves, each with a literal of its own;
\* whoever gets an answer from one had the scope that its wrapper publishes.
AnsweredAsPublished ==
    status \in 200..299 /\ op \notin AsksLess =>
       \A s \in Route[op].scope : {s, <<s[1], FALSE>>} \cap token.scopes # {}
=============================================================================
