------------------------- MODULE AccessControl_proofs -------------------------
(***************************************************************************)
(* Proofs about AccessControl for any users, groups, collections, requests *)
(* and bodies, with failing statements and deadlocks: the tables agree     *)
(* after every step, edits are whole, and whoever has signed in stays.     *)
(***************************************************************************)
EXTENDS AccessControl, TLAPS

(***************************************************************************)
(* The invariant, part by part.                                            *)
(***************************************************************************)

\* The types of all variables.
Shapes ==
    /\ links \subseteq LinkRow
    /\ dead \in [Requests -> SUBSET LinkId] /\ snap \in [Requests -> SUBSET LinkId]
    /\ added \in [Requests -> SUBSET LinkRow]
    /\ locked \in [Requests -> SUBSET (Users \cup Groups)]
    /\ dropping \in [Requests -> SUBSET (Users \cup Groups)]
    /\ user \in [Users -> UserRow \cup {NULL}]
    /\ groups \subseteq Groups /\ colls \subseteq Colls /\ given \subseteq Users \cup Groups
    /\ op \in [Requests -> Ops \cup {NULL}] /\ me \in [Requests -> Users \cup {NULL}]
    /\ target \in [Requests -> LinkId \cup {NULL}]
    /\ todo \in [Requests -> Seq(Item)] /\ parts \in [Requests -> Seq(List)]

\* What a request at each step of a handler has asked for.
Stage ==
    /\ pc \in [Requests -> Finished \cup
                  {"idle", "upsert", "role", "collection", "grants", "update", "lookup", "count",
                   "remove", "begin", "part", "clear", "insert", "reread",
                   "readUser", "drop", "cascade"}]
    /\ \A r \in Requests :
          /\ pc[r] = "idle" <=> op[r] = NULL
          /\ pc[r] = "upsert" => op[r].kind \in {"login", "collection", "post", "put", "delete"}
          /\ pc[r] = "collection" => op[r].kind = "collection"
          /\ pc[r] = "role" => op[r].kind \in {"post", "put", "delete"}
          /\ pc[r] = "grants" => op[r].kind = "post"
          /\ pc[r] = "update" => op[r].kind = "put"
          /\ pc[r] \in {"lookup", "count", "remove"} => op[r].kind = "delete"
          /\ pc[r] \in {"begin", "part", "clear", "insert"} => op[r].kind \in Edits
          /\ pc[r] = "reread" => op[r].kind \in Edits \cup {"post", "put"}
          /\ pc[r] = "readUser" => op[r].kind = "deleteUser"
          /\ pc[r] \in {"drop", "cascade"} => op[r].kind \in {"deleteUser", "deleteGroup"}

\* What a request holds, by where it is: only an edit has a transaction open,
\* and has locked the row that it updates; only a delete is dropping a row.
InTx(r) == pc[r] \in {"part", "clear", "insert"}
Holds ==
    \A r \in Requests :
       /\ ~InTx(r) => dead[r] = {} /\ added[r] = {} /\ snap[r] = {} /\ locked[r] = {}
       /\ InTx(r) /\ op[r].kind = "patch" /\ op[r].columns => op[r].at \in locked[r]
       /\ dropping[r] = (IF pc[r] = "cascade" THEN {op[r].at} ELSE {})

\* r creates a user or a group, or has created one.
Creates(r) == op[r] # NULL /\ op[r].kind = "create"

\* Rows: what a link refers to is there, or is what its own transaction is
\* creating, and nobody is deleting it; nobody else can create that row.
RowsInv ==
    /\ \A u \in Users : user[u] # NULL => u \in given
    /\ groups \subseteq given
    /\ NothingDangles
    /\ \A r \in Requests : \A l \in added[r] : \A e \in {l.of, l.to} :
          /\ Exists(e) \/ (Creates(r) /\ e = op[r].at)
          /\ \A q \in Requests : e \notin dropping[q]
    /\ \A r \in Requests : \A e \in locked[r] :
          Exists(e) /\ \A q \in Requests : e \notin dropping[q]
    /\ \A r \in Requests : Creates(r) =>
          /\ op[r].at \in given
          /\ (pc[r] = "begin" \/ InTx(r)) => ~Exists(op[r].at)
          /\ \A q \in Requests \ {r} : Creates(q) => op[q].at # op[r].at
    /\ \A r \in Requests : pc[r] \in {"role", "grants", "reread"} /\ op[r].kind = "post" => op[r].at \in colls

\* Links: a key stands in the table once, a request has written none before it
\* commits, and what open transactions have deleted and inserted does not meet.
LinksInv ==
    /\ \A k, l \in links : Key(k) = Key(l) => k = l
    /\ \A r \in Requests : pc[r] \in {"idle", "begin"} \/ InTx(r) => \A l \in links : l.by # r
    /\ \A r \in Requests : dead[r] \subseteq Ids(links)
    /\ \A r, q \in Requests : r # q => dead[r] \cap dead[q] = {}
    /\ \A r \in Requests : \A k, l \in added[r] : Key(k) = Key(l) => k = l
    /\ \A r, q \in Requests : r # q => \A k \in added[r], l \in added[q] : Key(k) # Key(l)
    /\ \A r \in Requests : \A l \in added[r] :
          /\ l.by = r
          /\ \A k \in links : Key(k) = Key(l) => Id(k) \in dead[r]

\* Two edits that update the row of the same user or group.
Rivals(r, q) ==
    /\ r # q /\ IsEdit(r) /\ IsEdit(q)
    /\ op[r].at = op[q].at /\ op[r].columns /\ op[q].columns

\* Request r has seen, and then deleted, whatever links of q stand in the list
\* in which it inserts its own.
Replaces(r, q) ==
    \A k \in links, part \in Parts : (k.by = q /\ InPart(op[r].at, part, k)) =>
       /\ \A l \in added[r] : InPart(op[r].at, part, l) => Id(k) \in dead[r]
       /\ \A i \in DOMAIN todo[r] : InPart(op[r].at, part, todo[r][i]) =>
             (pc[r] = "clear" => Id(k) \in snap[r]) /\ (pc[r] = "insert" => Id(k) \in dead[r])

\* Lists: of two rivals one has its transaction at a time, and replaces what
\* the other has written.
ListsInv ==
    /\ OneListAtATime
    /\ \A r, q \in Requests : Rivals(r, q) => ~(InTx(r) /\ InTx(q)) /\ Replaces(r, q)

\* Edits: every item of the body is inserted, in hand, or in a list to come.
ItemsInv ==
    \A r \in Requests : pc[r] = "begin" \/ InTx(r) =>
       /\ \A i \in DOMAIN parts[r] : \E n \in DOMAIN op[r].lists : parts[r][i] = op[r].lists[n]
       /\ \A n \in DOMAIN op[r].lists : \A m \in DOMAIN op[r].lists[n].items :
             LET it == op[r].lists[n].items[m]
             IN \/ Link(r, it.of, it.to, it.role) \in added[r]
                \/ pc[r] \in {"clear", "insert"} /\ \E i \in DOMAIN todo[r] : todo[r][i] = it
                \/ \E i \in DOMAIN parts[r] : parts[r][i] = op[r].lists[n]

\* Deletes: a user that is about to be deleted was there and has not signed in.
DeletesInv ==
    \A r \in Requests : pc[r] \in {"drop", "cascade"} /\ op[r].kind = "deleteUser" =>
       op[r].at \in given /\ (user[op[r].at] = NULL \/ user[op[r].at].sub = NULL)

\* The whole of it, which every step keeps.
Inv == Shapes /\ Stage /\ Holds /\ RowsInv /\ LinksInv /\ ListsInv /\ ItemsInv /\ DeletesInv

(***************************************************************************)
(* Sequences, requests and the steps they take.                            *)
(***************************************************************************)

\* The first of a sequence and the others.
LEMMA HeadAndTail ==
  ASSUME NEW S, NEW s \in Seq(S), s # <<>>
  PROVE  /\ Head(s) \in S /\ Tail(s) \in Seq(S)
         /\ \A i \in DOMAIN s : s[i] = Head(s) \/ \E j \in DOMAIN Tail(s) : Tail(s)[j] = s[i]
         /\ \A j \in DOMAIN Tail(s) : \E i \in DOMAIN s : s[i] = Tail(s)[j]
         /\ \E i \in DOMAIN s : s[i] = Head(s)
<1>1. Head(s) \in S /\ Tail(s) \in Seq(S) /\ Head(s) = s[1] /\ 1 \in DOMAIN s
  OBVIOUS
<1>2. ASSUME NEW i \in DOMAIN s, i # 1 PROVE i - 1 \in DOMAIN Tail(s) /\ Tail(s)[i - 1] = s[i]
  BY <1>2
<1>3. ASSUME NEW j \in DOMAIN Tail(s) PROVE j + 1 \in DOMAIN s /\ s[j + 1] = Tail(s)[j]
  BY <1>3
<1> QED
  BY <1>1, <1>2, <1>3

\* What a request that has arrived asks for has the form of a body.
LEMMA Asks ==
  ASSUME Shapes, Stage, NEW r \in Requests, pc[r] # "idle"
  PROVE  op[r] \in Ops /\ op[r] # NULL /\ OpType(op[r])
BY AccessAssumption DEF Shapes, Stage

\* Items of the lists of a body.
LEMMA ItemTypes ==
  ASSUME NEW o, OpType(o)
  PROVE  /\ \A n \in DOMAIN o.lists : o.lists[n] \in List /\ o.lists[n].items \in Seq(Item)
         /\ \A n \in DOMAIN o.lists : \A m \in DOMAIN o.lists[n].items : o.lists[n].items[m] \in Item
         /\ o.kind \in {"post", "collection"} => o.lists[1].items \in Seq(Item)
<1>1. o.lists \in Seq(List)
  BY DEF OpType
<1>2. ASSUME NEW n \in DOMAIN o.lists PROVE o.lists[n] \in List /\ o.lists[n].items \in Seq(Item)
  <2>1. o.lists[n] \in List
    BY <1>1
  <2> QED
    BY <2>1 DEF List
<1>3. ASSUME NEW n \in DOMAIN o.lists, NEW m \in DOMAIN o.lists[n].items
      PROVE  o.lists[n].items[m] \in Item
  BY <1>2
<1>4. o.lists # <<>> => 1 \in DOMAIN o.lists
  BY <1>1
<1>5. o.kind \in {"post", "collection"} => o.lists # <<>>
  BY DEF OpType
<1> QED
  BY <1>2, <1>3, <1>4, <1>5

\* Statements of which only the answer matters.
Looks(r) ==
    \/ CollectionNotFound(r) \/ ResolveUserRole(r) \/ CreateCollectionFails(r) \/ GrantsCreated(r)
    \/ Reread(r) \/ LookupGrant(r) \/ CountOwners(r) \/ PartDone(r) \/ ReadUser(r)

\* They move the request on.
LEMMA LookMoves ==
  ASSUME Shapes, Stage, NEW r \in Requests, Looks(r)
  PROVE  /\ UNCHANGED <<linkVars, rowVars, localVars>>
         /\ pc[r] \notin {"idle"} \cup Finished
         /\ \E q \in {"ok", "failed", "grants", "update", "lookup", "count", "remove", "part", "drop"} :
               /\ pc' = [pc EXCEPT ![r] = q]
               /\ q = "grants" => (op[r].kind = "post" /\ pc[r] \in {"role", "reread"})
               /\ q = "update" => op[r].kind = "put"
               /\ q \in {"lookup", "count", "remove"} => op[r].kind = "delete"
               /\ q = "part" => pc[r] = "insert" /\ todo[r] = <<>>
               /\ q = "drop" => /\ pc[r] = "readUser"
                                /\ user[op[r].at] # NULL /\ user[op[r].at].sub = NULL
<1> USE DEF Finished, linkVars, rowLocks, rowVars, localVars
<1>1. CASE CollectionNotFound(r)
  BY <1>1 DEF CollectionNotFound, Goto
<1>2. CASE ResolveUserRole(r)
  BY <1>2 DEF ResolveUserRole, Goto, AfterRole, Stage
<1>3. CASE CreateCollectionFails(r)
  BY <1>3 DEF CreateCollectionFails, Goto
<1>4. CASE GrantsCreated(r)
  BY <1>4 DEF GrantsCreated, Goto
<1>5. CASE Reread(r)
  BY <1>5 DEF Reread, Goto
<1>6. CASE LookupGrant(r)
  BY <1>6 DEF LookupGrant, Goto, Stage
<1>7. CASE CountOwners(r)
  BY <1>7 DEF CountOwners, Goto, Stage
<1>8. CASE PartDone(r)
  BY <1>8 DEF PartDone, Goto
<1>9. CASE ReadUser(r)
  BY <1>9 DEF ReadUser, Goto
<1> QED
  BY <1>1, <1>2, <1>3, <1>4, <1>5, <1>6, <1>7, <1>8, <1>9 DEF Looks

\* A transaction, or the statements of a request, given up.
GivesUp(r) == pc[r] \notin {"idle"} \cup Finished /\ Abort(r)

\* Only statements that delete or insert rows wait in a cycle.
LEMMA WaitersInTx ==
  ASSUME NEW r \in Requests, Deadlock(r)
  PROVE  pc[r] \in {"clear", "insert", "cascade"}
<1>1. WaitsFor(r) # {}
  BY DEF Deadlock, Deadlocked
<1> QED
  BY <1>1 DEF WaitsFor

\* The steps of a request.
LEMMA StepCases ==
  ASSUME NEW r \in Requests, Step(r) \/ Fault(r)
  PROVE  \/ Looks(r) \/ GivesUp(r) \/ Upsert(r) \/ CreateCollection(r) \/ CreateGrant(r)
         \/ UpdateRole(r) \/ RemoveGrant(r) \/ BeginEdit(r) \/ NextPart(r) \/ ClearPart(r)
         \/ InsertItem(r) \/ CommitEdit(r) \/ DropRow(r) \/ CascadeDrop(r)
<1>1. Deadlock(r) => GivesUp(r)
  BY WaitersInTx DEF Deadlock, GivesUp, Finished
<1>2. Fault(r) => GivesUp(r)
  BY DEF Fault, GivesUp
<1>3. InsertFails(r) => GivesUp(r)
  BY DEF InsertFails, GivesUp, Finished
<1> QED
  BY <1>1, <1>2, <1>3 DEF Step, Looks

(***************************************************************************)
(* Types.                                                                  *)
(***************************************************************************)

\* The arrival of a request.
LEMMA ReceiveTypes ==
  ASSUME Shapes, Stage, NEW r \in Requests, NEW o \in Ops, Receive(r, o)
  PROVE  Shapes' /\ Stage'
<1>1. OpType(o) /\ o # NULL
  BY AccessAssumption
<1>2. o.kind = "post" => o.lists[1].items \in Seq(Item)
  BY <1>1, ItemTypes
<1>3. o.lists \in Seq(List)
  BY <1>1 DEF OpType
<1>4. todo' \in [Requests -> Seq(Item)] /\ parts' \in [Requests -> Seq(List)]
  BY <1>2, <1>3 DEF Receive, Shapes
<1>5. target' \in [Requests -> LinkId \cup {NULL}]
  BY DEF Receive, Shapes, Id, LinkRow, LinkId
<1>6. given' \subseteq Users \cup Groups
  BY <1>1 DEF Receive, Shapes, OpType, Edits
<1>7. Shapes'
  BY <1>4, <1>5, <1>6 DEF Receive, Shapes, linkVars, rowLocks
<1>8. o.kind \in Kinds /\ FirstStep(o) \in {"upsert", "begin", "readUser", "drop"}
  BY <1>1 DEF OpType, Kinds, FirstStep, Edits
<1>9. /\ FirstStep(o) = "upsert" => o.kind \in {"login", "collection", "post", "put", "delete"}
      /\ FirstStep(o) = "begin" => o.kind \in Edits
      /\ FirstStep(o) = "readUser" => o.kind = "deleteUser"
      /\ FirstStep(o) = "drop" => o.kind = "deleteGroup"
  BY <1>8, <1>1 DEF OpType, Kinds, FirstStep, Edits
<1>10. /\ pc[r] = "idle" /\ pc' = [pc EXCEPT ![r] = FirstStep(o)]
       /\ op' = [op EXCEPT ![r] = o]
  BY DEF Receive, Goto
<1>11. Stage'
  BY <1>1, <1>8, <1>9, <1>10 DEF Stage, Shapes, Finished
<1> QED
  BY <1>7, <1>11

\* Statements that neither add a link nor take an item.
LEMMA PlainTypes ==
  ASSUME Shapes, Stage, NEW r \in Requests,
         Looks(r) \/ GivesUp(r) \/ BeginEdit(r) \/ DropRow(r) \/ CascadeDrop(r) \/ ClearPart(r)
  PROVE  Shapes' /\ Stage'
<1>1. CASE Looks(r)
  <2>1. Shapes'
    BY <1>1, LookMoves DEF Shapes, linkVars, rowLocks, rowVars, localVars
  <2>2. Stage'
    BY <1>1, LookMoves DEF Stage, Finished, localVars
  <2> QED
    BY <2>1, <2>2
<1>2. CASE GivesUp(r)
  <2>1. Shapes'
    BY <1>2 DEF Shapes, GivesUp, Abort, Rollback, Forget, localVars
  <2>2. Stage'
    BY <1>2 DEF Stage, GivesUp, Abort, Rollback, Forget, localVars, Finished
  <2> QED
    BY <2>1, <2>2
<1>3. CASE BeginEdit(r)
  <2>1. op[r].at \in Users \cup Groups
    BY <1>3, Asks DEF BeginEdit, Goto, Stage, OpType
  <2>2. Shapes'
    BY <1>3, <2>1 DEF Shapes, BeginEdit, LockRows, rowVars, localVars
  <2>3. Stage'
    BY <1>3 DEF Stage, BeginEdit, LockRows, Goto, localVars, Finished
  <2> QED
    BY <2>2, <2>3
<1>4. CASE DropRow(r)
  <2>1. op[r].at \in Users \cup Groups
    BY <1>4, Asks DEF DropRow, Goto, Stage, OpType
  <2>2. Shapes'
    BY <1>4, <2>1 DEF Shapes, DropRow, StartDrop, rowVars, localVars
  <2>3. Stage'
    BY <1>4 DEF Stage, DropRow, StartDrop, Goto, localVars, Finished
  <2> QED
    BY <2>2, <2>3
<1>5. CASE CascadeDrop(r)
  <2>1. Shapes'
    BY <1>5 DEF Shapes, CascadeDrop, Drop, FinishDrop, localVars
  <2>2. Stage'
    BY <1>5 DEF Stage, CascadeDrop, Drop, FinishDrop, Goto, localVars, Finished
  <2> QED
    BY <2>1, <2>2
<1>6. CASE ClearPart(r)
  <2>1. Shapes'
    BY <1>6 DEF Shapes, ClearPart, FinishDelete, rowLocks, rowVars, localVars
  <2>2. Stage'
    BY <1>6 DEF Stage, ClearPart, Goto, localVars, Finished
  <2> QED
    BY <2>1, <2>2
<1> QED
  BY <1>1, <1>2, <1>3, <1>4, <1>5, <1>6

\* Statements that write a user, a grant or a list.
LEMMA WriteTypes ==
  ASSUME Shapes, Stage, NEW r \in Requests,
         \/ Upsert(r) \/ CreateCollection(r) \/ CreateGrant(r) \/ UpdateRole(r) \/ RemoveGrant(r)
         \/ NextPart(r) \/ InsertItem(r) \/ CommitEdit(r)
  PROVE  Shapes' /\ Stage'
<1>1. CASE Upsert(r)
  <2>1. op[r].who \in People
    BY <1>1, Asks DEF Upsert, Goto, Stage, OpType
  <2>2. Shapes'
    BY <1>1, <2>1 DEF Shapes, Upsert, UserRow, linkVars, rowLocks
  <2>3. Stage'
    BY <1>1 DEF Stage, Upsert, AfterUpsert, Goto, Finished
  <2> QED
    BY <2>2, <2>3
<1>2. CASE CreateCollection(r)
  <2> DEFINE items == op[r].lists[1].items
  <2>1. op[r].at \in Colls /\ items \in Seq(Item)
    BY <1>2, Asks, ItemTypes DEF CreateCollection, Goto, Stage, OpType
  <2>2. \A i \in DOMAIN items : Link(r, op[r].at, items[i].to, items[i].role) \in LinkRow
    <3>1. \A i \in DOMAIN items : items[i] \in Item
      BY <2>1
    <3> HIDE DEF items
    <3> QED
      BY <2>1, <3>1 DEF Item, Link, LinkRow
  <2>3. links' \subseteq LinkRow
    BY <1>2, <2>2 DEF CreateCollection, Write, Shapes
  <2>4. Shapes'
    BY <1>2, <2>1, <2>3 DEF Shapes, CreateCollection, Write, rowLocks, localVars
  <2>5. Stage'
    BY <1>2 DEF Stage, CreateCollection, Goto, localVars, Finished
  <2> QED
    BY <2>4, <2>5
<1>3. CASE CreateGrant(r)
  <2>1. op[r].at \in Colls /\ todo[r] \in Seq(Item) /\ todo[r] # <<>>
    BY <1>3, Asks DEF CreateGrant, Shapes, Stage, OpType
  <2>2. Head(todo[r]) \in Item /\ Tail(todo[r]) \in Seq(Item)
    BY <2>1, HeadAndTail
  <2>3. Link(r, op[r].at, Head(todo[r]).to, Head(todo[r]).role) \in LinkRow
    BY <2>1, <2>2 DEF Item, Link, LinkRow
  <2>4. <<r, op[r].at, Head(todo[r]).to>> \in LinkId
    BY <2>1, <2>2 DEF Item, LinkId
  <2>5. Shapes'
    BY <1>3, <2>2, <2>3, <2>4, ZenonT(30) DEF Shapes, CreateGrant, Write, rowLocks, linkVars, rowVars
  <2>6. Stage'
    BY <1>3 DEF Stage, CreateGrant, Goto, Finished
  <2> QED
    BY <2>5, <2>6
<1>4. CASE UpdateRole(r)
  <2>1. op[r].role \in 0..Owner
    BY <1>4, Asks DEF UpdateRole, Goto, Stage, OpType
  <2>2. \A l \in TargetRow(r) : [l EXCEPT !.role = op[r].role] \in LinkRow
    BY <2>1, ZenonT(30) DEF TargetRow, LinkRow, Shapes
  <2>3. links' \subseteq LinkRow
    BY <1>4, <2>2 DEF UpdateRole, Write, Shapes
  <2>4. Shapes'
    BY <1>4, <2>3 DEF Shapes, UpdateRole, Write, rowLocks, rowVars, localVars
  <2>5. Stage'
    BY <1>4 DEF Stage, UpdateRole, Goto, localVars, Finished
  <2> QED
    BY <2>4, <2>5
<1>5. CASE RemoveGrant(r)
  <2>1. Shapes'
    BY <1>5 DEF Shapes, RemoveGrant, Write, rowLocks, rowVars, localVars
  <2>2. Stage'
    BY <1>5 DEF Stage, RemoveGrant, Goto, localVars, Finished
  <2> QED
    BY <2>1, <2>2
<1>6. CASE NextPart(r)
  <2>1. parts[r] \in Seq(List) /\ parts[r] # <<>>
    BY <1>6 DEF NextPart, Shapes
  <2>2. Head(parts[r]).items \in Seq(Item) /\ Tail(parts[r]) \in Seq(List)
    <3>1. Head(parts[r]) \in List /\ Tail(parts[r]) \in Seq(List)
      BY <2>1, HeadAndTail
    <3> QED
      BY <3>1 DEF List
  <2>3. Ids(Part(op[r].at, Head(parts[r]).part)) \subseteq LinkId
    BY DEF Ids, Id, Part, Shapes, LinkRow, LinkId
  <2>4. Shapes'
    BY <1>6, <2>2, <2>3 DEF Shapes, NextPart, StartDelete, rowLocks, rowVars
  <2>5. Stage'
    BY <1>6 DEF Stage, NextPart, Goto, Finished
  <2> QED
    BY <2>4, <2>5
<1>7. CASE InsertItem(r)
  <2>1. Head(todo[r]) \in Item /\ Tail(todo[r]) \in Seq(Item)
    BY <1>7, HeadAndTail DEF InsertItem, Shapes
  <2>2. Link(r, Head(todo[r]).of, Head(todo[r]).to, Head(todo[r]).role) \in LinkRow
    BY <2>1 DEF Item, Link, LinkRow
  <2>3. Shapes'
    BY <1>7, <2>1, <2>2 DEF Shapes, InsertItem, InsertLink, rowLocks, rowVars
  <2>4. Stage'
    BY <1>7 DEF Stage, InsertItem
  <2> QED
    BY <2>3, <2>4
<1>8. CASE CommitEdit(r)
  <2>1. op[r].kind = "create" /\ op[r].at \in Users => op[r].who \in People
    BY <1>8, Asks DEF CommitEdit, Goto, Stage, OpType
  <2>2. user' \in [Users -> UserRow \cup {NULL}]
    BY <1>8, <2>1 DEF CommitEdit, Shapes, UserRow
  <2>3. Shapes'
    BY <1>8, <2>2 DEF Shapes, CommitEdit, CommitLinks, Forget, localVars
  <2>4. Stage'
    BY <1>8 DEF Stage, CommitEdit, Goto, localVars, Finished
  <2> QED
    BY <2>3, <2>4
<1> QED
  BY <1>1, <1>2, <1>3, <1>4, <1>5, <1>6, <1>7, <1>8

(***************************************************************************)
(* What requests hold.                                                     *)
(***************************************************************************)

\* A request holds what its step says it holds.
LEMMA StepHolds ==
  ASSUME Shapes, Stage, Holds, NEW r \in Requests, Step(r) \/ Fault(r)
  PROVE  Holds'
<1> USE DEF Holds, InTx, Stage, Shapes, Goto, Finished, linkVars, rowLocks, rowVars, localVars
<1>1. CASE Looks(r)
  <2>1. UNCHANGED <<linkVars, rowVars, localVars>>
    BY <1>1, LookMoves
  <2>2. PICK q \in {"ok", "failed", "grants", "update", "lookup", "count", "remove", "part", "drop"} :
           /\ pc' = [pc EXCEPT ![r] = q]
           /\ q = "part" => pc[r] = "insert"
    BY <1>1, LookMoves, SMTT(30)
  <2>3. pc[r] = "insert" \/ pc[r] = "cascade" => q = "part"
    BY <1>1, <2>2 DEF Looks, CollectionNotFound, ResolveUserRole, CreateCollectionFails,
          GrantsCreated, Reread, LookupGrant, CountOwners, PartDone, ReadUser
  <2>4. pc[r] \notin {"part", "clear", "cascade"}
    BY <1>1 DEF Looks, CollectionNotFound, ResolveUserRole, CreateCollectionFails,
          GrantsCreated, Reread, LookupGrant, CountOwners, PartDone, ReadUser
  <2> QED
    BY <2>1, <2>2, <2>3, <2>4
<1>2. CASE GivesUp(r)
  BY <1>2 DEF GivesUp, Abort, Rollback, Forget
<1>3. CASE Upsert(r)
  BY <1>3 DEF Upsert, AfterUpsert
<1>4. CASE CreateCollection(r) \/ UpdateRole(r) \/ RemoveGrant(r) \/ CreateGrant(r)
  <2>1. /\ UNCHANGED <<dead, added, snap, rowLocks, op>>
        /\ pc[r] \in {"collection", "update", "remove", "grants"}
        /\ \E q \in {"ok", "failed", "reread"} : pc' = [pc EXCEPT ![r] = q]
    BY <1>4 DEF CreateCollection, UpdateRole, RemoveGrant, CreateGrant, Write
  <2> QED
    BY <2>1
<1>5. CASE BeginEdit(r)
  <2>1. op[r].kind \in Edits
    BY <1>5 DEF BeginEdit
  <2> QED
    BY <1>5, <2>1 DEF BeginEdit, LockRows, Edits
<1>6. CASE NextPart(r)
  BY <1>6 DEF NextPart, StartDelete
<1>7. CASE ClearPart(r)
  BY <1>7 DEF ClearPart, FinishDelete
<1>8. CASE InsertItem(r)
  BY <1>8 DEF InsertItem, InsertLink
<1>9. CASE CommitEdit(r)
  BY <1>9, SMTT(30), ZenonT(30) DEF CommitEdit, CommitLinks, Forget
<1>10. CASE DropRow(r)
  BY <1>10 DEF DropRow, StartDrop
<1>11. CASE CascadeDrop(r)
  BY <1>11 DEF CascadeDrop, Drop, FinishDrop
<1> QED
  BY StepCases, <1>1, <1>2, <1>3, <1>4, <1>5, <1>6, <1>7, <1>8, <1>9, <1>10, <1>11

(***************************************************************************)
(* Rows.                                                                   *)
(***************************************************************************)

\* Rows are kept by whatever only adds rows, none of them one that a request
\* is creating, opens no transaction, and adds neither locks nor links to one.
LEMMA RowsGrow ==
  ASSUME Shapes, Stage, RowsInv, NEW r \in Requests, NothingDangles',
         given \subseteq given', colls \subseteq colls', groups' \subseteq given',
         \A u \in Users : user'[u] # NULL => u \in given',
         \A e : Exists(e) => Exists(e)',
         \A q \in Requests : Creates(q) /\ Exists(op[q].at)' => Exists(op[q].at),
         op' = op, \A q \in Requests : added'[q] \subseteq added[q],
         \A q \in Requests : locked'[q] \subseteq locked[q] /\ dropping'[q] \subseteq dropping[q],
         NEW there, pc' = [pc EXCEPT ![r] = there], there # "begin",
         there \in {"part", "clear", "insert"} => InTx(r),
         there \in {"role", "grants", "reread"} /\ op[r].kind = "post" => op[r].at \in colls'
  PROVE  RowsInv'
<1>1. \A q \in Requests : \A l \in added'[q] : \A e \in {l.of, l.to} :
         /\ Exists(e)' \/ (Creates(q)' /\ e = op'[q].at)
         /\ \A p \in Requests : e \notin dropping'[p]
  BY DEF RowsInv, Creates
<1>2. \A q \in Requests : \A e \in locked'[q] : Exists(e)' /\ \A p \in Requests : e \notin dropping'[p]
  BY DEF RowsInv
<1>3. \A q \in Requests : Creates(q)' =>
         /\ op'[q].at \in given'
         /\ (pc'[q] = "begin" \/ InTx(q)') => ~Exists(op[q].at)'
         /\ \A p \in Requests \ {q} : Creates(p)' => op'[p].at # op'[q].at
  BY DEF RowsInv, Creates, InTx, Stage
<1>4. \A q \in Requests : pc'[q] \in {"role", "grants", "reread"} /\ op'[q].kind = "post" => op'[q].at \in colls'
  BY DEF RowsInv, Stage
<1> QED
  BY <1>1, <1>2, <1>3, <1>4 DEF RowsInv

\* In particular, by whatever leaves the tables of rows alone and adds no link.
LEMMA RowsFrame ==
  ASSUME Shapes, Stage, RowsInv, NEW r \in Requests,
         UNCHANGED <<user, groups, colls, given, op>>,
         links' \subseteq links, \A q \in Requests : added'[q] \subseteq added[q],
         \A q \in Requests : locked'[q] \subseteq locked[q] /\ dropping'[q] \subseteq dropping[q],
         NEW there, pc' = [pc EXCEPT ![r] = there], there \notin {"begin", "role"},
         there \in {"part", "clear", "insert"} => InTx(r),
         there \in {"grants", "reread"} /\ op[r].kind = "post" => op[r].at \in colls
  PROVE  RowsInv'
<1>1. \A e : Exists(e) <=> Exists(e)'
  BY DEF Exists
<1>2. NothingDangles'
  BY <1>1 DEF RowsInv, NothingDangles
<1>3. groups' \subseteq given' /\ \A u \in Users : user'[u] # NULL => u \in given'
  BY DEF RowsInv
<1> QED
  BY <1>1, <1>2, <1>3, RowsGrow

\* Statements that leave the tables of rows alone.
LEMMA QuietRows ==
  ASSUME Shapes, Stage, Holds, RowsInv, NEW r \in Requests,
         \/ Looks(r) \/ GivesUp(r) \/ UpdateRole(r) \/ RemoveGrant(r) \/ NextPart(r) \/ ClearPart(r)
  PROVE  RowsInv'
<1> USE DEF Goto, linkVars, rowLocks, rowVars, localVars
<1>1. CASE Looks(r)
  <2>1. PICK q \in {"ok", "failed", "grants", "update", "lookup", "count", "remove", "part", "drop"} :
           /\ pc' = [pc EXCEPT ![r] = q]
           /\ q = "grants" => (op[r].kind = "post" /\ pc[r] \in {"role", "reread"})
           /\ q = "part" => pc[r] = "insert"
    BY <1>1, LookMoves
  <2>2. UNCHANGED <<linkVars, rowVars, localVars>>
    BY <1>1, LookMoves
  <2>3. q = "grants" => op[r].at \in colls
    BY <2>1 DEF RowsInv
  <2> QED
    BY <2>1, <2>2, <2>3, RowsFrame DEF InTx
<1>2. CASE GivesUp(r)
  <2>1. /\ UNCHANGED <<user, groups, colls, given, op>> /\ links' \subseteq links
        /\ \A q \in Requests : added'[q] \subseteq added[q]
        /\ \A q \in Requests : locked'[q] \subseteq locked[q] /\ dropping'[q] \subseteq dropping[q]
    BY <1>2 DEF GivesUp, Abort, Rollback, Forget, Shapes
  <2>2. pc' = [pc EXCEPT ![r] = "failed"]
    BY <1>2 DEF GivesUp, Abort, Rollback, Forget, InTx
  <2> QED
    BY <2>1, <2>2, RowsFrame
<1>3. CASE UpdateRole(r)
  <2>1. \A l \in links' : \E k \in links : l.of = k.of /\ l.to = k.to
    BY <1>3 DEF UpdateRole, Write, TargetRow, LinkRow, Shapes
  <2>2. UNCHANGED <<dead, added, snap, rowLocks, rowVars, localVars>>
    BY <1>3 DEF UpdateRole, Write
  <2>3. \A e : Exists(e) <=> Exists(e)'
    BY <2>2 DEF Exists
  <2>4. NothingDangles'
    BY <2>1, <2>3 DEF NothingDangles, RowsInv
  <2>5. op[r].kind = "put" /\ pc[r] = "update" /\ \E q \in {"failed", "reread"} : pc' = [pc EXCEPT ![r] = q]
    BY <1>3 DEF UpdateRole, Stage
  <2>6. groups' \subseteq given' /\ \A u \in Users : user'[u] # NULL => u \in given'
    BY <2>2 DEF RowsInv
  <2> QED
    BY <2>2, <2>3, <2>4, <2>5, <2>6, RowsGrow
<1>4. CASE RemoveGrant(r)
  <2>1. /\ UNCHANGED <<user, groups, colls, given, op>> /\ links' \subseteq links
        /\ \A q \in Requests : added'[q] \subseteq added[q]
        /\ \A q \in Requests : locked'[q] \subseteq locked[q] /\ dropping'[q] \subseteq dropping[q]
    BY <1>4 DEF RemoveGrant, Write
  <2>2. pc' = [pc EXCEPT ![r] = "ok"]
    BY <1>4 DEF RemoveGrant, Write, InTx
  <2> QED
    BY <2>1, <2>2, RowsFrame
<1>5. CASE NextPart(r)
  <2>1. /\ UNCHANGED <<user, groups, colls, given, op>> /\ links' \subseteq links
        /\ \A q \in Requests : added'[q] \subseteq added[q]
        /\ \A q \in Requests : locked'[q] \subseteq locked[q] /\ dropping'[q] \subseteq dropping[q]
    BY <1>5 DEF NextPart, StartDelete
  <2>2. pc' = [pc EXCEPT ![r] = "clear"] /\ InTx(r)
    BY <1>5 DEF NextPart, StartDelete, InTx
  <2> QED
    BY <2>1, <2>2, RowsFrame
<1>6. CASE ClearPart(r)
  <2>1. /\ UNCHANGED <<user, groups, colls, given, op>> /\ links' \subseteq links
        /\ \A q \in Requests : added'[q] \subseteq added[q]
        /\ \A q \in Requests : locked'[q] \subseteq locked[q] /\ dropping'[q] \subseteq dropping[q]
    BY <1>6 DEF ClearPart, FinishDelete
  <2>2. pc' = [pc EXCEPT ![r] = "insert"] /\ InTx(r)
    BY <1>6 DEF ClearPart, FinishDelete, InTx
  <2> QED
    BY <2>1, <2>2, RowsFrame
<1> QED
  BY <1>1, <1>2, <1>3, <1>4, <1>5, <1>6

\* Statements that add a user, a collection or a grant.
LEMMA GrowingRows ==
  ASSUME Shapes, Stage, Holds, RowsInv, NEW r \in Requests,
         Upsert(r) \/ CreateCollection(r) \/ CreateGrant(r)
  PROVE  RowsInv'
<1> USE DEF Goto, linkVars, rowLocks, rowVars, localVars
<1>1. CASE Upsert(r)
  <2>1. PICK u \in Users :
           /\ u \notin given \/ u \in OwnRow(op[r].who)
           /\ user' = [user EXCEPT ![u] = [sub |-> op[r].who, name |-> op[r].who]]
           /\ given' = given \cup {u}
    BY <1>1 DEF Upsert
  <2>2. /\ UNCHANGED <<links, added, locked, dropping, groups, colls, op>>
        /\ pc' = [pc EXCEPT ![r] = AfterUpsert(op[r])]
        /\ AfterUpsert(op[r]) \in {"ok", "collection", "role"}
        /\ op[r].kind = "post" => op[r].at \in colls
    BY <1>1 DEF Upsert, AfterUpsert
  <2>3. op[r].who \in People /\ [sub |-> op[r].who, name |-> op[r].who] # NULL
    <3>1. op[r].who \in People
      BY <1>1, Asks DEF Upsert, Stage, OpType
    <3> QED
      BY <3>1, AccessAssumption DEF UserRow
  <2>4. \A v \in Users : user[v] # NULL => user'[v] # NULL
    BY <2>1, <2>3 DEF Shapes
  <2>5. \A e : Exists(e) => Exists(e)'
    BY <2>2, <2>4 DEF Exists
  <2>6. \A v \in Users : user'[v] # NULL => v \in given'
    BY <2>1 DEF Shapes, RowsInv
  <2>7. ASSUME NEW q \in Requests, Creates(q), Exists(op[q].at)' PROVE Exists(op[q].at)
    <3>1. op[q].at \in given
      BY <2>7 DEF RowsInv
    <3>2. CASE op[q].at = u
      BY <2>1, <3>1, <3>2 DEF OwnRow, Exists
    <3>3. CASE op[q].at # u
      BY <2>1, <2>2, <2>7, <3>3 DEF Exists, Shapes
    <3> QED
      BY <3>2, <3>3
  <2>8. NothingDangles' /\ groups' \subseteq given'
    BY <2>1, <2>2, <2>5 DEF NothingDangles, RowsInv
  <2> QED
    BY <2>1, <2>2, <2>5, <2>6, <2>7, <2>8, RowsGrow
<1>2. CASE CreateCollection(r)
  <2> DEFINE c == op[r].at
             items == op[r].lists[1].items
  <2>1. /\ UNCHANGED <<user, groups, given, added, locked, dropping, op>>
        /\ colls' = colls \cup {c}
        /\ pc' = [pc EXCEPT ![r] = "ok"]
    BY <1>2 DEF CreateCollection, Write
  <2>2. \A e : Exists(e) => Exists(e)'
    BY <2>1 DEF Exists
  <2>3. \A e : e = c => Exists(e)'
    BY <2>1 DEF Exists
  <2>4. \A l \in links' : l \in links \/ \E i \in DOMAIN items : l.of = c /\ l.to = items[i].to
    <3>1. \A l \in links' : l \in links \/ \E i \in DOMAIN items : l = Link(r, c, items[i].to, items[i].role)
      BY <1>2, Zenon DEF CreateCollection, Write
    <3> HIDE DEF c, items
    <3> QED
      BY <3>1 DEF Link
  <2>5. \A i \in DOMAIN items : Exists(items[i].to)
    BY <1>2 DEF CreateCollection
  <2>6. NothingDangles'
    <3> HIDE DEF c, items
    <3> QED
      BY <2>2, <2>3, <2>4, <2>5 DEF NothingDangles, RowsInv
  <2>7. ASSUME NEW q \in Requests, Creates(q), Exists(op[q].at)' PROVE Exists(op[q].at)
    <3>1. op[q].at \in Users \cup Groups
      BY <2>7, Asks DEF Creates, Stage, OpType, Edits
    <3>2. c \in Colls
      BY <1>2, Asks DEF CreateCollection, Stage, OpType
    <3> QED
      BY <2>1, <2>7, <3>1, <3>2, AccessAssumption DEF Exists
  <2>8. groups' \subseteq given' /\ \A u \in Users : user'[u] # NULL => u \in given'
    BY <2>1 DEF RowsInv
  <2> QED
    BY <2>1, <2>2, <2>6, <2>7, <2>8, RowsGrow
<1>3. CASE CreateGrant(r)
  <2>1. /\ UNCHANGED <<user, groups, colls, given, added, locked, dropping, op>>
        /\ pc[r] = "grants"
    BY <1>3 DEF CreateGrant, Write
  <2>2. PICK q \in {"failed", "reread"} : pc' = [pc EXCEPT ![r] = q]
    BY <1>3 DEF CreateGrant
  <2>3. op[r].at \in colls
    BY <2>1 DEF RowsInv, Stage
  <2>4. \A e : Exists(e) <=> Exists(e)'
    BY <2>1 DEF Exists
  <2>5. \A l \in links' : l \in links \/ (l.of = op[r].at /\ Exists(l.to))
    BY <1>3 DEF CreateGrant, Write, Link
  <2>6. NothingDangles'
    BY <2>3, <2>4, <2>5 DEF NothingDangles, RowsInv, Exists
  <2>7. groups' \subseteq given' /\ \A u \in Users : user'[u] # NULL => u \in given'
    BY <2>1 DEF RowsInv
  <2> QED
    BY <2>1, <2>2, <2>3, <2>4, <2>6, <2>7, RowsGrow
<1> QED
  BY <1>1, <1>2, <1>3

\* An edit locks a row, or the INSERT of a link finds the rows it refers to.
LEMMA EditingRows ==
  ASSUME Shapes, Stage, Holds, RowsInv, NEW r \in Requests, BeginEdit(r) \/ InsertItem(r)
  PROVE  RowsInv'
<1> USE DEF Goto, linkVars, rowLocks, rowVars, localVars
<1>1. UNCHANGED <<links, dropping, user, groups, colls, given, op>>
  BY DEF BeginEdit, LockRows, InsertItem, InsertLink
<1>2. \A e : Exists(e) <=> Exists(e)'
  BY <1>1 DEF Exists
<1>3. NothingDangles' /\ groups' \subseteq given' /\ \A u \in Users : user'[u] # NULL => u \in given'
  BY <1>1, <1>2 DEF NothingDangles, RowsInv
<1>4. \A q \in Requests : (pc'[q] = "begin" => pc[q] = "begin") /\ (InTx(q)' => pc[q] = "begin" \/ InTx(q))
  BY DEF BeginEdit, InsertItem, InTx, Stage
<1>5. \A q \in Requests : Creates(q)' =>
         /\ op'[q].at \in given'
         /\ (pc'[q] = "begin" \/ InTx(q)') => ~Exists(op[q].at)'
         /\ \A p \in Requests \ {q} : Creates(p)' => op'[p].at # op'[q].at
  BY <1>1, <1>2, <1>4 DEF RowsInv, Creates
<1>6. \A q \in Requests : pc'[q] \in {"role", "grants", "reread"} => pc'[q] = pc[q]
  BY DEF BeginEdit, InsertItem, Stage
<1>7. \A q \in Requests : pc'[q] \in {"role", "grants", "reread"} /\ op'[q].kind = "post" => op'[q].at \in colls'
  BY <1>1, <1>6 DEF RowsInv
<1>8. dropping[r] = {}
  BY DEF Holds, BeginEdit, InsertItem
<1>9. CASE BeginEdit(r)
  <2>1. added' = added /\ \A q \in Requests \ {r} : locked'[q] = locked[q]
    BY <1>9 DEF BeginEdit, LockRows, Shapes
  <2>2. \A e \in locked'[r] : Exists(e) /\ \A p \in Requests : e \notin dropping[p]
    BY <1>8, <1>9 DEF BeginEdit, LockRows, Shapes, Updating, Others
  <2>3. \A q \in Requests : \A l \in added'[q] : \A e \in {l.of, l.to} :
           /\ Exists(e)' \/ (Creates(q)' /\ e = op'[q].at)
           /\ \A p \in Requests : e \notin dropping'[p]
    BY <1>1, <1>2, <2>1 DEF RowsInv, Creates
  <2>4. \A q \in Requests : \A e \in locked'[q] : Exists(e)' /\ \A p \in Requests : e \notin dropping'[p]
    BY <1>1, <1>2, <2>1, <2>2 DEF RowsInv
  <2> QED
    BY <1>3, <1>5, <1>7, <2>3, <2>4 DEF RowsInv
<1>10. CASE InsertItem(r)
  <2> DEFINE i == Head(todo[r])
             new == Link(r, i.of, i.to, i.role)
  <2>1. /\ locked' = locked /\ \A q \in Requests \ {r} : added'[q] = added[q]
        /\ added'[r] = added[r] \cup {new}
    BY <1>10 DEF InsertItem, InsertLink, Shapes
  <2>2. new.of = i.of /\ new.to = i.to
    BY DEF Link
  <2>3. \A e \in {i.of, i.to} : \A p \in Requests : e \notin dropping[p]
    BY <1>8, <1>10 DEF InsertItem, InsertWaits, Deleting, Others, Key
  <2>4. ~Refused(r, i) /\ op[r].kind \in Edits /\ op[r] # NULL
    BY <1>10, Asks DEF InsertItem, Stage
  <2>5. \A e \in {i.of, i.to} : Exists(e) \/ (Creates(r) /\ e = op[r].at)
    BY <2>4 DEF Refused, Creates, Edits
  <2>6. \A q \in Requests : \A l \in added'[q] : \A e \in {l.of, l.to} :
           /\ Exists(e)' \/ (Creates(q)' /\ e = op'[q].at)
           /\ \A p \in Requests : e \notin dropping'[p]
    <3> HIDE DEF i, new
    <3> QED
      BY <1>1, <1>2, <2>1, <2>2, <2>3, <2>5 DEF RowsInv, Creates
  <2>7. \A q \in Requests : \A e \in locked'[q] : Exists(e)' /\ \A p \in Requests : e \notin dropping'[p]
    BY <1>1, <1>2, <2>1 DEF RowsInv
  <2> QED
    BY <1>3, <1>5, <1>7, <2>6, <2>7 DEF RowsInv
<1> QED
  BY <1>9, <1>10

\* An edit commits: the row it has created is there, and so are its links.
LEMMA CommitRows ==
  ASSUME Shapes, Stage, Holds, RowsInv, NEW r \in Requests, CommitEdit(r)
  PROVE  RowsInv'
<1> USE DEF Goto, rowVars, localVars
<1> DEFINE o == op[r]
<1>1. /\ UNCHANGED <<colls, given, op>> /\ pc' = [pc EXCEPT ![r] = "reread"] /\ pc[r] = "part"
      /\ CommitLinks(r)
  BY DEF CommitEdit
<1>2. o.kind \in Edits /\ o # NULL /\ o.at \in Users \cup Groups
      /\ (o.kind = "create" /\ o.at \in Users => o.who \in People)
  BY <1>1, Asks DEF Stage, OpType
<1>3. [sub |-> NULL, name |-> o.who] # NULL \/ ~(o.kind = "create" /\ o.at \in Users)
  BY <1>2, AccessAssumption DEF UserRow
<1>4. \A u \in Users : /\ user[u] # NULL => user'[u] # NULL
                       /\ user'[u] # NULL => user[u] # NULL \/ (Creates(r) /\ u = o.at)
  BY <1>2, <1>3 DEF CommitEdit, Shapes, Creates
<1>5. groups \subseteq groups' /\ \A g \in groups' : g \in groups \/ (Creates(r) /\ g = o.at)
  BY <1>2 DEF CommitEdit, Creates
<1>6. Creates(r) => Exists(o.at)'
  BY <1>2, <1>3 DEF CommitEdit, Exists, Creates, Shapes
<1>7. \A e : /\ Exists(e) => Exists(e)'
             /\ Exists(e)' => Exists(e) \/ (Creates(r) /\ e = o.at)
  <2>1. ASSUME NEW e, Exists(e) PROVE Exists(e)'
    BY <1>1, <1>4, <1>5, <2>1 DEF Exists
  <2>2. ASSUME NEW e, Exists(e)' PROVE Exists(e) \/ (Creates(r) /\ e = o.at)
    BY <1>1, <1>4, <1>5, <2>2 DEF Exists
  <2> QED
    BY <2>1, <2>2
<1>8. \A q \in Requests : added'[q] = (IF q = r THEN {} ELSE added[q])
                       /\ locked'[q] = (IF q = r THEN {} ELSE locked[q])
                       /\ dropping'[q] = (IF q = r THEN {} ELSE dropping[q])
  BY <1>1 DEF CommitLinks, Forget, Shapes
<1>9. links' \subseteq links \cup added[r]
  BY <1>1 DEF CommitLinks
<1>10. NothingDangles'
  <2>1. \A l \in links' : \A e \in {l.of, l.to} : Exists(e) \/ (Creates(r) /\ e = o.at)
    BY <1>9 DEF NothingDangles, RowsInv
  <2> QED
    BY <1>1, <2>1, <1>6, <1>7 DEF NothingDangles
<1>11. groups' \subseteq given' /\ \A u \in Users : user'[u] # NULL => u \in given'
  BY <1>1, <1>4, <1>5 DEF RowsInv
<1>12. \A q \in Requests : Creates(q) /\ Exists(op[q].at)' => Exists(op[q].at) \/ q = r
  BY <1>1, <1>7 DEF RowsInv
<1>13. \A q \in Requests : Creates(q)' =>
         /\ op'[q].at \in given'
         /\ (pc'[q] = "begin" \/ InTx(q)') => ~Exists(op[q].at)'
         /\ \A p \in Requests \ {q} : Creates(p)' => op'[p].at # op'[q].at
  <2>1. \A q \in Requests : pc'[q] = "begin" \/ InTx(q)' => q # r /\ (pc[q] = "begin" \/ InTx(q))
    BY <1>1 DEF InTx, Stage
  <2>2. \A q \in Requests : Creates(q)' <=> Creates(q)
    BY <1>1 DEF Creates
  <2> QED
    BY <1>1, <1>12, <2>1, <2>2 DEF RowsInv
<1>14. \A q \in Requests : \A l \in added'[q] : \A e \in {l.of, l.to} :
         /\ Exists(e)' \/ (Creates(q)' /\ e = op'[q].at)
         /\ \A p \in Requests : e \notin dropping'[p]
  <2>1. \A q \in Requests : added'[q] \subseteq added[q] /\ dropping'[q] \subseteq dropping[q]
    BY <1>8
  <2>2. \A q \in Requests : Creates(q)' <=> Creates(q)
    BY <1>1 DEF Creates
  <2> QED
    BY <1>1, <1>7, <2>1, <2>2 DEF RowsInv
<1>15. \A q \in Requests : \A e \in locked'[q] : Exists(e)' /\ \A p \in Requests : e \notin dropping'[p]
  BY <1>7, <1>8 DEF RowsInv
<1>16. \A q \in Requests : pc'[q] \in {"role", "grants", "reread"} /\ op'[q].kind = "post" => op'[q].at \in colls'
  BY <1>1, <1>2 DEF RowsInv, Stage, Edits
<1> QED
  BY <1>10, <1>11, <1>13, <1>14, <1>15, <1>16 DEF RowsInv

\* A row is deleted: nobody holds it when the DELETE starts, nobody takes it
\* while that waits, and its links go with it.
LEMMA DroppingRows ==
  ASSUME Shapes, Stage, Holds, RowsInv, NEW r \in Requests, DropRow(r) \/ CascadeDrop(r)
  PROVE  RowsInv'
<1> USE DEF Goto, rowVars, localVars
<1> DEFINE d == op[r].at
<1>1. d \in Users \cup Groups
  BY Asks DEF DropRow, CascadeDrop, Drop, Stage, OpType
<1>2. UNCHANGED <<added, locked, colls, given, op>>
  BY DEF DropRow, StartDrop, CascadeDrop, Drop, FinishDrop
<1>3. PICK there \in {"ok", "failed", "cascade"} : pc' = [pc EXCEPT ![r] = there]
  BY DEF DropRow, CascadeDrop, Drop
<1>4. added[r] = {} /\ locked[r] = {}
  BY DEF DropRow, CascadeDrop, Drop, Holds, InTx
<1>5. groups' \subseteq groups /\ \A u \in Users : user'[u] # NULL => user[u] # NULL
  BY DEF DropRow, CascadeDrop, Drop
<1>6. \A e : Exists(e)' => Exists(e)
  BY <1>2, <1>5 DEF Exists
<1>7. \A q \in Requests : Creates(q)' =>
         /\ op'[q].at \in given'
         /\ (pc'[q] = "begin" \/ InTx(q)') => ~Exists(op[q].at)'
         /\ \A p \in Requests \ {q} : Creates(p)' => op'[p].at # op'[q].at
  <2>1. \A q \in Requests : pc'[q] = "begin" \/ InTx(q)' => pc[q] = "begin" \/ InTx(q)
    BY <1>3 DEF InTx, Stage
  <2>2. \A q \in Requests : Creates(q)' <=> Creates(q)
    BY <1>2 DEF Creates
  <2> QED
    BY <1>2, <1>6, <2>1, <2>2 DEF RowsInv
<1>8. \A q \in Requests : pc'[q] \in {"role", "grants", "reread"} /\ op'[q].kind = "post" => op'[q].at \in colls'
  BY <1>2, <1>3 DEF RowsInv, Stage
<1>9. groups' \subseteq given' /\ \A u \in Users : user'[u] # NULL => u \in given'
  BY <1>2, <1>5 DEF RowsInv
<1>10. CASE DropRow(r)
  <2>1. UNCHANGED <<links, user, groups>> /\ \A q \in Requests : dropping'[q] \subseteq dropping[q] \cup {d}
    BY <1>10 DEF DropRow, StartDrop, Shapes
  <2>2. \A q \in Requests : d \notin locked[q] /\ \A l \in added[q] : d \notin {l.of, l.to}
    BY <1>4, <1>10 DEF DropRow, DropWaits, Updating, HasInserted, Others
  <2>3. \A e : Exists(e) <=> Exists(e)'
    BY <1>2, <2>1 DEF Exists
  <2>4. NothingDangles'
    BY <2>1, <2>3 DEF NothingDangles, RowsInv
  <2>5. \A q \in Requests : \A l \in added'[q] : \A e \in {l.of, l.to} :
           /\ Exists(e)' \/ (Creates(q)' /\ e = op'[q].at)
           /\ \A p \in Requests : e \notin dropping'[p]
    BY <1>2, <2>1, <2>2, <2>3 DEF RowsInv, Creates
  <2>6. \A q \in Requests : \A e \in locked'[q] : Exists(e)' /\ \A p \in Requests : e \notin dropping'[p]
    BY <1>2, <2>1, <2>2, <2>3 DEF RowsInv
  <2> QED
    BY <1>7, <1>8, <1>9, <2>4, <2>5, <2>6 DEF RowsInv
<1>11. CASE CascadeDrop(r)
  <2>1. /\ links' = links \ LinksTo(d)
        /\ user' = [u \in Users |-> IF u = d THEN NULL ELSE user[u]]
        /\ groups' = groups \ {d}
        /\ \A q \in Requests : dropping'[q] \subseteq dropping[q]
    BY <1>11 DEF CascadeDrop, Drop, FinishDrop, Shapes
  <2>2. d \in dropping[r]
    BY <1>11 DEF CascadeDrop, Drop, Holds
  <2>3. ASSUME NEW e, e # d, Exists(e) PROVE Exists(e)'
    BY <1>2, <2>1, <2>3 DEF Exists
  <2>4. NothingDangles'
    <3>1. \A l \in links' : l \in links /\ l.of # d /\ l.to # d
      BY <2>1 DEF LinksTo
    <3> QED
      BY <2>3, <3>1 DEF NothingDangles, RowsInv
  <2>5. \A q \in Requests : \A l \in added'[q] : \A e \in {l.of, l.to} :
           /\ Exists(e)' \/ (Creates(q)' /\ e = op'[q].at)
           /\ \A p \in Requests : e \notin dropping'[p]
    BY <1>2, <2>1, <2>2, <2>3 DEF RowsInv, Creates
  <2>6. \A q \in Requests : \A e \in locked'[q] : Exists(e)' /\ \A p \in Requests : e \notin dropping'[p]
    BY <1>2, <2>1, <2>2, <2>3 DEF RowsInv
  <2> QED
    BY <1>7, <1>8, <1>9, <2>4, <2>5, <2>6 DEF RowsInv
<1> QED
  BY <1>10, <1>11

\* A request arrives: what it creates has an id of its own.
LEMMA ReceiveRows ==
  ASSUME Shapes, Stage, RowsInv, NEW r \in Requests, NEW o \in Ops, Receive(r, o)
  PROVE  RowsInv'
<1>1. /\ UNCHANGED <<links, added, locked, dropping, user, groups, colls>>
      /\ pc[r] = "idle" /\ pc' = [pc EXCEPT ![r] = FirstStep(o)]
      /\ op' = [op EXCEPT ![r] = o] /\ op[r] = NULL
  BY DEF Receive, Goto, linkVars, rowLocks, Stage
<1>2. OpType(o) /\ o # NULL
  BY AccessAssumption
<1>3. \A e : Exists(e) <=> Exists(e)'
  BY <1>1 DEF Exists
<1>4. /\ given \subseteq given'
      /\ o.kind = "create" => o.at \notin given /\ o.at \in given' /\ ~Exists(o.at)
  <2>1. given \subseteq given' /\ (o.kind = "create" => o.at \notin given /\ o.at \in given')
    BY DEF Receive
  <2>2. o.kind = "create" => o.at \in Users \cup Groups
    BY <1>2 DEF OpType, Edits
  <2> QED
    BY <2>1, <2>2, AccessAssumption DEF RowsInv, Exists, Shapes
<1>5. NothingDangles' /\ groups' \subseteq given' /\ \A u \in Users : user'[u] # NULL => u \in given'
  BY <1>1, <1>3, <1>4 DEF NothingDangles, RowsInv
<1>6. \A q \in Requests : op'[q] = IF q = r THEN o ELSE op[q]
  BY <1>1 DEF Shapes
<1>7. \A q \in Requests : \A l \in added'[q] : \A e \in {l.of, l.to} :
         /\ Exists(e)' \/ (Creates(q)' /\ e = op'[q].at)
         /\ \A p \in Requests : e \notin dropping'[p]
  BY <1>1, <1>3, <1>6 DEF RowsInv, Creates
<1>8. \A q \in Requests : \A e \in locked'[q] : Exists(e)' /\ \A p \in Requests : e \notin dropping'[p]
  BY <1>1, <1>3 DEF RowsInv
<1>9. \A q \in Requests : Creates(q)' =>
         /\ op'[q].at \in given'
         /\ (pc'[q] = "begin" \/ InTx(q)') => ~Exists(op[q].at)'
         /\ \A p \in Requests \ {q} : Creates(p)' => op'[p].at # op'[q].at
  <2>1. \A q \in Requests : Creates(q)' <=> IF q = r THEN o.kind = "create" ELSE Creates(q)
    BY <1>2, <1>6 DEF Creates
  <2>2. \A q \in Requests \ {r} : Creates(q) => op[q].at # o.at \/ o.kind # "create"
    BY <1>4 DEF RowsInv
  <2>3. \A q \in Requests \ {r} : pc'[q] = pc[q]
    BY <1>1 DEF Stage
  <2> QED
    BY <1>3, <1>4, <1>6, <2>1, <2>2, <2>3 DEF RowsInv, InTx
<1>10. \A q \in Requests : pc'[q] \in {"role", "grants", "reread"} /\ op'[q].kind = "post" => op'[q].at \in colls'
  <2>1. FirstStep(o) \notin {"role", "grants", "reread"}
    BY <1>2 DEF OpType, Kinds, FirstStep, Edits
  <2> QED
    BY <1>1, <1>6, <2>1 DEF RowsInv, Stage
<1> QED
  BY <1>5, <1>7, <1>8, <1>9, <1>10 DEF RowsInv

\* Every step keeps the rows.
LEMMA StepRows ==
  ASSUME Shapes, Stage, Holds, RowsInv, NEW r \in Requests, Step(r) \/ Fault(r)
  PROVE  RowsInv'
BY StepCases, QuietRows, GrowingRows, EditingRows, CommitRows, DroppingRows

(***************************************************************************)
(* Links.                                                                  *)
(***************************************************************************)

\* A request that has not written a link yet.
Fresh(r) == pc[r] \in {"idle", "begin"} \/ InTx(r)

\* An id has the key in it.
LEMMA IdsAndKeys ==
  ASSUME NEW k, NEW l
  PROVE  /\ Id(k) = Id(l) => k.by = l.by /\ Key(k) = Key(l)
         /\ k.by = l.by /\ Key(k) = Key(l) => Id(k) = Id(l)
         /\ Key(k) = Key(l) <=> k.of = l.of /\ k.to = l.to
BY DEF Id, Key

\* Links are kept by statements that write none, and by a rollback.
LEMMA LinksAlone ==
  ASSUME LinksInv, links' = links,
         \A q \in Requests : \/ dead'[q] = dead[q] /\ added'[q] = added[q]
                             \/ dead'[q] = {} /\ added'[q] = {},
         \A q \in Requests : Fresh(q)' => Fresh(q)
  PROVE  LinksInv'
<1>1. \A q \in Requests : Fresh(q)' => \A l \in links' : l.by # q
  BY DEF LinksInv, Fresh
<1>2. \A q \in Requests : dead'[q] \subseteq dead[q] /\ added'[q] \subseteq added[q]
  OBVIOUS
<1>3. \A q \in Requests : \A l \in added'[q] : dead'[q] = dead[q]
  OBVIOUS
<1>4. /\ \A k, l \in links' : Key(k) = Key(l) => k = l
      /\ \A q \in Requests : dead'[q] \subseteq Ids(links')
      /\ \A p, q \in Requests : p # q => dead'[p] \cap dead'[q] = {}
  BY <1>2 DEF LinksInv
<1>5. /\ \A q \in Requests : \A k, l \in added'[q] : Key(k) = Key(l) => k = l
      /\ \A p, q \in Requests : p # q => \A k \in added'[p], l \in added'[q] : Key(k) # Key(l)
      /\ \A q \in Requests : \A l \in added'[q] :
            l.by = q /\ \A k \in links' : Key(k) = Key(l) => Id(k) \in dead'[q]
  BY <1>2, <1>3 DEF LinksInv
<1> QED
  BY <1>1, <1>4, <1>5 DEF LinksInv, Fresh

\* Links are kept by a statement outside a transaction when what it inserts has
\* a key that nobody has, and what it deletes nobody else has deleted.
LEMMA LinksWritten ==
  ASSUME LinksInv, NEW r \in Requests, UNCHANGED <<dead, added>>,
         \A k, l \in links' : Key(k) = Key(l) => k = l,
         \A l \in links' : \/ \E k \in links : Id(k) = Id(l)
                           \/ l.by = r /\ \A q \in Requests : \A a \in added[q] : Key(a) # Key(l),
         \A q \in Requests : dead[q] \subseteq Ids(links'),
         \A q \in Requests : Fresh(q)' => Fresh(q) /\ q # r
  PROVE  LinksInv'
<1>1. \A q \in Requests : Fresh(q)' => \A l \in links' : l.by # q
  BY IdsAndKeys DEF LinksInv, Fresh
<1>2. \A q \in Requests : \A l \in added'[q] :
         l.by = q /\ \A k \in links' : Key(k) = Key(l) => Id(k) \in dead'[q]
  BY IdsAndKeys DEF LinksInv
<1>3. /\ \A q \in Requests : dead'[q] \subseteq Ids(links')
      /\ \A p, q \in Requests : p # q => dead'[p] \cap dead'[q] = {}
      /\ \A q \in Requests : \A k, l \in added'[q] : Key(k) = Key(l) => k = l
      /\ \A p, q \in Requests : p # q => \A k \in added'[p], l \in added'[q] : Key(k) # Key(l)
  BY DEF LinksInv
<1> QED
  BY <1>1, <1>2, <1>3 DEF LinksInv, Fresh

\* Statements that write no link.
LEMMA QuietLinks ==
  ASSUME Shapes, Stage, LinksInv, NEW r \in Requests,
         Looks(r) \/ GivesUp(r) \/ Upsert(r) \/ BeginEdit(r) \/ NextPart(r) \/ DropRow(r)
  PROVE  LinksInv'
<1> USE DEF Goto, linkVars, rowLocks, rowVars, localVars
<1>1. CASE GivesUp(r)
  <2>1. links' = links /\ \A q \in Requests : (Fresh(q)' => Fresh(q))
    BY <1>1 DEF GivesUp, Abort, Rollback, Forget, Fresh, InTx, Stage
  <2>2. \A q \in Requests : \/ dead'[q] = dead[q] /\ added'[q] = added[q]
                            \/ dead'[q] = {} /\ added'[q] = {}
    BY <1>1 DEF GivesUp, Abort, Rollback, Forget, Shapes
  <2> QED
    BY <2>1, <2>2, LinksAlone
<1>2. CASE Looks(r)
  <2>1. UNCHANGED <<links, dead, added>>
    BY <1>2, LookMoves
  <2>2. \A q \in Requests : Fresh(q)' => Fresh(q)
    <3>1. PICK q \in {"ok", "failed", "grants", "update", "lookup", "count", "remove", "part", "drop"} :
             pc' = [pc EXCEPT ![r] = q] /\ (q = "part" => pc[r] = "insert")
      BY <1>2, LookMoves
    <3> QED
      BY <3>1 DEF Fresh, InTx, Stage
  <2> QED
    BY <2>1, <2>2, LinksAlone
<1>3. CASE Upsert(r) \/ BeginEdit(r) \/ NextPart(r) \/ DropRow(r)
  <2>1. UNCHANGED <<links, dead, added>>
    BY <1>3 DEF Upsert, BeginEdit, LockRows, NextPart, StartDelete, DropRow, StartDrop
  <2>2. \A q \in Requests : Fresh(q)' => Fresh(q)
    BY <1>3 DEF Upsert, AfterUpsert, BeginEdit, NextPart, DropRow, Fresh, InTx, Stage
  <2> QED
    BY <2>1, <2>2, LinksAlone
<1> QED
  BY <1>1, <1>2, <1>3

\* Grants that are made, changed and removed by single statements.
LEMMA GrantLinks ==
  ASSUME Shapes, Stage, Holds, RowsInv, LinksInv, NEW r \in Requests,
         CreateGrant(r) \/ UpdateRole(r) \/ RemoveGrant(r)
  PROVE  LinksInv'
<1> USE DEF Goto
<1>1. UNCHANGED <<dead, added>> /\ dead[r] = {} /\ added[r] = {}
  BY DEF CreateGrant, UpdateRole, RemoveGrant, Write, linkVars, Holds, InTx
<1>2. \A q \in Requests : Fresh(q)' => Fresh(q) /\ q # r
  BY DEF CreateGrant, UpdateRole, RemoveGrant, Fresh, InTx, Stage
<1>3. CASE CreateGrant(r)
  <2> DEFINE new == Link(r, op[r].at, Head(todo[r]).to, Head(todo[r]).role)
  <2>1. CASE links' = links
    BY <1>1, <1>2, <2>1, LinksAlone
  <2>2. CASE links' # links
    <3>1. links' = links \cup {new}
      BY <1>3, <2>2 DEF CreateGrant, Write, linkVars
    <3>2. new.by = r /\ Key(new) = <<op[r].at, Head(todo[r]).to>>
      BY DEF Link, Key
    <3>3. \A l \in links : Key(l) # Key(new)
      BY <1>1, <1>3, <2>2, <3>2 DEF CreateGrant, Present, linkVars
    <3>4. \A q \in Requests : \A a \in added[q] : Key(a) # Key(new)
      BY <1>1, <1>3, <3>2 DEF CreateGrant, InsertWaits, HoldKey, Written, Others
    <3> HIDE DEF new
    <3>5. \A k, l \in links' : Key(k) = Key(l) => k = l
      BY <3>1, <3>3 DEF LinksInv
    <3>6. \A l \in links' : \/ \E k \in links : Id(k) = Id(l)
                            \/ l.by = r /\ \A q \in Requests : \A a \in added[q] : Key(a) # Key(l)
      BY <3>1, <3>2, <3>4
    <3>7. \A q \in Requests : dead[q] \subseteq Ids(links')
      BY <3>1 DEF Ids, LinksInv
    <3> QED
      BY <1>1, <1>2, <3>5, <3>6, <3>7, LinksWritten
  <2> QED
    BY <2>1, <2>2
<1>4. CASE UpdateRole(r)
  <2>1. links' = (links \ TargetRow(r)) \cup {[l EXCEPT !.role = op[r].role] : l \in TargetRow(r)}
    BY <1>4 DEF UpdateRole, Write
  <2>2. \A l \in TargetRow(r) : l \in links /\ Id([l EXCEPT !.role = op[r].role]) = Id(l)
                             /\ Key([l EXCEPT !.role = op[r].role]) = Key(l)
    BY DEF TargetRow, Id, Key, Shapes, LinkRow
  <2>3. \A l \in links' : \/ l \in links \ TargetRow(r)
                          \/ \E k \in TargetRow(r) : l = [k EXCEPT !.role = op[r].role]
    BY <2>1
  <2>4. \A l \in links' : \E k \in links : Id(k) = Id(l)
    BY <2>2, <2>3
  <2>5. \A k, l \in links' : Key(k) = Key(l) => k = l
    BY <2>2, <2>3 DEF LinksInv
  <2>6. Ids(links) \subseteq Ids(links')
    BY <2>1, <2>2 DEF Ids
  <2>7. \A q \in Requests : dead[q] \subseteq Ids(links')
    BY <2>6 DEF LinksInv
  <2> QED
    BY <1>1, <1>2, <2>4, <2>5, <2>7, LinksWritten
<1>5. CASE RemoveGrant(r)
  <2>1. links' = links \ TargetRow(r) /\ HoldRows(r, {target[r]}) = {}
    BY <1>5 DEF RemoveGrant, Write
  <2>2. \A q \in Requests : target[r] \notin dead[q]
    BY <1>1, <2>1 DEF HoldRows, Others
  <2>3. \A q \in Requests : dead[q] \subseteq Ids(links')
    BY <2>1, <2>2 DEF LinksInv, Ids, TargetRow
  <2>4. /\ \A l \in links' : \E k \in links : Id(k) = Id(l)
        /\ \A k, l \in links' : Key(k) = Key(l) => k = l
    BY <2>1 DEF LinksInv
  <2> QED
    BY <1>1, <1>2, <2>3, <2>4, LinksWritten
<1> QED
  BY <1>3, <1>4, <1>5

\* A new collection: no link is to it, and of its grants to a user one is left.
LEMMA CollectionLinks ==
  ASSUME Shapes, Stage, Holds, RowsInv, LinksInv, NEW r \in Requests, CreateCollection(r)
  PROVE  LinksInv'
<1> DEFINE c == op[r].at
           items == op[r].lists[1].items
           Last(i) == \A j \in DOMAIN items : j > i => items[j].to # items[i].to
           Made == {Link(r, c, items[i].to, items[i].role) : i \in {j \in DOMAIN items : Last(j)}}
<1>1. UNCHANGED <<dead, added>> /\ links' = links \cup Made /\ c \notin colls
  BY Zenon DEF CreateCollection, Write
<1>2. c \in Colls /\ items \in Seq(Item)
  BY Asks, ItemTypes DEF CreateCollection, Goto, Stage, OpType
<1>3. \A q \in Requests : Fresh(q)' => Fresh(q) /\ q # r
  BY DEF CreateCollection, Goto, Fresh, InTx, Stage
<1>4. \A l \in links : l.of # c
  BY <1>1, <1>2, AccessAssumption DEF RowsInv, NothingDangles, Exists, Shapes
<1>5. \A q \in Requests : \A a \in added[q] : a.of # c
  <2>1. ASSUME NEW q \in Requests, Creates(q) PROVE op[q].at \in Users \cup Groups
    BY <2>1, Asks DEF Creates, Stage, OpType, Edits
  <2>2. \A q \in Requests : \A a \in added[q] : Exists(a.of) \/ (Creates(q) /\ a.of = op[q].at)
    BY DEF RowsInv
  <2>3. ~Exists(c) /\ c \notin Users \cup Groups
    BY <1>1, <1>2, AccessAssumption DEF Exists, Shapes
  <2> HIDE DEF c
  <2> QED
    BY <2>1, <2>2, <2>3
<1>6. \A l \in Made : l.by = r /\ l.of = c
  BY DEF Link
<1>7. \A k, l \in Made : Key(k) = Key(l) => k = l
  <2> HIDE DEF c, items
  <2>1. ASSUME NEW k \in Made, NEW l \in Made, Key(k) = Key(l) PROVE k = l
    <3>1. PICK i \in DOMAIN items : Last(i) /\ k = Link(r, c, items[i].to, items[i].role)
      OBVIOUS
    <3>2. PICK j \in DOMAIN items : Last(j) /\ l = Link(r, c, items[j].to, items[j].role)
      OBVIOUS
    <3>3. items[i].to = items[j].to
      BY <2>1, <3>1, <3>2 DEF Link, Key
    <3>4. DOMAIN items \subseteq Nat
      BY <1>2
    <3>5. ~(i > j) /\ ~(j > i)
      BY <3>1, <3>2, <3>3
    <3>6. i = j
      BY <3>4, <3>5
    <3> QED
      BY <3>1, <3>2, <3>6
  <2> QED
    BY <2>1
<1> HIDE DEF c, Made
<1>8. \A k, l \in links' : Key(k) = Key(l) => k = l
  BY <1>1, <1>4, <1>6, <1>7, IdsAndKeys DEF LinksInv
<1>9. \A l \in links' : \/ \E k \in links : Id(k) = Id(l)
                        \/ l.by = r /\ \A q \in Requests : \A a \in added[q] : Key(a) # Key(l)
  BY <1>1, <1>5, <1>6, IdsAndKeys
<1>10. \A q \in Requests : dead[q] \subseteq Ids(links')
  BY <1>1 DEF LinksInv, Ids
<1> QED
  BY <1>1, <1>3, <1>8, <1>9, <1>10, LinksWritten

\* A DELETE takes only rows that nobody else has taken.
LEMMA ClearedLinks ==
  ASSUME Shapes, Stage, LinksInv, NEW r \in Requests, ClearPart(r)
  PROVE  LinksInv'
<1>1. /\ UNCHANGED <<links, added>>
      /\ \A q \in Requests : dead'[q] = IF q = r THEN dead[r] \cup (snap[r] \cap Ids(links)) ELSE dead[q]
      /\ \A q \in Requests \ {r} : dead[q] \cap snap[r] = {}
  BY DEF ClearPart, FinishDelete, HoldRows, Others, Shapes
<1>2. \A q \in Requests : Fresh(q)' => Fresh(q)
  BY DEF ClearPart, Goto, Fresh, InTx, Stage
<1>3. /\ \A q \in Requests : dead[q] \subseteq dead'[q] /\ dead'[q] \subseteq Ids(links')
      /\ \A p, q \in Requests : p # q => dead'[p] \cap dead'[q] = {}
  BY <1>1 DEF LinksInv
<1>4. \A q \in Requests : \A l \in added'[q] :
         l.by = q /\ \A k \in links' : Key(k) = Key(l) => Id(k) \in dead'[q]
  BY <1>1, <1>3 DEF LinksInv
<1> QED
  BY <1>1, <1>2, <1>3, <1>4 DEF LinksInv, Fresh

\* An INSERT finds no row with its key, and nobody else has inserted one.
LEMMA InsertedLinks ==
  ASSUME Shapes, Stage, LinksInv, NEW r \in Requests, InsertItem(r)
  PROVE  LinksInv'
<1> DEFINE i == Head(todo[r])
           new == Link(r, i.of, i.to, i.role)
<1>1. /\ UNCHANGED <<links, dead, pc>>
      /\ \A q \in Requests : added'[q] = IF q = r THEN added[r] \cup {new} ELSE added[q]
      /\ pc[r] = "insert"
  BY DEF InsertItem, InsertLink, Shapes
<1>2. new.by = r /\ Key(new) = Key(i)
  BY DEF Link, Key
<1>3. \A l \in links \cup added[r] : Key(l) = Key(new) => Id(l) \in dead[r]
  BY <1>2 DEF InsertItem, Refused, Present
<1>4. \A q \in Requests \ {r} : \A a \in added[q] : Key(a) # Key(new)
  BY <1>2 DEF InsertItem, InsertWaits, HoldKey, Written, Others
<1>5. \A a \in added[r] : Key(a) # Key(new)
  <2>1. \A x \in dead[r] : \E k \in links : x = Id(k) /\ k.by # r
    BY <1>1 DEF LinksInv, Ids, InTx
  <2>2. \A a \in added[r] : a.by = r
    BY DEF LinksInv
  <2> QED
    BY <1>3, <2>1, <2>2, IdsAndKeys
<1> HIDE DEF new
<1>6. \A q \in Requests : \A k, l \in added'[q] : Key(k) = Key(l) => k = l
  BY <1>1, <1>5 DEF LinksInv
<1>7. \A p, q \in Requests : p # q => \A k \in added'[p], l \in added'[q] : Key(k) # Key(l)
  BY <1>1, <1>4 DEF LinksInv
<1>8. \A q \in Requests : \A l \in added'[q] :
         l.by = q /\ \A k \in links' : Key(k) = Key(l) => Id(k) \in dead'[q]
  BY <1>1, <1>2, <1>3 DEF LinksInv
<1> QED
  BY <1>1, <1>6, <1>7, <1>8 DEF LinksInv, InTx

\* A commit: what the transaction has deleted goes, and what it has inserted
\* comes, under keys that are free and that nobody else has inserted.
LEMMA CommittedLinks ==
  ASSUME Shapes, Stage, LinksInv, NEW r \in Requests, CommitEdit(r)
  PROVE  LinksInv'
<1>1. /\ links' = {l \in links : Id(l) \notin dead[r]} \cup added[r]
      /\ \A q \in Requests : /\ dead'[q] = IF q = r THEN {} ELSE dead[q]
                             /\ added'[q] = IF q = r THEN {} ELSE added[q]
  BY DEF CommitEdit, CommitLinks, Forget, Shapes
<1>2. \A q \in Requests : Fresh(q)' => Fresh(q) /\ q # r
  BY DEF CommitEdit, Goto, Fresh, InTx, Stage
<1>3. \A k, l \in links' : Key(k) = Key(l) => k = l
  BY <1>1 DEF LinksInv
<1>4. \A q \in Requests : Fresh(q)' => \A l \in links' : l.by # q
  BY <1>1, <1>2 DEF LinksInv, Fresh
<1>5. \A q \in Requests : dead'[q] \subseteq Ids(links')
  BY <1>1 DEF LinksInv, Ids
<1>6. \A p, q \in Requests : p # q => dead'[p] \cap dead'[q] = {}
  BY <1>1 DEF LinksInv
<1>7. /\ \A q \in Requests : \A k, l \in added'[q] : Key(k) = Key(l) => k = l
      /\ \A p, q \in Requests : p # q => \A k \in added'[p], l \in added'[q] : Key(k) # Key(l)
  BY <1>1 DEF LinksInv
<1>8. \A q \in Requests : \A l \in added'[q] :
         l.by = q /\ \A k \in links' : Key(k) = Key(l) => Id(k) \in dead'[q]
  BY <1>1 DEF LinksInv
<1> QED
  BY <1>3, <1>4, <1>5, <1>6, <1>7, <1>8 DEF LinksInv, Fresh

\* The links that go with a row have not been deleted by anybody else.
LEMMA DroppedLinks ==
  ASSUME Shapes, Stage, Holds, LinksInv, NEW r \in Requests, CascadeDrop(r)
  PROVE  LinksInv'
<1>1. /\ links' = links \ LinksTo(op[r].at) /\ UNCHANGED <<dead, added>>
      /\ HasDeleted(r, op[r].at) = {} /\ dead[r] = {}
  BY DEF CascadeDrop, Drop, FinishDrop, Goto, Holds, InTx
<1>2. \A q \in Requests : \A l \in links : Id(l) \in dead[q] => l \notin LinksTo(op[r].at)
  BY <1>1 DEF HasDeleted, Others, LinksTo
<1>3. \A q \in Requests : dead[q] \subseteq Ids(links')
  BY <1>1, <1>2 DEF LinksInv, Ids
<1>4. \A q \in Requests : Fresh(q)' => Fresh(q) /\ q # r
  BY DEF CascadeDrop, Drop, Goto, Fresh, InTx, Stage
<1>5. /\ \A l \in links' : \E k \in links : Id(k) = Id(l)
      /\ \A k, l \in links' : Key(k) = Key(l) => k = l
  BY <1>1 DEF LinksInv
<1> QED
  BY <1>1, <1>3, <1>4, <1>5, LinksWritten

\* Every step keeps the links.
LEMMA StepLinks ==
  ASSUME Shapes, Stage, Holds, RowsInv, LinksInv, NEW r \in Requests, Step(r) \/ Fault(r)
  PROVE  LinksInv'
BY StepCases, QuietLinks, GrantLinks, CollectionLinks, ClearedLinks, InsertedLinks, CommittedLinks, DroppedLinks

\* A request arrives and has written nothing.
LEMMA ReceiveLinks ==
  ASSUME Shapes, Stage, LinksInv, NEW r \in Requests, NEW o \in Ops, Receive(r, o)
  PROVE  LinksInv'
<1>1. UNCHANGED <<links, dead, added>>
  BY DEF Receive, linkVars
<1>2. \A q \in Requests : Fresh(q)' => Fresh(q)
  BY DEF Receive, Goto, Fresh, InTx, Stage
<1> QED
  BY <1>1, <1>2, LinksAlone

(***************************************************************************)
(* Lists.                                                                  *)
(***************************************************************************)

\* Which list a link belongs to is in its id.
LEMMA PartOfId ==
  ASSUME NEW e, NEW k, NEW l, Key(k) = Key(l), NEW part \in Parts
  PROVE  InPart(e, part, k) <=> InPart(e, part, l)
BY DEF Key, InPart, Parts

\* Lists are kept by whatever writes no link for an edit, and neither opens a
\* transaction nor goes on with one.
LEMMA ListsFrame ==
  ASSUME ListsInv, op' = op,
         \A l \in links' : (\E k \in links : Id(k) = Id(l)) \/ ~IsEdit(l.by),
         \A q \in Requests : InTx(q)' => InTx(q),
         \A q \in Requests : (added'[q] = added[q] /\ dead'[q] = dead[q]) \/ added'[q] = {},
         \A q \in Requests : pc'[q] \in {"clear", "insert"} =>
            /\ pc'[q] = pc[q] /\ todo'[q] = todo[q]
            /\ snap'[q] = snap[q] /\ dead'[q] = dead[q]
  PROVE  ListsInv'
<1>1. \A q : IsEdit(q)' <=> IsEdit(q)
  BY DEF IsEdit
<1>2. \A r, q \in Requests : Rivals(r, q)' <=> Rivals(r, q)
  BY <1>1 DEF Rivals
<1>3. OneListAtATime'
  <2>1. SUFFICES ASSUME NEW k \in links', NEW l \in links', k.by # l.by, IsEdit(k.by), IsEdit(l.by),
                        op[k.by].at = op[l.by].at, op[k.by].columns, op[l.by].columns,
                        NEW part \in Parts, InPart(op[k.by].at, part, k), InPart(op[k.by].at, part, l)
                 PROVE  FALSE
    BY <1>1 DEF OneListAtATime, Part
  <2>2. PICK k0 \in links : Id(k0) = Id(k)
    BY <2>1
  <2>3. PICK l0 \in links : Id(l0) = Id(l)
    BY <2>1
  <2>4. k0.by = k.by /\ l0.by = l.by /\ InPart(op[k.by].at, part, k0) /\ InPart(op[k.by].at, part, l0)
    BY <2>1, <2>2, <2>3, IdsAndKeys, PartOfId
  <2> QED
    BY <2>1, <2>4 DEF ListsInv, OneListAtATime, Part
<1>4. ASSUME NEW r \in Requests, NEW q \in Requests, Rivals(r, q) PROVE Replaces(r, q)'
  <2>1. Replaces(r, q)
    BY <1>4 DEF ListsInv
  <2>2. SUFFICES ASSUME NEW k \in links', NEW part \in Parts, k.by = q, InPart(op[r].at, part, k)
                 PROVE  /\ \A l \in added'[r] : InPart(op[r].at, part, l) => Id(k) \in dead'[r]
                        /\ \A i \in DOMAIN todo'[r] : InPart(op[r].at, part, todo'[r][i]) =>
                              /\ pc'[r] = "clear" => Id(k) \in snap'[r]
                              /\ pc'[r] = "insert" => Id(k) \in dead'[r]
    BY DEF Replaces
  <2>3. PICK k0 \in links : Id(k0) = Id(k)
    BY <1>4, <2>2 DEF Rivals
  <2>4. k0.by = q /\ InPart(op[r].at, part, k0)
    BY <2>2, <2>3, IdsAndKeys, PartOfId
  <2> QED
    BY <2>1, <2>3, <2>4 DEF Replaces
<1>5. \A r, q \in Requests : Rivals(r, q)' => ~(InTx(r)' /\ InTx(q)')
  BY <1>2 DEF ListsInv
<1> QED
  BY <1>2, <1>3, <1>4, <1>5 DEF ListsInv

\* Statements that have nothing to do with lists.
LEMMA QuietLists ==
  ASSUME Shapes, Stage, Holds, ListsInv, NEW r \in Requests,
         \/ Looks(r) \/ GivesUp(r) \/ Upsert(r) \/ CreateCollection(r) \/ CreateGrant(r)
         \/ UpdateRole(r) \/ RemoveGrant(r) \/ DropRow(r) \/ CascadeDrop(r)
  PROVE  ListsInv'
<1> USE DEF Goto, linkVars, rowLocks, rowVars, localVars
<1> DEFINE Kept == \A q \in Requests : pc'[q] \in {"clear", "insert"} =>
                      /\ pc'[q] = pc[q] /\ todo'[q] = todo[q]
                      /\ snap'[q] = snap[q] /\ dead'[q] = dead[q]
           Entered == \A q \in Requests : InTx(q)' => InTx(q)
           Added == \A q \in Requests : (added'[q] = added[q] /\ dead'[q] = dead[q]) \/ added'[q] = {}
           Written1 == \A l \in links' : (\E k \in links : Id(k) = Id(l)) \/ ~IsEdit(l.by)
<1>1. CASE Looks(r)
  <2>1. PICK q \in {"ok", "failed", "grants", "update", "lookup", "count", "remove", "part", "drop"} :
           pc' = [pc EXCEPT ![r] = q] /\ (q = "part" => pc[r] = "insert")
    BY <1>1, LookMoves
  <2>2. UNCHANGED <<links, added, dead, snap, todo, op>>
    BY <1>1, LookMoves
  <2>3. Kept /\ Entered /\ Added /\ Written1
    BY <2>1, <2>2 DEF InTx, Stage
  <2> QED
    BY <2>2, <2>3, ListsFrame
<1>2. CASE GivesUp(r)
  <2>1. op' = op /\ Kept /\ Entered /\ Added /\ Written1
    BY <1>2 DEF GivesUp, Abort, Rollback, Forget, InTx, Stage, Shapes
  <2> QED
    BY <2>1, ListsFrame
<1>3. CASE Upsert(r) \/ UpdateRole(r) \/ RemoveGrant(r) \/ DropRow(r) \/ CascadeDrop(r)
  <2>1. UNCHANGED <<added, dead, snap, todo, op>>
    BY <1>3 DEF Upsert, UpdateRole, RemoveGrant, Write, DropRow, StartDrop, CascadeDrop, Drop, FinishDrop
  <2>2. \E there \in {"ok", "failed", "collection", "role", "reread", "cascade"} : pc' = [pc EXCEPT ![r] = there]
    BY <1>3 DEF Upsert, AfterUpsert, UpdateRole, RemoveGrant, DropRow, CascadeDrop, Drop
  <2>3. Written1
    <3>1. \A l \in TargetRow(r) : l \in links /\ Id([l EXCEPT !.role = op[r].role]) = Id(l)
      BY DEF TargetRow, Id, Shapes, LinkRow
    <3>2. CASE UpdateRole(r)
      BY <3>1, <3>2 DEF UpdateRole, Write
    <3>3. CASE ~UpdateRole(r)
      BY <1>3, <3>3 DEF Upsert, RemoveGrant, Write, DropRow, StartDrop, CascadeDrop, Drop, FinishDrop
    <3> QED
      BY <3>2, <3>3
  <2>4. Kept /\ Entered /\ Added
    BY <2>1, <2>2 DEF InTx, Stage
  <2> QED
    BY <2>1, <2>3, <2>4, ListsFrame
<1>4. CASE CreateCollection(r) \/ CreateGrant(r)
  <2>1. UNCHANGED <<added, dead, snap, op>> /\ \A q \in Requests \ {r} : todo'[q] = todo[q]
    BY <1>4 DEF CreateCollection, CreateGrant, Write, Shapes
  <2>2. \E there \in {"ok", "failed", "reread"} : pc' = [pc EXCEPT ![r] = there]
    BY <1>4 DEF CreateCollection, CreateGrant
  <2>3. \A l \in links' : l \in links \/ l.by = r
    <3>1. CASE CreateGrant(r)
      BY <3>1 DEF CreateGrant, Write, Link
    <3>2. CASE CreateCollection(r)
      <4>1. \A l \in links' : l \in links \/ \E to, role : l = Link(r, op[r].at, to, role)
        BY <3>2, Zenon DEF CreateCollection, Write
      <4> QED
        BY <4>1 DEF Link
    <3> QED
      BY <1>4, <3>1, <3>2
  <2>4. ~IsEdit(r)
    BY <1>4 DEF CreateCollection, CreateGrant, Stage, IsEdit, Edits
  <2>5. Kept /\ Entered /\ Added /\ Written1
    BY <2>1, <2>2, <2>3, <2>4 DEF InTx, Stage
  <2> QED
    BY <2>1, <2>5, ListsFrame
<1> QED
  BY <1>1, <1>2, <1>3, <1>4

\* An edit that updates its row begins when no rival has its transaction open.
LEMMA BeginLists ==
  ASSUME Shapes, Stage, Holds, RowsInv, ListsInv, NEW r \in Requests, BeginEdit(r)
  PROVE  ListsInv'
<1> USE DEF Goto, rowVars, localVars
<1>1. /\ UNCHANGED <<links, dead, added, snap, todo, op>>
      /\ pc[r] = "begin" /\ \E there \in {"part", "failed"} : pc' = [pc EXCEPT ![r] = there]
  BY DEF BeginEdit, LockRows
<1>2. op[r].kind \in Edits /\ op[r] # NULL
  BY <1>1, Asks DEF Stage
<1>3. \A p, q \in Requests : Rivals(p, q)' <=> Rivals(p, q)
  BY <1>1 DEF Rivals, IsEdit
<1>4. OneListAtATime'
  BY <1>1 DEF ListsInv, OneListAtATime, IsEdit, Part
<1>5. ASSUME NEW q \in Requests, Rivals(r, q), InTx(q) PROVE ~InTx(r)'
  <2>1. SUFFICES ASSUME pc'[r] = "part" PROVE FALSE
    BY <1>1 DEF InTx, Stage
  <2>2. op[r].kind = "create" \/ Exists(op[r].at)
    BY <2>1 DEF BeginEdit, Stage
  <2>3. op[q].kind \in Edits /\ op[q] # NULL /\ op[q].at = op[r].at /\ q # r /\ op[q].columns /\ op[r].columns
    BY <1>5 DEF Rivals, IsEdit
  <2>4. CASE op[q].kind = "patch"
    <3>1. op[r].at \in locked[q]
      BY <1>5, <2>3, <2>4 DEF Holds
    <3>2. op[r].kind = "create"
      BY <1>2, <2>3, <3>1 DEF BeginEdit, Updating, Others, Edits
    <3>3. Exists(op[r].at)
      BY <3>1 DEF RowsInv
    <3> QED
      BY <1>1, <1>2, <3>2, <3>3 DEF RowsInv, Creates
  <2>5. CASE op[q].kind = "create"
    <3>1. ~Exists(op[r].at)
      BY <1>5, <2>3, <2>5 DEF RowsInv, Creates
    <3>2. op[r].kind = "create"
      BY <2>2, <3>1
    <3> QED
      BY <1>2, <2>3, <2>5, <3>2 DEF RowsInv, Creates
  <2> QED
    BY <2>3, <2>4, <2>5 DEF Edits
<1>6. \A q \in Requests \ {r} : pc'[q] = pc[q]
  BY <1>1 DEF Stage
<1>7. \A p, q \in Requests : Rivals(p, q) => Rivals(q, p)
  BY DEF Rivals
<1>8. \A p, q \in Requests : Rivals(p, q)' => ~(InTx(p)' /\ InTx(q)')
  BY <1>3, <1>5, <1>6, <1>7 DEF ListsInv, InTx, Rivals
<1>9. ASSUME NEW p \in Requests, NEW q \in Requests, Rivals(p, q) PROVE Replaces(p, q)'
  <2>1. Replaces(p, q)
    BY <1>9 DEF ListsInv
  <2>2. pc'[p] \in {"clear", "insert"} => pc'[p] = pc[p]
    BY <1>1 DEF Stage
  <2> QED
    BY <1>1, <2>1, <2>2 DEF Replaces
<1> QED
  BY <1>3, <1>4, <1>8, <1>9 DEF ListsInv

\* An edit goes on with its transaction: no committed link changes, and what is
\* left to show is that it replaces what its rivals have written.
LEMMA EditingLists ==
  ASSUME Shapes, Stage, ListsInv, NEW r \in Requests, UNCHANGED <<links, op>>,
         \A q \in Requests : InTx(q)' => InTx(q),
         \A q \in Requests \ {r} : /\ pc'[q] = pc[q] /\ todo'[q] = todo[q] /\ snap'[q] = snap[q]
                                   /\ dead'[q] = dead[q] /\ added'[q] = added[q],
         \A q \in Requests : Rivals(r, q) => Replaces(r, q)'
  PROVE  ListsInv'
<1>1. \A p, q \in Requests : Rivals(p, q)' <=> Rivals(p, q)
  BY DEF Rivals, IsEdit
<1>2. OneListAtATime'
  BY DEF ListsInv, OneListAtATime, IsEdit, Part
<1>3. ASSUME NEW p \in Requests, NEW q \in Requests, Rivals(p, q), p # r PROVE Replaces(p, q)'
  <2>1. Replaces(p, q)
    BY <1>3 DEF ListsInv
  <2> QED
    BY <1>3, <2>1 DEF Replaces
<1> QED
  BY <1>1, <1>2, <1>3 DEF ListsInv

\* The items of a list go where its part says, and nowhere else.
LEMMA NextItems ==
  ASSUME Shapes, Stage, ItemsInv, NEW r \in Requests, InTx(r), parts[r] # <<>>
  PROVE  \A m \in DOMAIN Head(parts[r]).items : \A part \in Parts :
            InPart(op[r].at, part, Head(parts[r]).items[m]) => part = Head(parts[r]).part
<1>1. op[r].kind \in Edits /\ OpType(op[r])
  BY Asks DEF Stage, InTx
<1>2. PICK i \in DOMAIN parts[r] : parts[r][i] = Head(parts[r])
  BY HeadAndTail DEF Shapes
<1>3. PICK n \in DOMAIN op[r].lists : parts[r][i] = op[r].lists[n]
  BY DEF ItemsInv
<1> QED
  BY <1>1, <1>2, <1>3 DEF OpType

\* The steps of a transaction before it commits.
LEMMA TransactionLists ==
  ASSUME Shapes, Stage, LinksInv, ListsInv, ItemsInv, NEW r \in Requests,
         NextPart(r) \/ ClearPart(r) \/ InsertItem(r)
  PROVE  ListsInv'
<1> USE DEF Goto, rowVars, localVars
<1>1. UNCHANGED <<links, op>> /\ InTx(r)
  BY DEF NextPart, StartDelete, ClearPart, FinishDelete, InsertItem, InsertLink, InTx
<1>2. \A q \in Requests \ {r} : /\ pc'[q] = pc[q] /\ todo'[q] = todo[q] /\ snap'[q] = snap[q]
                                /\ dead'[q] = dead[q] /\ added'[q] = added[q]
  BY DEF NextPart, StartDelete, ClearPart, FinishDelete, InsertItem, InsertLink, Shapes, Stage
<1>3. \A q \in Requests : InTx(q)' => InTx(q)
  BY <1>1, <1>2 DEF InTx
<1>4. ASSUME NEW q \in Requests, Rivals(r, q) PROVE Replaces(r, q)'
  <2>1. Replaces(r, q)
    BY <1>4 DEF ListsInv
  <2>2. CASE NextPart(r)
    <3>1. /\ UNCHANGED <<added, dead>> /\ pc'[r] = "clear"
          /\ snap'[r] = Ids(Part(op[r].at, Head(parts[r]).part))
          /\ todo'[r] = Head(parts[r]).items
      BY <2>2 DEF NextPart, StartDelete, Shapes, Stage
    <3>2. \A i \in DOMAIN todo'[r] : \A part \in Parts :
             InPart(op[r].at, part, todo'[r][i]) => part = Head(parts[r]).part
      BY <1>1, <2>2, <3>1, NextItems DEF NextPart
    <3>3. \A k \in links : InPart(op[r].at, Head(parts[r]).part, k) => Id(k) \in snap'[r]
      BY <3>1 DEF Ids, Part
    <3> QED
      BY <1>1, <2>1, <3>1, <3>2, <3>3 DEF Replaces
  <2>3. CASE ClearPart(r)
    <3>1. /\ UNCHANGED <<added, todo>> /\ pc[r] = "clear" /\ pc'[r] = "insert"
          /\ dead'[r] = dead[r] \cup (snap[r] \cap Ids(links))
      BY <2>3 DEF ClearPart, FinishDelete, Shapes, Stage
    <3>2. \A k \in links : Id(k) \in snap[r] => Id(k) \in dead'[r]
      BY <3>1 DEF Ids
    <3> QED
      BY <1>1, <2>1, <3>1, <3>2 DEF Replaces
  <2>4. CASE InsertItem(r)
    <3> DEFINE i == Head(todo[r])
    <3>1. /\ UNCHANGED <<dead, snap, pc>> /\ pc[r] = "insert"
          /\ added'[r] = added[r] \cup {Link(r, i.of, i.to, i.role)} /\ todo'[r] = Tail(todo[r])
          /\ todo[r] \in Seq(Item) /\ todo[r] # <<>>
      BY <2>4 DEF InsertItem, InsertLink, Shapes
    <3>2. /\ \E j \in DOMAIN todo[r] : todo[r][j] = i
          /\ \A j \in DOMAIN todo'[r] : \E n \in DOMAIN todo[r] : todo[r][n] = todo'[r][j]
      BY <3>1, HeadAndTail
    <3>3. Key(Link(r, i.of, i.to, i.role)) = Key(i)
      BY DEF Key, Link
    <3> HIDE DEF i
    <3>4. SUFFICES ASSUME NEW k \in links, NEW part \in Parts, k.by = q, InPart(op[r].at, part, k)
                   PROVE  /\ \A l \in added'[r] : InPart(op[r].at, part, l) => Id(k) \in dead[r]
                          /\ \A j \in DOMAIN todo'[r] : InPart(op[r].at, part, todo'[r][j]) => Id(k) \in dead[r]
      BY <1>1, <3>1 DEF Replaces
    <3>5. \A j \in DOMAIN todo[r] : InPart(op[r].at, part, todo[r][j]) => Id(k) \in dead[r]
      BY <2>1, <3>1, <3>4 DEF Replaces
    <3>6. InPart(op[r].at, part, Link(r, i.of, i.to, i.role)) => Id(k) \in dead[r]
      BY <3>2, <3>3, <3>5, PartOfId
    <3>7. \A l \in added[r] : InPart(op[r].at, part, l) => Id(k) \in dead[r]
      BY <2>1, <3>4 DEF Replaces
    <3> QED
      BY <3>1, <3>2, <3>5, <3>6, <3>7
  <2> QED
    BY <2>2, <2>3, <2>4
<1> QED
  BY <1>1, <1>2, <1>3, <1>4, EditingLists

\* A commit: the links of rivals that stand in its lists go.
LEMMA CommitLists ==
  ASSUME Shapes, Stage, Holds, LinksInv, ListsInv, NEW r \in Requests, CommitEdit(r)
  PROVE  ListsInv'
<1> USE DEF Goto, localVars
<1>1. /\ op' = op /\ links' = {l \in links : Id(l) \notin dead[r]} \cup added[r] /\ InTx(r)
      /\ pc' = [pc EXCEPT ![r] = "reread"] /\ todo' = todo
      /\ \A q \in Requests \ {r} : added'[q] = added[q] /\ dead'[q] = dead[q] /\ snap'[q] = snap[q]
      /\ added'[r] = {}
  BY DEF CommitEdit, CommitLinks, Forget, InTx, Shapes
<1>2. \A p, q \in Requests : Rivals(p, q)' <=> Rivals(p, q)
  BY <1>1 DEF Rivals, IsEdit
<1>3. \A q \in Requests : InTx(q)' => InTx(q) /\ q # r /\ pc'[q] = pc[q]
  BY <1>1 DEF InTx, Stage
<1>4. \A l \in added[r] : l.by = r
  BY DEF LinksInv
<1>5. OneListAtATime'
  <2>1. SUFFICES ASSUME NEW k \in links', NEW l \in links', k.by # l.by, IsEdit(k.by), IsEdit(l.by),
                        op[k.by].at = op[l.by].at, op[k.by].columns, op[l.by].columns,
                        NEW part \in Parts, InPart(op[k.by].at, part, k), InPart(op[k.by].at, part, l)
                 PROVE  FALSE
    BY <1>1 DEF OneListAtATime, IsEdit, Part
  <2>2. Rivals(k.by, l.by) /\ Rivals(l.by, k.by)
    BY <2>1 DEF Rivals, IsEdit
  <2>3. CASE k \in added[r]
    <3>1. k.by = r /\ l \in links /\ Id(l) \notin dead[r]
      BY <1>1, <1>4, <2>1, <2>3
    <3>2. Replaces(r, l.by)
      BY <2>2, <3>1 DEF ListsInv, Rivals, IsEdit
    <3> QED
      BY <2>1, <2>3, <3>1, <3>2 DEF Replaces
  <2>4. CASE l \in added[r]
    <3>1. l.by = r /\ k \in links /\ Id(k) \notin dead[r]
      BY <1>1, <1>4, <2>1, <2>4
    <3>2. Replaces(r, k.by)
      BY <2>2, <3>1 DEF ListsInv, Rivals, IsEdit
    <3> QED
      BY <2>1, <2>4, <3>1, <3>2 DEF Replaces
  <2>5. CASE k \notin added[r] /\ l \notin added[r]
    BY <1>1, <2>1, <2>5 DEF ListsInv, OneListAtATime, Part
  <2> QED
    BY <2>3, <2>4, <2>5
<1>6. ASSUME NEW p \in Requests, NEW q \in Requests, Rivals(p, q) PROVE Replaces(p, q)'
  <2>1. Replaces(p, q)
    BY <1>6 DEF ListsInv
  <2>2. CASE p = r
    <3>1. pc'[r] = "reread"
      BY <1>1 DEF Stage
    <3> QED
      BY <1>1, <2>2, <3>1 DEF Replaces
  <2>3. CASE p # r /\ q # r
    <3>1. pc'[p] = pc[p]
      BY <1>1, <2>3 DEF Stage
    <3>2. \A k \in links' : k.by = q => k \in links
      BY <1>1, <1>4, <2>3
    <3> QED
      BY <1>1, <2>1, <2>3, <3>1, <3>2 DEF Replaces
  <2>4. CASE p # r /\ q = r
    <3>1. ~InTx(p) /\ pc'[p] = pc[p]
      BY <1>1, <1>6, <2>4 DEF ListsInv, Stage
    <3>2. added'[p] = {}
      BY <1>1, <2>4, <3>1 DEF Holds
    <3> QED
      BY <1>1, <3>1, <3>2 DEF Replaces, InTx
  <2> QED
    BY <2>2, <2>3, <2>4
<1> QED
  BY <1>2, <1>3, <1>5, <1>6 DEF ListsInv

\* A request arrives, and no list is of it.
LEMMA ReceiveLists ==
  ASSUME Shapes, Stage, Holds, LinksInv, ListsInv, NEW r \in Requests, NEW o \in Ops, Receive(r, o)
  PROVE  ListsInv'
<1>1. /\ UNCHANGED <<links, added, dead, snap>> /\ pc[r] = "idle" /\ pc' = [pc EXCEPT ![r] = FirstStep(o)]
      /\ \A q \in Requests : q # r => op'[q] = op[q] /\ todo'[q] = todo[q]
  BY DEF Receive, Goto, linkVars, Shapes
<1>2. FirstStep(o) \in {"upsert", "begin", "readUser", "drop"}
  BY AccessAssumption DEF OpType, Kinds, FirstStep, Edits
<1>3. /\ \A q \in Requests : InTx(q)' => InTx(q) /\ q # r
      /\ \A q \in Requests \ {r} : pc'[q] = pc[q]
  BY <1>1, <1>2 DEF InTx, Stage
<1>4. \A l \in links : l.by # r
  BY <1>1 DEF LinksInv
<1>5. \A p, q \in Requests : p # r /\ q # r => (Rivals(p, q)' <=> Rivals(p, q))
  BY <1>1 DEF Rivals, IsEdit
<1>6. \A q : q # r => (IsEdit(q)' <=> IsEdit(q))
  BY <1>1 DEF IsEdit
<1>7. OneListAtATime'
  <2>1. SUFFICES ASSUME NEW k \in links, NEW l \in links, k.by # l.by, IsEdit(k.by), IsEdit(l.by),
                        op[k.by].at = op[l.by].at, op[k.by].columns, op[l.by].columns,
                        NEW part \in Parts, InPart(op[k.by].at, part, k), InPart(op[k.by].at, part, l)
                 PROVE  FALSE
    <3>1. \A q : IsEdit(q) => q \in Requests
      BY DEF IsEdit
    <3> QED
      BY <1>1, <1>4, <1>6, <3>1 DEF OneListAtATime, Part
  <2> QED
    BY <2>1 DEF ListsInv, OneListAtATime, Part
<1>8. ASSUME NEW p \in Requests, NEW q \in Requests, Rivals(p, q)' PROVE Replaces(p, q)'
  <2>1. CASE q = r
    BY <1>1, <1>4, <2>1 DEF Replaces
  <2>2. CASE p = r
    <3>1. added'[r] = {} /\ pc'[r] \notin {"clear", "insert"}
      BY <1>1, <1>2 DEF Holds, InTx, Stage
    <3> QED
      BY <2>2, <3>1 DEF Replaces
  <2>3. CASE p # r /\ q # r
    <3>1. Replaces(p, q)
      BY <1>5, <1>8, <2>3 DEF ListsInv
    <3> QED
      BY <1>1, <1>3, <2>3, <3>1 DEF Replaces
  <2> QED
    BY <2>1, <2>2, <2>3
<1>9. \A p, q \in Requests : Rivals(p, q)' => ~(InTx(p)' /\ InTx(q)')
  BY <1>3, <1>5 DEF ListsInv
<1> QED
  BY <1>7, <1>8, <1>9 DEF ListsInv

\* Every step keeps the lists.
LEMMA StepLists ==
  ASSUME Shapes, Stage, Holds, RowsInv, LinksInv, ListsInv, ItemsInv, NEW r \in Requests, Step(r) \/ Fault(r)
  PROVE  ListsInv'
BY StepCases, QuietLists, BeginLists, TransactionLists, CommitLists

(***************************************************************************)
(* Edits and deletes.                                                      *)
(***************************************************************************)

\* An edit loses no item between its body and the table.
LEMMA StepItems ==
  ASSUME Shapes, Stage, Holds, ItemsInv, NEW r \in Requests, Step(r) \/ Fault(r)
  PROVE  ItemsInv'
<1> USE DEF Goto, linkVars, rowLocks, rowVars, localVars
<1> DEFINE Open(q) == pc[q] = "begin" \/ InTx(q)
           Same(q) == /\ pc'[q] = pc[q] /\ op'[q] = op[q] /\ todo'[q] = todo[q]
                      /\ parts'[q] = parts[q] /\ added'[q] = added[q]
           Whole(q) == /\ \A i \in DOMAIN parts[q] : \E n \in DOMAIN op[q].lists : parts[q][i] = op[q].lists[n]
                       /\ \A n \in DOMAIN op[q].lists : \A m \in DOMAIN op[q].lists[n].items :
                             LET it == op[q].lists[n].items[m]
                             IN \/ Link(q, it.of, it.to, it.role) \in added[q]
                                \/ pc[q] \in {"clear", "insert"} /\ \E i \in DOMAIN todo[q] : todo[q][i] = it
                                \/ \E i \in DOMAIN parts[q] : parts[q][i] = op[q].lists[n]
<1>1. \A q \in Requests \ {r} : Same(q)
  <2>1. CASE Looks(r)
    BY <2>1, LookMoves DEF Stage
  <2>2. CASE GivesUp(r) \/ CommitEdit(r) \/ CascadeDrop(r) \/ DropRow(r)
    BY <2>2 DEF GivesUp, Abort, Rollback, Forget, CommitEdit, CommitLinks, CascadeDrop, Drop, FinishDrop,
       DropRow, StartDrop, Shapes, Stage
  <2>3. CASE Upsert(r) \/ CreateCollection(r) \/ CreateGrant(r) \/ UpdateRole(r) \/ RemoveGrant(r)
    BY <2>3, SMTT(30), ZenonT(30) DEF Upsert, CreateCollection, CreateGrant, UpdateRole, RemoveGrant, Write, Shapes, Stage
  <2>4. CASE BeginEdit(r) \/ NextPart(r) \/ ClearPart(r) \/ InsertItem(r)
    BY <2>4 DEF BeginEdit, LockRows, NextPart, StartDelete, ClearPart, FinishDelete, InsertItem, InsertLink,
       Shapes, Stage
  <2> QED
    BY StepCases, <2>1, <2>2, <2>3, <2>4
<1>2. \A q \in Requests : Open(q) => Whole(q)
  BY DEF ItemsInv
<1>3. SUFFICES ASSUME Open(r)' PROVE Whole(r)'
  <2>1. ASSUME NEW q \in Requests, Open(q)' PROVE Whole(q)'
    <3>1. CASE q = r
      BY <2>1, <3>1, SMTT(30)
    <3>2. CASE q # r
      <4>1. Same(q)
        BY <1>1, <3>2
      <4>2. Open(q)
        BY <2>1, <4>1 DEF InTx
      <4>3. Whole(q)
        BY <1>2, <4>2
      <4> QED
        BY <4>1, <4>3
    <3> QED
      BY <3>1, <3>2
  <2> QED
    BY <2>1, Zenon DEF ItemsInv
<1>4. UNCHANGED op /\ Stage'
  <2>1. Stage'
    BY StepCases, PlainTypes, WriteTypes
  <2>2. UNCHANGED op
    BY StepCases, LookMoves DEF GivesUp, Abort, Upsert, CreateCollection, CreateGrant, UpdateRole,
       RemoveGrant, BeginEdit, NextPart, ClearPart, InsertItem, CommitEdit, DropRow, CascadeDrop, Drop
  <2> QED
    BY <2>1, <2>2
<1>5. CASE Looks(r)
  <2>1. UNCHANGED <<todo, parts, added>> /\ pc[r] = "insert" /\ pc'[r] = "part" /\ todo[r] = <<>>
    <3>1. PICK q \in {"ok", "failed", "grants", "update", "lookup", "count", "remove", "part", "drop"} :
             pc' = [pc EXCEPT ![r] = q] /\ (q = "part" => pc[r] = "insert" /\ todo[r] = <<>>)
      BY <1>5, LookMoves
    <3>2. UNCHANGED <<todo, parts, added>>
      BY <1>5, LookMoves
    <3> QED
      BY <1>3, <3>1, <3>2 DEF InTx, Stage
  <2>2. Whole(r) /\ DOMAIN todo[r] = {}
    BY <1>2, <2>1 DEF InTx
  <2> QED
    BY <1>4, <2>1, <2>2
<1>6. CASE BeginEdit(r) \/ ClearPart(r)
  <2>1. UNCHANGED <<todo, parts, added>> /\ Open(r) /\ (pc[r] \in {"clear", "insert"} => pc'[r] = "insert")
    BY <1>6 DEF BeginEdit, LockRows, ClearPart, FinishDelete, InTx, Stage
  <2>2. Whole(r)
    BY <1>2, <2>1
  <2> QED
    BY <1>4, <2>1, <2>2
<1>7. CASE NextPart(r)
  <2>1. /\ UNCHANGED added /\ pc[r] = "part" /\ pc'[r] = "clear"
        /\ todo'[r] = Head(parts[r]).items /\ parts'[r] = Tail(parts[r])
        /\ parts[r] \in Seq(List) /\ parts[r] # <<>>
    BY <1>7 DEF NextPart, StartDelete, Shapes, Stage
  <2>2. Whole(r)
    BY <1>2, <2>1 DEF InTx
  <2>3. /\ \A i \in DOMAIN parts[r] : parts[r][i] = Head(parts[r]) \/ \E j \in DOMAIN parts'[r] : parts'[r][j] = parts[r][i]
        /\ \A j \in DOMAIN parts'[r] : \E i \in DOMAIN parts[r] : parts[r][i] = parts'[r][j]
    BY <2>1, HeadAndTail
  <2> QED
    BY <1>4, <2>1, <2>2, <2>3
<1>8. CASE InsertItem(r)
  <2> DEFINE i == Head(todo[r])
  <2>1. /\ UNCHANGED <<pc, parts>> /\ pc[r] = "insert" /\ todo'[r] = Tail(todo[r])
        /\ todo[r] \in Seq(Item) /\ todo[r] # <<>>
        /\ added'[r] = added[r] \cup {Link(r, i.of, i.to, i.role)}
    BY <1>8 DEF InsertItem, InsertLink, Shapes
  <2>2. Whole(r)
    BY <1>2, <2>1 DEF InTx
  <2>3. \A j \in DOMAIN todo[r] : todo[r][j] = i \/ \E n \in DOMAIN todo'[r] : todo'[r][n] = todo[r][j]
    BY <2>1, HeadAndTail
  <2> HIDE DEF i
  <2> QED
    BY <1>4, <2>1, <2>2, <2>3, SMTT(30), ZenonT(30)
<1>9. CASE ~(Looks(r) \/ BeginEdit(r) \/ ClearPart(r) \/ NextPart(r) \/ InsertItem(r))
  <2>1. \E there \in Finished \cup {"collection", "role", "reread", "grants", "cascade"} : pc' = [pc EXCEPT ![r] = there]
    BY <1>9, StepCases DEF GivesUp, Abort, Upsert, AfterUpsert, CreateCollection, CreateGrant, UpdateRole,
       RemoveGrant, CommitEdit, DropRow, CascadeDrop, Drop, Finished
  <2> QED
    BY <1>3, <2>1 DEF InTx, Stage, Finished
<1> QED
  BY <1>5, <1>6, <1>7, <1>8, <1>9

\* A request arrives with all items of its body in lists to come.
LEMMA ReceiveItems ==
  ASSUME Shapes, Stage, ItemsInv, NEW r \in Requests, NEW o \in Ops, Receive(r, o)
  PROVE  ItemsInv'
<1>1. OpType(o)
  BY AccessAssumption
<1>2. /\ UNCHANGED added /\ pc' = [pc EXCEPT ![r] = FirstStep(o)]
      /\ \A q \in Requests \ {r} : op'[q] = op[q] /\ todo'[q] = todo[q] /\ parts'[q] = parts[q]
      /\ op'[r] = o /\ parts'[r] = IF o.kind \in Edits THEN o.lists ELSE <<>>
  BY DEF Receive, Goto, linkVars, Shapes
<1>3. FirstStep(o) \in {"upsert", "begin", "readUser", "drop"} /\ (FirstStep(o) = "begin" => o.kind \in Edits)
  BY <1>1 DEF OpType, Kinds, FirstStep, Edits
<1>4. \A q \in Requests : InTx(q)' => InTx(q) /\ q # r
  BY <1>2, <1>3 DEF InTx, Stage
<1>5. pc'[r] = FirstStep(o) /\ \A q \in Requests \ {r} : pc'[q] = pc[q]
  BY <1>2 DEF Stage
<1> QED
  BY <1>2, <1>3, <1>4, <1>5 DEF ItemsInv

\* A user that is being deleted does not sign in meanwhile.
LEMMA StepDeletes ==
  ASSUME Shapes, Stage, RowsInv, DeletesInv, NEW r \in Requests, Step(r) \/ Fault(r)
  PROVE  DeletesInv'
<1> USE DEF Goto, rowVars, localVars
<1> DEFINE Drops(q) == pc[q] \in {"drop", "cascade"} /\ op[q].kind = "deleteUser"
           Away(u) == u \in given /\ (user[u] = NULL \/ user[u].sub = NULL)
<1>1. SUFFICES ASSUME NEW q \in Requests, Drops(q)' PROVE Away(op[q].at)'
  BY DEF DeletesInv
<1>2. ASSUME NEW u \in Users, Away(u) PROVE Away(u)'
  <2>1. given \subseteq given'
    BY StepCases, LookMoves DEF GivesUp, Abort, Upsert, CreateCollection, CreateGrant, UpdateRole,
       RemoveGrant, BeginEdit, NextPart, ClearPart, InsertItem, CommitEdit, DropRow, CascadeDrop, Drop
  <2>2. CASE Upsert(r)
    <3>1. op[r].who \in People
      BY <2>2, Asks DEF Upsert, Stage, OpType
    <3>2. op[r].who # NULL
      BY <3>1, AccessAssumption
    <3>3. PICK v \in Users : /\ v \notin given \/ v \in OwnRow(op[r].who)
                             /\ user' = [user EXCEPT ![v] = [sub |-> op[r].who, name |-> op[r].who]]
      BY <2>2 DEF Upsert
    <3>4. u # v
      BY <1>2, <3>2, <3>3 DEF OwnRow
    <3> QED
      BY <1>2, <2>1, <3>3, <3>4 DEF Shapes
  <2>3. CASE CommitEdit(r)
    <3>1. user'[u] = user[u] \/ user'[u] = [sub |-> NULL, name |-> op[r].who]
      BY <2>3 DEF CommitEdit, Shapes
    <3> QED
      BY <1>2, <2>1, <3>1
  <2>4. CASE CascadeDrop(r)
    <3>1. user'[u] = user[u] \/ user'[u] = NULL
      BY <2>4 DEF CascadeDrop, Drop
    <3> QED
      BY <1>2, <2>1, <3>1
  <2>5. CASE ~(Upsert(r) \/ CommitEdit(r) \/ CascadeDrop(r))
    <3>1. user' = user
      BY <2>5, StepCases, LookMoves DEF GivesUp, Abort, CreateCollection, CreateGrant, UpdateRole,
         RemoveGrant, BeginEdit, NextPart, ClearPart, InsertItem, DropRow
    <3> QED
      BY <1>2, <2>1, <3>1
  <2> QED
    BY <2>2, <2>3, <2>4, <2>5
<1>3. op' = op
  BY StepCases, LookMoves DEF GivesUp, Abort, Upsert, CreateCollection, CreateGrant, UpdateRole,
     RemoveGrant, BeginEdit, NextPart, ClearPart, InsertItem, CommitEdit, DropRow, CascadeDrop, Drop
<1>4. op[q].at \in Users
  <2>1. pc'[q] # "idle" /\ op[q].kind = "deleteUser"
    BY <1>1, <1>3
  <2>2. Shapes' /\ Stage'
    BY StepCases, PlainTypes, WriteTypes
  <2>3. op'[q] \in Ops
    BY <2>1, <2>2, <1>1 DEF Shapes, Stage
  <2> QED
    BY <1>3, <2>1, <2>3, AccessAssumption DEF OpType
<1>5. Drops(q) \/ (q = r /\ Away(op[q].at))
  <2>1. CASE Looks(r)
    <3>1. PICK there \in {"ok", "failed", "grants", "update", "lookup", "count", "remove", "part", "drop"} :
             /\ pc' = [pc EXCEPT ![r] = there]
             /\ there = "drop" => user[op[r].at] # NULL /\ user[op[r].at].sub = NULL
      BY <2>1, LookMoves
    <3> QED
      BY <1>1, <1>3, <1>4, <3>1 DEF Stage, RowsInv
  <2>2. CASE DropRow(r)
    BY <1>1, <1>3, <2>2 DEF DropRow, Stage
  <2>3. CASE ~(Looks(r) \/ DropRow(r))
    <3>1. pc' = pc \/ \E there : there \notin {"drop", "cascade"} /\ pc' = [pc EXCEPT ![r] = there]
      BY <2>3, StepCases DEF GivesUp, Abort, Upsert, AfterUpsert, CreateCollection, CreateGrant, UpdateRole,
         RemoveGrant, BeginEdit, NextPart, ClearPart, InsertItem, CommitEdit, CascadeDrop, Drop
    <3> QED
      BY <1>1, <1>3, <3>1 DEF Stage
  <2> QED
    BY <2>1, <2>2, <2>3
<1> QED
  BY <1>2, <1>3, <1>4, <1>5 DEF DeletesInv

\* A request arrives, and changes no row.
LEMMA ReceiveDeletes ==
  ASSUME Shapes, Stage, DeletesInv, NEW r \in Requests, NEW o \in Ops, Receive(r, o)
  PROVE  DeletesInv'
<1>1. /\ UNCHANGED user /\ given \subseteq given' /\ pc' = [pc EXCEPT ![r] = FirstStep(o)]
      /\ op' = [op EXCEPT ![r] = o]
  BY DEF Receive, Goto
<1>2. FirstStep(o) \in {"drop", "cascade"} => o.kind # "deleteUser"
  BY AccessAssumption DEF OpType, Kinds, FirstStep, Edits
<1> QED
  BY <1>1, <1>2 DEF DeletesInv, Stage, Shapes

(***************************************************************************)
(* The invariant, and what follows from it.                                *)
(***************************************************************************)

\* The tables at first.
LEMMA InitInv == Init => Inv
<1> SUFFICES ASSUME Init PROVE Inv
  OBVIOUS
<1> USE DEF Init, LinksInit
<1>0. \A k \in links : (k.of \in Groups => k.of \in groups) /\ (k.of \in Colls => k.of \in colls)
  BY Zenon
<1>1. links \in Seeds /\ SeedType(links)
  BY AccessAssumption
<1>2. \A u \in Users : user[u] = IF u \in DOMAIN SeededUsers THEN SeededUsers[u] ELSE NULL
  OBVIOUS
<1>3. \A u \in DOMAIN SeededUsers : u \in Users /\ SeededUsers[u] \in UserRow /\ SeededUsers[u] # NULL
  BY AccessAssumption
<1>4. groups \subseteq Groups /\ colls \subseteq Colls
  OBVIOUS
<1>5. Shapes
  BY <1>1, <1>3, <1>4 DEF Shapes, SeedType
<1>6. Stage /\ Holds
  BY DEF Stage, Holds, InTx, Finished
<1>7. \A l \in links : Exists(l.of) /\ Exists(l.to)
  <2> HIDE DEF Init, LinksInit
  <2>1. SUFFICES ASSUME NEW l \in links PROVE Exists(l.of) /\ Exists(l.to)
    OBVIOUS
  <2>2. l.of \in Groups \cup Colls /\ l.to \in Users \cup Groups
    BY <1>1 DEF SeedType, LinkRow
  <2>3. l.to \in DOMAIN SeededUsers \/ \E k \in links : l.to = k.of
    BY <1>1 DEF SeedType
  <2>4. Exists(l.of)
    BY <1>0, <2>2 DEF Exists
  <2>5. CASE l.to \in DOMAIN SeededUsers
    BY <1>2, <1>3, <2>4, <2>5 DEF Exists
  <2>6. CASE \E k \in links : l.to = k.of
    <3>1. PICK k \in links : l.to = k.of
      BY <2>6
    <3>2. k.of \in Groups \cup Colls
      BY <1>1 DEF SeedType, LinkRow
    <3> QED
      BY <1>0, <2>4, <3>1, <3>2 DEF Exists
  <2> QED
    BY <2>3, <2>4, <2>5, <2>6
<1>8. RowsInv
  BY <1>2, <1>7 DEF RowsInv, NothingDangles, Creates
<1>9. \A l \in links : l.by \notin Requests
  BY <1>1, AccessAssumption DEF SeedType
<1>10. LinksInv
  BY <1>1, <1>9 DEF LinksInv, SeedType
<1>11. ListsInv
  BY DEF ListsInv, OneListAtATime, Rivals, IsEdit
<1>12. ItemsInv /\ DeletesInv
  BY DEF ItemsInv, DeletesInv, InTx
<1> QED
  BY <1>5, <1>6, <1>8, <1>10, <1>11, <1>12 DEF Inv

\* What a request holds when it arrives.
LEMMA ReceiveHolds ==
  ASSUME Shapes, Stage, Holds, NEW r \in Requests, NEW o \in Ops, Receive(r, o)
  PROVE  Holds'
<1>1. UNCHANGED linkVars /\ pc' = [pc EXCEPT ![r] = FirstStep(o)] /\ pc[r] = "idle" /\ op' = [op EXCEPT ![r] = o]
  BY DEF Receive, Goto
<1>2. FirstStep(o) \in {"upsert", "begin", "readUser", "drop"}
  BY AccessAssumption DEF OpType, Kinds, FirstStep, Edits
<1> QED
  BY <1>1, <1>2 DEF Holds, InTx, Stage, Shapes, linkVars, rowLocks

\* Every step keeps the invariant.
LEMMA InvNext == Inv /\ [Next]_vars => Inv'
<1> SUFFICES ASSUME Inv, [Next]_vars PROVE Inv'
  OBVIOUS
<1> USE DEF Inv
<1>1. ASSUME NEW r \in Requests, Step(r) \/ Fault(r) PROVE Inv'
  <2>1. Shapes' /\ Stage'
    BY <1>1, StepCases, PlainTypes, WriteTypes
  <2> QED
    BY <1>1, <2>1, StepHolds, StepRows, StepLinks, StepLists, StepItems, StepDeletes
<1>2. ASSUME NEW r \in Requests, NEW o \in Ops, Receive(r, o) PROVE Inv'
  BY <1>2, ReceiveTypes, ReceiveHolds, ReceiveRows, ReceiveLinks, ReceiveLists, ReceiveItems, ReceiveDeletes
<1>3. CASE UNCHANGED vars
  <2> USE <1>3 DEF vars, linkVars, rowLocks, rowVars, localVars
  <2>1. Shapes' /\ Stage'
    BY DEF Shapes, Stage
  <2>2. Holds'
    BY DEF Holds, InTx
  <2>3. RowsInv'
    BY DEF RowsInv, InTx, NothingDangles, Exists, Creates
  <2>4. LinksInv'
    BY DEF LinksInv, InTx
  <2>5. ListsInv'
    BY DEF ListsInv, OneListAtATime, Part, Rivals, InTx, IsEdit, Replaces
  <2>6. ItemsInv' /\ DeletesInv'
    BY DEF ItemsInv, InTx, DeletesInv
  <2> QED
    BY <2>1, <2>2, <2>3, <2>4, <2>5, <2>6
<1> QED
  BY <1>1, <1>2, <1>3 DEF Next, AllDone

\* The invariant holds of every behaviour.
LEMMA Invariance == Spec => []Inv
BY InitInv, InvNext, PTL DEF Spec

\* The tables of users, groups and grants agree after every statement, for any
\* requests, bodies and failures: a key stands once, no link refers to a row
\* that has gone, and rival edits do not mix their lists.
THEOREM TablesStayInAgreement == Spec => []TablesAgree
<1>1. Inv => TablesAgree
  <2>1. Inv => LinksOK(LinkRow, Users \cup Groups)
    BY DEF Inv, Shapes, LinksInv, LinksOK
  <2>2. Inv => TypeOK
    BY <2>1 DEF Inv, Shapes, Stage, TypeOK
  <2> QED
    BY <2>2 DEF Inv, RowsInv, ListsInv, TablesAgree
<1> QED
  BY <1>1, Invariance, PTL

\* Only a commit brings links of an edit into the tables, and then it has
\* inserted every item of its body.
LEMMA WholeStep == Inv /\ Next =>
    \A i \in Ids(links') \ Ids(links) : IsEdit(i[1]) => ByEdit(i[1], op[i[1]]) \subseteq links'
<1> SUFFICES ASSUME Inv, Next, NEW i \in Ids(links'), i \notin Ids(links), IsEdit(i[1])
             PROVE  ByEdit(i[1], op[i[1]]) \subseteq links'
  OBVIOUS
<1> USE DEF Inv
<1>1. PICK l \in links' : i = Id(l) /\ l \notin links
  BY DEF Ids
<1>2. i[1] = l.by /\ l.by \in Requests
  BY <1>1 DEF Id, IsEdit
<1>3. ASSUME NEW r \in Requests, CommitEdit(r) PROVE ByEdit(l.by, op[l.by]) \subseteq links'
  <2>1. l.by = r
    BY <1>1, <1>3 DEF CommitEdit, CommitLinks, LinksInv
  <2>2. pc[r] = "part" /\ parts[r] = <<>> /\ added[r] \subseteq links'
    BY <1>3 DEF CommitEdit, CommitLinks, Goto
  <2>3. \A n \in DOMAIN op[r].lists : \A m \in DOMAIN op[r].lists[n].items :
           LET it == op[r].lists[n].items[m]
           IN Link(r, it.of, it.to, it.role) \in added[r]
    BY <2>2 DEF ItemsInv, InTx
  <2> QED
    BY <2>1, <2>2, <2>3 DEF ByEdit
<1>4. ASSUME NEW r \in Requests, CreateCollection(r) \/ CreateGrant(r) PROVE FALSE
  <2>1. l.by = r
    <3>1. CASE CreateGrant(r)
      BY <1>1, <3>1 DEF CreateGrant, Write, Link, linkVars
    <3>2. CASE CreateCollection(r)
      <4>1. \E to, role : l = Link(r, op[r].at, to, role)
        BY <1>1, <3>2, Zenon DEF CreateCollection, Write
      <4> QED
        BY <4>1 DEF Link
    <3> QED
      BY <1>4, <3>1, <3>2
  <2> QED
    BY <1>2, <1>4, <2>1 DEF CreateCollection, CreateGrant, Goto, Stage, IsEdit, Edits
<1>5. ASSUME NEW r \in Requests, UpdateRole(r) PROVE FALSE
  <2>1. \A k \in TargetRow(r) : k \in links /\ Id([k EXCEPT !.role = op[r].role]) = Id(k)
    BY DEF TargetRow, Id, Shapes, LinkRow
  <2> QED
    BY <1>1, <1>5, <2>1 DEF UpdateRole, Write, Ids
<1>6. ASSUME NEW r \in Requests, Step(r) \/ Fault(r)
      PROVE  CommitEdit(r) \/ CreateCollection(r) \/ CreateGrant(r) \/ UpdateRole(r)
  <2>1. links' \subseteq links
        \/ CommitEdit(r) \/ CreateCollection(r) \/ CreateGrant(r) \/ UpdateRole(r)
    BY <1>6, StepCases, LookMoves DEF GivesUp, Abort, Rollback, Upsert, RemoveGrant, Write, linkVars,
       BeginEdit, LockRows, NextPart, StartDelete, ClearPart, FinishDelete, InsertItem, InsertLink,
       DropRow, StartDrop, CascadeDrop, Drop, FinishDrop
  <2> QED
    BY <1>1, <2>1
<1>7. ~AllDone /\ \A r \in Requests, o \in Ops : ~Receive(r, o)
  BY <1>1 DEF AllDone, vars, Receive, linkVars
<1>8. ByEdit(l.by, op[l.by]) \subseteq links'
  BY <1>3, <1>4, <1>5, <1>6, <1>7 DEF Next
<1> QED
  BY <1>2, <1>8

\* An edit of a user or of a group has all its links in the tables as soon as it
\* has one there, for any body, any rivals and any failing statement.
THEOREM EditsTakeEffectWhole == Spec => EditsAreWhole
<1>1. Inv /\ [Next]_vars =>
         [\A i \in Ids(links') \ Ids(links) : IsEdit(i[1]) => ByEdit(i[1], op[i[1]]) \subseteq links']_vars
  BY WholeStep
<1> QED
  BY <1>1, Invariance, PTL DEF Spec, EditsAreWhole

\* A sign-in keeps to its own row or takes a new one, an edit creates a row that
\* was not there, and a delete has seen a row without a subject.
LEMMA SignedInStep == Inv /\ Next =>
    \A u \in Users : user[u] # NULL /\ user[u].sub # NULL => user'[u] # NULL /\ user'[u].sub = user[u].sub
<1> SUFFICES ASSUME Inv, Next, NEW u \in Users, user[u] # NULL, user[u].sub # NULL
             PROVE  user'[u] # NULL /\ user'[u].sub = user[u].sub
  OBVIOUS
<1> USE DEF Inv
<1>1. ASSUME NEW r \in Requests, Upsert(r) PROVE user'[u] # NULL /\ user'[u].sub = user[u].sub
  <2>1. PICK v \in Users : /\ v \notin given \/ v \in OwnRow(op[r].who)
                           /\ user' = [user EXCEPT ![v] = [sub |-> op[r].who, name |-> op[r].who]]
    BY <1>1 DEF Upsert
  <2>2. op[r].who \in People
    BY <1>1, Asks DEF Upsert, Goto, Stage, OpType
  <2>3. [sub |-> op[r].who, name |-> op[r].who] # NULL
    BY <2>2, AccessAssumption DEF UserRow
  <2> QED
    BY <2>1, <2>3 DEF OwnRow, Shapes, RowsInv
<1>2. ASSUME NEW r \in Requests, CommitEdit(r) PROVE user'[u] = user[u]
  <2>1. op[r].kind = "create" => ~Exists(op[r].at)
    <3>1. InTx(r) /\ op[r] # NULL
      BY <1>2, Asks DEF CommitEdit, Goto, InTx, Stage
    <3> QED
      BY <3>1 DEF RowsInv, Creates
  <2> QED
    BY <1>2, <2>1 DEF CommitEdit, Exists, Shapes
<1>3. ASSUME NEW r \in Requests, CascadeDrop(r) PROVE user'[u] = user[u]
  <2>1. op[r].kind = "deleteUser" \/ op[r].at \in Groups
    BY <1>3, Asks DEF CascadeDrop, Drop, Goto, Stage, OpType
  <2>2. op[r].at # u
    BY <1>3, <2>1, AccessAssumption DEF CascadeDrop, Drop, Goto, DeletesInv
  <2> QED
    BY <1>3, <2>2 DEF CascadeDrop, Drop
<1>4. ASSUME NEW r \in Requests, Step(r) \/ Fault(r)
      PROVE  user' = user \/ Upsert(r) \/ CommitEdit(r) \/ CascadeDrop(r)
  BY <1>4, StepCases, LookMoves DEF GivesUp, Abort, CreateCollection, CreateGrant, UpdateRole,
     RemoveGrant, rowVars, BeginEdit, NextPart, ClearPart, InsertItem, DropRow
<1>5. user' = user \/ \E r \in Requests : Upsert(r) \/ CommitEdit(r) \/ CascadeDrop(r)
  BY <1>4 DEF Next, AllDone, vars, rowVars, Receive
<1> QED
  BY <1>1, <1>2, <1>3, <1>5

\* The row of somebody who has signed in is neither deleted nor given to
\* somebody else, whatever is deleted, created and signed in meanwhile.
THEOREM SignedInUsersStay == Spec => SignedInStay
<1>1. Inv /\ [Next]_vars =>
         [\A u \in Users : user[u] # NULL /\ user[u].sub # NULL
            => user'[u] # NULL /\ user'[u].sub = user[u].sub]_vars
  BY SignedInStep
<1> QED
  BY <1>1, Invariance, PTL DEF Spec, SignedInStay
=============================================================================
