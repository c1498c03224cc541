----------------------------- MODULE AssetLabels -----------------------------
(***************************************************************************)
(* The assets of collections, their labels and the benchmarks assigned to  *)
(* them: the handlers of assets and labels and the statements of AssetRepo *)
(* and LabelRepo, one step each.  The links are asset_stig and             *)
(* collection_label_asset, from a benchmark or a label to an asset.        *)
(*                                                                         *)
(* Names are left out: a label is known by its id, so that PATCH of a      *)
(* label changes nothing here.  Who may send a request is AccessControl.   *)
(***************************************************************************)
EXTENDS LinkTables

CONSTANTS Assets, Labels,      \* ids, each given out once
          Benchmarks, Colls,
          Ops,                 \* what requests ask for
          AtFirst,             \* the assets, labels and links at first
          Faulty               \* the requests whose statements may fail

Kinds == {"createAsset", "updateAsset", "deleteAsset",
          "createLabels", "deleteLabel", "setAssets"}
Parts == {"stigs", "labels", "assets"}

LinkRow == [by : Requests \cup {NULL}, of : Labels \cup Benchmarks, to : Assets, role : {0}]
LinkId == (Requests \cup {NULL}) \X (Labels \cup Benchmarks) \X Assets
AssetRow == [coll : Colls, enabled : BOOLEAN]

IsSequence(s) == s \in Seq({s[i] : i \in DOMAIN s})

\* at: the asset or label of the path, or the new asset.  coll: that of the
\* path, or the one that an update moves the asset to.  columns: the update
\* sets a column.  lists: the new stigs and labels of an asset, or the
\* assets of a label; in "createLabels" the new labels.  Items may be names
\* that nothing has.
OpType(o) ==
    /\ o.kind \in Kinds
    /\ o.kind \in {"createAsset", "updateAsset", "deleteAsset"} => o.at \in Assets
    /\ o.kind \in {"deleteLabel", "setAssets"} => o.at \in Labels
    /\ o.coll \in Colls \cup {NULL}
    /\ o.kind \in {"createAsset", "createLabels", "deleteLabel", "setAssets"} => o.coll \in Colls
    /\ o.columns \in BOOLEAN
    /\ IsSequence(o.lists)
    /\ \A i \in DOMAIN o.lists : o.lists[i].part \in Parts
    /\ o.kind = "createLabels" => o.lists # <<>> /\ o.lists[1].items \in Seq(Labels)
    /\ o.kind # "createLabels" =>
          \A i \in DOMAIN o.lists : o.lists[i].part = "assets" <=> o.kind = "setAssets"

\* The tables at first keep their constraints: a key once, and every link
\* from an asset to a benchmark or to a label of its collection.
TablesType(s) ==
    /\ s.asset \in [Assets -> AssetRow \cup {NULL}]
    /\ s.label \in [Labels -> Colls \cup {NULL}]
    /\ s.links \subseteq LinkRow
    /\ \A k, l \in s.links : Key(k) = Key(l) => k = l
    /\ \A l \in s.links : /\ l.by = NULL /\ s.asset[l.to] # NULL
                          /\ l.of \in Labels => s.label[l.of] = s.asset[l.to].coll

ASSUME AssetsAssumption ==
    /\ \A o \in Ops : OpType(o)
    /\ \A s \in AtFirst : TablesType(s)
    /\ Labels \cap Benchmarks = {} /\ Labels \cap Assets = {}
    /\ NULL \notin Assets \cup Labels \cup Colls \cup Requests
    /\ NULL \notin Ops /\ NULL \notin AssetRow

VARIABLES
    asset,      \* collection and state of each asset, or NULL
    label,      \* collection of each label, or NULL
    given,      \* the ids given out so far
    was,        \* history: the collections that an asset has been in
    pc, op, coll, todo, parts      \* the requests

rowVars == <<asset, label, given, was>>
localVars == <<op, coll, todo, parts>>
vars == <<linkVars, rowVars, pc, localVars>>

Finished == {"ok", "failed"}

TypeOK ==
    /\ LinksOK(LinkRow, Assets \cup Labels)
    /\ asset \in [Assets -> AssetRow \cup {NULL}]
    /\ label \in [Labels -> Colls \cup {NULL}]
    /\ given \subseteq Assets \cup Labels
    /\ was \in [Assets -> SUBSET Colls]
    /\ pc \in [Requests -> Finished \cup
                  {"idle", "get", "resolve", "begin", "part", "lookup", "clear", "check",
                   "insert", "reread", "disable", "createLabels", "drop", "cascade"}]
    /\ op \in [Requests -> Ops \cup {NULL}]
    /\ coll \in [Requests -> Colls \cup {NULL}]

Init ==
    /\ \E s \in AtFirst :
          /\ LinksInit(s.links)
          /\ asset = s.asset
          /\ label = s.label
    /\ given = {a \in Assets : asset[a] # NULL} \cup {l \in Labels : label[l] # NULL}
    /\ was = [a \in Assets |-> IF asset[a] = NULL THEN {} ELSE {asset[a].coll}]
    /\ pc = [r \in Requests |-> "idle"]
    /\ op = [r \in Requests |-> NULL]
    /\ coll = [r \in Requests |-> NULL]
    /\ todo = [r \in Requests |-> <<>>]
    /\ parts = [r \in Requests |-> <<>>]

Goto(r, here, there) == pc[r] = here /\ pc' = [pc EXCEPT ![r] = there]
Enabled(a) == a \in Assets /\ asset[a] # NULL /\ asset[a].enabled
IsLabel(e, c) == e \in Labels /\ label[e] = c /\ c # NULL

-----------------------------------------------------------------------------
(* Up to the transaction.                                                  *)

FirstStep(o) ==
    CASE o.kind = "createAsset" -> "resolve"
      [] o.kind \in {"updateAsset", "deleteAsset"} -> "get"
      [] o.kind = "setAssets" -> "begin"
      [] o.kind = "createLabels" -> "createLabels"
      [] o.kind = "deleteLabel" -> "drop"

NewIds(o) ==
    CASE o.kind = "createAsset" -> {o.at}
      [] o.kind = "createLabels" -> {o.lists[1].items[i] : i \in DOMAIN o.lists[1].items}
      [] OTHER -> {}

Receive(r, o) ==
    /\ Goto(r, "idle", FirstStep(o))
    /\ NewIds(o) \cap given = {}
    /\ given' = given \cup NewIds(o)
    /\ op' = [op EXCEPT ![r] = o]
    /\ coll' = [coll EXCEPT ![r] = o.coll]
    /\ todo' = [todo EXCEPT ![r] = IF o.kind = "createLabels" THEN o.lists[1].items ELSE <<>>]
    /\ parts' = [parts EXCEPT ![r] = IF o.kind = "createLabels" THEN <<>> ELSE o.lists]
    /\ UNCHANGED <<linkVars, asset, label, was>>

\* The handler reads the asset for its collection.
GetAsset(r) ==
    LET a == op[r].at
    IN /\ Goto(r, "get", IF ~Enabled(a) THEN "failed"
                         ELSE IF op[r].kind = "updateAsset" THEN "resolve" ELSE "disable")
       /\ coll' = [coll EXCEPT ![r] = IF Enabled(a) THEN asset[a].coll ELSE @]
       /\ UNCHANGED <<linkVars, rowVars, op, todo, parts>>

\* Names that no label of the collection has are dropped.
ResolveLabelNames(r) ==
    LET Known(i) == IsLabel(i, coll[r])
    IN /\ Goto(r, "resolve", "begin")
       /\ parts' = [parts EXCEPT ![r] =
              [i \in DOMAIN @ |->
                 IF @[i].part = "labels"
                 THEN [part |-> "labels", items |-> SelectSeq(@[i].items, Known)]
                 ELSE @[i]]]
       /\ UNCHANGED <<linkVars, rowVars, op, coll, todo>>

-----------------------------------------------------------------------------
(* The transactions of AssetRepo.Create, AssetRepo.Update and SetAssets.   *)

\* Mutant of Abort: no deferred Rollback, so that the transaction stays open.
AbortLeavesOpen(r) ==
    /\ pc' = [pc EXCEPT ![r] = "failed"]
    /\ UNCHANGED <<linkVars, rowVars, localVars>>
Abort(r) ==
    /\ pc' = [pc EXCEPT ![r] = "failed"]
    /\ Rollback(r)
    /\ UNCHANGED <<rowVars, localVars>>

Updates(o) == o.kind = "updateAsset" /\ o.columns

\* Mutant of CanBegin: the UPDATE does not ask for an enabled asset.
CanBeginAnyState(r) ==
    LET o == op[r]
    IN CASE Updates(o) -> asset[o.at] # NULL
         [] o.kind = "setAssets" -> IsLabel(o.at, o.coll)
         [] OTHER -> TRUE
CanBegin(r) ==
    LET o == op[r]
    IN CASE Updates(o) -> Enabled(o.at)
         [] o.kind = "setAssets" -> IsLabel(o.at, o.coll)
         [] OTHER -> TRUE

\* The first statement: INSERT or UPDATE of the asset, or a look at the label.
Begin(r) ==
    /\ Goto(r, "begin", IF CanBegin(r) THEN "part" ELSE "failed")
    /\ Updates(op[r]) => Updating(r, op[r].at) = {}
    /\ LockRows(r, IF Updates(op[r]) /\ CanBegin(r) THEN {op[r].at} ELSE {})
    /\ UNCHANGED <<rowVars, localVars>>

\* The stigs of a new asset are added, without a DELETE.
NextPart(r) ==
    /\ parts[r] # <<>>
    /\ LET part == Head(parts[r]).part
       IN Goto(r, "part", CASE part = "labels" /\ op[r].kind = "updateAsset" -> "lookup"
                            [] part = "stigs" /\ op[r].kind = "createAsset" -> "check"
                            [] OTHER -> "clear")
    /\ todo' = [todo EXCEPT ![r] = Head(parts[r]).items]
    /\ UNCHANGED <<linkVars, rowVars, op, coll, parts>>

\* The transaction sees its own UPDATE.
LookupCollection(r) ==
    LET o == op[r]
    IN /\ Goto(r, "lookup", "clear")
       /\ coll' = [coll EXCEPT ![r] = IF o.columns /\ o.coll # NULL THEN o.coll
                                      ELSE asset[o.at].coll]
       /\ UNCHANGED <<linkVars, rowVars, op, todo, parts>>

\* The links that a list of the asset or label e replaces.
InPart(e, part, l) ==
    CASE part = "stigs" -> l.to = e /\ l.of \in Benchmarks
      [] part = "labels" -> l.to = e /\ l.of \in Labels
      [] part = "assets" -> l.of = e
Part(e, part) == {l \in links : InPart(e, part, l)}

\* The DELETE starts, and, once nobody holds a row that it saw, ends.
ClearPart(r) ==
    /\ pc[r] = "clear" /\ parts[r] # <<>> /\ snap[r] = {}
    /\ StartDelete(r, Part(op[r].at, Head(parts[r]).part))
    /\ pc' = [pc EXCEPT ![r] = IF snap'[r] = {} THEN "check" ELSE "clear"]
    /\ UNCHANGED <<rowVars, localVars>>

PartCleared(r) ==
    /\ snap[r] # {}
    /\ Goto(r, "clear", "check")
    /\ FinishDelete(r)
    /\ UNCHANGED <<rowVars, localVars>>

\* Mutant of Suits: EXISTS without the collection.
SuitsAnyCollection(r, i) ==
    LET part == Head(parts[r]).part
    IN CASE part = "labels" -> i \in Labels /\ label[i] # NULL
         [] part = "assets" -> Enabled(i)
         [] part = "stigs" -> i \in Benchmarks
\* INSERT ... WHERE EXISTS: a label of the asset's collection, an enabled
\* asset of the label's; no row inserted is a conflict.  A benchmark is one
\* of the library's, or a foreign key is violated.
Suits(r, i) ==
    LET part == Head(parts[r]).part
    IN CASE part = "labels" -> IsLabel(i, coll[r])
         [] part = "assets" -> Enabled(i) /\ asset[i].coll = coll[r]
         [] part = "stigs" -> i \in Benchmarks
KeyOf(r, i) == IF Head(parts[r]).part = "assets" THEN <<op[r].at, i>> ELSE <<i, op[r].at>>

CheckItem(r) ==
    /\ pc[r] = "check" /\ todo[r] # <<>> /\ Suits(r, Head(todo[r]))
    /\ Goto(r, "check", "insert")
    /\ UNCHANGED <<linkVars, rowVars, localVars>>

CheckFails(r) ==
    /\ pc[r] = "check" /\ todo[r] # <<>> /\ ~Suits(r, Head(todo[r]))
    /\ Abort(r)

\* A benchmark that the asset has already is skipped (ON CONFLICT).
InsertItem(r) ==
    /\ pc[r] = "insert"
    /\ LET k == KeyOf(r, Head(todo[r]))
       IN /\ InsertWaits(r, k) = {}
          /\ k[1] \in Labels => label[k[1]] # NULL
          /\ IF Present(r, k)
             THEN k[1] \in Benchmarks /\ UNCHANGED linkVars
             ELSE InsertLink(r, Link(r, k[1], k[2], 0))
    /\ pc' = [pc EXCEPT ![r] = "check"]
    /\ todo' = [todo EXCEPT ![r] = Tail(@)]
    /\ UNCHANGED <<rowVars, op, coll, parts>>

\* A label that has gone since the check violates the foreign key; one that
\* is there already violates the primary key, or counts as a conflict.
InsertFails(r) ==
    /\ pc[r] = "insert"
    /\ LET k == KeyOf(r, Head(todo[r]))
       IN /\ InsertWaits(r, k) = {}
          /\ k[1] \in Labels /\ (label[k[1]] = NULL \/ Present(r, k))
    /\ Abort(r)

PartDone(r) ==
    /\ todo[r] = <<>>
    /\ Goto(r, "check", "part")
    /\ parts' = [parts EXCEPT ![r] = Tail(@)]
    /\ UNCHANGED <<linkVars, rowVars, op, coll, todo>>

\* The row as the transaction leaves it, for the others to see.
Commit(r) ==
    LET o == op[r]
        row == CASE o.kind = "createAsset" -> [coll |-> o.coll, enabled |-> TRUE]
                 [] Updates(o) /\ o.coll # NULL -> [asset[o.at] EXCEPT !.coll = o.coll]
                 [] OTHER -> asset[o.at]
    IN /\ parts[r] = <<>>
       /\ Goto(r, "part", IF o.kind = "updateAsset" THEN "reread" ELSE "ok")
       /\ CommitLinks(r)
       /\ IF o.at \in Assets
          THEN /\ asset' = [asset EXCEPT ![o.at] = row]
               /\ was' = [was EXCEPT ![o.at] = @ \cup {row.coll}]
          ELSE UNCHANGED <<asset, was>>
       /\ UNCHANGED <<label, given, localVars>>

Reread(r) ==
    /\ Goto(r, "reread", IF Enabled(op[r].at) THEN "ok" ELSE "failed")
    /\ UNCHANGED <<linkVars, rowVars, localVars>>

-----------------------------------------------------------------------------
(* Single statements.                                                      *)

DisableAsset(r) ==
    LET a == op[r].at
    IN /\ Goto(r, "disable", IF Enabled(a) THEN "ok" ELSE "failed")
       /\ Updating(r, a) = {}
       /\ asset' = [asset EXCEPT ![a].enabled = FALSE]
       /\ UNCHANGED <<linkVars, label, given, was, localVars>>

\* One statement per label of the body.
CreateLabel(r) ==
    /\ pc[r] = "createLabels"
    /\ IF todo[r] = <<>>
       THEN Goto(r, "createLabels", "ok") /\ UNCHANGED <<label, todo>>
       ELSE /\ label' = [label EXCEPT ![Head(todo[r])] = op[r].coll]
            /\ todo' = [todo EXCEPT ![r] = Tail(@)]
            /\ UNCHANGED pc
    /\ UNCHANGED <<linkVars, asset, given, was, op, coll, parts>>

DeleteLabel(r) ==
    LET found == IsLabel(op[r].at, op[r].coll)
    IN /\ Goto(r, "drop", IF found THEN "cascade" ELSE "failed")
       /\ DropWaits(r, op[r].at) = {}
       /\ StartDrop(r, IF found THEN {op[r].at} ELSE {})
       /\ UNCHANGED <<rowVars, localVars>>

CascadeLabel(r) ==
    /\ Goto(r, "cascade", "ok")
    /\ HasDeleted(r, op[r].at) = {}
    /\ FinishDrop(r, {l \in links : l.of = op[r].at})
    /\ label' = [label EXCEPT ![op[r].at] = NULL]
    /\ UNCHANGED <<asset, given, was, localVars>>

-----------------------------------------------------------------------------
(* Statements that fail, and waits.                                        *)

\* A statement fails, or the client goes away.
Fault(r) ==
    /\ r \in Faulty
    /\ pc[r] \notin {"idle"} \cup Finished
    /\ Abort(r)

\* The requests that the next statement of r waits for, unless r holds
\* nothing that others could wait for.
WaitsFor(r) ==
    CASE pc[r] = "clear" -> HoldRows(r, snap[r])
      [] pc[r] = "insert" -> InsertWaits(r, KeyOf(r, Head(todo[r])))
      [] pc[r] = "cascade" -> HasDeleted(r, op[r].at)
      [] OTHER -> {}

Deadlock(r) == Deadlocked(r, [q \in Requests |-> WaitsFor(q)]) /\ Abort(r)

Step(r) ==
    \/ GetAsset(r) \/ ResolveLabelNames(r) \/ Begin(r) \/ NextPart(r) \/ LookupCollection(r)
    \/ ClearPart(r) \/ PartCleared(r) \/ CheckItem(r) \/ CheckFails(r)
    \/ InsertItem(r) \/ InsertFails(r) \/ PartDone(r) \/ Commit(r) \/ Reread(r)
    \/ DisableAsset(r) \/ CreateLabel(r) \/ DeleteLabel(r) \/ CascadeLabel(r)
    \/ Deadlock(r)

AllDone == (\A r \in Requests : pc[r] \in Finished) /\ UNCHANGED vars

Next ==
    \/ \E r \in Requests : Step(r) \/ Fault(r) \/ \E o \in Ops : Receive(r, o)
    \/ AllDone

Spec == Init /\ [][Next]_vars

\* Every request is a goroutine that runs its handler to the end.
FairSpec == Spec /\ \A r \in Requests : WF_vars(Step(r))

-----------------------------------------------------------------------------
(* Properties.                                                             *)

\* An asset gets the labels of a collection only while it is in it: moves,
\* deletes of labels and assignments from both sides may meet
\* (assets.go:418, labels.go:199).
LabelsOfOwnCollections ==
    \A l \in links : l.of \in Labels => label[l.of] \in was[l.to]

\* A deleted asset stays as it was: an update that waits for the delete, or
\* was decided before it, does not change the row (assets.go:281).
DeletedStay ==
    [][\A a \in Assets : asset[a] # NULL /\ ~asset[a].enabled => asset'[a] = asset[a]]_vars

\* Two updates that both set a column of an asset replace its lists one
\* after the other: what is in a list comes from one of them (assets.go:230).
OneListAtATime ==
    \A k, l \in links :
       ( /\ {k.by, l.by} \subseteq Requests /\ k.by # l.by /\ k.to = l.to
         /\ Updates(op[k.by]) /\ Updates(op[l.by]) )
       => \A part \in {"stigs", "labels"} : ~({k, l} \subseteq Part(k.to, part))

\* What is committed in the tables of assets and labels is sound after every
\* statement: rows of their types, lists that one update has written, and
\* labels of collections that the asset is or was in.
TablesAgree == TypeOK /\ OneListAtATime /\ LabelsOfOwnCollections

\* Every request is answered, although updates of assets and of labels
\* delete and insert the same rows from two sides.
RequestsFinish == \A r \in Requests : pc[r] # "idle" ~> pc[r] \in Finished
=============================================================================
