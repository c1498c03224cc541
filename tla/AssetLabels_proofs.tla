-------------------------- MODULE AssetLabels_proofs --------------------------
(***************************************************************************)
(* Proofs about AssetLabels for any assets, labels, benchmarks, requests   *)
(* and bodies, with failing statements and deadlocks: the tables agree     *)
(* after every step, and a deleted asset stays as it was.                  *)
(***************************************************************************)
EXTENDS AssetLabels, TLAPS

(***************************************************************************)
(* The invariant, part by part.                                            *)
(***************************************************************************)

\* The types of all variables.
Shapes ==
    /\ links \subseteq LinkRow
    /\ dead \in [Requests -> SUBSET LinkId] /\ snap \in [Requests -> SUBSET LinkId]
    /\ added \in [Requests -> SUBSET LinkRow]
    /\ locked \in [Requests -> SUBSET (Assets \cup Labels)]
    /\ dropping \in [Requests -> SUBSET (Assets \cup Labels)]
    /\ asset \in [Assets -> AssetRow \cup {NULL}] /\ label \in [Labels -> Colls \cup {NULL}]
    /\ given \subseteq Assets \cup Labels /\ was \in [Assets -> SUBSET Colls]
    /\ op \in [Requests -> Ops \cup {NULL}] /\ coll \in [Requests -> Colls \cup {NULL}]
    /\ todo = [r \in Requests |-> todo[r]] /\ parts = [r \in Requests |-> parts[r]]
    /\ \A r \in Requests : IsSequence(parts[r])

\* Requests that change assets or links in a transaction, and those that are in it.
Changes == {"createAsset", "updateAsset", "setAssets"}
InTx(r) == pc[r] \in {"part", "lookup", "clear", "check", "insert"}

\* What the list in hand replaces: stigs, labels, or the assets of a label.
InHand(r) == Head(parts[r]).part

\* What a request at each step of a handler has asked for, and the list that
\* it has in hand.
Stage ==
    /\ pc \in [Requests -> Finished \cup
                  {"idle", "get", "resolve", "begin", "part", "lookup", "clear", "check",
                   "insert", "reread", "disable", "createLabels", "drop", "cascade"}]
    /\ \A r \in Requests :
          /\ pc[r] = "idle" <=> op[r] = NULL
          /\ pc[r] = "get" => op[r].kind \in {"updateAsset", "deleteAsset"}
          /\ pc[r] = "resolve" => op[r].kind \in {"createAsset", "updateAsset"}
          /\ pc[r] = "begin" \/ InTx(r) => op[r].kind \in Changes
          /\ pc[r] \in {"lookup", "reread"} => op[r].kind = "updateAsset"
          /\ pc[r] = "disable" => op[r].kind = "deleteAsset"
          /\ pc[r] = "createLabels" => op[r].kind = "createLabels" /\ todo[r] \in Seq(NewIds(op[r]))
          /\ pc[r] \in {"drop", "cascade"} => op[r].kind = "deleteLabel"
          /\ op[r] # NULL => \A i \in DOMAIN parts[r] :
                /\ parts[r][i].part \in Parts
                /\ parts[r][i].part = "assets" <=> op[r].kind = "setAssets"
          /\ pc[r] \in {"lookup", "clear", "check", "insert"} => parts[r] # <<>>
          /\ pc[r] = "lookup" => InHand(r) = "labels"
          /\ pc[r] = "insert" =>
                /\ InHand(r) = "labels" => Head(todo[r]) \in Labels
                /\ InHand(r) = "stigs" => Head(todo[r]) \in Benchmarks
                /\ InHand(r) = "assets" => Head(todo[r]) \in Assets

\* What a request holds, by where it is: only a change has a transaction open,
\* and has locked the row that it updates; only a delete is dropping a label.
Holds ==
    \A r \in Requests :
       /\ ~InTx(r) => dead[r] = {} /\ added[r] = {} /\ locked[r] = {}
       /\ InTx(r) /\ Updates(op[r]) => op[r].at \in locked[r]
       /\ snap[r] # {} => pc[r] = "clear"
       /\ dropping[r] = (IF pc[r] = "cascade" THEN {op[r].at} ELSE {})

\* r creates an asset, or has created one.
Creates(r) == op[r] # NULL /\ op[r].kind = "createAsset"

\* Assets: one that a request creates is nobody else's, one that a request
\* changes is there, and stays enabled while its row is locked.
AssetsInv ==
    /\ \A a \in Assets : asset[a] # NULL => a \in given /\ asset[a].coll \in was[a]
    /\ \A r \in Requests : Creates(r) =>
          /\ op[r].at \in given
          /\ pc[r] \in {"resolve", "begin"} \/ InTx(r) => asset[op[r].at] = NULL
          /\ \A q \in Requests \ {r} : Creates(q) => op[q].at # op[r].at
    /\ \A r \in Requests :
          /\ pc[r] = "disable" => asset[op[r].at] # NULL
          /\ (pc[r] \in {"resolve", "begin"} \/ InTx(r)) /\ op[r].kind = "updateAsset" => asset[op[r].at] # NULL
          /\ InTx(r) /\ Updates(op[r]) => Enabled(op[r].at)

\* A label that is, was or will be one of collection c.
Made(e, c) ==
    /\ e \in given
    /\ label[e] \in {c, NULL}
    /\ \A q \in Requests : op[q] # NULL /\ op[q].kind = "createLabels" /\ e \in NewIds(op[q]) => op[q].coll = c

\* The collections that the asset of request r has been in, with the one that
\* it is in when r commits.
Homes(r) ==
    was[op[r].at] \cup
       (IF op[r].kind = "createAsset" \/ (Updates(op[r]) /\ op[r].coll # NULL) THEN {op[r].coll} ELSE {})

\* The collection that the items in hand of r have to be of, while they are
\* checked and inserted.
Chosen(r) ==
    /\ op[r].kind \in {"createAsset", "setAssets"} => coll[r] = op[r].coll
    /\ pc[r] # "begin" /\ op[r].kind = "setAssets" => Made(op[r].at, coll[r])
    /\ (pc[r] \in {"clear", "check", "insert"} /\ InHand(r) = "labels") => coll[r] \in Homes(r)
    /\ pc[r] = "insert" /\ InHand(r) = "labels" => Made(Head(todo[r]), coll[r])
    /\ pc[r] = "insert" /\ InHand(r) = "assets" => coll[r] \in was[Head(todo[r])]

\* The labels that r creates, while it creates them and after.
MakesLabels(r) ==
    op[r] # NULL /\ op[r].kind = "createLabels" => \A e \in NewIds(op[r]) : Made(e, op[r].coll)

\* What r has inserted links labels that are there, that nobody is deleting, and
\* that are of a collection that the asset is in, or is in with the link.
LinksLabels(r) ==
    \A l \in added[r] :
       /\ op[r].kind # "setAssets" => l.to = op[r].at
       /\ l.of \in Labels =>
             /\ label[l.of] # NULL
             /\ label[l.of] \in IF op[r].kind = "setAssets" THEN was[l.to] ELSE Homes(r)
             /\ \A q \in Requests : l.of \notin dropping[q]

\* r knows the collection of its items from where it checks them.
ChecksLabels(r) ==
    /\ Creates(r) /\ pc[r] = "resolve" => coll[r] = op[r].coll
    /\ pc[r] = "begin" \/ InTx(r) => Chosen(r)

\* Labels: one that is linked is of a collection that the asset has been in.
LabelsInv ==
    /\ LabelsOfOwnCollections
    /\ \A e \in Labels : label[e] # NULL => Made(e, label[e])
    /\ \A r \in Requests : MakesLabels(r) /\ LinksLabels(r) /\ ChecksLabels(r)

\* Links: a key stands in the table once, a request has written none before it
\* commits, and what open transactions have deleted and inserted does not meet.
LinksInv ==
    /\ \A k, l \in links : Key(k) = Key(l) => k = l
    /\ \A r \in Requests : pc[r] \in {"idle", "get", "resolve", "begin"} \/ InTx(r) => \A l \in links : l.by # r
    /\ \A r \in Requests : dead[r] \subseteq Ids(links)
    /\ \A r, q \in Requests : r # q => dead[r] \cap dead[q] = {}
    /\ \A r \in Requests : \A k, l \in added[r] : Key(k) = Key(l) => k = l
    /\ \A r, q \in Requests : r # q => \A k \in added[r], l \in added[q] : Key(k) # Key(l)
    /\ \A r \in Requests : \A l \in added[r] :
          /\ l.by = r
          /\ \A k \in links : Key(k) = Key(l) => Id(k) \in dead[r]

\* Two updates that set a column of the same asset.
Rivals(r, q) ==
    /\ r # q /\ op[r] # NULL /\ op[q] # NULL
    /\ Updates(op[r]) /\ Updates(op[q]) /\ op[r].at = op[q].at

\* Request r has seen, and then deleted, whatever links of q stand in the list
\* in which it inserts its own.
Replaces(r, q) ==
    \A k \in links, part \in {"stigs", "labels"} : (k.by = q /\ InPart(op[r].at, part, k)) =>
       /\ \A l \in added[r] : InPart(op[r].at, part, l) => Id(k) \in dead[r]
       /\ pc[r] = "clear" /\ snap[r] # {} /\ InHand(r) = part => Id(k) \in snap[r]
       /\ pc[r] \in {"check", "insert"} /\ InHand(r) = part => Id(k) \in dead[r]

\* Lists: the links of an update are to its asset; of two rivals one has its
\* transaction at a time, and replaces what the other has written.
ListsInv ==
    /\ OneListAtATime
    /\ \A l \in links : l.by \in Requests /\ Updates(op[l.by]) => l.to = op[l.by].at
    /\ \A r, q \in Requests : Rivals(r, q) => ~(InTx(r) /\ InTx(q)) /\ Replaces(r, q)

\* The whole of it, which every step keeps.
Inv == Shapes /\ Stage /\ Holds /\ AssetsInv /\ LabelsInv /\ LinksInv /\ ListsInv

(***************************************************************************)
(* Sequences, requests and the steps they take.                            *)
(***************************************************************************)

\* The first of a sequence and the others.
LEMMA HeadAndTail ==
  ASSUME NEW S, NEW s \in Seq(S), s # <<>>
  PROVE  /\ Head(s) \in S /\ Tail(s) \in Seq(S)
         /\ Head(s) = s[1] /\ 1 \in DOMAIN s
         /\ \A j \in DOMAIN Tail(s) : \E i \in DOMAIN s : s[i] = Tail(s)[j]
<1>1. Head(s) \in S /\ Tail(s) \in Seq(S) /\ Head(s) = s[1] /\ 1 \in DOMAIN s
  OBVIOUS
<1>2. ASSUME NEW j \in DOMAIN Tail(s) PROVE j + 1 \in DOMAIN s /\ s[j + 1] = Tail(s)[j]
  BY <1>2
<1> QED
  BY <1>1, <1>2

\* A function on 1..n is a sequence of its own values.
LEMMA FunctionIsSequence ==
  ASSUME NEW n \in Nat, NEW f, f = [i \in 1..n |-> f[i]]
  PROVE  IsSequence(f)
<1> DEFINE S == {f[i] : i \in DOMAIN f}
<1>1. f \in [1..n -> S]
  OBVIOUS
<1>2. [1..n -> S] \subseteq Seq(S)
  <2> HIDE DEF S
  <2> QED
    OBVIOUS
<1> QED
  BY <1>1, <1>2 DEF IsSequence

\* The rest of a sequence is one.
LEMMA TailIsSequence ==
  ASSUME NEW s, IsSequence(s), s # <<>>
  PROVE  /\ IsSequence(Tail(s)) /\ Head(s) = s[1] /\ 1 \in DOMAIN s
         /\ \A j \in DOMAIN Tail(s) : \E i \in DOMAIN s : s[i] = Tail(s)[j]
<1> DEFINE S == {s[i] : i \in DOMAIN s}
<1>1. s \in Seq(S)
  BY DEF IsSequence
<1> HIDE DEF S
<1>2. Tail(s) \in Seq(S)
  BY <1>1, HeadAndTail
<1>3. IsSequence(Tail(s))
  <2>1. ASSUME NEW t \in Seq(S)
        PROVE  Len(t) \in Nat /\ DOMAIN t = 1..Len(t) /\ t = [i \in DOMAIN t |-> t[i]]
    OBVIOUS
  <2>2. ASSUME NEW t \in Seq(S) PROVE IsSequence(t)
    BY <2>1, FunctionIsSequence
  <2> QED
    BY <1>2, <2>2
<1> QED
  BY <1>1, <1>3, HeadAndTail

\* What a request that has arrived asks for has the form of a body.
LEMMA Asks ==
  ASSUME Shapes, Stage, NEW r \in Requests, pc[r] # "idle"
  PROVE  op[r] \in Ops /\ op[r] # NULL /\ OpType(op[r])
BY AssetsAssumption DEF Shapes, Stage

\* The row that a change names.
LEMMA AsksFor ==
  ASSUME Shapes, Stage, NEW r \in Requests, pc[r] \in {"get", "resolve", "begin", "reread", "disable"} \/ InTx(r)
  PROVE  /\ op[r].kind \in {"createAsset", "updateAsset", "deleteAsset"} => op[r].at \in Assets
         /\ op[r].kind \in {"createAsset", "setAssets"} => op[r].coll \in Colls
         /\ op[r].kind = "setAssets" => op[r].at \in Labels /\ op[r].at \notin Assets
         /\ op[r].coll \in Colls \cup {NULL}
<1>1. OpType(op[r])
  BY Asks DEF InTx
<1> QED
  BY <1>1, AssetsAssumption DEF OpType

\* Statements of which only the answer matters, and what goes on with it in the
\* memory of the handler.
Looks(r) ==
    \/ GetAsset(r) \/ ResolveLabelNames(r) \/ NextPart(r) \/ LookupCollection(r) \/ CheckItem(r)
    \/ PartDone(r) \/ Reread(r)

\* They move the request on, inside its transaction or outside.
LEMMA LookMoves ==
  ASSUME Shapes, Stage, NEW r \in Requests, Looks(r)
  PROVE  /\ UNCHANGED <<linkVars, rowVars, op>>
         /\ pc[r] \in {"get", "resolve", "part", "lookup", "check", "reread"}
         /\ \A q \in Requests \ {r} : coll'[q] = coll[q] /\ todo'[q] = todo[q] /\ parts'[q] = parts[q]
         /\ \E there \in {"ok", "failed", "resolve", "disable", "begin", "part", "lookup", "clear",
                          "check", "insert"} :
               /\ pc' = [pc EXCEPT ![r] = there]
               /\ there \in {"part", "lookup", "clear", "check", "insert"} <=> InTx(r)
               /\ there \in {"resolve", "disable"} => pc[r] = "get" /\ Enabled(op[r].at)
               /\ there = "resolve" => op[r].kind = "updateAsset"
               /\ there = "disable" => op[r].kind = "deleteAsset"
               /\ there = "begin" => pc[r] = "resolve"
<1> USE DEF Finished, Goto, InTx, Shapes, localVars
<1>1. CASE GetAsset(r)
  BY <1>1 DEF GetAsset, Stage
<1>2. CASE ResolveLabelNames(r)
  <2>1. UNCHANGED <<linkVars, rowVars, op, coll, todo>> /\ pc[r] = "resolve" /\ pc' = [pc EXCEPT ![r] = "begin"]
        /\ \A q \in Requests \ {r} : parts'[q] = parts[q]
    BY <1>2, Zenon DEF ResolveLabelNames
  <2> QED
    BY <2>1
<1>3. CASE NextPart(r)
  BY <1>3 DEF NextPart
<1>4. CASE LookupCollection(r)
  BY <1>4 DEF LookupCollection
<1>5. CASE CheckItem(r)
  BY <1>5 DEF CheckItem
<1>6. CASE PartDone(r)
  BY <1>6 DEF PartDone
<1>7. CASE Reread(r)
  BY <1>7 DEF Reread
<1> QED
  BY <1>1, <1>2, <1>3, <1>4, <1>5, <1>6, <1>7 DEF Looks

\* A transaction, or the statements of a request, given up.
GivesUp(r) == pc[r] \notin {"idle"} \cup Finished /\ Abort(r)

\* Only statements that delete or insert links wait in a cycle.
LEMMA WaitersInTx ==
  ASSUME NEW r \in Requests, Deadlock(r)
  PROVE  pc[r] \in {"clear", "insert", "cascade"}
<1>1. WaitsFor(r) # {}
  BY DEF Deadlock, Deadlocked
<1> QED
  BY <1>1 DEF WaitsFor

\* The steps of a request.
LEMMA StepCases ==
  ASSUME NEW r \in Requests, Step(r) \/ Fault(r)
  PROVE  \/ Looks(r) \/ GivesUp(r) \/ Begin(r) \/ ClearPart(r) \/ PartCleared(r) \/ InsertItem(r)
         \/ Commit(r) \/ DisableAsset(r) \/ CreateLabel(r) \/ DeleteLabel(r) \/ CascadeLabel(r)
<1>1. Deadlock(r) => GivesUp(r)
  BY WaitersInTx DEF Deadlock, GivesUp, Finished
<1>2. Fault(r) => GivesUp(r)
  BY DEF Fault, GivesUp
<1>3. InsertFails(r) \/ CheckFails(r) => GivesUp(r)
  BY DEF InsertFails, CheckFails, GivesUp, Finished
<1> QED
  BY <1>1, <1>2, <1>3 DEF Step, Looks

(***************************************************************************)
(* Types.                                                                  *)
(***************************************************************************)

\* Names that are resolved leave the lists as they are but for their items.
LEMMA ResolvedParts ==
  ASSUME Shapes, NEW r \in Requests, ResolveLabelNames(r)
  PROVE  /\ parts' = [parts EXCEPT ![r] = parts'[r]]
         /\ IsSequence(parts'[r])
         /\ \A i \in DOMAIN parts'[r] : i \in DOMAIN parts[r] /\ parts'[r][i].part = parts[r][i].part
         /\ parts'[r] = <<>> <=> parts[r] = <<>>
<1> DEFINE old == parts[r]
           Known(i) == IsLabel(i, coll[r])
           Kept(i) == IF old[i].part = "labels"
                      THEN [part |-> "labels", items |-> SelectSeq(old[i].items, Known)]
                      ELSE old[i]
           new == [i \in DOMAIN old |-> Kept(i)]
<1>1. parts' = [parts EXCEPT ![r] = new]
  BY Zenon DEF ResolveLabelNames
<1>2. \A i \in DOMAIN old : Kept(i).part = old[i].part
  OBVIOUS
<1> HIDE DEF Kept
<1>3. old \in Seq({old[i] : i \in DOMAIN old})
  BY DEF Shapes, IsSequence
<1>4. Len(old) \in Nat /\ DOMAIN old = 1..Len(old)
  BY <1>3
<1>5. IsSequence(new)
  BY <1>4, FunctionIsSequence
<1>6. parts'[r] = new
  BY <1>1 DEF Shapes
<1>7. \A i \in DOMAIN new : i \in DOMAIN old /\ new[i].part = old[i].part
  BY <1>2
<1>8. new = <<>> <=> old = <<>>
  <2>1. DOMAIN new = DOMAIN old
    OBVIOUS
  <2>2. ASSUME NEW s, IsSequence(s) PROVE s = <<>> <=> DOMAIN s = {}
    <3> DEFINE S == {s[i] : i \in DOMAIN s}
    <3>1. s \in Seq(S)
      BY <2>2 DEF IsSequence
    <3> HIDE DEF S
    <3> QED
      BY <3>1
  <2>3. IsSequence(old)
    BY DEF Shapes
  <2> HIDE DEF new, old
  <2> QED
    BY <1>5, <2>1, <2>2, <2>3
<1> HIDE DEF new, old
<1> QED
  BY <1>1, <1>5, <1>6, <1>7, <1>8 DEF old

\* Reads and lists in memory.
LEMMA LookShapes ==
  ASSUME Shapes, Stage, AssetsInv, NEW r \in Requests, Looks(r)
  PROVE  Shapes'
<1>1. UNCHANGED <<linkVars, rowVars, op>>
  BY LookMoves
<1>2. SUFFICES /\ coll' \in [Requests -> Colls \cup {NULL}]
               /\ todo' = [q \in Requests |-> todo'[q]] /\ parts' = [q \in Requests |-> parts'[q]]
               /\ \A q \in Requests : IsSequence(parts'[q])
  BY <1>1 DEF Shapes, linkVars, rowLocks, rowVars
<1>3. CASE ResolveLabelNames(r)
  <2>1. UNCHANGED <<coll, todo>>
    BY <1>3, Zenon DEF ResolveLabelNames
  <2>2. parts' = [parts EXCEPT ![r] = parts'[r]] /\ IsSequence(parts'[r])
    BY <1>3, ResolvedParts
  <2>3. \A q \in Requests \ {r} : parts'[q] = parts[q]
    BY LookMoves
  <2>4. \A q \in Requests : IsSequence(parts'[q])
    BY <2>2, <2>3 DEF Shapes
  <2>5. DOMAIN parts' = Requests /\ parts' = [q \in DOMAIN parts' |-> parts'[q]]
    BY <2>2 DEF Shapes
  <2> QED
    BY <2>1, <2>4, <2>5 DEF Shapes
<1>4. CASE PartDone(r)
  <2>1. UNCHANGED <<coll, todo>> /\ parts' = [parts EXCEPT ![r] = Tail(parts[r])] /\ parts[r] # <<>>
    BY <1>4 DEF PartDone, Goto, Stage
  <2>2. IsSequence(Tail(parts[r]))
    BY <2>1, TailIsSequence DEF Shapes
  <2> QED
    BY <2>1, <2>2 DEF Shapes
<1>5. CASE GetAsset(r)
  <2>1. UNCHANGED <<todo, parts>>
        /\ coll' = [coll EXCEPT ![r] = IF Enabled(op[r].at) THEN asset[op[r].at].coll ELSE @]
    BY <1>5 DEF GetAsset
  <2>2. op[r].at \in Assets
    BY <1>5, AsksFor DEF GetAsset, Goto, Stage
  <2>3. Enabled(op[r].at) => asset[op[r].at].coll \in Colls
    BY <2>2 DEF Enabled, Shapes, AssetRow
  <2> QED
    BY <2>1, <2>3 DEF Shapes
<1>6. CASE LookupCollection(r)
  <2>1. /\ UNCHANGED <<todo, parts>>
        /\ coll' = [coll EXCEPT ![r] = IF op[r].columns /\ op[r].coll # NULL THEN op[r].coll
                                       ELSE asset[op[r].at].coll]
    BY <1>6 DEF LookupCollection
  <2>2. op[r].at \in Assets /\ op[r].coll \in Colls \cup {NULL}
    BY <1>6, AsksFor DEF LookupCollection, Goto, Stage, InTx
  <2>3. asset[op[r].at].coll \in Colls
    <3>1. asset[op[r].at] # NULL
      BY <1>6 DEF LookupCollection, Goto, Stage, AssetsInv, InTx
    <3> QED
      BY <2>2, <3>1 DEF Shapes, AssetRow
  <2> QED
    BY <2>1, <2>2, <2>3 DEF Shapes
<1>7. CASE NextPart(r)
  BY <1>7 DEF NextPart, Shapes
<1>8. CASE CheckItem(r) \/ Reread(r)
  BY <1>8 DEF CheckItem, Reread, localVars, Shapes
<1> QED
  BY <1>3, <1>4, <1>5, <1>6, <1>7, <1>8 DEF Looks

\* What is in hand when the step of a request changes, and the others go on as
\* they were.
LEMMA StageFrame ==
  ASSUME Stage, NEW r \in Requests, op' = op,
         \A q \in Requests \ {r} : todo'[q] = todo[q] /\ parts'[q] = parts[q],
         NEW there, pc' = [pc EXCEPT ![r] = there], pc[r] # "idle",
         there \in Finished \cup {"resolve", "begin", "part", "lookup", "clear", "check", "insert",
                                  "reread", "disable", "createLabels", "cascade"},
         there = "resolve" => op[r].kind \in {"createAsset", "updateAsset"},
         there \in {"begin", "part", "lookup", "clear", "check", "insert"} => op[r].kind \in Changes,
         there \in {"lookup", "reread"} => op[r].kind = "updateAsset",
         there = "disable" => op[r].kind = "deleteAsset",
         there = "createLabels" => op[r].kind = "createLabels" /\ todo'[r] \in Seq(NewIds(op[r])),
         there = "cascade" => op[r].kind = "deleteLabel",
         \A i \in DOMAIN parts'[r] : /\ parts'[r][i].part \in Parts
                                     /\ parts'[r][i].part = "assets" <=> op[r].kind = "setAssets",
         there \in {"lookup", "clear", "check", "insert"} => parts'[r] # <<>>,
         there = "lookup" => InHand(r)' = "labels",
         there = "insert" => /\ InHand(r)' = "labels" => Head(todo'[r]) \in Labels
                             /\ InHand(r)' = "stigs" => Head(todo'[r]) \in Benchmarks
                             /\ InHand(r)' = "assets" => Head(todo'[r]) \in Assets
  PROVE  Stage'
<1>1. pc' \in [Requests -> Finished \cup
                  {"idle", "get", "resolve", "begin", "part", "lookup", "clear", "check",
                   "insert", "reread", "disable", "createLabels", "drop", "cascade"}]
  BY DEF Stage
<1>2. pc'[r] = there /\ \A q \in Requests \ {r} : pc'[q] = pc[q]
  BY DEF Stage
<1> DEFINE Good(q) ==
             /\ pc[q] = "idle" <=> op[q] = NULL
             /\ pc[q] = "get" => op[q].kind \in {"updateAsset", "deleteAsset"}
             /\ pc[q] = "resolve" => op[q].kind \in {"createAsset", "updateAsset"}
             /\ pc[q] = "begin" \/ InTx(q) => op[q].kind \in Changes
             /\ pc[q] \in {"lookup", "reread"} => op[q].kind = "updateAsset"
             /\ pc[q] = "disable" => op[q].kind = "deleteAsset"
             /\ pc[q] = "createLabels" => op[q].kind = "createLabels" /\ todo[q] \in Seq(NewIds(op[q]))
             /\ pc[q] \in {"drop", "cascade"} => op[q].kind = "deleteLabel"
             /\ op[q] # NULL => \A i \in DOMAIN parts[q] :
                   /\ parts[q][i].part \in Parts
                   /\ parts[q][i].part = "assets" <=> op[q].kind = "setAssets"
             /\ pc[q] \in {"lookup", "clear", "check", "insert"} => parts[q] # <<>>
             /\ pc[q] = "lookup" => InHand(q) = "labels"
             /\ pc[q] = "insert" =>
                   /\ InHand(q) = "labels" => Head(todo[q]) \in Labels
                   /\ InHand(q) = "stigs" => Head(todo[q]) \in Benchmarks
                   /\ InHand(q) = "assets" => Head(todo[q]) \in Assets
<1>3. \A q \in Requests : Good(q)
  BY DEF Stage
<1>4. ASSUME NEW q \in Requests \ {r} PROVE Good(q)'
  <2>1. Good(q) /\ pc'[q] = pc[q] /\ todo'[q] = todo[q] /\ parts'[q] = parts[q]
    BY <1>2, <1>3
  <2> QED
    BY <2>1 DEF InTx, InHand
<1>5. Good(r)'
  <2>1. op[r] # NULL
    BY <1>3
  <2> QED
    BY <1>2, <2>1 DEF InTx, InHand, Finished
<1> QED
  BY <1>1, <1>4, <1>5 DEF Stage

\* The part of the list in hand is one of those that the kind of request has.
LEMMA PartInHand ==
  ASSUME Shapes, Stage, NEW r \in Requests, pc[r] # "idle", parts[r] # <<>>
  PROVE  /\ InHand(r) \in Parts
         /\ InHand(r) = "assets" <=> op[r].kind = "setAssets"
<1>1. Head(parts[r]) = parts[r][1] /\ 1 \in DOMAIN parts[r] /\ op[r] # NULL
  BY TailIsSequence DEF Shapes, Stage
<1> QED
  BY <1>1 DEF Stage, InHand

\* A request that looks comes to a step that is of its kind.
LEMMA LookStage ==
  ASSUME Shapes, Stage, NEW r \in Requests, Looks(r)
  PROVE  Stage'
<1> USE DEF Goto, Finished
<1>1. /\ op' = op /\ pc[r] # "idle" /\ op[r] # NULL
      /\ \A q \in Requests \ {r} : todo'[q] = todo[q] /\ parts'[q] = parts[q]
  BY LookMoves DEF Stage
<1>2. \A i \in DOMAIN parts[r] : /\ parts[r][i].part \in Parts
                                 /\ parts[r][i].part = "assets" <=> op[r].kind = "setAssets"
  BY <1>1 DEF Stage
<1>3. CASE GetAsset(r)
  <2>1. /\ parts' = parts /\ op[r].kind \in {"updateAsset", "deleteAsset"}
        /\ \E there \in {"failed", "resolve", "disable"} :
              /\ pc' = [pc EXCEPT ![r] = there]
              /\ there = "resolve" => op[r].kind = "updateAsset"
              /\ there = "disable" => op[r].kind = "deleteAsset"
    BY <1>3 DEF GetAsset, Stage
  <2> QED
    BY <1>1, <1>2, <2>1, StageFrame
<1>4. CASE ResolveLabelNames(r)
  <2>1. pc' = [pc EXCEPT ![r] = "begin"] /\ op[r].kind \in Changes
    BY <1>4, Zenon DEF ResolveLabelNames, Stage, Changes
  <2>2. \A i \in DOMAIN parts'[r] : /\ parts'[r][i].part \in Parts
                                    /\ parts'[r][i].part = "assets" <=> op[r].kind = "setAssets"
    BY <1>2, <1>4, ResolvedParts
  <2> QED
    BY <1>1, <2>1, <2>2, StageFrame
<1>5. CASE NextPart(r)
  <2>1. /\ parts' = parts /\ parts[r] # <<>> /\ op[r].kind \in Changes
        /\ \E there \in {"lookup", "check", "clear"} :
              /\ pc' = [pc EXCEPT ![r] = there]
              /\ there = "lookup" => op[r].kind = "updateAsset" /\ InHand(r)' = "labels"
    BY <1>5 DEF NextPart, Stage, InTx, InHand
  <2> QED
    BY <1>1, <1>2, <2>1, StageFrame
<1>6. CASE LookupCollection(r)
  <2>1. parts' = parts /\ parts[r] # <<>> /\ op[r].kind \in Changes /\ pc' = [pc EXCEPT ![r] = "clear"]
    BY <1>6 DEF LookupCollection, Stage, InTx
  <2> QED
    BY <1>1, <1>2, <2>1, StageFrame
<1>7. CASE CheckItem(r)
  <2>1. /\ UNCHANGED <<todo, parts>> /\ parts[r] # <<>> /\ op[r].kind \in Changes
        /\ pc' = [pc EXCEPT ![r] = "insert"]
    BY <1>7 DEF CheckItem, Stage, InTx, localVars
  <2>2. /\ InHand(r) = "labels" => Head(todo[r]) \in Labels
        /\ InHand(r) = "stigs" => Head(todo[r]) \in Benchmarks
    BY <1>7 DEF CheckItem, Suits, InHand, IsLabel
  <2>3. InHand(r) = "assets" => Head(todo[r]) \in Assets
    BY <1>7 DEF CheckItem, Suits, InHand, Enabled
  <2>4. InHand(r)' = InHand(r)
    BY <2>1 DEF InHand
  <2> QED
    BY <1>1, <1>2, <2>1, <2>2, <2>3, <2>4, StageFrame
<1>8. CASE PartDone(r)
  <2>1. /\ parts' = [parts EXCEPT ![r] = Tail(parts[r])] /\ parts[r] # <<>> /\ op[r].kind \in Changes
        /\ pc' = [pc EXCEPT ![r] = "part"]
    BY <1>8 DEF PartDone, Stage, InTx
  <2>2. \A j \in DOMAIN parts'[r] : \E i \in DOMAIN parts[r] : parts[r][i] = parts'[r][j]
    BY <2>1, TailIsSequence DEF Shapes
  <2>3. \A i \in DOMAIN parts'[r] : /\ parts'[r][i].part \in Parts
                                    /\ parts'[r][i].part = "assets" <=> op[r].kind = "setAssets"
    BY <1>2, <2>2
  <2> QED
    BY <1>1, <2>1, <2>3, StageFrame
<1>9. CASE Reread(r)
  <2>1. parts' = parts /\ \E there \in Finished : pc' = [pc EXCEPT ![r] = there]
    BY <1>9 DEF Reread, localVars
  <2> QED
    BY <1>1, <1>2, <2>1, StageFrame
<1> QED
  BY <1>3, <1>4, <1>5, <1>6, <1>7, <1>8, <1>9 DEF Looks

\* The link that an INSERT makes.
NewLink(r) == Link(r, KeyOf(r, Head(todo[r]))[1], KeyOf(r, Head(todo[r]))[2], 0)

\* It is from the item in hand to the asset of the request, or from the label of
\* the request to the item.
LEMMA NewLinkType ==
  ASSUME Shapes, Stage, NEW r \in Requests, pc[r] = "insert"
  PROVE  /\ NewLink(r) \in LinkRow
         /\ NewLink(r).by = r /\ Key(NewLink(r)) = KeyOf(r, Head(todo[r]))
         /\ KeyOf(r, Head(todo[r])) = <<NewLink(r).of, NewLink(r).to>>
         /\ NewLink(r) = Link(r, NewLink(r).of, NewLink(r).to, 0)
         /\ InHand(r) \in {"stigs", "labels"} => NewLink(r).of = Head(todo[r]) /\ NewLink(r).to = op[r].at
         /\ InHand(r) = "assets" => NewLink(r).of = op[r].at /\ NewLink(r).to = Head(todo[r])
         /\ InHand(r) \in Parts /\ (InHand(r) = "assets" <=> op[r].kind = "setAssets")
<1>1. parts[r] # <<>> /\ op[r].kind \in Changes
  BY DEF Stage, InTx
<1>2. InHand(r) \in Parts /\ (InHand(r) = "assets" <=> op[r].kind = "setAssets")
  BY <1>1, PartInHand
<1>3. CASE InHand(r) = "assets"
  <2>1. KeyOf(r, Head(todo[r])) = <<op[r].at, Head(todo[r])>>
    BY <1>3 DEF KeyOf, InHand
  <2>2. op[r].at \in Labels /\ Head(todo[r]) \in Assets
    BY <1>2, <1>3, AsksFor DEF Stage, InTx
  <2> QED
    BY <1>2, <1>3, <2>1, <2>2 DEF NewLink, Link, LinkRow, Key
<1>4. CASE InHand(r) # "assets"
  <2>1. KeyOf(r, Head(todo[r])) = <<Head(todo[r]), op[r].at>>
    BY <1>4 DEF KeyOf, InHand
  <2>2. op[r].at \in Assets /\ Head(todo[r]) \in Labels \cup Benchmarks
    BY <1>1, <1>2, <1>4, AsksFor DEF Stage, InTx, Changes, Parts
  <2> QED
    BY <1>2, <1>4, <2>1, <2>2 DEF NewLink, Link, LinkRow, Key
<1> QED
  BY <1>3, <1>4

\* The row that a change leaves.
CommitRow(r) ==
    LET o == op[r]
    IN CASE o.kind = "createAsset" -> [coll |-> o.coll, enabled |-> TRUE]
         [] Updates(o) /\ o.coll # NULL -> [asset[o.at] EXCEPT !.coll = o.coll]
         [] OTHER -> asset[o.at]

\* It is of its type, in the collection of the body if that has one, and
\* enabled if it was.
LEMMA CommitRowType ==
  ASSUME Shapes, Stage, AssetsInv, NEW r \in Requests, Commit(r), op[r].at \in Assets
  PROVE  /\ op[r].kind \in {"createAsset", "updateAsset"}
         /\ CommitRow(r) \in AssetRow
         /\ asset' = [asset EXCEPT ![op[r].at] = CommitRow(r)]
         /\ was' = [was EXCEPT ![op[r].at] = @ \cup {CommitRow(r).coll}]
         /\ op[r].kind = "createAsset" => CommitRow(r).coll = op[r].coll
         /\ Updates(op[r]) /\ op[r].coll # NULL =>
               CommitRow(r).coll = op[r].coll /\ CommitRow(r).enabled = asset[op[r].at].enabled
         /\ op[r].kind = "updateAsset" /\ ~(Updates(op[r]) /\ op[r].coll # NULL) => CommitRow(r) = asset[op[r].at]
<1>1. pc[r] = "part" /\ op[r].kind \in Changes
  BY DEF Commit, Goto, Stage, InTx
<1>2. op[r].kind \in {"createAsset", "updateAsset"}
  BY <1>1, AsksFor DEF InTx, Changes
<1>3. op[r].kind = "createAsset" => op[r].coll \in Colls
  BY <1>1, AsksFor DEF InTx
<1>4. op[r].coll \in Colls \cup {NULL}
  BY <1>1, AsksFor DEF InTx
<1>5. op[r].kind = "updateAsset" => asset[op[r].at] \in AssetRow
  BY <1>1 DEF AssetsInv, InTx, Shapes
<1>6. /\ asset' = [asset EXCEPT ![op[r].at] = CommitRow(r)]
      /\ was' = [was EXCEPT ![op[r].at] = @ \cup {CommitRow(r).coll}]
  BY Zenon DEF Commit, CommitRow
<1>7. CASE op[r].kind = "createAsset"
  <2>1. CommitRow(r) = [coll |-> op[r].coll, enabled |-> TRUE]
    BY <1>7 DEF CommitRow, Updates
  <2> QED
    BY <1>2, <1>3, <1>6, <1>7, <2>1 DEF AssetRow, Updates
<1>8. CASE Updates(op[r]) /\ op[r].coll # NULL
  <2>1. op[r].kind = "updateAsset" /\ CommitRow(r) = [asset[op[r].at] EXCEPT !.coll = op[r].coll]
    BY <1>8 DEF CommitRow, Updates
  <2> QED
    BY <1>2, <1>4, <1>5, <1>6, <1>8, <2>1 DEF AssetRow
<1>9. CASE op[r].kind = "updateAsset" /\ ~(Updates(op[r]) /\ op[r].coll # NULL)
  BY <1>2, <1>5, <1>6, <1>9 DEF CommitRow
<1> QED
  BY <1>2, <1>7, <1>8, <1>9

\* The other statements.
LEMMA WriteShapes ==
  ASSUME Shapes, Stage, AssetsInv, NEW r \in Requests,
         \/ GivesUp(r) \/ Begin(r) \/ ClearPart(r) \/ PartCleared(r) \/ InsertItem(r) \/ Commit(r)
         \/ DisableAsset(r) \/ CreateLabel(r) \/ DeleteLabel(r) \/ CascadeLabel(r)
  PROVE  Shapes'
<1> USE DEF Goto, rowVars, rowLocks, localVars
<1>1. CASE GivesUp(r)
  BY <1>1 DEF Shapes, GivesUp, Abort, Rollback, Forget
<1>2. CASE Begin(r)
  <2>1. op[r].at \in Assets \/ ~Updates(op[r])
    BY <1>2, AsksFor DEF Begin, Updates
  <2> QED
    BY <1>2, <2>1 DEF Shapes, Begin, LockRows
<1>3. CASE ClearPart(r)
  <2>1. Ids(Part(op[r].at, Head(parts[r]).part)) \subseteq LinkId
    BY DEF Ids, Id, Part, Shapes, LinkRow, LinkId
  <2> QED
    BY <1>3, <2>1 DEF Shapes, ClearPart, StartDelete
<1>4. CASE PartCleared(r)
  BY <1>4 DEF Shapes, PartCleared, FinishDelete
<1>5. CASE InsertItem(r)
  <2>1. NewLink(r) \in LinkRow
    BY <1>5, NewLinkType DEF InsertItem
  <2>2. /\ UNCHANGED <<links, dead, snap, rowLocks, rowVars, op, coll, parts>>
        /\ added' = added \/ added' = [added EXCEPT ![r] = @ \cup {NewLink(r)}]
        /\ todo' = [todo EXCEPT ![r] = Tail(@)]
    BY <1>5, Zenon DEF InsertItem, InsertLink, NewLink, linkVars
  <2>3. todo' = [q \in Requests |-> todo'[q]]
    BY <2>2 DEF Shapes
  <2>4. added' \in [Requests -> SUBSET LinkRow]
    BY <2>1, <2>2 DEF Shapes
  <2> QED
    BY <2>2, <2>3, <2>4 DEF Shapes
<1>6. CASE Commit(r)
  <2>1. /\ CommitLinks(r) /\ UNCHANGED <<label, given, op, coll, todo, parts>>
        /\ op[r].at \notin Assets => UNCHANGED <<asset, was>>
    BY <1>6 DEF Commit
  <2>2. asset' \in [Assets -> AssetRow \cup {NULL}] /\ was' \in [Assets -> SUBSET Colls]
    <3>1. CASE op[r].at \notin Assets
      BY <2>1, <3>1 DEF Shapes
    <3>2. CASE op[r].at \in Assets
      <4>1. CommitRow(r) \in AssetRow /\ CommitRow(r).coll \in Colls
        BY <1>6, <3>2, CommitRowType DEF AssetRow
      <4> QED
        BY <1>6, <3>2, <4>1, CommitRowType DEF Shapes
    <3> QED
      BY <3>1, <3>2
  <2> QED
    BY <2>1, <2>2 DEF Shapes, CommitLinks, Forget
<1>7. CASE DisableAsset(r)
  <2>1. asset' = [asset EXCEPT ![op[r].at].enabled = FALSE] /\ UNCHANGED <<linkVars, label, given, was, localVars>>
    BY <1>7 DEF DisableAsset
  <2>2. asset[op[r].at] # NULL /\ op[r].at \in Assets
    BY <1>7, AsksFor DEF DisableAsset, AssetsInv, Stage
  <2>3. asset' \in [Assets -> AssetRow \cup {NULL}]
    <3>1. asset[op[r].at] \in AssetRow
      BY <2>2 DEF Shapes
    <3>2. [asset[op[r].at] EXCEPT !.enabled = FALSE] \in AssetRow
      BY <3>1 DEF AssetRow
    <3>3. asset' = [asset EXCEPT ![op[r].at] = [asset[op[r].at] EXCEPT !.enabled = FALSE]]
      BY <2>1
    <3> QED
      BY <2>2, <3>2, <3>3 DEF Shapes
  <2> QED
    BY <2>1, <2>3 DEF Shapes, linkVars
<1>8. CASE CreateLabel(r)
  <2>1. op[r].kind = "createLabels" /\ todo[r] \in Seq(NewIds(op[r])) /\ OpType(op[r])
    BY <1>8, Asks DEF CreateLabel, Stage
  <2>2. op[r].coll \in Colls
    BY <2>1 DEF OpType
  <2> QED
    BY <1>8, <2>2 DEF Shapes, CreateLabel, linkVars
<1>9. CASE DeleteLabel(r)
  <2>1. op[r].at \in Labels
    BY <1>9, Asks DEF DeleteLabel, Stage, OpType
  <2> QED
    BY <1>9, <2>1 DEF Shapes, DeleteLabel, StartDrop
<1>10. CASE CascadeLabel(r)
  BY <1>10 DEF Shapes, CascadeLabel, FinishDrop
<1> QED
  BY <1>1, <1>2, <1>3, <1>4, <1>5, <1>6, <1>7, <1>8, <1>9, <1>10

\* So does a request that writes.
LEMMA WriteStage ==
  ASSUME Shapes, Stage, Holds, NEW r \in Requests,
         \/ GivesUp(r) \/ Begin(r) \/ ClearPart(r) \/ PartCleared(r) \/ InsertItem(r) \/ Commit(r)
         \/ DisableAsset(r) \/ CreateLabel(r) \/ DeleteLabel(r) \/ CascadeLabel(r)
  PROVE  Stage'
<1> USE DEF Goto, Finished, rowVars, localVars
<1>1. \A i \in DOMAIN parts[r] : op[r] # NULL =>
         /\ parts[r][i].part \in Parts
         /\ parts[r][i].part = "assets" <=> op[r].kind = "setAssets"
  BY DEF Stage
<1>2. CASE GivesUp(r) \/ Commit(r) \/ DisableAsset(r) \/ DeleteLabel(r) \/ CascadeLabel(r)
  <2>1. /\ UNCHANGED <<todo, parts, op>> /\ pc[r] # "idle"
        /\ \E there \in {"ok", "failed", "reread", "cascade"} :
              /\ pc' = [pc EXCEPT ![r] = there]
              /\ there = "reread" => op[r].kind = "updateAsset"
              /\ there = "cascade" => op[r].kind = "deleteLabel"
    BY <1>2 DEF GivesUp, Abort, Commit, DisableAsset, DeleteLabel, CascadeLabel, Stage
  <2>2. op[r] # NULL
    BY <2>1 DEF Stage
  <2> QED
    BY <1>1, <2>1, <2>2, StageFrame
<1>3. CASE Begin(r) \/ ClearPart(r) \/ PartCleared(r)
  <2>1. /\ UNCHANGED <<todo, parts, op>> /\ pc[r] \in {"begin", "clear"} /\ op[r].kind \in Changes
        /\ \E there \in {"part", "failed", "check", "clear"} :
              /\ pc' = [pc EXCEPT ![r] = there]
              /\ there \in {"check", "clear"} => parts[r] # <<>>
    BY <1>3 DEF Begin, ClearPart, PartCleared, Stage, InTx
  <2>2. op[r] # NULL
    BY <2>1 DEF Stage
  <2> QED
    BY <1>1, <2>1, <2>2, StageFrame, ZenonT(30)
<1>4. CASE InsertItem(r)
  <2>1. /\ UNCHANGED <<parts, op>> /\ pc[r] = "insert" /\ op[r].kind \in Changes
        /\ parts[r] # <<>> /\ pc' = [pc EXCEPT ![r] = "check"]
        /\ \A q \in Requests \ {r} : todo'[q] = todo[q]
    BY <1>4 DEF InsertItem, Stage, InTx, Shapes
  <2>2. op[r] # NULL
    BY <2>1 DEF Stage
  <2> QED
    BY <1>1, <2>1, <2>2, StageFrame
<1>5. CASE CreateLabel(r)
  <2>1. /\ UNCHANGED <<parts, op>> /\ pc[r] = "createLabels" /\ op[r] # NULL /\ op[r].kind = "createLabels"
        /\ todo[r] \in Seq(NewIds(op[r])) /\ \A q \in Requests \ {r} : todo'[q] = todo[q]
    BY <1>5 DEF CreateLabel, Stage, Shapes
  <2>2. CASE todo[r] = <<>>
    <3>1. pc' = [pc EXCEPT ![r] = "ok"]
      BY <1>5, <2>2 DEF CreateLabel
    <3> QED
      BY <1>1, <2>1, <3>1, StageFrame
  <2>3. CASE todo[r] # <<>>
    <3>1. pc' = pc /\ todo'[r] = Tail(todo[r])
      BY <1>5, <2>3 DEF CreateLabel, Shapes
    <3>2. todo'[r] \in Seq(NewIds(op[r]))
      <4> DEFINE S == NewIds(op[r])
      <4>1. todo[r] \in Seq(S) /\ todo[r] # <<>>
        BY <2>1, <2>3
      <4> HIDE DEF S
      <4>2. Tail(todo[r]) \in Seq(S)
        BY <4>1, HeadAndTail
      <4> QED
        BY <3>1, <4>2 DEF S
    <3>3. pc' = [pc EXCEPT ![r] = "createLabels"]
      BY <2>1, <3>1 DEF Stage
    <3> QED
      BY <1>1, <2>1, <3>2, <3>3, StageFrame
  <2> QED
    BY <2>2, <2>3
<1> QED
  BY <1>2, <1>3, <1>4, <1>5

\* The arrival of a request.
LEMMA Arrives ==
  ASSUME Shapes, Stage, NEW r \in Requests, NEW o \in Ops, Receive(r, o)
  PROVE  /\ OpType(o) /\ o # NULL
         /\ UNCHANGED <<linkVars, asset, label, was>>
         /\ pc[r] = "idle" /\ op[r] = NULL /\ pc' = [pc EXCEPT ![r] = FirstStep(o)]
         /\ pc'[r] = FirstStep(o) /\ \A q \in Requests \ {r} : pc'[q] = pc[q]
         /\ op'[r] = o /\ coll'[r] = o.coll
         /\ todo'[r] = (IF o.kind = "createLabels" THEN o.lists[1].items ELSE <<>>)
         /\ parts'[r] = (IF o.kind = "createLabels" THEN <<>> ELSE o.lists)
         /\ \A q \in Requests \ {r} : /\ op'[q] = op[q] /\ coll'[q] = coll[q]
                                      /\ todo'[q] = todo[q] /\ parts'[q] = parts[q]
         /\ NewIds(o) \cap given = {} /\ given' = given \cup NewIds(o)
         /\ FirstStep(o) \in {"resolve", "get", "begin", "createLabels", "drop"}
         /\ FirstStep(o) = "resolve" => o.kind = "createAsset"
         /\ FirstStep(o) = "get" => o.kind \in {"updateAsset", "deleteAsset"}
         /\ FirstStep(o) = "begin" => o.kind = "setAssets"
         /\ FirstStep(o) = "createLabels" => o.kind = "createLabels"
         /\ FirstStep(o) = "drop" => o.kind = "deleteLabel"
<1>1. OpType(o) /\ o # NULL
  BY AssetsAssumption
<1>2. /\ FirstStep(o) \in {"resolve", "get", "begin", "createLabels", "drop"}
      /\ FirstStep(o) = "resolve" => o.kind = "createAsset"
      /\ FirstStep(o) = "get" => o.kind \in {"updateAsset", "deleteAsset"}
      /\ FirstStep(o) = "begin" => o.kind = "setAssets"
      /\ FirstStep(o) = "createLabels" => o.kind = "createLabels"
      /\ FirstStep(o) = "drop" => o.kind = "deleteLabel"
  BY <1>1 DEF OpType, Kinds, FirstStep
<1> QED
  BY <1>1, <1>2 DEF Receive, Goto, Shapes, Stage

\* The new ids of a body are of assets or of labels.
LEMMA NewIdsTypes ==
  ASSUME NEW o, OpType(o)
  PROVE  /\ NewIds(o) \subseteq Assets \cup Labels
         /\ o.kind = "createAsset" => NewIds(o) = {o.at}
         /\ o.kind = "createLabels" => NewIds(o) \subseteq Labels /\ o.lists[1].items \in Seq(NewIds(o))
<1>1. CASE o.kind = "createLabels"
  <2> DEFINE items == o.lists[1].items
             ids == NewIds(o)
  <2>1. items \in Seq(Labels)
    BY <1>1 DEF OpType
  <2>2. ids = {items[i] : i \in DOMAIN items}
    BY <1>1 DEF NewIds
  <2>3. ids \subseteq Labels
    BY <2>1, <2>2
  <2>4. Len(items) \in Nat /\ DOMAIN items = 1..Len(items) /\ items = [i \in 1..Len(items) |-> items[i]]
    BY <2>1
  <2>5. IsSequence(items)
    BY <2>4, FunctionIsSequence
  <2>6. items \in Seq(ids)
    BY <2>2, <2>5 DEF IsSequence
  <2> QED
    BY <1>1, <2>3, <2>6
<1>2. CASE o.kind # "createLabels"
  BY <1>2 DEF NewIds, OpType
<1> QED
  BY <1>1, <1>2

\* The variables keep their types when a request arrives.
LEMMA ReceiveTypes ==
  ASSUME Shapes, Stage, NEW r \in Requests, NEW o \in Ops, Receive(r, o)
  PROVE  Shapes' /\ Stage'
<1>1. OpType(o) /\ o # NULL /\ given' = given \cup NewIds(o)
  BY Arrives
<1>2. /\ UNCHANGED <<linkVars, asset, label, was>>
      /\ op' = [op EXCEPT ![r] = o] /\ coll' = [coll EXCEPT ![r] = o.coll]
      /\ todo' = [todo EXCEPT ![r] = todo'[r]] /\ parts' = [parts EXCEPT ![r] = parts'[r]]
  BY DEF Receive, Shapes
<1>3. o.coll \in Colls \cup {NULL} /\ NewIds(o) \subseteq Assets \cup Labels
  BY <1>1, NewIdsTypes DEF OpType
<1>4. IsSequence(parts'[r])
  <2>1. IsSequence(<<>>)
    BY DEF IsSequence
  <2> QED
    BY <1>1, <2>1, Arrives DEF OpType
<1>5. Shapes'
  <2>1. \A q \in Requests : IsSequence(parts'[q])
    BY <1>4, Arrives DEF Shapes
  <2>2. op' \in [Requests -> Ops \cup {NULL}] /\ coll' \in [Requests -> Colls \cup {NULL}]
    BY <1>2, <1>3 DEF Shapes
  <2>3. todo' = [q \in Requests |-> todo'[q]] /\ parts' = [q \in Requests |-> parts'[q]]
    BY <1>2 DEF Shapes
  <2>4. given' \subseteq Assets \cup Labels
    BY <1>1, <1>3 DEF Shapes
  <2> QED
    BY <1>2, <2>1, <2>2, <2>3, <2>4 DEF Shapes, linkVars, rowLocks
<1>6. \A i \in DOMAIN parts'[r] : /\ parts'[r][i].part \in Parts
                                  /\ parts'[r][i].part = "assets" <=> o.kind = "setAssets"
  BY <1>1, Arrives DEF OpType
<1>7. FirstStep(o) = "createLabels" => todo'[r] \in Seq(NewIds(o))
  BY <1>1, Arrives, NewIdsTypes
<1>8. pc' \in [Requests -> Finished \cup
                  {"idle", "get", "resolve", "begin", "part", "lookup", "clear", "check",
                   "insert", "reread", "disable", "createLabels", "drop", "cascade"}]
  BY Arrives DEF Stage
<1>9. Stage'
  <2> DEFINE Good(q) ==
             /\ pc[q] = "idle" <=> op[q] = NULL
             /\ pc[q] = "get" => op[q].kind \in {"updateAsset", "deleteAsset"}
             /\ pc[q] = "resolve" => op[q].kind \in {"createAsset", "updateAsset"}
             /\ pc[q] = "begin" \/ InTx(q) => op[q].kind \in Changes
             /\ pc[q] \in {"lookup", "reread"} => op[q].kind = "updateAsset"
             /\ pc[q] = "disable" => op[q].kind = "deleteAsset"
             /\ pc[q] = "createLabels" => op[q].kind = "createLabels" /\ todo[q] \in Seq(NewIds(op[q]))
             /\ pc[q] \in {"drop", "cascade"} => op[q].kind = "deleteLabel"
             /\ op[q] # NULL => \A i \in DOMAIN parts[q] :
                   /\ parts[q][i].part \in Parts
                   /\ parts[q][i].part = "assets" <=> op[q].kind = "setAssets"
             /\ pc[q] \in {"lookup", "clear", "check", "insert"} => parts[q] # <<>>
             /\ pc[q] = "lookup" => InHand(q) = "labels"
             /\ pc[q] = "insert" =>
                   /\ InHand(q) = "labels" => Head(todo[q]) \in Labels
                   /\ InHand(q) = "stigs" => Head(todo[q]) \in Benchmarks
                   /\ InHand(q) = "assets" => Head(todo[q]) \in Assets
  <2>1. \A q \in Requests : Good(q)
    BY DEF Stage
  <2>2. ASSUME NEW q \in Requests \ {r} PROVE Good(q)'
    <3>1. /\ Good(q) /\ pc'[q] = pc[q] /\ op'[q] = op[q]
          /\ todo'[q] = todo[q] /\ parts'[q] = parts[q]
      BY <2>1, Arrives
    <3> QED
      BY <3>1 DEF InTx, InHand
  <2>3. Good(r)'
    <3>1. pc'[r] = FirstStep(o) /\ op'[r] = o
      BY Arrives
    <3>2. /\ FirstStep(o) \in {"resolve", "get", "begin", "createLabels", "drop"}
          /\ FirstStep(o) = "resolve" => o.kind = "createAsset"
          /\ FirstStep(o) = "get" => o.kind \in {"updateAsset", "deleteAsset"}
          /\ FirstStep(o) = "begin" => o.kind = "setAssets"
          /\ FirstStep(o) = "createLabels" => o.kind = "createLabels"
          /\ FirstStep(o) = "drop" => o.kind = "deleteLabel"
      BY Arrives
    <3> QED
      BY <1>1, <1>6, <1>7, <3>1, <3>2 DEF InTx, Changes
  <2> QED
    BY <1>8, <2>2, <2>3 DEF Stage
<1> QED
  BY <1>5, <1>9

(***************************************************************************)
(* What requests hold.                                                     *)
(***************************************************************************)

\* The others hold what they held, and r what its new step says.
LEMMA HoldsKept ==
  ASSUME Holds, NEW r \in Requests, op' = op,
         \A q \in Requests \ {r} : /\ pc'[q] = pc[q] /\ dead'[q] = dead[q] /\ added'[q] = added[q]
                                   /\ snap'[q] = snap[q] /\ locked'[q] = locked[q] /\ dropping'[q] = dropping[q],
         ~InTx(r)' => dead'[r] = {} /\ added'[r] = {} /\ locked'[r] = {},
         InTx(r)' /\ Updates(op[r]) => op[r].at \in locked'[r],
         snap'[r] # {} => pc'[r] = "clear",
         dropping'[r] = (IF pc'[r] = "cascade" THEN {op[r].at} ELSE {})
  PROVE  Holds'
BY ZenonT(30) DEF Holds, InTx

\* A request holds what its step says it holds.
LEMMA StepHolds ==
  ASSUME Shapes, Stage, Holds, NEW r \in Requests, Step(r) \/ Fault(r)
  PROVE  Holds'
<1> USE DEF Holds, InTx, Stage, Shapes, Goto, Finished, linkVars, rowLocks, rowVars, localVars
<1>1. CASE Looks(r)
  <2>1. UNCHANGED <<linkVars, op>> /\ pc[r] \in {"get", "resolve", "part", "lookup", "check", "reread"}
    BY <1>1, LookMoves
  <2>2. PICK there \in {"ok", "failed", "resolve", "disable", "begin", "part", "lookup", "clear", "check", "insert"} :
           /\ pc' = [pc EXCEPT ![r] = there]
           /\ there \in {"part", "lookup", "clear", "check", "insert"} <=> InTx(r)
    BY <1>1, LookMoves
  <2> QED
    BY <2>1, <2>2
<1>2. CASE GivesUp(r)
  BY <1>2, SMTT(30), ZenonT(30) DEF GivesUp, Abort, Rollback, Forget
<1>3. CASE Begin(r)
  <2>1. UNCHANGED <<dead, added, snap, dropping, op>> /\ pc[r] = "begin"
    BY <1>3 DEF Begin, LockRows
  <2>2. \/ pc' = [pc EXCEPT ![r] = "part"] /\ (Updates(op[r]) => locked' = [locked EXCEPT ![r] = {op[r].at}])
                                           /\ (~Updates(op[r]) => locked' = [locked EXCEPT ![r] = {}])
        \/ pc' = [pc EXCEPT ![r] = "failed"] /\ locked' = [locked EXCEPT ![r] = {}]
    BY <1>3 DEF Begin, LockRows
  <2> QED
    BY <2>1, <2>2
<1>4. CASE ClearPart(r)
  <2>1. UNCHANGED <<dead, added, locked, dropping, op>> /\ pc[r] = "clear" /\ \A q \in Requests \ {r} : snap'[q] = snap[q]
    BY <1>4 DEF ClearPart, StartDelete
  <2>2. pc' = [pc EXCEPT ![r] = IF snap'[r] = {} THEN "check" ELSE "clear"]
    BY <1>4 DEF ClearPart
  <2> QED
    BY <2>1, <2>2
<1>5. CASE PartCleared(r)
  BY <1>5 DEF PartCleared, FinishDelete
<1>6. CASE InsertItem(r)
  <2>1. /\ UNCHANGED <<dead, snap, locked, dropping, op>> /\ pc[r] = "insert" /\ pc' = [pc EXCEPT ![r] = "check"]
        /\ \A q \in Requests \ {r} : added'[q] = added[q]
    BY <1>6 DEF InsertItem, InsertLink
  <2>2. pc'[r] = "check" /\ \A q \in Requests \ {r} : pc'[q] = pc[q]
    BY <2>1
  <2>3. snap'[r] = {}
    BY <2>1
  <2>4. InTx(r)' /\ dropping'[r] = {} /\ (Updates(op[r]) => op[r].at \in locked'[r])
    BY <2>1, <2>2
  <2>5. \A q \in Requests \ {r} : /\ dead'[q] = dead[q] /\ snap'[q] = snap[q]
                                  /\ locked'[q] = locked[q] /\ dropping'[q] = dropping[q]
    BY <2>1
  <2> HIDE DEF Holds, InTx, Stage, Shapes
  <2> QED
    BY <2>1, <2>2, <2>3, <2>4, <2>5, HoldsKept
<1>7. CASE Commit(r)
  <2>1. /\ CommitLinks(r) /\ op' = op /\ pc[r] = "part"
        /\ \E there \in {"reread", "ok"} : pc' = [pc EXCEPT ![r] = there]
    BY <1>7 DEF Commit
  <2>2. pc'[r] \in {"reread", "ok"} /\ \A q \in Requests \ {r} : pc'[q] = pc[q]
    BY <2>1
  <2>3. /\ dead'[r] = {} /\ added'[r] = {} /\ snap'[r] = {} /\ locked'[r] = {} /\ dropping'[r] = {}
        /\ \A q \in Requests \ {r} : /\ dead'[q] = dead[q] /\ added'[q] = added[q] /\ snap'[q] = snap[q]
                                     /\ locked'[q] = locked[q] /\ dropping'[q] = dropping[q]
    BY <2>1 DEF CommitLinks, Forget
  <2>4. ~InTx(r)'
    BY <2>2
  <2> HIDE DEF Holds, InTx, Stage, Shapes
  <2> QED
    BY <2>1, <2>2, <2>3, <2>4, HoldsKept, ZenonT(30)
<1>8. CASE DisableAsset(r) \/ CreateLabel(r)
  <2>1. /\ UNCHANGED <<linkVars, op>> /\ pc[r] \in {"disable", "createLabels"}
        /\ pc' = pc \/ \E there \in Finished : pc' = [pc EXCEPT ![r] = there]
    BY <1>8 DEF DisableAsset, CreateLabel
  <2> QED
    BY <2>1
<1>9. CASE DeleteLabel(r)
  BY <1>9 DEF DeleteLabel, StartDrop
<1>10. CASE CascadeLabel(r)
  BY <1>10 DEF CascadeLabel, FinishDrop
<1> QED
  BY StepCases, <1>1, <1>2, <1>3, <1>4, <1>5, <1>6, <1>7, <1>8, <1>9, <1>10

\* A request that arrives holds nothing.
LEMMA ReceiveHolds ==
  ASSUME Shapes, Stage, Holds, NEW r \in Requests, NEW o \in Ops, Receive(r, o)
  PROVE  Holds'
<1>1. UNCHANGED linkVars /\ pc[r] = "idle" /\ pc'[r] = FirstStep(o)
      /\ \A q \in Requests \ {r} : pc'[q] = pc[q] /\ op'[q] = op[q]
  BY Arrives
<1>2. FirstStep(o) \in {"resolve", "get", "begin", "createLabels", "drop"}
  BY Arrives
<1> QED
  BY <1>1, <1>2 DEF Holds, InTx, linkVars, rowLocks

(***************************************************************************)
(* Assets.                                                                 *)
(***************************************************************************)

\* The steps before a request has committed or given up.
Before(there) == there \in {"resolve", "begin", "part", "lookup", "clear", "check", "insert"}

\* Assets are kept by a step that removes none, creates none but that of its own
\* request, and disables none that another request has locked.
LEMMA AssetsKept ==
  ASSUME Shapes, Stage, AssetsInv, NEW r \in Requests, op' = op, given' = given,
         \A a \in Assets : asset[a] # NULL => asset'[a] # NULL,
         \A a \in Assets : asset'[a] # NULL => a \in given /\ asset'[a].coll \in was'[a],
         \A q \in Requests \ {r} : Creates(q) /\ Before(pc[q]) => asset'[op[q].at] = asset[op[q].at],
         \A q \in Requests \ {r} : InTx(q) /\ Updates(op[q]) => Enabled(op[q].at)',
         NEW there, pc' = [pc EXCEPT ![r] = there],
         there = "disable" => asset'[op[r].at] # NULL,
         Before(there) => /\ Creates(r) => asset'[op[r].at] = NULL
                          /\ op[r].kind = "updateAsset" => asset'[op[r].at] # NULL
                          /\ there \notin {"resolve", "begin"} /\ Updates(op[r]) => Enabled(op[r].at)'
  PROVE  AssetsInv'
<1>1. pc'[r] = there /\ \A q \in Requests \ {r} : pc'[q] = pc[q]
  BY DEF Stage
<1>2. \A q \in Requests : /\ Creates(q)' <=> Creates(q)
                          /\ Before(pc[q]) <=> pc[q] \in {"resolve", "begin"} \/ InTx(q)
                          /\ Before(pc'[q]) <=> pc'[q] \in {"resolve", "begin"} \/ InTx(q)'
  BY DEF Creates, Before, InTx
<1>3. ASSUME NEW q \in Requests, Creates(q)
      PROVE  /\ op'[q].at \in given'
             /\ pc'[q] \in {"resolve", "begin"} \/ InTx(q)' => asset'[op'[q].at] = NULL
             /\ \A p \in Requests \ {q} : Creates(p)' => op'[p].at # op'[q].at
  <2>1. /\ op[q].at \in given
        /\ \A p \in Requests \ {q} : Creates(p) => op[p].at # op[q].at
        /\ pc[q] \in {"resolve", "begin"} \/ InTx(q) => asset[op[q].at] = NULL
    BY <1>3 DEF AssetsInv
  <2>2. pc'[q] \in {"resolve", "begin"} \/ InTx(q)' => asset'[op[q].at] = NULL
    BY <1>1, <1>2, <1>3, <2>1
  <2> QED
    BY <1>2, <2>1, <2>2
<1>4. ASSUME NEW q \in Requests
      PROVE  /\ pc'[q] = "disable" => asset'[op'[q].at] # NULL
             /\ (pc'[q] \in {"resolve", "begin"} \/ InTx(q)') /\ op'[q].kind = "updateAsset" => asset'[op'[q].at] # NULL
             /\ InTx(q)' /\ Updates(op[q])' => Enabled(op[q].at)'
  <2>1. CASE q = r
    BY <1>1, <2>1 DEF InTx, Before, Enabled
  <2>2. CASE q # r
    <3>1. pc'[q] = pc[q] /\ (InTx(q)' <=> InTx(q)) /\ q \in Requests \ {r}
      BY <1>1, <2>2 DEF InTx
    <3>2. /\ pc[q] = "disable" => asset[op[q].at] # NULL
          /\ Before(pc[q]) /\ op[q].kind = "updateAsset" => asset[op[q].at] # NULL
      BY <1>2 DEF AssetsInv
    <3>3. /\ pc[q] = "disable" => op[q].at \in Assets
          /\ Before(pc[q]) /\ op[q].kind = "updateAsset" => op[q].at \in Assets
      BY <1>2, AsksFor DEF Stage
    <3> QED
      BY <1>2, <3>1, <3>2, <3>3 DEF Enabled
  <2> QED
    BY <2>1, <2>2
<1>5. \A a \in Assets : asset'[a] # NULL => a \in given' /\ asset'[a].coll \in was'[a]
  OBVIOUS
<1> QED
  BY <1>2, <1>3, <1>4, <1>5 DEF AssetsInv

\* Steps that leave the table of assets alone.
LEMMA AssetsFrame ==
  ASSUME Shapes, Stage, AssetsInv, NEW r \in Requests, UNCHANGED <<op, given, asset, was>>,
         NEW there, pc' = [pc EXCEPT ![r] = there],
         there = "disable" => asset[op[r].at] # NULL,
         Before(there) => /\ Creates(r) => asset[op[r].at] = NULL
                          /\ op[r].kind = "updateAsset" => asset[op[r].at] # NULL
                          /\ there \notin {"resolve", "begin"} /\ Updates(op[r]) => Enabled(op[r].at)
  PROVE  AssetsInv'
<1>1. \A a : Enabled(a)' <=> Enabled(a)
  BY DEF Enabled
<1>2. /\ \A a \in Assets : asset'[a] # NULL => a \in given /\ asset'[a].coll \in was'[a]
      /\ \A q \in Requests \ {r} : InTx(q) /\ Updates(op[q]) => Enabled(op[q].at)'
  BY <1>1 DEF AssetsInv
<1> QED
  BY <1>1, <1>2, AssetsKept

\* Every step keeps the assets.
LEMMA StepAssets ==
  ASSUME Shapes, Stage, Holds, AssetsInv, NEW r \in Requests, Step(r) \/ Fault(r)
  PROVE  AssetsInv'
<1> USE DEF Goto
<1>1. /\ Creates(r) /\ Before(pc[r]) => asset[op[r].at] = NULL
      /\ Before(pc[r]) /\ op[r].kind = "updateAsset" => asset[op[r].at] # NULL
      /\ InTx(r) /\ Updates(op[r]) => Enabled(op[r].at)
  BY DEF AssetsInv, Before, InTx
<1>2. CASE Looks(r)
  <2>1. UNCHANGED <<op, given, asset, was>> /\ pc[r] # "idle"
    BY <1>2, LookMoves DEF rowVars
  <2>2. PICK there \in {"ok", "failed", "resolve", "disable", "begin", "part", "lookup", "clear", "check", "insert"} :
           /\ pc' = [pc EXCEPT ![r] = there]
           /\ there \in {"part", "lookup", "clear", "check", "insert"} <=> InTx(r)
           /\ there \in {"resolve", "disable"} => pc[r] = "get" /\ Enabled(op[r].at)
           /\ there = "resolve" => op[r].kind = "updateAsset"
           /\ there = "begin" => pc[r] = "resolve"
    BY <1>2, LookMoves
  <2>3. there \in {"resolve", "disable"} => asset[op[r].at] # NULL
    BY <2>2 DEF Enabled
  <2>4. Before(there) =>
           /\ Creates(r) => asset[op[r].at] = NULL
           /\ op[r].kind = "updateAsset" => asset[op[r].at] # NULL
           /\ there \notin {"resolve", "begin"} /\ Updates(op[r]) => Enabled(op[r].at)
    BY <1>1, <2>2, <2>3 DEF Before, InTx, Creates
  <2> QED
    BY <2>1, <2>2, <2>3, <2>4, AssetsFrame
<1>3. CASE GivesUp(r)
  <2>1. UNCHANGED <<op, given, asset, was>> /\ pc' = [pc EXCEPT ![r] = "failed"]
    BY <1>3 DEF GivesUp, Abort, rowVars, localVars
  <2> QED
    BY <2>1, AssetsFrame DEF Before
<1>4. CASE Begin(r)
  <2>1. UNCHANGED <<op, given, asset, was>> /\ pc[r] = "begin"
    BY <1>4 DEF Begin, rowVars, localVars
  <2>2. PICK there \in {"part", "failed"} :
           pc' = [pc EXCEPT ![r] = there] /\ (there = "part" => CanBegin(r))
    BY <1>4 DEF Begin
  <2>3. there = "part" /\ Updates(op[r]) => Enabled(op[r].at)
    BY <2>2 DEF CanBegin, Updates
  <2> QED
    BY <1>1, <2>1, <2>2, <2>3, AssetsFrame DEF Before
<1>5. CASE ClearPart(r) \/ PartCleared(r) \/ InsertItem(r)
  <2>1. UNCHANGED <<op, given, asset, was>> /\ InTx(r) /\ \E there : pc' = [pc EXCEPT ![r] = there]
    BY <1>5 DEF ClearPart, PartCleared, InsertItem, InTx, rowVars, localVars
  <2>2. PICK there : pc' = [pc EXCEPT ![r] = there]
    BY <2>1
  <2>3. pc'[r] = there /\ pc'[r] \in {"check", "clear"}
    BY <1>5, <2>2 DEF ClearPart, PartCleared, InsertItem, Stage
  <2> QED
    BY <1>1, <2>1, <2>2, <2>3, AssetsFrame DEF Before, InTx
<1>6. CASE CreateLabel(r) \/ DeleteLabel(r) \/ CascadeLabel(r)
  <2>1. UNCHANGED <<op, given, asset, was>>
    BY <1>6 DEF CreateLabel, DeleteLabel, CascadeLabel, rowVars, localVars
  <2>2. PICK there \in {"createLabels", "ok", "cascade", "failed"} : pc' = [pc EXCEPT ![r] = there]
    BY <1>6 DEF CreateLabel, DeleteLabel, CascadeLabel, Stage
  <2> QED
    BY <2>1, <2>2, AssetsFrame DEF Before
<1>7. CASE DisableAsset(r)
  <2> DEFINE a == op[r].at
  <2>1. /\ UNCHANGED <<op, given, was>> /\ asset' = [asset EXCEPT ![a].enabled = FALSE]
        /\ Updating(r, a) = {} /\ pc[r] = "disable"
        /\ \E there \in Finished : pc' = [pc EXCEPT ![r] = there]
    BY <1>7 DEF DisableAsset, localVars, Finished
  <2>2. a \in Assets /\ asset[a] # NULL /\ asset[a] \in AssetRow
    <3>1. op[r].kind = "deleteAsset" /\ asset[a] # NULL
      BY <2>1 DEF AssetsInv, Stage
    <3>2. a \in Assets
      BY <2>1, <3>1, AsksFor
    <3> QED
      BY <3>1, <3>2 DEF Shapes
  <2>3. asset'[a] = [asset[a] EXCEPT !.enabled = FALSE] /\ \A b \in Assets \ {a} : asset'[b] = asset[b]
    BY <2>1, <2>2 DEF Shapes
  <2>4. asset'[a] # NULL /\ asset'[a].coll = asset[a].coll
    <3>1. asset'[a] \in AssetRow
      BY <2>2, <2>3 DEF AssetRow
    <3> QED
      BY <2>2, <2>3, <3>1, AssetsAssumption DEF AssetRow
  <2>5. \A b \in Assets : /\ asset[b] # NULL => asset'[b] # NULL
                          /\ asset'[b] # NULL => b \in given /\ asset'[b].coll \in was'[b]
    BY <2>1, <2>2, <2>3, <2>4 DEF AssetsInv
  <2>6. ASSUME NEW q \in Requests \ {r}, Creates(q) /\ Before(pc[q])
        PROVE  asset'[op[q].at] = asset[op[q].at]
    <3>1. asset[op[q].at] = NULL /\ op[q].at \in Assets
      BY <2>6, AsksFor DEF AssetsInv, Creates, Before, InTx
    <3> QED
      BY <2>2, <2>3, <3>1
  <2>7. ASSUME NEW q \in Requests \ {r}, InTx(q) /\ Updates(op[q]) PROVE Enabled(op[q].at)'
    <3>1. Enabled(op[q].at) /\ op[q].at \in locked[q]
      BY <2>7 DEF AssetsInv, Holds
    <3>2. op[q].at # a
      BY <2>1, <3>1 DEF Updating, Others
    <3> QED
      BY <2>1, <2>3, <3>1, <3>2 DEF Enabled
  <2> HIDE DEF a
  <2>8. PICK there \in Finished : pc' = [pc EXCEPT ![r] = there]
    BY <2>1
  <2>9. there # "disable" /\ ~Before(there)
    BY DEF Finished, Before
  <2> QED
    BY <2>1, <2>5, <2>6, <2>7, <2>8, <2>9, AssetsKept
<1>8. CASE Commit(r)
  <2> DEFINE a == op[r].at
  <2>1. /\ UNCHANGED <<op, given>> /\ InTx(r)
        /\ a \notin Assets => UNCHANGED <<asset, was>>
        /\ \E there \in {"reread", "ok"} : pc' = [pc EXCEPT ![r] = there]
    BY <1>8 DEF Commit, InTx, localVars
  <2>2. PICK there \in {"reread", "ok"} : pc' = [pc EXCEPT ![r] = there]
    BY <2>1
  <2>3. there # "disable" /\ ~Before(there)
    BY DEF Before
  <2>4. CASE a \notin Assets
    BY <2>1, <2>2, <2>3, <2>4, AssetsFrame
  <2>5. CASE a \in Assets
    <3>1. /\ op[r].kind \in {"createAsset", "updateAsset"} /\ CommitRow(r) \in AssetRow
          /\ asset' = [asset EXCEPT ![a] = CommitRow(r)]
          /\ was' = [was EXCEPT ![a] = @ \cup {CommitRow(r).coll}]
          /\ op[r].kind = "updateAsset" => CommitRow(r).enabled = asset[a].enabled
      BY <1>8, <2>5, CommitRowType
    <3>2. CommitRow(r) # NULL
      BY <3>1, AssetsAssumption
    <3>3. /\ asset'[a] = CommitRow(r) /\ was'[a] = was[a] \cup {CommitRow(r).coll}
          /\ \A b \in Assets \ {a} : asset'[b] = asset[b] /\ was'[b] = was[b]
      BY <2>5, <3>1 DEF Shapes
    <3>4. a \in given
      <4>1. op[r] # NULL
        BY <2>1, Asks DEF InTx
      <4>2. op[r].kind = "updateAsset" => asset[a] # NULL
        BY <2>1 DEF AssetsInv
      <4> QED
        BY <2>5, <3>1, <4>1, <4>2 DEF AssetsInv, Creates
    <3>5. \A b \in Assets : /\ asset[b] # NULL => asset'[b] # NULL
                            /\ asset'[b] # NULL => b \in given /\ asset'[b].coll \in was'[b]
      BY <3>2, <3>3, <3>4 DEF AssetsInv
    <3>6. ASSUME NEW q \in Requests \ {r}, Creates(q) /\ Before(pc[q])
          PROVE  asset'[op[q].at] = asset[op[q].at]
      <4>1. asset[op[q].at] = NULL /\ op[q].at \in Assets
        BY <3>6, AsksFor DEF AssetsInv, Creates, Before, InTx
      <4>2. op[r].kind = "updateAsset" => op[q].at # a
        BY <2>1, <4>1 DEF AssetsInv
      <4>3. Creates(r) => op[q].at # a
        BY <3>6 DEF AssetsInv
      <4>4. op[r].kind = "createAsset" => Creates(r)
        BY <2>1, Asks DEF InTx, Creates
      <4> QED
        BY <3>1, <3>3, <4>1, <4>2, <4>3, <4>4
    <3>7. ASSUME NEW q \in Requests \ {r}, InTx(q) /\ Updates(op[q]) PROVE Enabled(op[q].at)'
      <4>1. Enabled(op[q].at)
        BY <3>7 DEF AssetsInv
      <4>2. CASE op[q].at # a
        BY <2>1, <3>3, <4>1, <4>2 DEF Enabled
      <4>3. CASE op[q].at = a
        <5>1. op[r].kind = "updateAsset"
          <6>1. op[r].kind = "createAsset" => asset[a] = NULL
            BY <2>1, Asks DEF AssetsInv, InTx, Creates
          <6> QED
            BY <3>1, <4>1, <4>3, <6>1 DEF Enabled
        <5> QED
          BY <2>1, <3>1, <3>2, <3>3, <4>1, <4>3, <5>1 DEF Enabled
      <4> QED
        BY <4>2, <4>3
    <3> HIDE DEF a
    <3> QED
      BY <2>1, <2>2, <2>3, <3>5, <3>6, <3>7, AssetsKept
  <2> QED
    BY <2>4, <2>5
<1> QED
  BY StepCases, <1>2, <1>3, <1>4, <1>5, <1>6, <1>7, <1>8

\* The asset of a new request has an id that was never given out.
LEMMA ReceiveAssets ==
  ASSUME Shapes, Stage, AssetsInv, NEW r \in Requests, NEW o \in Ops, Receive(r, o)
  PROVE  AssetsInv'
<1>1. /\ o # NULL /\ UNCHANGED <<asset, was>> /\ op'[r] = o /\ pc'[r] = FirstStep(o) /\ pc[r] = "idle"
      /\ NewIds(o) \cap given = {} /\ given' = given \cup NewIds(o)
      /\ \A q \in Requests \ {r} : pc'[q] = pc[q] /\ op'[q] = op[q]
      /\ FirstStep(o) \in {"resolve", "get", "begin", "createLabels", "drop"}
      /\ FirstStep(o) = "resolve" => o.kind = "createAsset"
      /\ FirstStep(o) = "begin" => o.kind = "setAssets"
  BY Arrives
<1>2. o.kind = "createAsset" => o.at \in Assets /\ NewIds(o) = {o.at}
  BY Arrives, NewIdsTypes DEF OpType
<1>3. \A a \in Assets : asset'[a] # NULL => a \in given' /\ asset'[a].coll \in was'[a]
  BY <1>1 DEF AssetsInv
<1>4. \A q \in Requests \ {r} : /\ Creates(q)' <=> Creates(q)
                                /\ InTx(q)' <=> InTx(q)
                                /\ Creates(q) => op[q].at \in given
  BY <1>1 DEF Creates, InTx, AssetsInv
<1>5. /\ Creates(r)' <=> o.kind = "createAsset"
      /\ ~InTx(r)'
      /\ o.kind = "createAsset" => o.at \notin given /\ o.at \in given'
      /\ o.kind = "createAsset" => asset'[o.at] = NULL
  BY <1>1, <1>2 DEF Creates, InTx, AssetsInv
<1>6. ASSUME NEW q \in Requests, Creates(q)'
      PROVE  /\ op'[q].at \in given'
             /\ pc'[q] \in {"resolve", "begin"} \/ InTx(q)' => asset'[op'[q].at] = NULL
             /\ \A p \in Requests \ {q} : Creates(p)' => op'[p].at # op'[q].at
  <2>1. CASE q = r
    BY <1>1, <1>4, <1>5, <1>6, <2>1
  <2>2. CASE q # r
    <3>1. op'[q] = op[q] /\ pc'[q] = pc[q] /\ Creates(q) /\ (InTx(q)' <=> InTx(q))
      BY <1>1, <1>4, <1>6, <2>2
    <3>2. /\ op[q].at \in given
          /\ pc[q] \in {"resolve", "begin"} \/ InTx(q) => asset[op[q].at] = NULL
          /\ \A p \in Requests \ {q} : Creates(p) => op[p].at # op[q].at
      BY <3>1 DEF AssetsInv
    <3>3. ASSUME NEW p \in Requests \ {q}, Creates(p)' PROVE op'[p].at # op'[q].at
      BY <1>1, <1>4, <1>5, <3>1, <3>2, <3>3
    <3> QED
      BY <1>1, <3>1, <3>2, <3>3
  <2> QED
    BY <2>1, <2>2
<1>7. ASSUME NEW q \in Requests
      PROVE  /\ pc'[q] = "disable" => asset'[op'[q].at] # NULL
             /\ (pc'[q] \in {"resolve", "begin"} \/ InTx(q)') /\ op'[q].kind = "updateAsset" => asset'[op'[q].at] # NULL
             /\ InTx(q)' /\ Updates(op[q])' => Enabled(op[q].at)'
  <2>1. CASE q = r
    BY <1>1, <1>5, <2>1
  <2>2. CASE q # r
    <3>1. op'[q] = op[q] /\ pc'[q] = pc[q] /\ (InTx(q)' <=> InTx(q)) /\ asset' = asset
      BY <1>1, <1>4, <2>2
    <3> QED
      BY <3>1 DEF AssetsInv, Enabled
  <2> QED
    BY <2>1, <2>2
<1> QED
  BY <1>3, <1>6, <1>7 DEF AssetsInv

(***************************************************************************)
(* Labels.                                                                 *)
(***************************************************************************)

\* A label of collection c is never one of another collection.
LEMMA MadeStays ==
  ASSUME Shapes, Stage, NEW r \in Requests, Step(r) \/ Fault(r)
  PROVE  /\ op' = op /\ given' = given
         /\ \A e \in Labels : \A c : Made(e, c) => Made(e, c)'
         /\ ~CreateLabel(r) /\ ~CascadeLabel(r) => label' = label
<1>1. op' = op /\ given' = given
  <2>1. Looks(r) => op' = op /\ given' = given
    BY LookMoves DEF rowVars
  <2> QED
    BY <2>1, StepCases DEF GivesUp, Abort, Begin, ClearPart, PartCleared, InsertItem, Commit, DisableAsset,
       CreateLabel, DeleteLabel, CascadeLabel, rowVars, localVars
<1>2. ASSUME ~CreateLabel(r), ~CascadeLabel(r) PROVE label' = label
  <2>1. Looks(r) => label' = label
    BY LookMoves DEF rowVars
  <2> QED
    BY <1>2, <2>1, StepCases DEF GivesUp, Abort, Begin, ClearPart, PartCleared, InsertItem, Commit, DisableAsset,
       DeleteLabel, rowVars
<1>3. ASSUME NEW e \in Labels, NEW c, Made(e, c) PROVE label'[e] \in {c, NULL}
  <2>1. CASE CreateLabel(r)
    <3>1. /\ op[r] # NULL /\ op[r].kind = "createLabels" /\ todo[r] \in Seq(NewIds(op[r]))
          /\ label' = label \/ (todo[r] # <<>> /\ label' = [label EXCEPT ![Head(todo[r])] = op[r].coll])
      BY <2>1 DEF CreateLabel, Stage
    <3>2. todo[r] # <<>> => Head(todo[r]) \in NewIds(op[r])
      <4> DEFINE S == NewIds(op[r])
                 s == todo[r]
      <4>1. s \in Seq(S)
        BY <3>1
      <4> HIDE DEF S, s
      <4>2. s # <<>> => Head(s) \in S
        BY <4>1, HeadAndTail
      <4> QED
        BY <4>2 DEF S, s
    <3>3. label[e] \in {c, NULL} /\ (e \in NewIds(op[r]) => op[r].coll = c)
      BY <1>3, <3>1 DEF Made
    <3> QED
      BY <3>1, <3>2, <3>3 DEF Shapes
  <2>2. CASE CascadeLabel(r)
    BY <1>3, <2>2 DEF CascadeLabel, Made, Shapes
  <2>3. CASE ~CreateLabel(r) /\ ~CascadeLabel(r)
    BY <1>2, <1>3, <2>3 DEF Made
  <2> QED
    BY <2>1, <2>2, <2>3
<1>4. ASSUME NEW e \in Labels, NEW c, Made(e, c) PROVE Made(e, c)'
  BY <1>1, <1>3, <1>4 DEF Made
<1> QED
  BY <1>1, <1>2, <1>4

\* Labels are kept by a step that keeps what was promised of them, and removes
\* none that another request has linked.
LEMMA LabelsKept ==
  ASSUME Shapes, Stage, Holds, LabelsInv, NEW r \in Requests,
         \A e \in Labels : \A c : Made(e, c) => Made(e, c)',
         \A e \in Labels : label'[e] # NULL => Made(e, label[e])',
         \A a \in Assets : was[a] \subseteq was'[a],
         LabelsOfOwnCollections',
         \A q \in Requests \ {r} : /\ op'[q] = op[q] /\ pc'[q] = pc[q] /\ coll'[q] = coll[q]
                                   /\ todo'[q] = todo[q] /\ parts'[q] = parts[q] /\ added'[q] = added[q],
         \A q \in Requests \ {r} : \A l \in added[q] : l.of \in Labels =>
            label'[l.of] = label[l.of] /\ \A p \in Requests : l.of \notin dropping'[p],
         MakesLabels(r)', LinksLabels(r)', ChecksLabels(r)'
  PROVE  LabelsInv'
<1>1. ASSUME NEW q \in Requests \ {r} PROVE MakesLabels(q)'
  <2>1. MakesLabels(q) /\ op'[q] = op[q]
    BY DEF LabelsInv
  <2>2. op[q] # NULL /\ op[q].kind = "createLabels" => NewIds(op[q]) \subseteq Labels
    <3>1. op[q] # NULL => OpType(op[q])
      BY AssetsAssumption DEF Shapes
    <3> QED
      BY <3>1, NewIdsTypes
  <2>3. \A e \in Labels : Made(e, op[q].coll) => Made(e, op[q].coll)'
    BY <2>1
  <2> QED
    BY <2>1, <2>2, <2>3 DEF MakesLabels
<1>2. ASSUME NEW q \in Requests \ {r}, pc[q] \in {"resolve", "begin"} \/ InTx(q),
             op[q].kind \in {"createAsset", "updateAsset"}
      PROVE  Homes(q) \subseteq Homes(q)'
  <2>1. op[q].at \in Assets /\ op'[q] = op[q]
    BY <1>2, AsksFor DEF InTx
  <2>2. was[op[q].at] \subseteq was'[op[q].at]
    BY <2>1
  <2> QED
    BY <2>1, <2>2 DEF Homes
<1>3. ASSUME NEW q \in Requests \ {r} PROVE LinksLabels(q)'
  <2>1. SUFFICES ASSUME NEW l \in added[q]
                 PROVE  /\ op[q].kind # "setAssets" => l.to = op[q].at
                        /\ l.of \in Labels =>
                              /\ label'[l.of] # NULL
                              /\ op[q].kind = "setAssets" => label'[l.of] \in was'[l.to]
                              /\ op[q].kind # "setAssets" => label'[l.of] \in Homes(q)'
                              /\ \A p \in Requests : l.of \notin dropping'[p]
    BY DEF LinksLabels
  <2>2. InTx(q) /\ op[q].kind \in Changes /\ l.to \in Assets
    BY <2>1 DEF Holds, Stage, Shapes, LinkRow
  <2>3. /\ op[q].kind # "setAssets" => l.to = op[q].at
        /\ l.of \in Labels =>
              /\ label[l.of] # NULL
              /\ op[q].kind = "setAssets" => label[l.of] \in was[l.to]
              /\ op[q].kind # "setAssets" => label[l.of] \in Homes(q)
    BY <2>1 DEF LabelsInv, LinksLabels
  <2>4. op[q].kind # "setAssets" => Homes(q) \subseteq Homes(q)'
    BY <1>2, <2>2 DEF Changes
  <2>5. l.of \in Labels => label'[l.of] = label[l.of] /\ \A p \in Requests : l.of \notin dropping'[p]
    BY <2>1
  <2>6. was[l.to] \subseteq was'[l.to]
    BY <2>2
  <2> QED
    BY <2>3, <2>4, <2>5, <2>6
<1>4. ASSUME NEW q \in Requests \ {r} PROVE ChecksLabels(q)'
  <2>1. /\ pc'[q] = pc[q] /\ coll'[q] = coll[q] /\ op'[q] = op[q]
        /\ (InTx(q)' <=> InTx(q)) /\ (Creates(q)' <=> Creates(q)) /\ InHand(q)' = InHand(q)
    BY DEF InTx, Creates, InHand
  <2>2. ChecksLabels(q)
    BY DEF LabelsInv
  <2>3. ASSUME pc[q] = "begin" \/ InTx(q) PROVE Chosen(q)'
    <3>1. Chosen(q)
      BY <2>2, <2>3 DEF ChecksLabels
    <3>2. pc[q] # "begin" /\ op[q].kind = "setAssets" => Made(op[q].at, coll[q])'
      <4>1. op[q].kind = "setAssets" => op[q].at \in Labels
        BY <2>3, AsksFor
      <4> QED
        BY <3>1, <4>1 DEF Chosen
    <3>3. (pc[q] \in {"clear", "check", "insert"} /\ InHand(q) = "labels") => coll[q] \in Homes(q)'
      <4>1. SUFFICES ASSUME pc[q] \in {"clear", "check", "insert"} /\ InHand(q) = "labels"
                     PROVE  coll[q] \in Homes(q)'
        OBVIOUS
      <4>2. parts[q] # <<>> /\ op[q].kind \in Changes /\ InTx(q)
        BY <4>1 DEF Stage, InTx
      <4>3. op[q].kind # "setAssets"
        BY <4>1, <4>2, PartInHand
      <4> QED
        BY <1>2, <3>1, <4>1, <4>2, <4>3 DEF Chosen, Changes
    <3>4. pc[q] = "insert" /\ InHand(q) = "labels" => Made(Head(todo[q]), coll[q])'
      <4>1. pc[q] = "insert" /\ InHand(q) = "labels" => Head(todo[q]) \in Labels
        BY DEF Stage
      <4> QED
        BY <3>1, <4>1 DEF Chosen
    <3>5. pc[q] = "insert" /\ InHand(q) = "assets" => coll[q] \in was'[Head(todo[q])]
      <4>1. pc[q] = "insert" /\ InHand(q) = "assets" => Head(todo[q]) \in Assets
        BY DEF Stage
      <4> QED
        BY <3>1, <4>1 DEF Chosen
    <3>6. todo'[q] = todo[q] /\ (op[q].kind \in {"createAsset", "setAssets"} => coll[q] = op[q].coll)
      BY <3>1 DEF Chosen
    <3> QED
      BY <2>1, <3>2, <3>3, <3>4, <3>5, <3>6 DEF Chosen
  <2> QED
    BY <2>1, <2>2, <2>3 DEF ChecksLabels
<1> QED
  BY <1>1, <1>3, <1>4 DEF LabelsInv

\* Steps that change no label and commit no link.
LEMMA LabelsQuiet ==
  ASSUME Shapes, Stage, Holds, LabelsInv, NEW r \in Requests,
         UNCHANGED <<op, label, given, was, links>>,
         \A q \in Requests : dropping'[q] \subseteq dropping[q],
         \A q \in Requests \ {r} : /\ pc'[q] = pc[q] /\ coll'[q] = coll[q] /\ todo'[q] = todo[q]
                                   /\ parts'[q] = parts[q] /\ added'[q] = added[q],
         LinksLabels(r)', ChecksLabels(r)'
  PROVE  LabelsInv'
<1>1. \A e, c : Made(e, c) => Made(e, c)'
  BY DEF Made
<1>2. \A e \in Labels : label'[e] # NULL => Made(e, label[e])'
  <2>1. \A e \in Labels : label[e] # NULL => Made(e, label[e])
    BY DEF LabelsInv
  <2> QED
    BY <1>1, <2>1
<1>3. LabelsOfOwnCollections'
  BY DEF LabelsInv, LabelsOfOwnCollections
<1>4. \A q \in Requests \ {r} : \A l \in added[q] : l.of \in Labels =>
            label'[l.of] = label[l.of] /\ \A p \in Requests : l.of \notin dropping'[p]
  BY DEF LabelsInv, LinksLabels
<1>5. MakesLabels(r)'
  <2>1. MakesLabels(r)
    BY DEF LabelsInv
  <2> QED
    BY <1>1, <2>1 DEF MakesLabels
<1> QED
  BY <1>1, <1>2, <1>3, <1>4, <1>5, LabelsKept

\* The links of a request that inserts none.
LEMMA LinksLabelsFrame ==
  ASSUME LabelsInv, NEW r \in Requests,
         UNCHANGED <<op, label, was>>, \A q \in Requests : dropping'[q] \subseteq dropping[q],
         added'[r] \subseteq added[r]
  PROVE  LinksLabels(r)'
<1>1. LinksLabels(r)
  BY DEF LabelsInv
<1>2. Homes(r)' = Homes(r)
  BY DEF Homes
<1> QED
  BY <1>1, <1>2 DEF LinksLabels

\* What a request reads decides which collection the items in hand have to be of,
\* and whether they are.
LEMMA LookChecks ==
  ASSUME Shapes, Stage, AssetsInv, LabelsInv, NEW r \in Requests, Looks(r)
  PROVE  ChecksLabels(r)'
<1> USE DEF Goto
<1>1. UNCHANGED <<linkVars, rowVars, op>> /\ ChecksLabels(r)
  BY LookMoves DEF LabelsInv
<1>2. (Creates(r)' <=> Creates(r)) /\ Homes(r)' = Homes(r) /\ \A e, c : Made(e, c)' <=> Made(e, c)
  BY <1>1 DEF Creates, Homes, Made, rowVars
<1>3. CASE GetAsset(r)
  <2>1. pc'[r] \in {"failed", "resolve", "disable"} /\ (pc'[r] = "resolve" => op[r].kind = "updateAsset")
    BY <1>3 DEF GetAsset, Stage
  <2> QED
    BY <1>1, <1>2, <2>1 DEF ChecksLabels, InTx, Creates
<1>4. CASE ResolveLabelNames(r)
  <2>1. pc[r] = "resolve" /\ pc'[r] = "begin" /\ coll' = coll
    BY <1>4, Zenon DEF ResolveLabelNames, Stage
  <2>2. op[r].kind \in {"createAsset", "updateAsset"} /\ op[r] # NULL
    BY <2>1 DEF Stage
  <2>3. op[r].kind = "createAsset" => coll[r] = op[r].coll
    BY <1>1, <2>1, <2>2 DEF ChecksLabels, Creates
  <2>4. Chosen(r)'
    BY <1>1, <2>1, <2>2, <2>3 DEF Chosen
  <2> QED
    BY <2>1, <2>4 DEF ChecksLabels
<1>5. CASE NextPart(r)
  <2>1. /\ pc[r] = "part" /\ parts[r] # <<>> /\ coll' = coll /\ parts' = parts
        /\ pc'[r] = (CASE InHand(r) = "labels" /\ op[r].kind = "updateAsset" -> "lookup"
                       [] InHand(r) = "stigs" /\ op[r].kind = "createAsset" -> "check"
                       [] OTHER -> "clear")
    BY <1>5 DEF NextPart, Stage, InHand
  <2>2. /\ op[r].kind \in Changes /\ Chosen(r) /\ op[r] # NULL
        /\ InHand(r) = "assets" <=> op[r].kind = "setAssets"
    <3>1. op[r].kind \in Changes /\ op[r] # NULL /\ Chosen(r)
      BY <1>1, <2>1 DEF Stage, InTx, ChecksLabels
    <3> QED
      BY <2>1, <3>1, PartInHand
  <2>3. InHand(r)' = InHand(r)
    BY <2>1 DEF InHand
  <2>4. pc'[r] \in {"clear", "check"} /\ InHand(r) = "labels" => op[r].kind = "createAsset"
    BY <2>1, <2>2 DEF Changes
  <2>5. op[r].kind = "createAsset" => coll[r] \in Homes(r)
    BY <2>2 DEF Chosen, Homes
  <2>6. pc'[r] \in {"lookup", "clear", "check"}
    BY <2>1
  <2>7. /\ op[r].kind \in {"createAsset", "setAssets"} => coll[r] = op[r].coll
        /\ op[r].kind = "setAssets" => Made(op[r].at, coll[r])
    BY <2>1, <2>2 DEF Chosen
  <2>8. Made(op[r].at, coll[r])' <=> Made(op[r].at, coll[r])
    BY <1>1, <2>1 DEF Made, rowVars
  <2>9. Chosen(r)'
    BY <1>1, <1>2, <2>1, <2>3, <2>4, <2>5, <2>6, <2>7, <2>8 DEF Chosen
  <2> QED
    BY <2>6, <2>9 DEF ChecksLabels
<1>6. CASE LookupCollection(r)
  <2>1. /\ pc[r] = "lookup" /\ pc'[r] = "clear"
        /\ coll'[r] = IF op[r].columns /\ op[r].coll # NULL THEN op[r].coll ELSE asset[op[r].at].coll
    BY <1>6 DEF LookupCollection, Stage, Shapes
  <2>2. op[r].kind = "updateAsset" /\ op[r].at \in Assets /\ asset[op[r].at] # NULL
    <3>1. op[r].kind = "updateAsset" /\ asset[op[r].at] # NULL
      BY <2>1 DEF Stage, AssetsInv, InTx
    <3> QED
      BY <2>1, <3>1, AsksFor DEF InTx
  <2>3. coll'[r] \in Homes(r)
    BY <2>1, <2>2 DEF Homes, Updates, AssetsInv
  <2>4. Chosen(r)'
    BY <1>1, <1>2, <2>1, <2>2, <2>3 DEF Chosen
  <2> QED
    BY <2>1, <2>4 DEF ChecksLabels
<1>7. CASE CheckItem(r)
  <2>1. pc[r] = "check" /\ pc'[r] = "insert" /\ UNCHANGED <<coll, todo, parts>> /\ Suits(r, Head(todo[r]))
    BY <1>7 DEF CheckItem, Stage, localVars
  <2>2. Chosen(r)
    BY <1>1, <2>1 DEF ChecksLabels, InTx
  <2>3. InHand(r)' = InHand(r)
    BY <2>1 DEF InHand
  <2>4. InHand(r) = "labels" => Made(Head(todo[r]), coll[r])
    <3>1. InHand(r) = "labels" => IsLabel(Head(todo[r]), coll[r])
      BY <2>1 DEF Suits, InHand
    <3> QED
      BY <3>1 DEF IsLabel, LabelsInv
  <2>5. InHand(r) = "assets" => coll[r] \in was[Head(todo[r])]
    <3>1. InHand(r) = "assets" => Enabled(Head(todo[r])) /\ asset[Head(todo[r])].coll = coll[r]
      BY <2>1 DEF Suits, InHand
    <3> QED
      BY <3>1 DEF Enabled, AssetsInv
  <2>6. /\ op[r].kind \in {"createAsset", "setAssets"} => coll[r] = op[r].coll
        /\ op[r].kind = "setAssets" => Made(op[r].at, coll[r])
        /\ InHand(r) = "labels" => coll[r] \in Homes(r)
    BY <2>1, <2>2 DEF Chosen
  <2>7. /\ Made(op[r].at, coll[r])' <=> Made(op[r].at, coll[r])
        /\ Made(Head(todo[r]), coll[r])' <=> Made(Head(todo[r]), coll[r])
    BY <1>1, <2>1 DEF Made, rowVars
  <2>8. Chosen(r)'
    BY <1>1, <1>2, <2>1, <2>3, <2>4, <2>5, <2>6, <2>7 DEF Chosen, rowVars
  <2> QED
    BY <2>1, <2>8 DEF ChecksLabels
<1>8. CASE PartDone(r)
  <2>1. pc[r] = "check" /\ pc'[r] = "part" /\ coll' = coll
    BY <1>8 DEF PartDone, Stage
  <2>2. Chosen(r)
    BY <1>1, <2>1 DEF ChecksLabels, InTx
  <2>3. Made(op[r].at, coll[r])' <=> Made(op[r].at, coll[r])
    BY <1>1, <2>1 DEF Made, rowVars
  <2>4. Chosen(r)'
    BY <1>1, <2>1, <2>2, <2>3 DEF Chosen
  <2> QED
    BY <2>1, <2>4 DEF ChecksLabels
<1>9. CASE Reread(r)
  BY <1>9 DEF Reread, ChecksLabels, Stage, InTx
<1> QED
  BY <1>3, <1>4, <1>5, <1>6, <1>7, <1>8, <1>9 DEF Looks

\* An INSERT links a label of a collection that the asset has been in, or is in
\* when the request commits.
LEMMA InsertLabels ==
  ASSUME Shapes, Stage, Holds, LabelsInv, NEW r \in Requests, InsertItem(r)
  PROVE  LinksLabels(r)'
<1>1. /\ pc[r] = "insert" /\ UNCHANGED <<op, label, was, dropping>>
      /\ InsertWaits(r, KeyOf(r, Head(todo[r]))) = {}
      /\ KeyOf(r, Head(todo[r]))[1] \in Labels => label[KeyOf(r, Head(todo[r]))[1]] # NULL
      /\ added' = added \/ added' = [added EXCEPT ![r] = @ \cup {NewLink(r)}]
  BY Zenon DEF InsertItem, InsertLink, NewLink, linkVars, rowLocks, rowVars
<1> DEFINE n == NewLink(r)
<1>2. /\ KeyOf(r, Head(todo[r])) = <<n.of, n.to>>
      /\ InHand(r) \in {"stigs", "labels"} => n.of = Head(todo[r]) /\ n.to = op[r].at
      /\ InHand(r) = "assets" => n.of = op[r].at /\ n.to = Head(todo[r])
      /\ InHand(r) \in Parts /\ (InHand(r) = "assets" <=> op[r].kind = "setAssets")
  BY <1>1, NewLinkType
<1> HIDE DEF n
<1>3. op[r].kind # "setAssets" => n.to = op[r].at
  BY <1>2 DEF Parts
<1>4. ASSUME n.of \in Labels
      PROVE  /\ label[n.of] # NULL
             /\ op[r].kind = "setAssets" => label[n.of] \in was[n.to]
             /\ op[r].kind # "setAssets" => label[n.of] \in Homes(r)
             /\ \A q \in Requests : n.of \notin dropping[q]
  <2>1. label[n.of] # NULL
    BY <1>1, <1>2, <1>4
  <2>2. \A q \in Requests : n.of \notin dropping[q]
    <3>1. Deleting(r, n.of) = {}
      BY <1>1, <1>2 DEF InsertWaits
    <3>2. dropping[r] = {}
      BY <1>1 DEF Holds
    <3> QED
      BY <3>1, <3>2 DEF Deleting, Others
  <2>3. Chosen(r)
    BY <1>1 DEF LabelsInv, ChecksLabels, InTx
  <2>4. CASE op[r].kind = "setAssets"
    BY <1>1, <1>2, <2>1, <2>2, <2>3, <2>4 DEF Chosen, Made
  <2>5. CASE op[r].kind # "setAssets"
    <3>1. InHand(r) # "stigs"
      BY <1>1, <1>2, <1>4, AssetsAssumption DEF Stage
    <3>2. InHand(r) = "labels"
      BY <1>2, <2>5, <3>1 DEF Parts
    <3>3. coll[r] \in Homes(r) /\ Made(Head(todo[r]), coll[r])
      BY <1>1, <2>3, <3>2 DEF Chosen
    <3> QED
      BY <1>2, <2>1, <2>2, <2>5, <3>2, <3>3 DEF Made
  <2> QED
    BY <2>4, <2>5
<1>5. Homes(r)' = Homes(r)
  BY <1>1 DEF Homes
<1>6. \A l \in added'[r] : l \in added[r] \/ l = n
  BY <1>1 DEF Shapes, n
<1>7. LinksLabels(r)
  BY DEF LabelsInv
<1> QED
  BY <1>1, <1>3, <1>4, <1>5, <1>6, <1>7 DEF LinksLabels

\* A commit puts the asset in the collection that its new labels are of.
LEMMA CommitLabels ==
  ASSUME Shapes, Stage, Holds, AssetsInv, LabelsInv, NEW r \in Requests, Commit(r)
  PROVE  /\ \A a \in Assets : was[a] \subseteq was'[a]
         /\ LabelsOfOwnCollections'
<1>1. /\ pc[r] = "part" /\ op[r].kind \in Changes /\ label' = label
      /\ links' = {l \in links : Id(l) \notin dead[r]} \cup added[r]
      /\ op[r].at \notin Assets => was' = was
  BY DEF Commit, Goto, CommitLinks, Stage, InTx
<1>2. op[r].at \in Assets => was'[op[r].at] = was[op[r].at] \cup {CommitRow(r).coll}
                             /\ \A a \in Assets \ {op[r].at} : was'[a] = was[a]
  BY CommitRowType DEF Shapes
<1>3. \A a \in Assets : was[a] \subseteq was'[a]
  BY <1>1, <1>2
<1>4. op[r].kind # "setAssets" => op[r].at \in Assets /\ Homes(r) \subseteq was'[op[r].at]
  <2>1. SUFFICES ASSUME op[r].kind # "setAssets" PROVE op[r].at \in Assets /\ Homes(r) \subseteq was'[op[r].at]
    OBVIOUS
  <2>2. op[r].at \in Assets
    BY <1>1, <2>1, AsksFor DEF Changes, InTx
  <2>3. op[r].kind = "createAsset" \/ (Updates(op[r]) /\ op[r].coll # NULL) => CommitRow(r).coll = op[r].coll
    BY <2>2, CommitRowType
  <2> QED
    BY <1>2, <2>2, <2>3 DEF Homes
<1>5. ASSUME NEW l \in links', l.of \in Labels PROVE label'[l.of] \in was'[l.to]
  <2>1. CASE l \in links
    <3>1. l.to \in Assets /\ label[l.of] \in was[l.to]
      BY <1>5, <2>1 DEF Shapes, LinkRow, LabelsInv, LabelsOfOwnCollections
    <3> QED
      BY <1>1, <1>3, <3>1
  <2>2. CASE l \in added[r]
    <3>1. /\ l.to \in Assets
          /\ op[r].kind = "setAssets" => label[l.of] \in was[l.to]
          /\ op[r].kind # "setAssets" => label[l.of] \in Homes(r) /\ l.to = op[r].at
      BY <1>5, <2>2 DEF Shapes, LinkRow, LabelsInv, LinksLabels
    <3> QED
      BY <1>1, <1>3, <1>4, <3>1
  <2> QED
    BY <1>1, <2>1, <2>2
<1> QED
  BY <1>3, <1>5 DEF LabelsOfOwnCollections

\* A request that is not about to change links promises nothing of labels.
LEMMA NoChecks ==
  ASSUME NEW r \in Requests, pc'[r] \notin {"resolve", "begin", "part", "lookup", "clear", "check", "insert"}
  PROVE  ChecksLabels(r)'
BY DEF ChecksLabels, InTx

\* The other statements of a transaction, and what goes before it.
LEMMA TxLabels ==
  ASSUME Shapes, Stage, Holds, AssetsInv, LabelsInv, NEW r \in Requests,
         GivesUp(r) \/ Begin(r) \/ ClearPart(r) \/ PartCleared(r) \/ InsertItem(r) \/ DisableAsset(r)
  PROVE  LabelsInv'
<1> USE DEF Goto
<1>1. UNCHANGED <<op, label, given, was, links, coll, parts>>
  BY DEF GivesUp, Abort, Rollback, Begin, LockRows, ClearPart, StartDelete, PartCleared, FinishDelete, InsertItem,
     InsertLink, DisableAsset, linkVars, rowVars, localVars
<1>2. \A q \in Requests : dropping'[q] \subseteq dropping[q]
  BY DEF GivesUp, Abort, Rollback, Forget, Begin, LockRows, ClearPart, StartDelete, PartCleared, FinishDelete,
     InsertItem, InsertLink, DisableAsset, linkVars, rowLocks, Shapes
<1>3. \A q \in Requests \ {r} : pc'[q] = pc[q] /\ todo'[q] = todo[q] /\ added'[q] = added[q]
  BY DEF GivesUp, Abort, Rollback, Forget, Begin, LockRows, ClearPart, StartDelete, PartCleared, FinishDelete,
     InsertItem, InsertLink, DisableAsset, linkVars, localVars, Shapes, Stage
<1>4. LinksLabels(r)'
  <2>1. ~InsertItem(r) => added'[r] \subseteq added[r]
    BY DEF GivesUp, Abort, Rollback, Forget, Begin, LockRows, ClearPart, StartDelete, PartCleared, FinishDelete,
       DisableAsset, linkVars, Shapes
  <2> QED
    BY <1>1, <1>2, <2>1, InsertLabels, LinksLabelsFrame
<1>5. ChecksLabels(r)'
  <2>1. CASE GivesUp(r) \/ DisableAsset(r)
    <3>1. pc'[r] \in Finished
      BY <2>1 DEF GivesUp, Abort, DisableAsset, Stage, Finished
    <3> QED
      BY <3>1, NoChecks DEF Finished
  <2>2. CASE Begin(r)
    <3>1. pc[r] = "begin" /\ pc'[r] \in {"part", "failed"} /\ (pc'[r] = "part" => CanBegin(r))
      BY <2>2 DEF Begin, Stage
    <3>2. op[r].kind \in Changes /\ op[r].coll \in Colls \cup {NULL} /\ Chosen(r)
      BY <3>1, AsksFor DEF Stage, LabelsInv, ChecksLabels
    <3>3. op[r].kind \in {"createAsset", "setAssets"} => coll[r] = op[r].coll
      BY <3>2 DEF Chosen
    <3>4. pc'[r] = "part" /\ op[r].kind = "setAssets" => Made(op[r].at, coll[r])
      BY <3>1, <3>3 DEF CanBegin, Updates, IsLabel, LabelsInv
    <3>5. Made(op[r].at, coll[r])' <=> Made(op[r].at, coll[r])
      BY <1>1 DEF Made
    <3>6. pc'[r] = "part" => Chosen(r)'
      BY <1>1, <3>3, <3>4, <3>5 DEF Chosen
    <3> QED
      BY <3>1, <3>6, NoChecks DEF ChecksLabels
  <2>3. CASE ClearPart(r) \/ PartCleared(r) \/ InsertItem(r)
    <3>1. pc[r] \in {"clear", "insert"} /\ pc'[r] \in {"clear", "check"}
      BY <2>3 DEF ClearPart, PartCleared, InsertItem, Stage
    <3>2. Chosen(r)
      BY <3>1 DEF LabelsInv, ChecksLabels, InTx
    <3>3. Made(op[r].at, coll[r])' <=> Made(op[r].at, coll[r])
      BY <1>1 DEF Made
    <3>4. InHand(r)' = InHand(r) /\ Homes(r)' = Homes(r)
      BY <1>1 DEF InHand, Homes
    <3>5. Chosen(r)'
      BY <1>1, <3>1, <3>2, <3>3, <3>4 DEF Chosen
    <3> QED
      BY <3>1, <3>5 DEF ChecksLabels
  <2> QED
    BY <2>1, <2>2, <2>3
<1> QED
  BY <1>1, <1>2, <1>3, <1>4, <1>5, LabelsQuiet

\* A step keeps labels and what was promised of them.
LEMMA StepLabels ==
  ASSUME Shapes, Stage, Holds, AssetsInv, LabelsInv, NEW r \in Requests, Step(r) \/ Fault(r)
  PROVE  LabelsInv'
<1> USE DEF Goto
<1>1. op' = op /\ given' = given /\ \A e \in Labels : \A c : Made(e, c) => Made(e, c)'
  BY MadeStays
<1>2. CASE Looks(r)
  <2>1. /\ UNCHANGED <<linkVars, rowVars, op>>
        /\ \A q \in Requests \ {r} : coll'[q] = coll[q] /\ todo'[q] = todo[q] /\ parts'[q] = parts[q]
        /\ \E there : pc' = [pc EXCEPT ![r] = there]
    BY <1>2, LookMoves
  <2>2. \A q \in Requests \ {r} : pc'[q] = pc[q]
    BY <2>1 DEF Stage
  <2>3. ChecksLabels(r)'
    BY <1>2, LookChecks
  <2>4. /\ UNCHANGED <<op, label, given, was, links, added, dropping>>
    BY <2>1 DEF linkVars, rowLocks, rowVars
  <2>5. LinksLabels(r)'
    BY <2>4, LinksLabelsFrame
  <2> QED
    BY <2>1, <2>2, <2>3, <2>4, <2>5, LabelsQuiet
<1>3. CASE GivesUp(r) \/ Begin(r) \/ ClearPart(r) \/ PartCleared(r) \/ InsertItem(r) \/ DisableAsset(r)
  BY <1>3, TxLabels
<1>4. MakesLabels(r)'
  <2>1. op[r] # NULL /\ op[r].kind = "createLabels" => NewIds(op[r]) \subseteq Labels
    <3>1. op[r] # NULL => OpType(op[r])
      BY AssetsAssumption DEF Shapes
    <3> QED
      BY <3>1, NewIdsTypes
  <2>2. MakesLabels(r)
    BY DEF LabelsInv
  <2> QED
    BY <1>1, <2>1, <2>2 DEF MakesLabels
<1>5. CASE Commit(r)
  <2>1. /\ UNCHANGED <<coll, todo, parts>> /\ label' = label /\ pc[r] = "part"
        /\ pc'[r] \in {"reread", "ok"} /\ \A q \in Requests \ {r} : pc'[q] = pc[q]
        /\ CommitLinks(r)
    BY <1>5 DEF Commit, Stage, localVars
  <2>2. /\ added'[r] = {} /\ \A q \in Requests \ {r} : added'[q] = added[q]
        /\ \A q \in Requests : dropping'[q] \subseteq dropping[q]
    BY <2>1 DEF CommitLinks, Forget, Shapes
  <2>3. LinksLabels(r)' /\ ChecksLabels(r)'
    BY <2>1, <2>2, NoChecks DEF LinksLabels
  <2>4. \A e \in Labels : label'[e] # NULL => Made(e, label[e])'
    <3>1. \A e \in Labels : label[e] # NULL => Made(e, label[e])
      BY DEF LabelsInv
    <3> QED
      BY <1>1, <2>1, <3>1
  <2>5. \A q \in Requests \ {r} : \A l \in added[q] : l.of \in Labels =>
            label'[l.of] = label[l.of] /\ \A p \in Requests : l.of \notin dropping'[p]
    BY <2>1, <2>2 DEF LabelsInv, LinksLabels
  <2> QED
    BY <1>1, <1>4, <1>5, <2>1, <2>2, <2>3, <2>4, <2>5, CommitLabels, LabelsKept
<1>6. CASE CreateLabel(r)
  <2>1. /\ pc[r] = "createLabels" /\ UNCHANGED <<linkVars, was, coll, parts>>
        /\ \A q \in Requests \ {r} : pc'[q] = pc[q] /\ todo'[q] = todo[q]
        /\ pc'[r] \in {"createLabels", "ok"}
        /\ label' = label \/ (todo[r] # <<>> /\ label' = [label EXCEPT ![Head(todo[r])] = op[r].coll])
    BY <1>6 DEF CreateLabel, Stage, Shapes
  <2>2. UNCHANGED <<links, added, dropping>>
    BY <2>1 DEF linkVars, rowLocks
  <2>3. op[r] # NULL /\ op[r].kind = "createLabels" /\ op[r].coll \in Colls
    <3>1. op[r] # NULL /\ op[r].kind = "createLabels"
      BY <2>1 DEF Stage
    <3> QED
      BY <2>1, <3>1, Asks DEF OpType
  <2>4. todo[r] # <<>> => Head(todo[r]) \in NewIds(op[r])
    <3> DEFINE S == NewIds(op[r])
               s == todo[r]
    <3>1. s \in Seq(S)
      BY <2>1 DEF Stage
    <3> HIDE DEF S, s
    <3>2. s # <<>> => Head(s) \in S
      BY <3>1, HeadAndTail
    <3> QED
      BY <3>2 DEF S, s
  <2>5. todo[r] # <<>> => Made(Head(todo[r]), op[r].coll)
    BY <2>3, <2>4 DEF LabelsInv, MakesLabels
  <2>6. \A e \in Labels : label[e] # NULL => label'[e] = label[e]
    BY <2>1, <2>3, <2>5 DEF Made, Shapes
  <2>7. ASSUME NEW e \in Labels, label'[e] # NULL PROVE Made(e, label[e])'
    <3>1. CASE label'[e] = label[e]
      BY <1>1, <2>7, <3>1 DEF LabelsInv
    <3>2. CASE label'[e] # label[e]
      <4>1. e = Head(todo[r]) /\ label'[e] = op[r].coll /\ todo[r] # <<>>
        BY <2>1, <3>2 DEF Shapes
      <4>2. Made(e, op[r].coll)'
        BY <1>1, <2>5, <4>1
      <4> QED
        BY <1>1, <4>1, <4>2
    <3> QED
      BY <3>1, <3>2
  <2>8. \A l \in links : l.of \in Labels => label[l.of] # NULL
    <3>1. NULL \notin Colls
      BY AssetsAssumption
    <3> QED
      BY <3>1 DEF LabelsInv, LabelsOfOwnCollections, Shapes, LinkRow
  <2>9. LabelsOfOwnCollections'
    BY <2>1, <2>2, <2>6, <2>8 DEF LabelsInv, LabelsOfOwnCollections
  <2>10. \A q \in Requests : \A l \in added[q] : l.of \in Labels =>
            label'[l.of] = label[l.of] /\ \A p \in Requests : l.of \notin dropping'[p]
    BY <2>2, <2>6 DEF LabelsInv, LinksLabels
  <2>11. LinksLabels(r)' /\ ChecksLabels(r)'
    <3>1. added'[r] = {}
      BY <2>1, <2>2 DEF Holds, InTx
    <3> QED
      BY <2>1, <3>1, NoChecks DEF LinksLabels
  <2> QED
    BY <1>1, <1>4, <2>1, <2>2, <2>7, <2>9, <2>10, <2>11, LabelsKept
<1>7. CASE DeleteLabel(r)
  <2>1. /\ pc[r] = "drop" /\ UNCHANGED <<links, added, label, was, coll, todo, parts>>
        /\ \A q \in Requests \ {r} : pc'[q] = pc[q]
        /\ pc'[r] \in {"cascade", "failed"}
        /\ DropWaits(r, op[r].at) = {}
        /\ dropping' = [dropping EXCEPT ![r] = {op[r].at}] \/ dropping' = [dropping EXCEPT ![r] = {}]
    BY <1>7 DEF DeleteLabel, StartDrop, Stage, rowVars, localVars
  <2>2. added[r] = {} /\ dropping[r] = {}
    BY <2>1 DEF Holds, InTx
  <2>3. \A q \in Requests : \A l \in added[q] : l.of # op[r].at
    BY <2>1, <2>2 DEF DropWaits, HasInserted, Others
  <2>4. \A p \in Requests \ {r} : dropping'[p] = dropping[p]
    BY <2>1 DEF Shapes
  <2>5. dropping'[r] \subseteq {op[r].at}
    BY <2>1 DEF Shapes
  <2>6. \A q \in Requests : \A l \in added[q] : l.of \in Labels =>
            label'[l.of] = label[l.of] /\ \A p \in Requests : l.of \notin dropping'[p]
    BY <2>1, <2>3, <2>4, <2>5 DEF LabelsInv, LinksLabels
  <2>7. LinksLabels(r)' /\ ChecksLabels(r)'
    BY <2>1, <2>2, NoChecks DEF LinksLabels
  <2>8. \A e \in Labels : label'[e] # NULL => Made(e, label[e])'
    <3>1. \A e \in Labels : label[e] # NULL => Made(e, label[e])
      BY DEF LabelsInv
    <3> QED
      BY <1>1, <2>1, <3>1
  <2>9. LabelsOfOwnCollections'
    BY <2>1 DEF LabelsInv, LabelsOfOwnCollections
  <2> QED
    BY <1>1, <1>4, <2>1, <2>6, <2>7, <2>8, <2>9, LabelsKept
<1>8. CASE CascadeLabel(r)
  <2>1. /\ pc[r] = "cascade" /\ UNCHANGED <<added, was, coll, todo, parts>>
        /\ \A q \in Requests \ {r} : pc'[q] = pc[q]
        /\ pc'[r] = "ok"
        /\ links' = links \ {l \in links : l.of = op[r].at}
        /\ dropping' = [dropping EXCEPT ![r] = {}]
        /\ label' = [label EXCEPT ![op[r].at] = NULL]
    BY <1>8 DEF CascadeLabel, FinishDrop, Stage, localVars
  <2>2. added[r] = {} /\ dropping[r] = {op[r].at}
    BY <2>1 DEF Holds, InTx
  <2>3. \A e \in Labels : e # op[r].at => label'[e] = label[e]
    BY <2>1 DEF Shapes
  <2>4. op[r].at \in Labels => label'[op[r].at] = NULL
    BY <2>1 DEF Shapes
  <2>5. \A q \in Requests : dropping'[q] \subseteq dropping[q]
    BY <2>1 DEF Shapes
  <2>6. \A q \in Requests : \A l \in added[q] : l.of \in Labels =>
            label'[l.of] = label[l.of] /\ \A p \in Requests : l.of \notin dropping'[p]
    BY <2>2, <2>3, <2>5 DEF LabelsInv, LinksLabels
  <2>7. LinksLabels(r)' /\ ChecksLabels(r)'
    BY <2>1, <2>2, NoChecks DEF LinksLabels
  <2>8. ASSUME NEW e \in Labels, label'[e] # NULL PROVE Made(e, label[e])'
    <3>1. label'[e] = label[e]
      BY <2>3, <2>4, <2>8
    <3>2. Made(e, label[e])
      BY <2>8, <3>1 DEF LabelsInv
    <3>3. Made(e, label[e])'
      BY <1>1, <3>1, <3>2
    <3> QED
      BY <3>3
  <2>9. LabelsOfOwnCollections'
    BY <2>1, <2>3 DEF LabelsInv, LabelsOfOwnCollections
  <2> QED
    BY <1>1, <1>4, <2>1, <2>6, <2>7, <2>8, <2>9, LabelsKept
<1> QED
  BY StepCases, <1>2, <1>3, <1>5, <1>6, <1>7, <1>8

\* The labels of a new request have ids that were never given out.
LEMMA ReceiveLabels ==
  ASSUME Shapes, Stage, Holds, AssetsInv, LabelsInv, NEW r \in Requests, NEW o \in Ops, Receive(r, o)
  PROVE  LabelsInv'
<1>1. /\ o # NULL /\ OpType(o) /\ UNCHANGED <<linkVars, label, was>> /\ op'[r] = o /\ coll'[r] = o.coll
      /\ pc'[r] = FirstStep(o) /\ pc[r] = "idle"
      /\ NewIds(o) \cap given = {} /\ given' = given \cup NewIds(o)
      /\ \A q \in Requests \ {r} : /\ pc'[q] = pc[q] /\ op'[q] = op[q] /\ coll'[q] = coll[q]
                                   /\ todo'[q] = todo[q] /\ parts'[q] = parts[q]
      /\ FirstStep(o) \in {"resolve", "get", "begin", "createLabels", "drop"}
      /\ FirstStep(o) = "begin" => o.kind = "setAssets"
  BY Arrives
<1>2. UNCHANGED <<links, added, dropping>>
  BY <1>1 DEF linkVars, rowLocks
<1>3. ASSUME NEW e \in Labels, NEW c, Made(e, c) PROVE Made(e, c)'
  BY <1>1, <1>3 DEF Made
<1>4. \A e \in Labels : label'[e] # NULL => Made(e, label[e])'
  <2>1. \A e \in Labels : label[e] # NULL => Made(e, label[e])
    BY DEF LabelsInv
  <2> QED
    BY <1>1, <1>3, <2>1
<1>5. LabelsOfOwnCollections'
  BY <1>1, <1>2 DEF LabelsInv, LabelsOfOwnCollections
<1>6. \A q \in Requests \ {r} : \A l \in added[q] : l.of \in Labels =>
            label'[l.of] = label[l.of] /\ \A p \in Requests : l.of \notin dropping'[p]
  BY <1>1, <1>2 DEF LabelsInv, LinksLabels
<1>7. MakesLabels(r)'
  <2>1. SUFFICES ASSUME o.kind = "createLabels", NEW e \in NewIds(o) PROVE Made(e, o.coll)'
    BY <1>1 DEF MakesLabels
  <2>2. e \in Labels /\ e \in given' /\ e \notin given
    BY <1>1, <2>1, NewIdsTypes
  <2>3. label[e] = NULL
    BY <2>2 DEF LabelsInv, Made
  <2>4. ASSUME NEW q \in Requests \ {r}, op[q] # NULL, op[q].kind = "createLabels" PROVE e \notin NewIds(op[q])
    BY <2>2, <2>4 DEF LabelsInv, MakesLabels, Made
  <2>5. \A q \in Requests : op'[q] # NULL /\ op'[q].kind = "createLabels" /\ e \in NewIds(op'[q]) => op'[q].coll = o.coll
    BY <1>1, <2>4
  <2> QED
    BY <1>1, <2>2, <2>3, <2>5 DEF Made
<1>8. LinksLabels(r)'
  <2>1. added'[r] = {}
    BY <1>1, <1>2 DEF Holds, InTx
  <2> QED
    BY <2>1 DEF LinksLabels
<1>9. ChecksLabels(r)'
  <2>1. ~InTx(r)'
    BY <1>1 DEF InTx
  <2>2. pc'[r] = "begin" => Chosen(r)'
    BY <1>1 DEF Chosen
  <2> QED
    BY <1>1, <2>1, <2>2 DEF ChecksLabels
<1> QED
  BY <1>1, <1>2, <1>3, <1>4, <1>5, <1>6, <1>7, <1>8, <1>9, LabelsKept

(***************************************************************************)
(* Links.                                                                  *)
(***************************************************************************)

\* A request that has not written a link yet.
Fresh(r) == pc[r] \in {"idle", "get", "resolve", "begin"} \/ InTx(r)

\* An id has the key in it.
LEMMA IdsAndKeys ==
  ASSUME NEW k, NEW l
  PROVE  /\ Id(k) = Id(l) => k.by = l.by /\ Key(k) = Key(l)
         /\ k.by = l.by /\ Key(k) = Key(l) => Id(k) = Id(l)
         /\ Key(k) = Key(l) <=> k.of = l.of /\ k.to = l.to
BY DEF Id, Key

\* No step takes a request that may have written links back to where it has
\* written none.
LEMMA StaysWritten ==
  ASSUME Shapes, Stage, NEW r \in Requests, Step(r) \/ Fault(r), NEW q \in Requests, Fresh(q)'
  PROVE  Fresh(q)
<1> USE DEF Goto
<1>1. CASE Looks(r)
  <2>1. PICK there \in {"ok", "failed", "resolve", "disable", "begin", "part", "lookup", "clear", "check", "insert"} :
           /\ pc' = [pc EXCEPT ![r] = there]
           /\ there \in {"part", "lookup", "clear", "check", "insert"} <=> InTx(r)
           /\ there = "resolve" => pc[r] = "get"
           /\ there = "begin" => pc[r] = "resolve"
    BY <1>1, LookMoves
  <2>2. pc'[r] = there /\ \A p \in Requests \ {r} : pc'[p] = pc[p]
    BY <2>1 DEF Stage
  <2>3. CASE q = r
    BY <2>1, <2>2, <2>3 DEF Fresh, InTx
  <2>4. CASE q # r
    BY <2>2, <2>4 DEF Fresh, InTx
  <2> QED
    BY <2>3, <2>4
<1>2. CASE ~Looks(r)
  <2>1. \A p \in Requests \ {r} : pc'[p] = pc[p]
    BY <1>2, StepCases, ZenonT(30) DEF GivesUp, Abort, Begin, ClearPart, PartCleared, InsertItem, Commit, DisableAsset, CreateLabel,
       DeleteLabel, CascadeLabel, Stage
  <2>2. CASE Begin(r) \/ ClearPart(r) \/ PartCleared(r) \/ InsertItem(r)
    BY <2>1, <2>2 DEF Begin, ClearPart, PartCleared, InsertItem, Fresh, InTx
  <2>3. CASE ~(Begin(r) \/ ClearPart(r) \/ PartCleared(r) \/ InsertItem(r))
    <3>1. pc'[r] \in {"failed", "ok", "reread", "createLabels", "cascade"}
      BY <1>2, <2>3, StepCases, ZenonT(30) DEF GivesUp, Abort, Commit, DisableAsset, CreateLabel, DeleteLabel, CascadeLabel, Stage
    <3> QED
      BY <2>1, <3>1 DEF Fresh, InTx
  <2> QED
    BY <2>2, <2>3
<1> QED
  BY <1>1, <1>2

\* Links are kept by statements that write none, and by a rollback.
LEMMA LinksAlone ==
  ASSUME LinksInv, links' = links,
         \A q \in Requests : \/ dead'[q] = dead[q] /\ added'[q] = added[q]
                             \/ dead'[q] = {} /\ added'[q] = {},
         \A q \in Requests : Fresh(q)' => Fresh(q)
  PROVE  LinksInv'
<1>1. \A q \in Requests : Fresh(q)' => \A l \in links' : l.by # q
  BY DEF LinksInv, Fresh
<1>2. \A q \in Requests : dead'[q] \subseteq dead[q] /\ added'[q] \subseteq added[q]
  OBVIOUS
<1>3. \A q \in Requests : \A l \in added'[q] : dead'[q] = dead[q]
  OBVIOUS
<1>4. /\ \A k, l \in links' : Key(k) = Key(l) => k = l
      /\ \A q \in Requests : dead'[q] \subseteq Ids(links')
      /\ \A p, q \in Requests : p # q => dead'[p] \cap dead'[q] = {}
  BY <1>2 DEF LinksInv
<1>5. /\ \A q \in Requests : \A k, l \in added'[q] : Key(k) = Key(l) => k = l
      /\ \A p, q \in Requests : p # q => \A k \in added'[p], l \in added'[q] : Key(k) # Key(l)
      /\ \A q \in Requests : \A l \in added'[q] :
            l.by = q /\ \A k \in links' : Key(k) = Key(l) => Id(k) \in dead'[q]
  BY <1>2, <1>3 DEF LinksInv
<1> QED
  BY <1>1, <1>4, <1>5 DEF LinksInv, Fresh

\* Statements that write no link.
LEMMA QuietLinks ==
  ASSUME Shapes, Stage, LinksInv, NEW r \in Requests, Step(r) \/ Fault(r),
         Looks(r) \/ GivesUp(r) \/ Begin(r) \/ ClearPart(r) \/ DisableAsset(r) \/ CreateLabel(r) \/ DeleteLabel(r)
  PROVE  LinksInv'
<1> USE DEF linkVars, rowLocks
<1>1. \A q \in Requests : Fresh(q)' => Fresh(q)
  BY StaysWritten
<1>2. CASE GivesUp(r)
  <2>1. links' = links /\ \A q \in Requests : \/ dead'[q] = dead[q] /\ added'[q] = added[q]
                                              \/ dead'[q] = {} /\ added'[q] = {}
    BY <1>2 DEF GivesUp, Abort, Rollback, Forget, Shapes
  <2> QED
    BY <1>1, <2>1, LinksAlone
<1>3. CASE ~GivesUp(r)
  <2>1. Looks(r) => UNCHANGED <<links, dead, added>>
    BY LookMoves
  <2>2. UNCHANGED <<links, dead, added>>
    BY <1>3, <2>1 DEF Begin, LockRows, ClearPart, StartDelete, DisableAsset, CreateLabel, DeleteLabel, StartDrop
  <2> QED
    BY <1>1, <2>2, LinksAlone
<1> QED
  BY <1>2, <1>3

\* A DELETE takes only rows that nobody else has taken.
LEMMA ClearedLinks ==
  ASSUME Shapes, Stage, LinksInv, NEW r \in Requests, Step(r) \/ Fault(r), PartCleared(r)
  PROVE  LinksInv'
<1>1. /\ UNCHANGED <<links, added>>
      /\ \A q \in Requests : dead'[q] = IF q = r THEN dead[r] \cup (snap[r] \cap Ids(links)) ELSE dead[q]
      /\ \A q \in Requests \ {r} : dead[q] \cap snap[r] = {}
  BY DEF PartCleared, FinishDelete, HoldRows, Others, Shapes
<1>2. \A q \in Requests : Fresh(q)' => Fresh(q)
  BY StaysWritten
<1>3. /\ \A q \in Requests : dead[q] \subseteq dead'[q] /\ dead'[q] \subseteq Ids(links')
      /\ \A p, q \in Requests : p # q => dead'[p] \cap dead'[q] = {}
  BY <1>1 DEF LinksInv
<1>4. \A q \in Requests : \A l \in added'[q] :
         l.by = q /\ \A k \in links' : Key(k) = Key(l) => Id(k) \in dead'[q]
  BY <1>1, <1>3 DEF LinksInv
<1> QED
  BY <1>1, <1>2, <1>3, <1>4 DEF LinksInv, Fresh

\* An INSERT finds no row with its key, and nobody else has inserted one.
LEMMA InsertedLinks ==
  ASSUME Shapes, Stage, LinksInv, NEW r \in Requests, Step(r) \/ Fault(r), InsertItem(r)
  PROVE  LinksInv'
<1> DEFINE new == NewLink(r)
           key == KeyOf(r, Head(todo[r]))
<1>0. \A q \in Requests : Fresh(q)' => Fresh(q)
  BY StaysWritten
<1>1. /\ UNCHANGED <<links, dead>> /\ pc[r] = "insert" /\ InsertWaits(r, key) = {}
      /\ Present(r, key) => added' = added
      /\ ~Present(r, key) => added' = [added EXCEPT ![r] = @ \cup {new}]
  BY Zenon DEF InsertItem, InsertLink, NewLink, linkVars
<1>2. new.by = r /\ Key(new) = key
  BY <1>1, NewLinkType
<1> HIDE DEF new, key
<1>3. CASE Present(r, key)
  <2>1. added' = added
    BY <1>1, <1>3
  <2> QED
    BY <1>0, <1>1, <2>1, LinksAlone
<1>4. CASE ~Present(r, key)
  <2>1. \A q \in Requests : added'[q] = IF q = r THEN added[r] \cup {new} ELSE added[q]
    BY <1>1, <1>4 DEF Shapes
  <2>2. \A l \in links \cup added[r] : Key(l) = Key(new) => Id(l) \in dead[r]
    BY <1>2, <1>4 DEF Present
  <2>3. \A q \in Requests \ {r} : \A a \in added[q] : Key(a) # Key(new)
    BY <1>1, <1>2 DEF InsertWaits, HoldKey, Written, Others
  <2>4. \A a \in added[r] : Key(a) # Key(new)
    <3>1. \A x \in dead[r] : \E k \in links : x = Id(k) /\ k.by # r
      BY <1>1 DEF LinksInv, Ids, InTx
    <3>2. \A a \in added[r] : a.by = r
      BY DEF LinksInv
    <3> QED
      BY <2>2, <3>1, <3>2, IdsAndKeys
  <2>5. \A q \in Requests : \A k, l \in added'[q] : Key(k) = Key(l) => k = l
    BY <2>1, <2>4 DEF LinksInv
  <2>6. \A p, q \in Requests : p # q => \A k \in added'[p], l \in added'[q] : Key(k) # Key(l)
    BY <2>1, <2>3 DEF LinksInv
  <2>7. \A q \in Requests : \A l \in added'[q] :
           l.by = q /\ \A k \in links' : Key(k) = Key(l) => Id(k) \in dead'[q]
    BY <1>1, <1>2, <2>1, <2>2 DEF LinksInv
  <2>8. \A q \in Requests : Fresh(q)' => \A l \in links' : l.by # q
    BY <1>0, <1>1 DEF LinksInv, Fresh
  <2>9. /\ \A k, l \in links' : Key(k) = Key(l) => k = l
        /\ \A q \in Requests : dead'[q] \subseteq Ids(links')
        /\ \A p, q \in Requests : p # q => dead'[p] \cap dead'[q] = {}
    BY <1>1 DEF LinksInv
  <2> QED
    BY <2>5, <2>6, <2>7, <2>8, <2>9 DEF LinksInv, Fresh
<1> QED
  BY <1>3, <1>4

\* A commit: what the transaction has deleted goes, and what it has inserted
\* comes, under keys that are free and that nobody else has inserted.
LEMMA CommittedLinks ==
  ASSUME Shapes, Stage, LinksInv, NEW r \in Requests, Step(r) \/ Fault(r), Commit(r)
  PROVE  LinksInv'
<1>1. /\ links' = {l \in links : Id(l) \notin dead[r]} \cup added[r]
      /\ \A q \in Requests : /\ dead'[q] = IF q = r THEN {} ELSE dead[q]
                             /\ added'[q] = IF q = r THEN {} ELSE added[q]
  BY DEF Commit, CommitLinks, Forget, Shapes
<1>2. \A q \in Requests : Fresh(q)' => Fresh(q) /\ q # r
  <2>1. ~Fresh(r)'
    BY DEF Commit, Goto, Fresh, InTx, Stage
  <2> QED
    BY <2>1, StaysWritten
<1>3. \A k, l \in links' : Key(k) = Key(l) => k = l
  BY <1>1 DEF LinksInv
<1>4. \A q \in Requests : Fresh(q)' => \A l \in links' : l.by # q
  BY <1>1, <1>2 DEF LinksInv, Fresh
<1>5. \A q \in Requests : dead'[q] \subseteq Ids(links')
  BY <1>1 DEF LinksInv, Ids
<1>6. \A p, q \in Requests : p # q => dead'[p] \cap dead'[q] = {}
  BY <1>1 DEF LinksInv
<1>7. /\ \A q \in Requests : \A k, l \in added'[q] : Key(k) = Key(l) => k = l
      /\ \A p, q \in Requests : p # q => \A k \in added'[p], l \in added'[q] : Key(k) # Key(l)
  BY <1>1 DEF LinksInv
<1>8. \A q \in Requests : \A l \in added'[q] :
         l.by = q /\ \A k \in links' : Key(k) = Key(l) => Id(k) \in dead'[q]
  BY <1>1 DEF LinksInv
<1> QED
  BY <1>3, <1>4, <1>5, <1>6, <1>7, <1>8 DEF LinksInv, Fresh

\* The links that go with a label have not been deleted by anybody else.
LEMMA DroppedLinks ==
  ASSUME Shapes, Stage, Holds, LinksInv, NEW r \in Requests, Step(r) \/ Fault(r), CascadeLabel(r)
  PROVE  LinksInv'
<1>1. /\ links' = links \ {l \in links : l.of = op[r].at} /\ UNCHANGED <<dead, added>>
      /\ HasDeleted(r, op[r].at) = {} /\ dead[r] = {}
  BY DEF CascadeLabel, FinishDrop, Goto, Holds, InTx
<1>2. \A q \in Requests : \A l \in links : Id(l) \in dead[q] => l.of # op[r].at
  BY <1>1 DEF HasDeleted, Others
<1>3. \A q \in Requests : dead'[q] \subseteq Ids(links')
  BY <1>1, <1>2 DEF LinksInv, Ids
<1>4. \A q \in Requests : Fresh(q)' => Fresh(q)
  BY StaysWritten
<1>5. links' \subseteq links
  BY <1>1
<1>6. \A q \in Requests : Fresh(q)' => \A l \in links' : l.by # q
  BY <1>4, <1>5 DEF LinksInv, Fresh
<1>7. \A q \in Requests : \A l \in added'[q] :
         l.by = q /\ \A k \in links' : Key(k) = Key(l) => Id(k) \in dead'[q]
  BY <1>1, <1>5 DEF LinksInv
<1>8. /\ \A k, l \in links' : Key(k) = Key(l) => k = l
      /\ \A p, q \in Requests : p # q => dead'[p] \cap dead'[q] = {}
      /\ \A q \in Requests : \A k, l \in added'[q] : Key(k) = Key(l) => k = l
      /\ \A p, q \in Requests : p # q => \A k \in added'[p], l \in added'[q] : Key(k) # Key(l)
  BY <1>1, <1>5 DEF LinksInv
<1> QED
  BY <1>3, <1>6, <1>7, <1>8 DEF LinksInv, Fresh

\* Every step keeps the links.
LEMMA StepLinks ==
  ASSUME Shapes, Stage, Holds, LinksInv, NEW r \in Requests, Step(r) \/ Fault(r)
  PROVE  LinksInv'
BY StepCases, QuietLinks, ClearedLinks, InsertedLinks, CommittedLinks, DroppedLinks

\* A request arrives and has written nothing.
LEMMA ReceiveLinks ==
  ASSUME Shapes, Stage, LinksInv, NEW r \in Requests, NEW o \in Ops, Receive(r, o)
  PROVE  LinksInv'
<1>1. UNCHANGED <<links, dead, added>>
  BY DEF Receive, linkVars
<1>2. \A q \in Requests : Fresh(q)' => Fresh(q)
  BY DEF Receive, Goto, Fresh, InTx, Stage
<1> QED
  BY <1>1, <1>2, LinksAlone

(***************************************************************************)
(* Lists.                                                                  *)
(***************************************************************************)

\* Lists are kept by a step of r that adds no link, when r goes on to replace
\* what its rivals have written.
LEMMA ListsFrame ==
  ASSUME Stage, ListsInv, NEW r \in Requests, op' = op, links' \subseteq links,
         \A q \in Requests \ {r} : /\ pc'[q] = pc[q] /\ parts'[q] = parts[q]
                                   /\ dead'[q] = dead[q] /\ added'[q] = added[q] /\ snap'[q] = snap[q],
         \A q \in Requests : Rivals(r, q) => (InTx(r)' => ~InTx(q)) /\ Replaces(r, q)'
  PROVE  ListsInv'
<1>1. OneListAtATime'
  BY DEF ListsInv, OneListAtATime, Part
<1>2. \A l \in links' : l.by \in Requests /\ Updates(op'[l.by]) => l.to = op'[l.by].at
  BY DEF ListsInv
<1>3. \A q \in Requests \ {r} : (InTx(q)' <=> InTx(q)) /\ InHand(q)' = InHand(q)
  BY DEF InTx, InHand
<1>4. \A p, q \in Requests : Rivals(p, q)' <=> Rivals(p, q)
  BY DEF Rivals
<1>5. ASSUME NEW p \in Requests, NEW q \in Requests, Rivals(p, q)
      PROVE  ~(InTx(p)' /\ InTx(q)') /\ Replaces(p, q)'
  <2>1. p # q /\ Rivals(q, p)
    BY <1>5 DEF Rivals
  <2>2. ~(InTx(p) /\ InTx(q)) /\ Replaces(p, q)
    BY <1>5 DEF ListsInv
  <2>3. ~(InTx(p)' /\ InTx(q)')
    <3>1. CASE p = r
      BY <1>3, <1>5, <2>1, <3>1
    <3>2. CASE q = r
      BY <1>3, <2>1, <3>2
    <3>3. CASE p # r /\ q # r
      BY <1>3, <2>2, <3>3
    <3> QED
      BY <3>1, <3>2, <3>3
  <2>4. CASE p = r
    BY <1>5, <2>3, <2>4
  <2>5. CASE p # r
    <3>1. /\ pc'[p] = pc[p] /\ dead'[p] = dead[p] /\ added'[p] = added[p] /\ snap'[p] = snap[p]
          /\ InHand(p)' = InHand(p) /\ op' = op
      BY <1>3, <2>5
    <3>2. Replaces(p, q)'
      BY <2>2, <3>1 DEF Replaces
    <3> QED
      BY <2>3, <3>2
  <2> QED
    BY <2>4, <2>5
<1> QED
  BY <1>1, <1>2, <1>4, <1>5 DEF ListsInv

\* Steps outside the transactions, and those that end one without a commit.
LEMMA OutsideLists ==
  ASSUME Shapes, Stage, Holds, ListsInv, NEW r \in Requests,
         GivesUp(r) \/ Begin(r) \/ DisableAsset(r) \/ CreateLabel(r) \/ DeleteLabel(r) \/ CascadeLabel(r)
  PROVE  ListsInv'
<1> USE DEF Goto
<1>1. op' = op /\ links' \subseteq links
  BY DEF GivesUp, Abort, Rollback, Begin, LockRows, DisableAsset, CreateLabel, DeleteLabel, StartDrop, CascadeLabel,
     FinishDrop, linkVars, localVars
<1>2. \A q \in Requests \ {r} : /\ pc'[q] = pc[q] /\ parts'[q] = parts[q]
                                /\ dead'[q] = dead[q] /\ added'[q] = added[q] /\ snap'[q] = snap[q]
  BY DEF GivesUp, Abort, Rollback, Forget, Begin, LockRows, DisableAsset, CreateLabel, DeleteLabel, StartDrop,
     CascadeLabel, FinishDrop, linkVars, localVars, Shapes, Stage
<1>3. added'[r] = {}
  <2>1. GivesUp(r) => added'[r] = {}
    BY DEF GivesUp, Abort, Rollback, Forget, Shapes
  <2>2. ~GivesUp(r) => added' = added /\ ~InTx(r)
    BY DEF Begin, LockRows, DisableAsset, CreateLabel, DeleteLabel, StartDrop, CascadeLabel, FinishDrop, linkVars,
       InTx
  <2> QED
    BY <2>1, <2>2 DEF Holds
<1>4. pc'[r] \in {"failed", "ok", "part", "createLabels", "cascade"} /\ (pc'[r] = "part" => Begin(r))
  BY DEF GivesUp, Abort, Begin, DisableAsset, CreateLabel, DeleteLabel, CascadeLabel, Stage
<1>5. ASSUME NEW q \in Requests, Rivals(r, q), InTx(r)' PROVE ~InTx(q)
  <2>1. Begin(r)
    BY <1>4, <1>5 DEF InTx
  <2>2. Updating(r, op[r].at) = {} /\ q # r /\ op[q].at = op[r].at /\ Updates(op[q])
    BY <1>5, <2>1 DEF Begin, Rivals
  <2>3. op[r].at \notin locked[q]
    BY <2>2 DEF Updating, Others
  <2> QED
    BY <2>2, <2>3 DEF Holds
<1>6. \A q \in Requests : Replaces(r, q)'
  BY <1>3, <1>4 DEF Replaces
<1> QED
  BY <1>1, <1>2, <1>5, <1>6, ListsFrame

\* A list that is looked at is replaced when it has been cleared.
LEMMA LookLists ==
  ASSUME Shapes, Stage, Holds, ListsInv, NEW r \in Requests, Looks(r)
  PROVE  ListsInv'
<1> USE DEF Goto
<1>1. /\ UNCHANGED <<linkVars, rowVars, op>>
      /\ pc[r] \in {"get", "resolve", "part", "lookup", "check", "reread"}
      /\ \A q \in Requests \ {r} : parts'[q] = parts[q]
  BY LookMoves
<1>2. PICK there \in {"ok", "failed", "resolve", "disable", "begin", "part", "lookup", "clear", "check", "insert"} :
         /\ pc' = [pc EXCEPT ![r] = there]
         /\ there \in {"part", "lookup", "clear", "check", "insert"} <=> InTx(r)
  BY LookMoves
<1>3. pc'[r] = there /\ \A q \in Requests \ {r} : pc'[q] = pc[q]
  BY <1>2 DEF Stage
<1>4. UNCHANGED <<links, dead, added, snap>>
  BY <1>1 DEF linkVars
<1>5. snap'[r] = {}
  BY <1>1, <1>4 DEF Holds
<1>6. ASSUME NEW q \in Requests, Rivals(r, q), pc'[r] \in {"check", "insert"}
      PROVE  pc[r] = "check" /\ InHand(r)' = InHand(r)
  <2>1. op[r].kind = "updateAsset"
    BY <1>6 DEF Rivals, Updates
  <2>2. ~NextPart(r)
    BY <1>6, <2>1 DEF NextPart, Stage
  <2>3. ~ResolveLabelNames(r)
    <3>1. ResolveLabelNames(r) => pc'[r] = "begin"
      BY Zenon DEF ResolveLabelNames, Stage
    <3> QED
      BY <1>6, <3>1
  <2>4. CheckItem(r)
    BY <1>6, <2>2, <2>3 DEF Looks, GetAsset, LookupCollection, PartDone, Reread, Stage
  <2> QED
    BY <2>4 DEF CheckItem, localVars, InHand
<1>7. ASSUME NEW q \in Requests, Rivals(r, q) PROVE (InTx(r)' => ~InTx(q)) /\ Replaces(r, q)'
  <2>1. ~(InTx(r) /\ InTx(q)) /\ Replaces(r, q)
    BY <1>7 DEF ListsInv
  <2>2. InTx(r)' => InTx(r)
    BY <1>2, <1>3 DEF InTx
  <2>3. Replaces(r, q)'
    BY <1>1, <1>4, <1>5, <1>6, <1>7, <2>1 DEF Replaces
  <2> QED
    BY <2>1, <2>2, <2>3
<1> QED
  BY <1>1, <1>3, <1>4, <1>7, ListsFrame

\* The statements that replace a list: its rows are seen, deleted, and then new
\* ones inserted.
LEMMA ReplacingLists ==
  ASSUME Shapes, Stage, Holds, ListsInv, NEW r \in Requests, ClearPart(r) \/ PartCleared(r) \/ InsertItem(r)
  PROVE  ListsInv'
<1> USE DEF Goto
<1>1. UNCHANGED <<op, links, parts>> /\ InTx(r)
  BY DEF ClearPart, StartDelete, PartCleared, FinishDelete, InsertItem, InsertLink, linkVars, localVars, InTx
<1>2. \A q \in Requests \ {r} : /\ pc'[q] = pc[q] /\ parts'[q] = parts[q]
                                /\ dead'[q] = dead[q] /\ added'[q] = added[q] /\ snap'[q] = snap[q]
  BY DEF ClearPart, StartDelete, PartCleared, FinishDelete, InsertItem, InsertLink, linkVars, localVars, Shapes, Stage
<1>3. SUFFICES ASSUME NEW q \in Requests, Rivals(r, q) PROVE ~InTx(q) /\ Replaces(r, q)'
  BY <1>1, <1>2, ListsFrame
<1>4. ~InTx(q) /\ Replaces(r, q) /\ op[r].kind = "updateAsset"
  BY <1>1, <1>3 DEF ListsInv, Rivals, Updates
<1>5. InHand(r)' = InHand(r)
  BY <1>1 DEF InHand
<1>6. CASE ClearPart(r)
  <2>1. /\ pc[r] = "clear" /\ UNCHANGED <<dead, added>>
        /\ snap'[r] = Ids(Part(op[r].at, InHand(r)))
        /\ pc'[r] = IF snap'[r] = {} THEN "check" ELSE "clear"
    BY <1>6 DEF ClearPart, StartDelete, Shapes, Stage, InHand
  <2>2. \A k \in links : InPart(op[r].at, InHand(r), k) => Id(k) \in snap'[r]
    BY <2>1 DEF Part, Ids
  <2> QED
    BY <1>1, <1>4, <1>5, <2>1, <2>2 DEF Replaces
<1>7. CASE PartCleared(r)
  <2>1. /\ pc[r] = "clear" /\ snap[r] # {} /\ UNCHANGED added /\ pc'[r] = "check"
        /\ dead'[r] = dead[r] \cup (snap[r] \cap Ids(links))
    BY <1>7 DEF PartCleared, FinishDelete, Shapes, Stage
  <2>2. \A k \in links : Id(k) \in Ids(links)
    BY DEF Ids
  <2> QED
    BY <1>1, <1>4, <1>5, <2>1, <2>2 DEF Replaces
<1>8. CASE InsertItem(r)
  <2>1. /\ pc[r] = "insert" /\ UNCHANGED <<dead, snap>> /\ pc'[r] = "check"
        /\ added' = added \/ added' = [added EXCEPT ![r] = @ \cup {NewLink(r)}]
    BY <1>8, Zenon DEF InsertItem, InsertLink, NewLink, linkVars, Stage
  <2> DEFINE n == NewLink(r)
  <2>2. \A l \in added'[r] : l \in added[r] \/ l = n
    BY <2>1 DEF Shapes
  <2>3. ASSUME NEW part \in {"stigs", "labels"}, InPart(op[r].at, part, n) PROVE part = InHand(r)
    <3>1. /\ InHand(r) \in {"stigs", "labels"} => n.of = Head(todo[r])
          /\ InHand(r) \in Parts /\ (InHand(r) = "assets" <=> op[r].kind = "setAssets")
      BY <2>1, NewLinkType
    <3>2. InHand(r) \in {"stigs", "labels"}
      BY <1>4, <3>1 DEF Parts
    <3>3. /\ InHand(r) = "labels" => n.of \in Labels
          /\ InHand(r) = "stigs" => n.of \in Benchmarks
      BY <2>1, <3>1 DEF Stage
    <3> HIDE DEF n
    <3>4. /\ part = "stigs" => n.of \in Benchmarks
          /\ part = "labels" => n.of \in Labels
      BY <2>3 DEF InPart
    <3> QED
      BY <2>3, <3>2, <3>3, <3>4, AssetsAssumption
  <2> HIDE DEF n
  <2> QED
    BY <1>1, <1>4, <1>5, <2>1, <2>2, <2>3 DEF Replaces
<1> QED
  BY <1>6, <1>7, <1>8

\* A commit adds to a list only after what a rival had put there has gone.
LEMMA CommitLists ==
  ASSUME Shapes, Stage, Holds, LabelsInv, LinksInv, ListsInv, NEW r \in Requests, Commit(r)
  PROVE  ListsInv'
<1> USE DEF Goto
<1>1. /\ pc[r] = "part" /\ UNCHANGED <<op, parts>> /\ pc'[r] \in {"reread", "ok"}
      /\ links' = {l \in links : Id(l) \notin dead[r]} \cup added[r]
      /\ added'[r] = {}
  BY DEF Commit, CommitLinks, Forget, localVars, Shapes, Stage
<1>2. \A q \in Requests \ {r} : /\ pc'[q] = pc[q] /\ parts'[q] = parts[q]
                                /\ dead'[q] = dead[q] /\ added'[q] = added[q] /\ snap'[q] = snap[q]
  BY DEF Commit, CommitLinks, Forget, localVars, Shapes, Stage
<1>3. \A l \in added[r] : l.by = r /\ (Updates(op[r]) => l.to = op[r].at)
  BY DEF LinksInv, LabelsInv, LinksLabels, Updates
<1>4. op[r] # NULL /\ InTx(r)
  BY <1>1, Asks DEF InTx
<1>5. ASSUME NEW k \in added[r], NEW l \in links, Id(l) \notin dead[r], l.by \in Requests, l.by # r,
             Updates(op[r]), Updates(op[l.by]), k.to = l.to, NEW part \in {"stigs", "labels"}
      PROVE  ~(InPart(k.to, part, k) /\ InPart(k.to, part, l))
  <2>1. k.to = op[r].at /\ l.to = op[l.by].at
    BY <1>3, <1>5 DEF ListsInv
  <2>2. op[l.by] # NULL
    <3>1. pc[l.by] # "idle"
      BY <1>5 DEF LinksInv
    <3> QED
      BY <1>5, <3>1 DEF Stage
  <2>3. Rivals(r, l.by)
    BY <1>4, <1>5, <2>1, <2>2 DEF Rivals
  <2>4. Replaces(r, l.by)
    BY <1>5, <2>3 DEF ListsInv
  <2> QED
    BY <1>5, <2>1, <2>4 DEF Replaces
<1>6. OneListAtATime'
  <2>1. SUFFICES ASSUME NEW k \in links', NEW l \in links', {k.by, l.by} \subseteq Requests, k.by # l.by,
                        k.to = l.to, Updates(op[k.by]), Updates(op[l.by]), NEW part \in {"stigs", "labels"}
                 PROVE  ~(InPart(k.to, part, k) /\ InPart(k.to, part, l))
    BY <1>1 DEF OneListAtATime, Part
  <2>2. CASE k \in links /\ l \in links
    BY <2>1, <2>2 DEF ListsInv, OneListAtATime, Part
  <2>3. CASE k \in added[r]
    <3>1. l \in links /\ Id(l) \notin dead[r] /\ k.by = r
      BY <1>1, <1>3, <2>1, <2>3
    <3> QED
      BY <1>5, <2>1, <2>3, <3>1
  <2>4. CASE l \in added[r]
    <3>1. k \in links /\ Id(k) \notin dead[r] /\ l.by = r
      BY <1>1, <1>3, <2>1, <2>4
    <3> QED
      BY <1>5, <2>1, <2>4, <3>1
  <2> QED
    BY <1>1, <2>1, <2>2, <2>3, <2>4
<1>7. \A l \in links' : l.by \in Requests /\ Updates(op'[l.by]) => l.to = op'[l.by].at
  BY <1>1, <1>3 DEF ListsInv
<1>8. \A q \in Requests \ {r} : (InTx(q)' <=> InTx(q)) /\ InHand(q)' = InHand(q)
  BY <1>2 DEF InTx, InHand
<1>9. ASSUME NEW p \in Requests, NEW q \in Requests, Rivals(p, q)
      PROVE  ~(InTx(p)' /\ InTx(q)') /\ Replaces(p, q)'
  <2>1. ~(InTx(p) /\ InTx(q)) /\ Replaces(p, q)
    BY <1>9 DEF ListsInv
  <2>2. ~InTx(r)'
    BY <1>1 DEF InTx
  <2>3. CASE p = r
    BY <1>1, <2>2, <2>3 DEF Replaces
  <2>4. CASE p # r /\ q = r
    <3>1. added[p] = {} /\ pc[p] \notin {"clear", "check", "insert"}
      BY <1>4, <2>1, <2>4 DEF Holds, InTx
    <3>2. Replaces(p, q)'
      BY <1>2, <2>4, <3>1 DEF Replaces
    <3> QED
      BY <2>2, <2>4, <3>2
  <2>5. CASE p # r /\ q # r
    <3>1. \A k \in links' : k.by = q => k \in links
      BY <1>1, <1>3, <2>5
    <3>2. Replaces(p, q)'
      BY <1>1, <1>2, <1>8, <2>1, <2>5, <3>1 DEF Replaces
    <3> QED
      BY <1>8, <2>1, <2>5, <3>2
  <2> QED
    BY <2>3, <2>4, <2>5
<1>10. \A p, q \in Requests : Rivals(p, q)' <=> Rivals(p, q)
  BY <1>1 DEF Rivals
<1> QED
  BY <1>6, <1>7, <1>9, <1>10 DEF ListsInv

\* Every step keeps the lists.
LEMMA StepLists ==
  ASSUME Shapes, Stage, Holds, LabelsInv, LinksInv, ListsInv, NEW r \in Requests, Step(r) \/ Fault(r)
  PROVE  ListsInv'
BY StepCases, LookLists, OutsideLists, ReplacingLists, CommitLists

\* A request arrives: no link is by it.
LEMMA ReceiveLists ==
  ASSUME Shapes, Stage, Holds, LinksInv, ListsInv, NEW r \in Requests, NEW o \in Ops, Receive(r, o)
  PROVE  ListsInv'
<1>1. /\ UNCHANGED linkVars /\ pc[r] = "idle" /\ pc'[r] = FirstStep(o)
      /\ \A q \in Requests \ {r} : pc'[q] = pc[q] /\ op'[q] = op[q] /\ parts'[q] = parts[q]
      /\ FirstStep(o) \in {"resolve", "get", "begin", "createLabels", "drop"}
  BY Arrives
<1>2. UNCHANGED <<links, dead, added, snap>>
  BY <1>1 DEF linkVars
<1>3. \A l \in links : l.by # r
  BY <1>1 DEF LinksInv
<1>4. OneListAtATime'
  BY <1>1, <1>2, <1>3 DEF ListsInv, OneListAtATime, Part
<1>5. \A l \in links' : l.by \in Requests /\ Updates(op'[l.by]) => l.to = op'[l.by].at
  BY <1>1, <1>2, <1>3 DEF ListsInv
<1>6. added'[r] = {} /\ ~InTx(r)'
  BY <1>1, <1>2 DEF Holds, InTx
<1>7. ASSUME NEW p \in Requests, NEW q \in Requests, Rivals(p, q)'
      PROVE  ~(InTx(p)' /\ InTx(q)') /\ Replaces(p, q)'
  <2>1. CASE p = r
    BY <1>1, <1>6, <2>1 DEF Replaces
  <2>2. CASE q = r
    BY <1>2, <1>3, <1>6, <2>2 DEF Replaces
  <2>3. CASE p # r /\ q # r
    <3>1. Rivals(p, q) /\ (InTx(p)' <=> InTx(p)) /\ (InTx(q)' <=> InTx(q)) /\ InHand(p)' = InHand(p)
      BY <1>1, <1>7, <2>3 DEF Rivals, InTx, InHand
    <3>2. ~(InTx(p) /\ InTx(q)) /\ Replaces(p, q)
      BY <3>1 DEF ListsInv
    <3>3. Replaces(p, q)'
      BY <1>1, <1>2, <2>3, <3>1, <3>2 DEF Replaces
    <3> QED
      BY <3>1, <3>2, <3>3
  <2> QED
    BY <2>1, <2>2, <2>3
<1> QED
  BY <1>4, <1>5, <1>7 DEF ListsInv

(***************************************************************************)
(* The invariant, and what follows from it.                                *)
(***************************************************************************)

\* The tables at first.
LEMMA InitInv == Init => Inv
<1> SUFFICES ASSUME Init PROVE Inv
  OBVIOUS
<1>1. PICK s \in AtFirst : links = s.links /\ asset = s.asset /\ label = s.label
  BY Zenon DEF Init, LinksInit
<1>2. TablesType(s)
  BY AssetsAssumption
<1>3. /\ asset \in [Assets -> AssetRow \cup {NULL}] /\ label \in [Labels -> Colls \cup {NULL}]
      /\ links \subseteq LinkRow /\ \A k, l \in links : Key(k) = Key(l) => k = l
      /\ \A l \in links : /\ l.by = NULL /\ asset[l.to] # NULL
                          /\ l.of \in Labels => label[l.of] = asset[l.to].coll
  BY <1>1, <1>2 DEF TablesType
<1>4. /\ dead = [r \in Requests |-> {}] /\ added = [r \in Requests |-> {}] /\ snap = [r \in Requests |-> {}]
      /\ locked = [r \in Requests |-> {}] /\ dropping = [r \in Requests |-> {}]
      /\ pc = [r \in Requests |-> "idle"] /\ op = [r \in Requests |-> NULL] /\ coll = [r \in Requests |-> NULL]
      /\ todo = [r \in Requests |-> <<>>] /\ parts = [r \in Requests |-> <<>>]
      /\ given = {a \in Assets : asset[a] # NULL} \cup {l \in Labels : label[l] # NULL}
      /\ was = [a \in Assets |-> IF asset[a] = NULL THEN {} ELSE {asset[a].coll}]
  BY Zenon DEF Init, LinksInit
<1>5. Shapes
  <2>1. was \in [Assets -> SUBSET Colls]
    BY <1>3, <1>4 DEF AssetRow
  <2>2. given \subseteq Assets \cup Labels
    BY <1>4
  <2>3. IsSequence(<<>>)
    BY DEF IsSequence
  <2> QED
    BY <1>3, <1>4, <2>1, <2>2, <2>3 DEF Shapes
<1>6. \A r \in Requests : /\ pc[r] = "idle" /\ op[r] = NULL /\ ~InTx(r) /\ ~Creates(r)
                          /\ dead[r] = {} /\ added[r] = {} /\ snap[r] = {} /\ locked[r] = {} /\ dropping[r] = {}
  BY <1>4 DEF InTx, Creates
<1>7. Stage
  BY <1>4, <1>6 DEF Stage
<1>8. Holds
  BY <1>6 DEF Holds
<1>9. AssetsInv
  BY <1>4, <1>6 DEF AssetsInv
<1>10. LabelsOfOwnCollections
  BY <1>3, <1>4 DEF LabelsOfOwnCollections, LinkRow
<1>11. LabelsInv
  <2>1. \A e \in Labels : label[e] # NULL => Made(e, label[e])
    BY <1>4, <1>6 DEF Made
  <2> QED
    BY <1>6, <1>10, <2>1 DEF LabelsInv, MakesLabels, LinksLabels, ChecksLabels
<1>12. \A l \in links : l.by \notin Requests
  BY <1>3, AssetsAssumption
<1>13. LinksInv
  BY <1>3, <1>6, <1>12 DEF LinksInv
<1>14. ListsInv
  BY <1>6, <1>12 DEF ListsInv, OneListAtATime, Rivals
<1> QED
  BY <1>5, <1>7, <1>8, <1>9, <1>11, <1>13, <1>14 DEF Inv

\* Every step keeps the invariant.
LEMMA InvNext == Inv /\ [Next]_vars => Inv'
<1> SUFFICES ASSUME Inv, [Next]_vars PROVE Inv'
  OBVIOUS
<1> USE DEF Inv
<1>1. ASSUME NEW r \in Requests, Step(r) \/ Fault(r) PROVE Inv'
  <2>1. Shapes' /\ Stage'
    BY <1>1, StepCases, LookShapes, LookStage, WriteShapes, WriteStage
  <2> QED
    BY <1>1, <2>1, StepHolds, StepAssets, StepLabels, StepLinks, StepLists
<1>2. ASSUME NEW r \in Requests, NEW o \in Ops, Receive(r, o) PROVE Inv'
  BY <1>2, ReceiveTypes, ReceiveHolds, ReceiveAssets, ReceiveLabels, ReceiveLinks, ReceiveLists
<1>3. CASE UNCHANGED vars
  <2>1. UNCHANGED <<linkVars, rowLocks, rowVars, pc, localVars>>
    BY <1>3 DEF vars, linkVars
  <2>2. Shapes' /\ Stage' /\ Holds'
    BY <2>1 DEF linkVars, rowLocks, rowVars, localVars, Shapes, Stage, Holds, InTx, InHand
  <2>3. AssetsInv'
    BY <2>1 DEF rowVars, localVars, AssetsInv, InTx, Creates, Enabled
  <2>4. LabelsInv'
    <3>1. UNCHANGED <<links, added, dropping, label, given, was, op, pc, coll, todo, parts>>
      BY <2>1 DEF linkVars, rowLocks, rowVars, localVars
    <3>2. /\ \A e : \A c : Made(e, c)' <=> Made(e, c)
          /\ \A r \in Requests : /\ Homes(r)' = Homes(r) /\ (InTx(r)' <=> InTx(r)) /\ InHand(r)' = InHand(r)
                                 /\ (Creates(r)' <=> Creates(r))
      BY <3>1 DEF Made, Homes, InTx, InHand, Creates
    <3>3. \A e \in Labels : label'[e] # NULL => Made(e, label[e])'
      BY <3>1, <3>2 DEF LabelsInv
    <3>4. LabelsOfOwnCollections'
      BY <3>1 DEF LabelsInv, LabelsOfOwnCollections
    <3>5. ASSUME NEW r \in Requests PROVE MakesLabels(r)' /\ LinksLabels(r)'
      BY <3>1, <3>2 DEF LabelsInv, MakesLabels, LinksLabels
    <3>6. ASSUME NEW r \in Requests PROVE ChecksLabels(r)'
      <4>1. Chosen(r) => Chosen(r)'
        <5>1. /\ Made(op[r].at, coll[r])' <=> Made(op[r].at, coll[r])
              /\ Made(Head(todo[r]), coll[r])' <=> Made(Head(todo[r]), coll[r])
          BY <3>1 DEF Made
        <5> QED
          BY <3>1, <3>2, <5>1 DEF Chosen
      <4> QED
        BY <3>1, <3>2, <4>1 DEF LabelsInv, ChecksLabels
    <3> QED
      BY <3>3, <3>4, <3>5, <3>6 DEF LabelsInv
  <2>5. LinksInv'
    BY <2>1 DEF linkVars, LinksInv, InTx
  <2>6. ListsInv'
    BY <2>1 DEF linkVars, localVars, ListsInv, OneListAtATime, Part, Rivals, Replaces, InTx, InHand
  <2> QED
    BY <2>2, <2>3, <2>4, <2>5, <2>6
<1> QED
  BY <1>1, <1>2, <1>3 DEF Next, AllDone

\* The invariant holds of every behaviour.
LEMMA Invariance == Spec => []Inv
BY InitInv, InvNext, PTL DEF Spec

\* The tables of assets and labels agree after every statement, for any bodies,
\* moves, deletes and failures: a key stands once, rival updates do not mix
\* their lists, and a label is on an asset only if the asset is or was in the
\* collection of the label.
THEOREM TablesStayInAgreement == Spec => []TablesAgree
<1>1. Inv => TablesAgree
  <2>1. Inv => LinksOK(LinkRow, Assets \cup Labels)
    BY DEF Inv, Shapes, LinksInv, LinksOK
  <2>2. Inv => TypeOK
    BY <2>1 DEF Inv, Shapes, Stage, TypeOK
  <2> QED
    BY <2>2 DEF Inv, LabelsInv, ListsInv, TablesAgree
<1> QED
  BY <1>1, Invariance, PTL

\* An update that sets a column has locked a row that was enabled, one that sets
\* none leaves the row as it is, and a new asset is nobody else's.
LEMMA DeletedStep == Inv /\ Next =>
    \A a \in Assets : asset[a] # NULL /\ ~asset[a].enabled => asset'[a] = asset[a]
<1> SUFFICES ASSUME Inv, Next, NEW a \in Assets, asset[a] # NULL, ~asset[a].enabled
             PROVE  asset'[a] = asset[a]
  OBVIOUS
<1> USE DEF Inv
<1>1. ASSUME NEW r \in Requests, Commit(r) PROVE asset'[a] = asset[a]
  <2>1. pc[r] = "part" /\ InTx(r) /\ op[r] # NULL /\ (op[r].at \notin Assets => asset' = asset)
    BY <1>1, Asks DEF Commit, Goto, InTx
  <2>2. CASE op[r].at # a
    <3>1. op[r].at \in Assets => asset' = [asset EXCEPT ![op[r].at] = CommitRow(r)]
      BY <1>1, CommitRowType
    <3> QED
      BY <2>1, <2>2, <3>1 DEF Shapes
  <2>3. CASE op[r].at = a
    <3>1. /\ op[r].kind \in {"createAsset", "updateAsset"} /\ asset'[a] = CommitRow(r)
          /\ op[r].kind = "updateAsset" /\ ~(Updates(op[r]) /\ op[r].coll # NULL) => CommitRow(r) = asset[a]
      BY <1>1, <2>3, CommitRowType DEF Shapes
    <3>2. op[r].kind # "createAsset"
      BY <2>1, <2>3 DEF AssetsInv, Creates
    <3>3. ~Updates(op[r])
      BY <2>1, <2>3 DEF AssetsInv, Enabled
    <3> QED
      BY <3>1, <3>2, <3>3
  <2> QED
    BY <2>2, <2>3
<1>2. ASSUME NEW r \in Requests, DisableAsset(r) PROVE asset'[a] = asset[a]
  <2>1. asset' = [asset EXCEPT ![op[r].at].enabled = FALSE]
    BY <1>2 DEF DisableAsset
  <2>2. asset[a] \in AssetRow /\ asset[a].enabled = FALSE
    BY DEF Shapes, AssetRow
  <2>3. [asset[a] EXCEPT !.enabled = FALSE] = asset[a]
    BY <2>2 DEF AssetRow
  <2> QED
    BY <2>1, <2>3 DEF Shapes
<1>3. ASSUME NEW r \in Requests, Step(r) \/ Fault(r) PROVE asset' = asset \/ Commit(r) \/ DisableAsset(r)
  BY <1>3, StepCases, LookMoves DEF GivesUp, Abort, Begin, ClearPart, PartCleared, InsertItem, CreateLabel, DeleteLabel,
     CascadeLabel, rowVars
<1>4. asset' = asset \/ \E r \in Requests : Commit(r) \/ DisableAsset(r)
  BY <1>3 DEF Next, AllDone, vars, rowVars, Receive
<1> QED
  BY <1>1, <1>2, <1>4

\* A deleted asset stays as it was, whatever updates of it are under way.
THEOREM DeletedAssetsStay == Spec => DeletedStay
<1>1. Inv /\ [Next]_vars =>
         [\A a \in Assets : asset[a] # NULL /\ ~asset[a].enabled => asset'[a] = asset[a]]_vars
  BY DeletedStep
<1> QED
  BY <1>1, Invariance, PTL DEF Spec, DeletedStay

=============================================================================
