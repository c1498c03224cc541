-------------------------- MODULE ReviewStore_proofs --------------------------
(***************************************************************************)
(* Proofs about ReviewStore: for any sets of pairs, requests and bodies,   *)
(* with requests cut off at any point.                                     *)
(***************************************************************************)
EXTENDS ReviewStore, TLAPS

(***************************************************************************)
(* Types.                                                                  *)
(***************************************************************************)

\* The first state.
LEMMA InitType == Init => TypeOK
<1> SUFFICES ASSUME Init PROVE TypeOK
  OBVIOUS
<1>1. [id |-> 0, ts |-> 0, label |-> "saved"] \in Row
  BY DEF Row, Labels
<1>2. row \in [Pairs -> Nullable(Row)]
  BY <1>1 DEF Init, Nullable
<1> QED
  BY <1>2 DEF Init, TypeOK, Nullable

\* What transactions take from a row.
LEMMA RowParts ==
  ASSUME TypeOK, NEW p \in Pairs
  PROVE  /\ IdOf(row[p]) \in Nullable(Nat)
         /\ Label(row[p]) \in Nullable(Labels)
         /\ row[p] # NULL => row[p] \in Row /\ row[p].id \in Nat /\ row[p].ts \in Nat
                             /\ row[p].label \in Labels
BY DEF TypeOK, Nullable, IdOf, Label, Row

\* The end of a transaction keeps the types.
LEMMA CloseType ==
  ASSUME TypeOK, NEW q \in Requests, Close(q), row' \in [Pairs -> Nullable(Row)],
         history' \in [Pairs -> SUBSET Entry]
  PROVE  TypeOK'
<1> USE DEF TypeOK, handlerVars
<1>1. lock' \in [Pairs -> Nullable(Requests)]
  BY DEF Close, Nullable
<1>2. /\ saved' \in [Requests -> Nullable(Row)] /\ target' \in [Requests -> Nullable(Nat)]
      /\ draft' \in [Requests -> Nullable(Row)]
  BY DEF Close, Nullable
<1> QED
  BY <1>1, <1>2 DEF Close

\* A request has a body once it has arrived, and a transaction works on a pair.
OnPair ==
    \A q \in Requests :
       /\ pc[q] # "idle" => body[q] \in Bodies
       /\ pc[q] \in {"begin", "snapshot", "lock", "exists", "write", "writeLock", "commit"} =>
             cur[q] \in Pairs /\ op[q] \in {"put", "patch", "delete"}

\* What a transaction is about to commit is a version of its own time.
LEMMA NewVersion ==
  ASSUME TypeOK, OnPair, NEW q \in Requests, Upsert(q) \/ (Update(q) /\ Hits(q))
  PROVE  \E d \in Row : d # NULL /\ d.ts = start[q] /\ draft' = [draft EXCEPT ![q] = d]
<1>1. cur[q] \in Pairs /\ body[q] \in Bodies /\ start[q] \in Nat
  BY DEF Upsert, Update, OnPair, TypeOK
<1>2. body[q].label = NULL \/ body[q].label \in Labels
  BY <1>1, ReviewAssumption DEF BodyType
<1>3. Committed(q) # NULL => Committed(q).id \in Nat /\ Committed(q).label \in Labels
  BY <1>1, RowParts DEF Committed
<1>4. \A i \in Nat, l \in Labels :
         /\ [id |-> i, ts |-> start[q], label |-> l] \in Row
         /\ [id |-> i, ts |-> start[q], label |-> l] # NULL
         /\ [id |-> i, ts |-> start[q], label |-> l].ts = start[q]
  BY <1>1, ReviewAssumption DEF Row
<1>5. CASE Upsert(q)
  <2>1. (IF body[q].label = NULL THEN "saved" ELSE body[q].label) \in Labels
    BY <1>2 DEF Labels
  <2>2. (IF Committed(q) = NULL THEN start[q] ELSE Committed(q).id) \in Nat
    BY <1>1, <1>3
  <2> QED
    BY <1>4, <1>5, <2>1, <2>2 DEF Upsert
<1>6. CASE Update(q) /\ Hits(q)
  <2>1. Committed(q) # NULL
    BY <1>6 DEF Hits
  <2>2. (IF body[q].label = NULL THEN Committed(q).label ELSE body[q].label) \in Labels
    BY <1>2, <1>3, <2>1
  <2> QED
    BY <1>3, <1>4, <1>6, <2>1, <2>2 DEF Update
<1> QED
  BY <1>5, <1>6

\* Each step keeps the types.
LEMMA TypeKept == ASSUME TypeOK, OnPair, [Next]_vars PROVE TypeOK'
<1> USE DEF TypeOK, dbVars, handlerVars, txVars
<1>1. ASSUME NEW q \in Requests, Serve(q) PROVE TypeOK'
  <2>1. CASE GetSummaries(q)
    <3>1. [p \in Pairs |-> IF p \in todo[q] THEN Label(row[p]) ELSE NULL] \in [Pairs -> Nullable(Labels)]
      BY RowParts DEF Nullable
    <3>2. known' \in [Requests -> [Pairs -> Nullable(Labels)]]
      BY <2>1, <3>1 DEF GetSummaries
    <3> QED
      BY <2>1, <3>2 DEF GetSummaries, Goto
  <2>2. CASE NextPair(q)
    <3>1. PICK p \in todo[q] :
             /\ Goto(q, "next", IF Chosen(body[q], known[q][p]) = "none" THEN "next" ELSE "begin")
             /\ todo' = [todo EXCEPT ![q] = @ \ {p}]
             /\ cur' = [cur EXCEPT ![q] = p]
             /\ op' = [op EXCEPT ![q] = Chosen(body[q], known[q][p])]
             /\ UNCHANGED <<clock, dbVars, body, known, start, saved, target, draft>>
      BY <2>2 DEF NextPair
    <3>2. Chosen(body[q], known[q][p]) \in {"none", "put", "patch", "delete"}
      BY DEF Chosen
    <3>3. p \in Pairs
      BY <3>1
    <3>4. cur' \in [Requests -> Nullable(Pairs)] /\ todo' \in [Requests -> SUBSET Pairs]
      BY <3>1, <3>3 DEF Nullable
    <3>5. op' \in [Requests -> {"none", "put", "patch", "delete"}]
      BY <3>1, <3>2
    <3> QED
      BY <3>1, <3>4, <3>5 DEF Goto
  <2>3. CASE Respond(q)
    BY <2>3 DEF Respond, Goto
  <2>4. CASE Begin(q)
    BY <2>4 DEF Begin, Goto
  <2>5. CASE Snapshot(q) \/ SeeRow(q)
    <3>1. cur[q] \in Pairs
      BY <2>5 DEF Snapshot, SeeRow, Goto, OnPair
    <3>2. IdOf(Committed(q)) \in Nullable(Nat)
      BY <3>1, RowParts DEF Committed
    <3>3. target' \in [Requests -> Nullable(Nat)]
      BY <2>5, <3>2 DEF Snapshot, SeeRow
    <3> QED
      BY <2>5, <3>3 DEF Snapshot, SeeRow, Goto
  <2>6. CASE SnapshotLock(q)
    <3>1. cur[q] \in Pairs
      BY <2>6 DEF SnapshotLock, OnPair
    <3>2. lock' \in [Pairs -> Nullable(Requests)]
      BY <2>6, <3>1 DEF SnapshotLock, Nullable
    <3>3. saved' \in [Requests -> Nullable(Row)]
      <4>1. saved' \in {saved, [saved EXCEPT ![q] = row[cur[q]]]}
        BY <2>6 DEF SnapshotLock, Committed
      <4> QED
        BY <3>1, <4>1
    <3> QED
      BY <2>6, <3>2, <3>3 DEF SnapshotLock, Goto
  <2>7. CASE PatchExists(q)
    <3>1. CASE Close(q) /\ UNCHANGED <<row, history>>
      BY <3>1, CloseType
    <3>2. CASE Goto(q, "exists", "write") /\ UNCHANGED <<clock, dbVars, handlerVars, txVars>>
      BY <3>2 DEF Goto
    <3> QED
      BY <2>7, <3>1, <3>2 DEF PatchExists
  <2>8. CASE Upsert(q) \/ Update(q)
    <3>1. cur[q] \in Pairs
      BY <2>8 DEF Upsert, Update, OnPair
    <3>2. lock' \in [Pairs -> Nullable(Requests)]
      BY <2>8, <3>1 DEF Upsert, Update, Nullable
    <3>7. draft' \in [Requests -> Nullable(Row)]
      <4>1. CASE Upsert(q) \/ (Update(q) /\ Hits(q))
        BY <4>1, NewVersion DEF Nullable
      <4>2. CASE Update(q) /\ ~Hits(q)
        BY <4>2 DEF Update
      <4> QED
        BY <2>8, <4>1, <4>2
    <3> QED
      BY <2>8, <3>2, <3>7 DEF Upsert, Update, Goto
  <2>9. CASE DeleteRow(q)
    <3>1. cur[q] \in Pairs
      BY <2>9 DEF DeleteRow, OnPair
    <3>2. CASE Close(q) /\ UNCHANGED <<row, history>>
      BY <3>2, CloseType
    <3>3. CASE /\ Goto(q, "writeLock", "commit") /\ lock' = [lock EXCEPT ![cur[q]] = q]
               /\ UNCHANGED <<clock, row, history, handlerVars, txVars>>
      <4>1. lock' \in [Pairs -> Nullable(Requests)]
        BY <3>1, <3>3 DEF Nullable
      <4> QED
        BY <3>3, <4>1 DEF Goto
    <3> QED
      BY <2>9, <3>2, <3>3 DEF DeleteRow
  <2>10. CASE Commit(q)
    <3>1. cur[q] \in Pairs
      BY <2>10 DEF Commit, OnPair
    <3>2. row' \in [Pairs -> Nullable(Row)]
      BY <2>10, <3>1 DEF Commit
    <3>3. saved[q] # NULL => [tx |-> start[q], version |-> saved[q]] \in Entry
      BY DEF Nullable, Entry
    <3>4. history' \in [Pairs -> SUBSET Entry]
      BY <2>10, <3>1, <3>3 DEF Commit, Recorded
    <3> QED
      BY <2>10, <3>2, <3>4, CloseType DEF Commit
  <2> QED
    BY <1>1, <2>1, <2>2, <2>3, <2>4, <2>5, <2>6, <2>7, <2>8, <2>9, <2>10 DEF Serve
<1>2. ASSUME NEW q \in Requests, Abort(q) PROVE TypeOK'
  BY <1>2 DEF Abort, Nullable
<1>6. ASSUME NEW q \in Requests, FailPair(q) PROVE TypeOK'
  BY <1>6, CloseType DEF FailPair
<1>3. ASSUME NEW q \in Requests, NEW b \in Bodies, NEW S \in SUBSET Pairs \ {{}}, Receive(q, b, S)
      PROVE  TypeOK'
  BY <1>3 DEF Receive, Goto, Nullable
<1>4. ASSUME NEW t \in Times, DeleteHistory(t) PROVE TypeOK'
  BY <1>4 DEF DeleteHistory
<1>5. CASE UNCHANGED vars
  BY <1>5 DEF vars
<1> QED
  BY <1>1, <1>2, <1>3, <1>4, <1>5, <1>6 DEF Next

(***************************************************************************)
(* A request and its transaction.                                          *)
(***************************************************************************)
Before == {"idle", "summaries", "next", "begin", "snapshot", "lock"}
Holding == {"exists", "write", "writeLock", "commit"}
InTx == {"snapshot", "lock"} \cup Holding

\* What a transaction has in hand: a copy only of the version that it holds
\* locked, a draft only when it is about to commit one.
Tx(q) ==
    /\ pc[q] \in Before => saved[q] = NULL
    /\ pc[q] \notin {"commit", "done"} => draft[q] = NULL
    /\ pc[q] \in Holding /\ saved[q] # NULL =>
          lock[cur[q]] = q /\ row[cur[q]] = saved[q]
    /\ pc[q] = "writeLock" /\ saved[q] # NULL => target[q] = IdOf(row[cur[q]])
    /\ pc[q] = "commit" /\ Wrote(q) => lock[cur[q]] = q
    /\ pc[q] = "commit" /\ saved[q] # NULL => Wrote(q)

Transactions == \A q \in Requests : Tx(q)

\* The steps of a request.
Steps(q) ==
    \/ Serve(q) \/ Abort(q) \/ FailPair(q)
    \/ \E b \in Bodies, S \in SUBSET Pairs \ {{}} : Receive(q, b, S)

\* They touch no row and no lock that another transaction holds.
LEMMA Frame ==
  ASSUME TypeOK, OnPair, Transactions, NEW q \in Requests, Steps(q)
  PROVE  /\ \A r \in Requests \ {q} :
              /\ pc'[r] = pc[r] /\ cur'[r] = cur[r] /\ op'[r] = op[r] /\ body'[r] = body[r]
              /\ start'[r] = start[r] /\ saved'[r] = saved[r] /\ target'[r] = target[r]
              /\ draft'[r] = draft[r]
         /\ \A p \in Pairs : lock[p] \notin {NULL, q} => lock'[p] = lock[p]
         /\ \A p \in Pairs : row'[p] # row[p] => lock[p] = q
<1> USE DEF TypeOK, dbVars, handlerVars, txVars
<1>1. CASE GetSummaries(q) \/ Respond(q) \/ Begin(q) \/ Snapshot(q) \/ SeeRow(q)
  BY <1>1 DEF GetSummaries, Respond, Begin, Snapshot, SeeRow, Goto
<1>2. CASE NextPair(q)
  BY <1>2 DEF NextPair, Goto
<1>3. ASSUME Close(q)
      PROVE  /\ \A r \in Requests \ {q} :
                  /\ pc'[r] = pc[r] /\ cur'[r] = cur[r] /\ op'[r] = op[r] /\ body'[r] = body[r]
                  /\ start'[r] = start[r] /\ saved'[r] = saved[r] /\ target'[r] = target[r]
                  /\ draft'[r] = draft[r]
             /\ \A p \in Pairs : lock[p] \notin {NULL, q} => lock'[p] = lock[p]
  BY <1>3 DEF Close
<1>4. CASE SnapshotLock(q)
  <2>1. cur[q] \in Pairs /\ lock[cur[q]] \in {NULL, q} /\ row' = row
        /\ lock' \in {lock, [lock EXCEPT ![cur[q]] = q]}
    BY <1>4 DEF SnapshotLock, OnPair, Free
  <2>2. \A p \in Pairs : lock[p] \notin {NULL, q} => lock'[p] = lock[p]
    BY <2>1
  <2> QED
    BY <1>4, <2>1, <2>2 DEF SnapshotLock, Goto
<1>5. CASE PatchExists(q)
  BY <1>3, <1>5 DEF PatchExists, Goto
<1>6. CASE Upsert(q)
  <2>1. cur[q] \in Pairs /\ lock[cur[q]] \in {NULL, q} /\ row' = row
        /\ lock' = [lock EXCEPT ![cur[q]] = q]
    BY <1>6 DEF Upsert, OnPair, Free
  <2>2. \A p \in Pairs : lock[p] \notin {NULL, q} => lock'[p] = lock[p]
    BY <2>1
  <2> QED
    BY <1>6, <2>1, <2>2 DEF Upsert, Goto
<1>7. ASSUME WaitsFor(q), Hits(q), cur[q] \in Pairs PROVE lock[cur[q]] \in {NULL, q}
  <2>1. row[cur[q]] # NULL /\ target[q] = row[cur[q]].id
    BY <1>7 DEF Hits, IdOf, Committed
  <2>2. target[q] # NULL
    BY <2>1, <1>7, RowParts, ReviewAssumption
  <2> QED
    BY <1>7, <2>2 DEF WaitsFor, Free
<1>8. CASE Update(q)
  <2>1. cur[q] \in Pairs /\ row' = row
        /\ (lock' = lock \/ (lock[cur[q]] \in {NULL, q} /\ lock' = [lock EXCEPT ![cur[q]] = q]))
    BY <1>7, <1>8 DEF Update, OnPair
  <2>2. \A p \in Pairs : lock[p] \notin {NULL, q} => lock'[p] = lock[p]
    BY <2>1
  <2> QED
    BY <1>8, <2>1, <2>2 DEF Update, Goto
<1>9. CASE DeleteRow(q)
  <2>1. cur[q] \in Pairs /\ row' = row
    BY <1>9 DEF DeleteRow, OnPair
  <2>2. CASE Close(q)
    BY <2>1, <2>2, <1>3
  <2>3. CASE Hits(q) /\ Goto(q, "writeLock", "commit") /\ lock' = [lock EXCEPT ![cur[q]] = q]
             /\ UNCHANGED <<clock, row, history, handlerVars, txVars>>
    <3>1. lock[cur[q]] \in {NULL, q}
      BY <1>9, <1>7, <2>1, <2>3 DEF DeleteRow
    <3> QED
      BY <2>1, <2>3, <3>1 DEF Goto
  <2> QED
    BY <1>9, <2>2, <2>3 DEF DeleteRow
<1>10. CASE Commit(q)
  <2>1. Close(q) /\ pc[q] = "commit" /\ cur[q] \in Pairs
    BY <1>10 DEF Commit, OnPair
  <2>2. row' = row \/ (Wrote(q) /\ row' = [row EXCEPT ![cur[q]] = draft[q]])
    BY <1>10 DEF Commit
  <2>3. Wrote(q) => lock[cur[q]] = q
    BY <2>1 DEF Transactions, Tx
  <2>4. \A p \in Pairs : row'[p] # row[p] => lock[p] = q
    BY <2>1, <2>2, <2>3
  <2> QED
    BY <2>1, <2>4, <1>3
<1>11. CASE Abort(q)
  BY <1>11 DEF Abort
<1>12. CASE \E b \in Bodies, S \in SUBSET Pairs \ {{}} : Receive(q, b, S)
  BY <1>12 DEF Receive, Goto
<1>13. CASE FailPair(q)
  BY <1>3, <1>13 DEF FailPair
<1> QED
  BY <1>1, <1>2, <1>4, <1>5, <1>6, <1>8, <1>9, <1>10, <1>11, <1>12, <1>13 DEF Steps, Serve

\* A step keeps what is true of the other transactions ...
LEMMA OthersKept ==
  ASSUME TypeOK, OnPair, Transactions, NEW q \in Requests, Steps(q), NEW r \in Requests \ {q}
  PROVE  Tx(r)'
<1>1. /\ pc'[r] = pc[r] /\ cur'[r] = cur[r] /\ op'[r] = op[r]
      /\ saved'[r] = saved[r] /\ target'[r] = target[r] /\ draft'[r] = draft[r]
  BY Frame
<1>2. Tx(r)
  BY DEF Transactions
<1>3. ASSUME cur[r] \in Pairs, lock[cur[r]] = r
      PROVE  lock'[cur[r]] = r /\ row'[cur[r]] = row[cur[r]]
  <2>1. /\ \A p \in Pairs : lock[p] \notin {NULL, q} => lock'[p] = lock[p]
        /\ \A p \in Pairs : row'[p] # row[p] => lock[p] = q
    BY Frame
  <2>2. r \notin {NULL, q}
    BY ReviewAssumption
  <2> QED
    BY <1>3, <2>1, <2>2
<1>4. pc[r] \in Holding => cur[r] \in Pairs
  BY DEF OnPair, Holding
<1>5. Wrote(r)' = Wrote(r)
  BY <1>1 DEF Wrote
<1>6. /\ pc[r] \in Before => saved[r] = NULL
      /\ pc[r] \notin {"commit", "done"} => draft[r] = NULL
      /\ pc[r] \in Holding /\ saved[r] # NULL => lock'[cur[r]] = r /\ row'[cur[r]] = saved[r]
      /\ pc[r] = "writeLock" /\ saved[r] # NULL => target[r] = IdOf(row'[cur[r]])
      /\ pc[r] = "commit" /\ Wrote(r) => lock'[cur[r]] = r
      /\ pc[r] = "commit" /\ saved[r] # NULL => Wrote(r)
  BY <1>2, <1>3, <1>4 DEF Tx, Holding
<1> QED
  BY <1>1, <1>5, <1>6 DEF Tx, IdOf

\* ... and of its own.
LEMMA OwnKept ==
  ASSUME TypeOK, OnPair, Transactions, NEW q \in Requests, Steps(q)
  PROVE  Tx(q)'
<1> USE DEF TypeOK, dbVars, handlerVars, txVars
<1>0. Tx(q)
  BY DEF Transactions
<1>1. CASE GetSummaries(q) \/ Respond(q) \/ Begin(q) \/ Snapshot(q)
  BY <1>0, <1>1 DEF GetSummaries, Respond, Begin, Snapshot, Goto, Tx, Before, Holding, Committed
<1>2. CASE NextPair(q)
  BY <1>0, <1>2 DEF NextPair, Goto, Tx, Before, Holding
<1>3. ASSUME Close(q) PROVE Tx(q)'
  BY <1>3 DEF Close, Tx, Before, Holding
<1>4. CASE SnapshotLock(q)
  <2>1. /\ cur[q] \in Pairs /\ pc[q] = "lock" /\ pc'[q] \in {"exists", "write"}
        /\ UNCHANGED <<row, cur, draft>>
    BY <1>4 DEF SnapshotLock, Goto, OnPair
  <2>2. \/ lock' = [lock EXCEPT ![cur[q]] = q] /\ saved' = [saved EXCEPT ![q] = row[cur[q]]]
        \/ saved' = saved
    BY <1>4 DEF SnapshotLock, Committed
  <2>3. saved'[q] # NULL => lock'[cur[q]] = q /\ row'[cur[q]] = saved'[q]
    BY <1>0, <2>1, <2>2 DEF Tx, Before
  <2> QED
    BY <1>0, <2>1, <2>3 DEF Tx, Before, Holding
<1>5. CASE PatchExists(q)
  <2>1. CASE Close(q)
    BY <2>1, <1>3
  <2>2. CASE Goto(q, "exists", "write") /\ UNCHANGED <<clock, dbVars, handlerVars, txVars>>
    BY <1>0, <2>2 DEF Goto, Tx, Before, Holding
  <2> QED
    BY <1>5, <2>1, <2>2 DEF PatchExists
<1>6. CASE Upsert(q)
  <2>1. /\ cur[q] \in Pairs /\ pc[q] = "write" /\ pc'[q] = "commit"
        /\ UNCHANGED <<row, cur, saved>> /\ lock'[cur[q]] = q /\ draft'[q] # NULL
    <3>1. cur[q] \in Pairs
      BY <1>6 DEF Upsert, OnPair
    <3>2. draft'[q] # NULL
      BY <1>6, NewVersion
    <3> QED
      BY <1>6, <3>1, <3>2 DEF Upsert, Goto
  <2> QED
    BY <1>0, <2>1 DEF Tx, Before, Holding, Wrote
<1>7. CASE SeeRow(q)
  <2>1. /\ pc[q] = "write" /\ pc'[q] = "writeLock" /\ UNCHANGED <<row, cur, saved, lock, draft>>
        /\ target'[q] = IdOf(row[cur[q]])
    BY <1>7 DEF SeeRow, Goto, Committed
  <2> QED
    BY <1>0, <2>1 DEF Tx, Before, Holding, IdOf
<1>8. ASSUME pc[q] = "writeLock", saved[q] # NULL
      PROVE  Hits(q)
  BY <1>0, <1>8 DEF Tx, Hits, Committed, Holding
<1>9. CASE Update(q)
  <2>1. /\ cur[q] \in Pairs /\ pc[q] = "writeLock" /\ pc'[q] = "commit" /\ op[q] = "patch"
        /\ UNCHANGED <<row, cur, saved, op>>
    BY <1>9 DEF Update, Goto, OnPair
  <2>2. CASE Hits(q)
    <3>1. lock'[cur[q]] = q /\ draft'[q] # NULL
      BY <1>9, <2>1, <2>2, NewVersion DEF Update
    <3> QED
      BY <1>0, <2>1, <3>1 DEF Tx, Before, Holding, Wrote
  <2>3. CASE ~Hits(q)
    <3>1. lock' = lock /\ draft' = draft /\ saved[q] = NULL /\ draft[q] = NULL
      BY <1>0, <1>8, <1>9, <2>1, <2>3 DEF Update, Tx
    <3> QED
      BY <2>1, <3>1 DEF Tx, Before, Holding, Wrote
  <2> QED
    BY <2>2, <2>3
<1>10. CASE DeleteRow(q)
  <2>1. CASE Close(q)
    BY <2>1, <1>3
  <2>2. CASE Hits(q) /\ Goto(q, "writeLock", "commit") /\ lock' = [lock EXCEPT ![cur[q]] = q]
             /\ UNCHANGED <<clock, row, history, handlerVars, txVars>>
    <3>1. cur[q] \in Pairs /\ op[q] = "delete" /\ pc[q] = "writeLock" /\ pc'[q] = "commit"
      BY <1>10, <2>2 DEF DeleteRow, OnPair, Goto
    <3> QED
      BY <1>0, <2>2, <3>1 DEF Tx, Before, Holding, Wrote
  <2> QED
    BY <1>10, <2>1, <2>2 DEF DeleteRow
<1>11. CASE Commit(q)
  BY <1>3, <1>11 DEF Commit
<1>12. CASE Abort(q)
  BY <1>12 DEF Abort, Tx, Before, Holding
<1>13. CASE \E b \in Bodies, S \in SUBSET Pairs \ {{}} : Receive(q, b, S)
  BY <1>0, <1>13 DEF Receive, Goto, Tx, Before, Holding
<1>14. CASE FailPair(q)
  BY <1>3, <1>14 DEF FailPair
<1> QED
  BY <1>1, <1>2, <1>4, <1>5, <1>6, <1>7, <1>9, <1>10, <1>11, <1>12, <1>13, <1>14 DEF Steps, Serve

\* A transaction keeps its pair until it ends.
LEMMA OnPairKept == ASSUME TypeOK, OnPair, Transactions, NEW q \in Requests, Steps(q) PROVE OnPair'
<1> USE DEF TypeOK, dbVars, handlerVars, txVars
<1>1. \A r \in Requests \ {q} : pc'[r] = pc[r] /\ cur'[r] = cur[r] /\ op'[r] = op[r] /\ body'[r] = body[r]
  BY Frame
<1>2. /\ pc'[q] # "idle" => body'[q] \in Bodies
      /\ pc'[q] \in {"begin", "snapshot", "lock", "exists", "write", "writeLock", "commit"} =>
            cur'[q] \in Pairs /\ op'[q] \in {"put", "patch", "delete"}
  <2>1. CASE GetSummaries(q) \/ Respond(q) \/ Begin(q) \/ Snapshot(q) \/ SnapshotLock(q)
    BY <2>1 DEF GetSummaries, Respond, Begin, Snapshot, SnapshotLock, Goto, OnPair
  <2>2. CASE NextPair(q)
    <3>1. PICK p \in todo[q] :
             /\ Goto(q, "next", IF Chosen(body[q], known[q][p]) = "none" THEN "next" ELSE "begin")
             /\ cur' = [cur EXCEPT ![q] = p]
             /\ op' = [op EXCEPT ![q] = Chosen(body[q], known[q][p])]
             /\ body' = body
      BY <2>2 DEF NextPair
    <3>2. Chosen(body[q], known[q][p]) \in {"none", "put", "patch", "delete"}
      BY DEF Chosen
    <3>3. p \in Pairs /\ body[q] \in Bodies
      BY <3>1 DEF Goto, OnPair
    <3> QED
      BY <3>1, <3>2, <3>3 DEF Goto
  <2>3. ASSUME Close(q), pc[q] # "idle" PROVE pc'[q] = "next" /\ body'[q] \in Bodies
    BY <2>3 DEF Close, OnPair
  <2>4. CASE PatchExists(q)
    BY <2>3, <2>4 DEF PatchExists, Goto, OnPair
  <2>5. CASE Upsert(q) \/ SeeRow(q) \/ Update(q)
    BY <2>5 DEF Upsert, SeeRow, Update, Goto, OnPair
  <2>6. CASE DeleteRow(q)
    BY <2>3, <2>6 DEF DeleteRow, Goto, OnPair
  <2>7. CASE Commit(q)
    BY <2>3, <2>7 DEF Commit
  <2>8. CASE Abort(q)
    BY <2>8 DEF Abort, OnPair
  <2>9. CASE \E b \in Bodies, S \in SUBSET Pairs \ {{}} : Receive(q, b, S)
    BY <2>9 DEF Receive, Goto
  <2>10. CASE FailPair(q)
    BY <2>3, <2>10 DEF FailPair
  <2> QED
    BY <2>1, <2>2, <2>4, <2>5, <2>6, <2>7, <2>8, <2>9, <2>10 DEF Steps, Serve
<1> QED
  BY <1>1, <1>2 DEF OnPair

Inv == TypeOK /\ OnPair /\ Transactions

\* The steps of the invariant.
LEMMA NextInv == Inv /\ [Next]_vars => Inv'
<1> SUFFICES ASSUME Inv, [Next]_vars PROVE Inv'
  OBVIOUS
<1>1. TypeOK'
  BY TypeKept DEF Inv
<1>2. ASSUME NEW q \in Requests, Steps(q) PROVE OnPair' /\ Transactions'
  <2>1. \A r \in Requests \ {q} : Tx(r)'
    BY <1>2, OthersKept DEF Inv
  <2>2. Tx(q)'
    BY <1>2, OwnKept DEF Inv
  <2> QED
    BY <1>2, <2>1, <2>2, OnPairKept DEF Inv, Transactions
<1>3. CASE UNCHANGED vars \/ \E t \in Times : DeleteHistory(t)
  <2>1. UNCHANGED <<row, lock, pc, body, cur, op, saved, target, draft>>
    BY <1>3 DEF vars, DeleteHistory, dbVars, handlerVars, txVars
  <2>2. OnPair'
    BY <2>1 DEF Inv, OnPair
  <2>3. ASSUME NEW q \in Requests PROVE Tx(q)'
    <3>1. Tx(q)
      BY DEF Inv, Transactions
    <3> QED
      BY <2>1, <3>1 DEF Tx, Wrote, IdOf
  <2> QED
    BY <1>1, <2>2, <2>3 DEF Inv, Transactions
<1> QED
  BY <1>1, <1>2, <1>3 DEF Next, Steps, Inv

\* The inductive invariant of the transactions.
THEOREM Invariance == Spec => []Inv
<1>1. Init => Inv
  BY InitType DEF Inv, Init, OnPair, Transactions, Tx, Before, Holding
<1> QED
  BY <1>1, NextInv, PTL DEF Spec

\* Every value of the tables, of the requests and of their transactions is of
\* its kind.
THEOREM TypeCorrect == Spec => []TypeOK
<1>1. Inv => TypeOK
  BY DEF Inv
<1> QED
  BY Invariance, <1>1, PTL

\* A transaction that has copied a version into the history replaces exactly
\* that version, for any number of concurrent writers (snapshotReviewLocked,
\* Put, Patch and Delete in reviews.go).
THEOREM CopyIsReplaced == Spec => RecordsWhatItReplaces
<1>1. ASSUME Inv, [Next]_vars, NEW q \in Requests, Commits(q), saved[q] # NULL
      PROVE  /\ row[cur[q]] = saved[q]
             /\ \E h \in history'[cur[q]] : h.version = saved[q]
  <2>0. TypeOK /\ OnPair /\ Transactions
    BY <1>1 DEF Inv
  <2>1. pc[q] = "commit" /\ pc'[q] = "next"
    BY <1>1 DEF Commits
  <2>2. Commit(q)
    <3>1. PICK r \in Requests : Steps(r)
      <4>1. ~\E t \in Times : DeleteHistory(t)
        BY <2>1 DEF DeleteHistory
      <4>2. ~UNCHANGED vars
        BY <2>1 DEF vars
      <4> QED
        BY <1>1, <4>1, <4>2 DEF Next, Steps
    <3>2. r = q
      <4>1. \A o \in Requests \ {r} : pc'[o] = pc[o]
        BY <2>0, <3>1, Frame
      <4> QED
        BY <2>1, <4>1
    <3>3. Steps(q) /\ ~Abort(q) /\ ~FailPair(q)
      BY <1>1, <2>1, <2>0, <3>1, <3>2 DEF Abort, FailPair, Commits, TypeOK
    <3>4. ~\E b \in Bodies, S \in SUBSET Pairs \ {{}} : Receive(q, b, S)
      BY <2>1 DEF Receive, Goto
    <3>5. ~(GetSummaries(q) \/ NextPair(q) \/ Respond(q) \/ Begin(q) \/ Snapshot(q))
      BY <2>1 DEF GetSummaries, NextPair, Respond, Begin, Snapshot, Goto
    <3>6. ~(SnapshotLock(q) \/ PatchExists(q) \/ Upsert(q) \/ SeeRow(q) \/ Update(q) \/ DeleteRow(q))
      BY <2>1 DEF SnapshotLock, PatchExists, Upsert, SeeRow, Update, DeleteRow
    <3> QED
      BY <3>3, <3>4, <3>5, <3>6 DEF Steps, Serve
  <2>3. cur[q] \in Pairs /\ row[cur[q]] = saved[q]
    BY <1>1, <2>0, <2>1 DEF OnPair, Transactions, Tx, Holding
  <2>4. [tx |-> start[q], version |-> saved[q]] \in history'[cur[q]]
    BY <1>1, <2>0, <2>2, <2>3 DEF Commit, Recorded, TypeOK
  <2> QED
    BY <2>3, <2>4
<1>2. Inv /\ [Next]_vars =>
        [\A q \in Requests : Commits(q) /\ saved[q] # NULL =>
           /\ row[cur[q]] = saved[q]
           /\ \E h \in history'[cur[q]] : h.version = saved[q]]_vars
  BY <1>1
<1> QED
  BY Invariance, <1>2, PTL DEF Spec, RecordsWhatItReplaces

(***************************************************************************)
(* The history.                                                            *)
(***************************************************************************)

\* The version that a transaction is about to commit is new: no row and no
\* entry of the history has its time.
Newer(q) ==
    /\ \A p \in Pairs : row[p] # NULL => row[p].ts # start[q]
    /\ \A p \in Pairs : \A h \in history[p] : h.version.ts # start[q]

Fresh ==
    /\ \A q \in Requests : start[q] <= clock
    /\ \A p \in Pairs : row[p] # NULL => row[p].ts <= clock
    /\ \A p \in Pairs : \A h \in history[p] : h.version.ts <= clock
    /\ \A q \in Requests : pc[q] = "commit" /\ draft[q] # NULL => draft[q].ts = start[q]
    /\ \A q, r \in Requests : pc[q] \in InTx /\ pc[r] \in InTx /\ q # r => start[q] # start[r]
    /\ \A q \in Requests : pc[q] \in InTx => Newer(q)

HistoryInv == Inv /\ Fresh /\ HistoryIsPast

\* Steps that commit nothing and begin nothing.
LEMMA InsideTx ==
  ASSUME Inv, NEW q \in Requests, Steps(q), ~Begin(q), ~Commit(q)
  PROVE  /\ UNCHANGED <<clock, row, history, start>>
         /\ \A r \in Requests \ {q} : pc'[r] = pc[r] /\ draft'[r] = draft[r]
         /\ pc'[q] \in InTx => pc[q] \in InTx
         /\ pc'[q] = "commit" /\ draft'[q] # NULL => draft'[q].ts = start[q]
<1> USE DEF dbVars, handlerVars, txVars
<1>0. TypeOK /\ OnPair /\ Transactions /\ Tx(q)
  BY DEF Inv, Transactions
<1>1. \A r \in Requests \ {q} : pc'[r] = pc[r] /\ draft'[r] = draft[r]
  BY <1>0, Frame
<1>2. CASE GetSummaries(q) \/ NextPair(q) \/ Respond(q) \/ Snapshot(q) \/ SnapshotLock(q) \/ SeeRow(q)
  <2>1. UNCHANGED <<clock, row, history, start>>
    BY <1>2 DEF GetSummaries, NextPair, Respond, Snapshot, SnapshotLock, SeeRow
  <2>2. pc'[q] # "commit" /\ (pc'[q] \in InTx => pc[q] \in InTx)
    BY <1>0, <1>2 DEF GetSummaries, NextPair, Respond, Snapshot, SnapshotLock, SeeRow, Goto, InTx, Holding, TypeOK
  <2> QED
    BY <1>1, <2>1, <2>2
<1>3. ASSUME Close(q), UNCHANGED <<row, history>>
      PROVE  UNCHANGED <<clock, row, history, start>> /\ pc'[q] = "next"
  BY <1>0, <1>3 DEF Close, TypeOK
<1>4. CASE PatchExists(q)
  <2>1. CASE Close(q) /\ UNCHANGED <<row, history>>
    BY <1>1, <1>3, <2>1 DEF InTx, Holding
  <2>2. CASE Goto(q, "exists", "write") /\ UNCHANGED <<clock, dbVars, handlerVars, txVars>>
    BY <1>0, <1>1, <2>2 DEF Goto, InTx, Holding, TypeOK
  <2> QED
    BY <1>4, <2>1, <2>2 DEF PatchExists
<1>5. CASE Upsert(q)
  <2>1. draft'[q] # NULL => draft'[q].ts = start[q]
    BY <1>0, <1>5, NewVersion DEF TypeOK
  <2> QED
    BY <1>0, <1>1, <1>5, <2>1 DEF Upsert, Goto, InTx, Holding, TypeOK
<1>6. CASE Update(q)
  <2>1. draft'[q] # NULL => draft'[q].ts = start[q]
    <3>1. CASE Hits(q)
      BY <1>0, <1>6, <3>1, NewVersion DEF TypeOK
    <3>2. CASE ~Hits(q)
      BY <1>0, <1>6, <3>2 DEF Update, Tx
    <3> QED
      BY <3>1, <3>2
  <2> QED
    BY <1>0, <1>1, <1>6, <2>1 DEF Update, Goto, InTx, Holding, TypeOK
<1>7. CASE DeleteRow(q)
  <2>1. CASE Close(q) /\ UNCHANGED <<row, history>>
    BY <1>1, <1>3, <2>1 DEF InTx, Holding
  <2>2. CASE /\ Goto(q, "writeLock", "commit") /\ lock' = [lock EXCEPT ![cur[q]] = q]
             /\ UNCHANGED <<clock, row, history, handlerVars, txVars>>
    BY <1>0, <1>1, <2>2 DEF Goto, InTx, Holding, Tx
  <2> QED
    BY <1>7, <2>1, <2>2 DEF DeleteRow
<1>8. CASE Abort(q)
  BY <1>0, <1>1, <1>8 DEF Abort, InTx, Holding, TypeOK
<1>9. CASE \E b \in Bodies, S \in SUBSET Pairs \ {{}} : Receive(q, b, S)
  BY <1>0, <1>1, <1>9 DEF Receive, Goto, InTx, Holding, TypeOK
<1>10. CASE FailPair(q)
  BY <1>1, <1>3, <1>10 DEF FailPair, InTx, Holding
<1> QED
  BY <1>2, <1>4, <1>5, <1>6, <1>7, <1>8, <1>9, <1>10 DEF Steps, Serve

\* A commit moves the version it has copied into the history, if any, and puts
\* its own in the place of the row.
LEMMA CommitMoves ==
  ASSUME HistoryInv, NEW q \in Requests, Commit(q)
  PROVE  Fresh' /\ HistoryIsPast'
<1> DEFINE c == cur[q]
           e == [tx |-> start[q], version |-> saved[q]]
<1>0. TypeOK /\ OnPair /\ Transactions /\ Tx(q) /\ Fresh /\ HistoryIsPast
  BY DEF HistoryInv, Inv, Transactions
<1>1. /\ pc[q] = "commit" /\ c \in Pairs /\ UNCHANGED <<clock, start>> /\ pc' = [pc EXCEPT ![q] = "next"]
      /\ draft' = [draft EXCEPT ![q] = NULL]
  BY <1>0 DEF Commit, Close, OnPair, txVars, handlerVars
<1>2. Newer(q) /\ (draft[q] # NULL => draft[q].ts = start[q])
  BY <1>0, <1>1 DEF Fresh, InTx, Holding
<1>3. \A p \in Pairs : p # c => row'[p] = row[p] /\ history'[p] = history[p]
  BY <1>0, <1>1 DEF Commit, Recorded, TypeOK
<1>4. row'[c] \in {row[c], draft[q]} /\ (saved[q] # NULL => row'[c] = draft[q] /\ row[c] = saved[q])
  BY <1>0, <1>1 DEF Commit, TypeOK, Tx, Holding
<1>5. history'[c] = history[c] \/ (saved[q] # NULL /\ history'[c] = history[c] \cup {e})
  BY <1>0, <1>1 DEF Commit, Recorded, TypeOK
<1>6. \A p \in Pairs : row'[p] # NULL => row'[p].ts \in Nat /\ (row'[p] = row[p] \/ row'[p].ts = start[q])
  <2>1. row'[c] # NULL => row'[c].ts \in Nat /\ (row'[c] = row[c] \/ row'[c].ts = start[q])
    BY <1>0, <1>1, <1>2, <1>4, RowParts DEF TypeOK
  <2> QED
    BY <1>0, <1>3, <2>1, RowParts
<1>7. \A p \in Pairs : \A h \in history'[p] :
         h \in history[p] \/ (h = e /\ p = c /\ saved[q] # NULL /\ h.version = row[c])
  BY <1>1, <1>3, <1>4, <1>5
<1> HIDE DEF e, c
<1>8. Fresh'
  <2>1. \A r \in Requests : start'[r] <= clock'
    BY <1>0, <1>1 DEF Fresh
  <2>2. \A p \in Pairs : row'[p] # NULL => row'[p].ts <= clock'
    BY <1>0, <1>1, <1>6 DEF Fresh
  <2>3. \A p \in Pairs : \A h \in history'[p] : h.version.ts <= clock'
    BY <1>0, <1>1, <1>4, <1>7 DEF Fresh
  <2>4. \A r \in Requests : pc'[r] = "commit" /\ draft'[r] # NULL => draft'[r].ts = start'[r]
    BY <1>0, <1>1 DEF Fresh, TypeOK
  <2>5. \A r, o \in Requests : pc'[r] \in InTx /\ pc'[o] \in InTx /\ r # o => start'[r] # start'[o]
    BY <1>0, <1>1 DEF Fresh, TypeOK, InTx, Holding
  <2>6. ASSUME NEW r \in Requests, pc'[r] \in InTx PROVE Newer(r)'
    <3>1. r # q /\ pc[r] \in InTx /\ start[r] # start[q] /\ Newer(r) /\ start' = start
      BY <1>0, <1>1, <2>6 DEF Fresh, TypeOK, InTx, Holding
    <3>2. \A p \in Pairs : row'[p] # NULL => row'[p].ts # start[r]
      BY <1>6, <3>1 DEF Newer
    <3>3. \A p \in Pairs : \A h \in history'[p] : h.version.ts # start[r]
      BY <1>0, <1>1, <1>4, <1>7, <3>1 DEF Newer
    <3> QED
      BY <3>1, <3>2, <3>3 DEF Newer
  <2> QED
    BY <2>1, <2>2, <2>3, <2>4, <2>5, <2>6 DEF Fresh
<1>9. HistoryIsPast'
  <2>1. \A h \in history[c] : h.version # row[c]
    BY <1>0, <1>1 DEF HistoryIsPast
  <2>2. \A p \in Pairs : \A h, i \in history'[p] : h.version = i.version => h = i
    BY <1>0, <1>7, <2>1 DEF HistoryIsPast
  <2>3. \A p \in Pairs : \A h \in history'[p] : h.version # row'[p]
    <3>1. ASSUME NEW h \in history'[c] PROVE h.version # row'[c]
      <4>1. h.version \in Row /\ h.version # NULL
        <5>1. h \in history[c] => h \in Entry
          BY <1>0, <1>1 DEF TypeOK
        <5>2. h = e => h.version = saved[q]
          BY DEF e
        <5>3. row[c] # NULL => row[c] \in Row
          BY <1>0, <1>1, RowParts
        <5> QED
          BY <1>0, <1>1, <1>4, <1>7, <5>1, <5>2, <5>3, ReviewAssumption DEF Entry
      <4>2. h.version.ts # start[q]
        BY <1>1, <1>2, <1>4, <1>7, <4>1 DEF Newer
      <4>3. CASE row'[c] = draft[q]
        BY <1>2, <4>1, <4>2, <4>3
      <4>4. CASE row'[c] # draft[q]
        BY <1>1, <1>4, <1>7, <2>1, <4>4
      <4> QED
        BY <4>3, <4>4
    <3> QED
      BY <1>0, <1>3, <3>1 DEF HistoryIsPast
  <2> QED
    BY <2>2, <2>3 DEF HistoryIsPast
<1> QED
  BY <1>8, <1>9

\* Each step keeps the history in the past.
LEMMA HistoryKept == HistoryInv /\ [Next]_vars => HistoryInv'
<1> SUFFICES ASSUME HistoryInv, [Next]_vars PROVE HistoryInv'
  OBVIOUS
<1>0. TypeOK /\ OnPair /\ Transactions /\ Fresh /\ HistoryIsPast /\ Inv'
  BY NextInv DEF HistoryInv, Inv
<1>1. ASSUME NEW q \in Requests, Steps(q), ~Begin(q), ~Commit(q) PROVE Fresh' /\ HistoryIsPast'
  <2>1. /\ UNCHANGED <<clock, row, history, start>>
        /\ \A r \in Requests \ {q} : pc'[r] = pc[r] /\ draft'[r] = draft[r]
        /\ pc'[q] \in InTx => pc[q] \in InTx
        /\ pc'[q] = "commit" /\ draft'[q] # NULL => draft'[q].ts = start[q]
    BY <1>1, InsideTx DEF HistoryInv
  <2>2. HistoryIsPast'
    BY <1>0, <2>1 DEF HistoryIsPast
  <2>3. \A r \in Requests : pc'[r] \in InTx => pc[r] \in InTx
    BY <2>1
  <2>4. \A r \in Requests : pc'[r] \in InTx => Newer(r)'
    BY <1>0, <2>1, <2>3 DEF Fresh, Newer
  <2> QED
    BY <1>0, <2>1, <2>2, <2>3, <2>4 DEF Fresh
<1>2. ASSUME NEW q \in Requests, Begin(q) PROVE Fresh' /\ HistoryIsPast'
  <2>1. /\ clock' = clock + 1 /\ UNCHANGED <<row, history, draft>>
        /\ \A r \in Requests \ {q} : pc'[r] = pc[r] /\ start'[r] = start[r]
        /\ start'[q] = clock + 1 /\ pc'[q] = "snapshot" /\ clock \in Nat
    BY <1>0, <1>2 DEF Begin, Goto, TypeOK, dbVars
  <2>2. HistoryIsPast'
    BY <1>0, <2>1 DEF HistoryIsPast
  <2>3. /\ \A r \in Requests : start[r] \in Nat /\ start[r] < clock + 1
        /\ \A p \in Pairs : row[p] # NULL => row[p].ts \in Nat /\ row[p].ts < clock + 1
        /\ \A p \in Pairs : \A h \in history[p] : h.version.ts \in Nat /\ h.version.ts < clock + 1
    <3>1. \A r \in Requests : start[r] \in Nat /\ start[r] <= clock
      BY <1>0 DEF TypeOK, Fresh
    <3>2. \A p \in Pairs : row[p] # NULL => row[p].ts \in Nat /\ row[p].ts <= clock
      BY <1>0, RowParts DEF Fresh
    <3>3. \A p \in Pairs : \A h \in history[p] : h.version.ts \in Nat /\ h.version.ts <= clock
      BY <1>0 DEF TypeOK, Fresh, Entry, Row
    <3> QED
      BY <2>1, <3>1, <3>2, <3>3
  <2>4. Newer(q)'
    BY <2>1, <2>3 DEF Newer
  <2>5. \A r \in Requests \ {q} : pc'[r] \in InTx => Newer(r)'
    BY <1>0, <2>1 DEF Fresh, Newer
  <2>6. \A r, o \in Requests : pc'[r] \in InTx /\ pc'[o] \in InTx /\ r # o => start'[r] # start'[o]
    BY <1>0, <2>1, <2>3 DEF Fresh
  <2>7. /\ \A r \in Requests : start'[r] <= clock'
        /\ \A p \in Pairs : row'[p] # NULL => row'[p].ts <= clock'
        /\ \A p \in Pairs : \A h \in history'[p] : h.version.ts <= clock'
    BY <2>1, <2>3
  <2>8. \A r \in Requests : pc'[r] = "commit" /\ draft'[r] # NULL => draft'[r].ts = start'[r]
    BY <1>0, <2>1 DEF Fresh
  <2> QED
    BY <2>2, <2>4, <2>5, <2>6, <2>7, <2>8 DEF Fresh
<1>3. ASSUME NEW q \in Requests, Commit(q) PROVE Fresh' /\ HistoryIsPast'
  BY <1>3, CommitMoves
<1>4. CASE UNCHANGED vars \/ \E t \in Times : DeleteHistory(t)
  <2>1. UNCHANGED <<clock, row, pc, start, draft>> /\ \A p \in Pairs : history'[p] \subseteq history[p]
    BY <1>4 DEF vars, DeleteHistory, dbVars, txVars
  <2>2. \A q \in Requests : Newer(q) => Newer(q)'
    BY <2>1 DEF Newer
  <2>3. Fresh'
    BY <1>0, <2>1, <2>2 DEF Fresh
  <2>4. ASSUME NEW p \in Pairs
        PROVE  /\ \A h, i \in history'[p] : h.version = i.version => h = i
               /\ \A h \in history'[p] : h.version # row'[p]
    <3>1. /\ \A h, i \in history[p] : h.version = i.version => h = i
          /\ \A h \in history[p] : h.version # row[p]
      BY <1>0 DEF HistoryIsPast
    <3>2. history'[p] \subseteq history[p] /\ row' = row
      BY <2>1
    <3> QED
      BY <3>1, <3>2
  <2> QED
    BY <1>0, <2>3, <2>4 DEF HistoryInv, HistoryIsPast
<1> QED
  BY <1>0, <1>1, <1>2, <1>3, <1>4 DEF Next, Steps, HistoryInv

\* The history holds past versions only, each of them once: neither a race
\* nor a request cut off records a version twice or one still current
\* (snapshotReviewLocked in reviews.go).
THEOREM HistoryStaysPast == Spec => []HistoryIsPast
<1>1. Init => HistoryInv
  <2>1. Init => Inv
    BY InitType DEF Inv, Init, OnPair, Transactions, Tx, Before, Holding
  <2>2. Init => HistoryIsPast
    BY DEF Init, HistoryIsPast
  <2>3. Init => Fresh
    <3> SUFFICES ASSUME Init PROVE Fresh
      OBVIOUS
    <3>1. \A p \in Pairs : row[p] # NULL => row[p].ts = 0
      BY DEF Init
    <3>2. \A p \in Pairs : history[p] = {}
      BY DEF Init
    <3>3. \A q \in Requests : pc[q] = "idle" /\ start[q] = 0
      BY DEF Init
    <3>4. clock = 0
      BY DEF Init
    <3> QED
      BY <3>1, <3>2, <3>3, <3>4 DEF Fresh, InTx, Holding
  <2> QED
    BY <2>1, <2>2, <2>3 DEF HistoryInv
<1>2. HistoryInv => HistoryIsPast
  BY DEF HistoryInv
<1> QED
  BY <1>1, <1>2, HistoryKept, PTL DEF Spec
=============================================================================
