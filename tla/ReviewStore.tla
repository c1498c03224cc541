----------------------------- MODULE ReviewStore -----------------------------
(***************************************************************************)
(* Tables review and review_history, and the transactions that the HTTP    *)
(* handlers run on them at READ COMMITTED: Put, Patch and Delete each copy *)
(* the row they are about to replace into the history.                     *)
(*                                                                         *)
(* Postgres is modelled from what these transactions ask of it.  A         *)
(* statement sees the rows committed when it starts; one that has to lock  *)
(* a row waits for the transaction that holds it and then takes the newest *)
(* version of that row, or skips it if it has been deleted meanwhile (a    *)
(* row inserted again is another row).  INSERT ... ON CONFLICT waits too,  *)
(* and updates whatever row it then finds.  now() is the time of BEGIN.    *)
(*                                                                         *)
(* The content of a review is abstracted to its status label and to its    *)
(* timestamp, which is different in any two versions of it.                *)
(***************************************************************************)
EXTENDS Naturals, FiniteSets

CONSTANTS NULL,
          Pairs,       \* (asset, rule) pairs, in the order batches take them
          Requests,    \* the requests, one transaction per pair each
          Bodies,      \* what requests ask for
          Seeded,      \* the pairs that may have a review at first
          Faults       \* statements may fail and requests be cut off

Labels == {"saved", "accepted"}
Kinds == {"put", "patch", "delete", "bulk", "insert", "update", "merge"}
Single == {"put", "patch", "delete"}
Batch == {"insert", "update", "merge"}

\* label: what the body sets the status to, NULL if it does not say.
\* filter: the status that updateFilters selects, NULL without a filter.
\* full: the body has the fields that an insert needs.
BodyType == [kind : Kinds, label : Labels \cup {NULL},
             filter : Labels \cup {NULL}, full : BOOLEAN]

Row == [id : Nat,          \* review_id, here the time of its insertion
        ts : Nat,          \* ts and touch_ts
        label : Labels]

\* The times of BEGIN of a run.
Times == 0..(Cardinality(Requests) * Cardinality(Pairs))

ASSUME ReviewAssumption ==
    /\ Pairs \subseteq Nat
    /\ Seeded \subseteq Pairs
    /\ Bodies \subseteq BodyType
    /\ NULL \notin Labels /\ NULL \notin Nat /\ NULL \notin Requests /\ NULL \notin Row

VARIABLES
    clock,      \* the time of the last BEGIN
    row,        \* the committed review of each pair, or NULL
    history,    \* review_history of each pair: the versions, each with its transaction
    lock,       \* the request that has locked or inserted the row of a pair
    pc, body, todo, known,       \* the handlers
    cur, op, start, saved, target, draft    \* their transactions

dbVars == <<row, history, lock>>
handlerVars == <<body, todo, known>>
txVars == <<cur, op, start, saved, target, draft>>
vars == <<clock, dbVars, pc, handlerVars, txVars>>

Nullable(S) == S \cup {NULL}
Entry == [tx : Nat, version : Row]

TypeOK ==
    /\ clock \in Nat
    /\ row \in [Pairs -> Nullable(Row)]
    /\ history \in [Pairs -> SUBSET Entry]
    /\ lock \in [Pairs -> Nullable(Requests)]
    /\ pc \in [Requests -> {"idle", "summaries", "next", "begin", "snapshot", "lock", "exists",
                            "write", "writeLock", "commit", "done"}]
    /\ body \in [Requests -> Nullable(Bodies)]
    /\ todo \in [Requests -> SUBSET Pairs]
    /\ known \in [Requests -> [Pairs -> Nullable(Labels)]]
    /\ cur \in [Requests -> Nullable(Pairs)]
    /\ op \in [Requests -> {"none", "put", "patch", "delete"}]
    /\ start \in [Requests -> Nat]
    /\ saved \in [Requests -> Nullable(Row)]
    /\ target \in [Requests -> Nullable(Nat)]
    /\ draft \in [Requests -> Nullable(Row)]

Init ==
    /\ clock = 0
    /\ row \in [Pairs -> {NULL, [id |-> 0, ts |-> 0, label |-> "saved"]}]
    /\ \A p \in Pairs \ Seeded : row[p] = NULL
    /\ history = [p \in Pairs |-> {}]
    /\ lock = [p \in Pairs |-> NULL]
    /\ pc = [q \in Requests |-> "idle"]
    /\ body = [q \in Requests |-> NULL]
    /\ todo = [q \in Requests |-> {}]
    /\ known = [q \in Requests |-> [p \in Pairs |-> NULL]]
    /\ cur = [q \in Requests |-> NULL]
    /\ op = [q \in Requests |-> "none"]
    /\ start = [q \in Requests |-> 0]
    /\ saved = [q \in Requests |-> NULL]
    /\ target = [q \in Requests |-> NULL]
    /\ draft = [q \in Requests |-> NULL]

Goto(q, here, there) == pc[q] = here /\ pc' = [pc EXCEPT ![q] = there]
Label(r) == IF r = NULL THEN NULL ELSE r.label
IdOf(r) == IF r = NULL THEN NULL ELSE r.id

-----------------------------------------------------------------------------
(* The handlers.                                                           *)

\* A request arrives: PUT, PATCH and DELETE of one review, POST of several
\* reviews (or a file imported) and POST of a batch.
Receive(q, b, S) ==
    /\ b.kind \in Single => Cardinality(S) = 1
    /\ Goto(q, "idle", IF b.kind \in Batch THEN "summaries" ELSE "next")
    /\ body' = [body EXCEPT ![q] = b]
    /\ todo' = [todo EXCEPT ![q] = S]
    /\ UNCHANGED <<clock, dbVars, known, txVars>>

\* GetSummaries: one statement for all the pairs of a batch.
GetSummaries(q) ==
    /\ Goto(q, "summaries", "next")
    /\ known' = [known EXCEPT ![q] = [p \in Pairs |->
                    IF p \in todo[q] THEN Label(row[p]) ELSE NULL]]
    /\ UNCHANGED <<clock, dbVars, body, todo, txVars>>

\* What the handler does about a pair that had status k in the summaries.
Chosen(b, k) ==
    CASE b.kind \in {"put", "bulk"} -> "put"
      [] b.kind = "patch" -> "patch"
      [] b.kind = "delete" -> "delete"
      [] b.kind \in {"insert", "merge"} /\ k = NULL /\ b.full -> "put"
      [] b.kind \in {"update", "merge"} /\ k # NULL /\ b.filter \in {NULL, k} -> "patch"
      [] OTHER -> "none"

NextPair(q) ==
    \E p \in todo[q] :
       /\ \A o \in todo[q] : p <= o
       /\ Goto(q, "next", IF Chosen(body[q], known[q][p]) = "none" THEN "next" ELSE "begin")
       /\ todo' = [todo EXCEPT ![q] = @ \ {p}]
       /\ cur' = [cur EXCEPT ![q] = p]
       /\ op' = [op EXCEPT ![q] = Chosen(body[q], known[q][p])]
       /\ UNCHANGED <<clock, dbVars, body, known, start, saved, target, draft>>

Respond(q) ==
    /\ todo[q] = {}
    /\ Goto(q, "next", "done")
    /\ UNCHANGED <<clock, dbVars, handlerVars, txVars>>

-----------------------------------------------------------------------------
(* The transactions.                                                       *)

Free(q) == lock[cur[q]] \in {NULL, q}
Committed(q) == row[cur[q]]

Begin(q) ==
    /\ Goto(q, "begin", "snapshot")
    /\ clock' = clock + 1
    /\ start' = [start EXCEPT ![q] = clock + 1]
    /\ UNCHANGED <<dbVars, handlerVars, cur, op, saved, target, draft>>

\* snapshotReviewLocked starts: the review it sees, if any.
Snapshot(q) ==
    /\ Goto(q, "snapshot", IF Committed(q) # NULL THEN "lock"
                           ELSE IF op[q] = "patch" THEN "exists" ELSE "write")
    /\ target' = [target EXCEPT ![q] = IdOf(Committed(q))]
    /\ UNCHANGED <<clock, dbVars, handlerVars, cur, op, start, saved, draft>>

\* Mutant of SnapshotLock: the copy is taken without FOR UPDATE.
SnapshotUnlocked(q) ==
    /\ pc[q] = "lock"
    /\ Goto(q, "lock", IF op[q] = "patch" THEN "exists" ELSE "write")
    /\ saved' = [saved EXCEPT ![q] = Committed(q)]
    /\ UNCHANGED <<clock, dbVars, handlerVars, cur, op, start, target, draft>>

\* ... and its FOR UPDATE, which waits and then copies the newest version.
SnapshotLock(q) ==
    /\ pc[q] = "lock"
    /\ Free(q)
    /\ Goto(q, "lock", IF op[q] = "patch" THEN "exists" ELSE "write")
    /\ IF IdOf(Committed(q)) = target[q]
       THEN /\ lock' = [lock EXCEPT ![cur[q]] = q]
            /\ saved' = [saved EXCEPT ![q] = Committed(q)]
       ELSE UNCHANGED <<lock, saved>>
    /\ UNCHANGED <<clock, row, history, handlerVars, cur, op, start, target, draft>>

\* Mutant of Close: no rollback or commit ends the transaction.
CloseNothing(q) ==
    /\ pc' = [pc EXCEPT ![q] = "next"]
    /\ UNCHANGED <<clock, lock, handlerVars, txVars>>

\* The end of a transaction: what it inserted into the history is kept or
\* not, its lock is released and the handler goes on to the next pair.
Close(q) ==
    /\ pc' = [pc EXCEPT ![q] = "next"]
    /\ lock' = [p \in Pairs |-> IF lock[p] = q THEN NULL ELSE lock[p]]
    /\ saved' = [saved EXCEPT ![q] = NULL]
    /\ target' = [target EXCEPT ![q] = NULL]
    /\ draft' = [draft EXCEPT ![q] = NULL]
    /\ UNCHANGED <<clock, handlerVars, cur, op, start>>

\* Patch: SELECT EXISTS; without a review it returns ErrNotFound.
PatchExists(q) ==
    /\ pc[q] = "exists"
    /\ \/ /\ Committed(q) # NULL
          /\ Goto(q, "exists", "write")
          /\ UNCHANGED <<clock, dbVars, handlerVars, txVars>>
       \/ /\ Committed(q) = NULL
          /\ Close(q)
          /\ UNCHANGED <<row, history>>

\* Put: the upsert keeps the review_id of the review it finds.
Upsert(q) ==
    /\ pc[q] = "write" /\ op[q] = "put"
    /\ Free(q)
    /\ Goto(q, "write", "commit")
    /\ lock' = [lock EXCEPT ![cur[q]] = q]
    /\ draft' = [draft EXCEPT ![q] =
          [id |-> IF Committed(q) = NULL THEN start[q] ELSE Committed(q).id,
           ts |-> start[q],
           label |-> IF body[q].label = NULL THEN "saved" ELSE body[q].label]]
    /\ UNCHANGED <<clock, row, history, handlerVars, cur, op, start, saved, target>>

\* Patch and Delete: the statement starts with the review it sees ...
SeeRow(q) ==
    /\ pc[q] = "write" /\ op[q] # "put"
    /\ Goto(q, "write", "writeLock")
    /\ target' = [target EXCEPT ![q] = IdOf(Committed(q))]
    /\ UNCHANGED <<clock, dbVars, handlerVars, cur, op, start, saved, draft>>

Hits(q) == Committed(q) # NULL /\ IdOf(Committed(q)) = target[q]
WaitsFor(q) == target[q] # NULL => Free(q)

\* ... and updates its newest version; Patch does not look at the row count.
Update(q) ==
    /\ pc[q] = "writeLock" /\ op[q] = "patch"
    /\ WaitsFor(q)
    /\ Goto(q, "writeLock", "commit")
    /\ IF Hits(q)
       THEN /\ lock' = [lock EXCEPT ![cur[q]] = q]
            /\ draft' = [draft EXCEPT ![q] =
                  [id |-> Committed(q).id, ts |-> start[q],
                   label |-> IF body[q].label = NULL THEN Committed(q).label
                                                     ELSE body[q].label]]
       ELSE UNCHANGED <<lock, draft>>
    /\ UNCHANGED <<clock, row, history, handlerVars, cur, op, start, saved, target>>

\* Delete looks at it: with no row deleted it returns ErrNotFound.
DeleteRow(q) ==
    /\ pc[q] = "writeLock" /\ op[q] = "delete"
    /\ WaitsFor(q)
    /\ \/ /\ Hits(q)
          /\ Goto(q, "writeLock", "commit")
          /\ lock' = [lock EXCEPT ![cur[q]] = q]
          /\ UNCHANGED <<clock, row, history, handlerVars, txVars>>
       \/ /\ ~Hits(q)
          /\ Close(q)
          /\ UNCHANGED <<row, history>>

\* A patch that hit no row commits nothing but its snapshot.
Wrote(q) == op[q] = "delete" \/ draft[q] # NULL

\* The history with the version that the transaction has copied, if any.
Recorded(q) ==
    IF saved[q] = NULL THEN history
    ELSE [history EXCEPT ![cur[q]] = @ \cup {[tx |-> start[q], version |-> saved[q]]}]

Commit(q) ==
    /\ pc[q] = "commit"
    /\ row' = IF Wrote(q) THEN [row EXCEPT ![cur[q]] = draft[q]] ELSE row
    /\ history' = Recorded(q)
    /\ Close(q)

\* Mutant of Abort: the history is written outside the transaction.
AbortKeepsHistory(q) ==
    /\ Faults /\ pc[q] \notin {"idle", "done"}
    /\ pc' = [pc EXCEPT ![q] = "done"]
    /\ lock' = [p \in Pairs |-> IF lock[p] = q THEN NULL ELSE lock[p]]
    /\ history' = Recorded(q)
    /\ UNCHANGED <<clock, row, handlerVars, txVars>>

\* The context of the request is cancelled, so that every statement from here
\* on fails, or the one statement fails that the answer depends on: the
\* deferred Rollback runs and the handler writes no more.
Abort(q) ==
    /\ Faults /\ pc[q] \notin {"idle", "done"}
    /\ pc' = [pc EXCEPT ![q] = "done"]
    /\ lock' = [p \in Pairs |-> IF lock[p] = q THEN NULL ELSE lock[p]]
    /\ UNCHANGED <<clock, row, history, handlerVars, txVars>>

\* A statement of a transaction fails: the deferred Rollback runs, and a
\* handler of several pairs notes the error and goes on to the next one.
FailPair(q) ==
    /\ Faults /\ pc[q] \notin {"idle", "summaries", "next", "done"}
    /\ body[q].kind \notin Single
    /\ Close(q)
    /\ UNCHANGED <<row, history>>

\* DELETE of the history older than a date, for all the pairs of a collection.
DeleteHistory(t) ==
    /\ history' = [p \in Pairs |-> {h \in history[p] : h.version.ts >= t}]
    /\ UNCHANGED <<clock, row, lock, pc, handlerVars, txVars>>

Serve(q) ==
    \/ GetSummaries(q) \/ NextPair(q) \/ Respond(q)
    \/ Begin(q) \/ Snapshot(q) \/ SnapshotLock(q) \/ PatchExists(q)
    \/ Upsert(q) \/ SeeRow(q) \/ Update(q) \/ DeleteRow(q) \/ Commit(q)

Next ==
    \/ \E q \in Requests : Serve(q) \/ Abort(q) \/ FailPair(q)
    \/ \E q \in Requests, b \in Bodies, S \in SUBSET Pairs \ {{}} : Receive(q, b, S)
    \/ \E t \in Times : DeleteHistory(t)

Spec == Init /\ [][Next]_vars

\* A handler whose statement is not blocked takes its next step.
FairSpec == Spec /\ \A q \in Requests : WF_vars(Serve(q))
-----------------------------------------------------------------------------
(* Correctness.                                                            *)

\* q commits: what it has written is there, unlike when the commit fails.
Commits(q) == pc[q] = "commit" /\ pc'[q] = "next" /\ (row' # row \/ history' # history)

\* A transaction that found a review when it took its snapshot replaces
\* exactly the version it has copied into the history, however many others
\* write the same review: the row lock holds from the copy to the commit.
RecordsWhatItReplaces ==
    [][\A q \in Requests : Commits(q) /\ saved[q] # NULL =>
          /\ row[cur[q]] = saved[q]
          /\ \E h \in history'[cur[q]] : h.version = saved[q]]_vars

\* The history of a pair holds earlier versions only, each of them once:
\* no retry, abort or race records a version twice or one still current.
HistoryIsPast ==
    \A p \in Pairs :
       /\ \A h, i \in history[p] : h.version = i.version => h = i
       /\ \A h \in history[p] : h.version # row[p]

\* Requests never block each other for good.
RequestsFinish == \A q \in Requests : pc[q] # "idle" ~> pc[q] = "done"
=============================================================================
