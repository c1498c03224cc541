------------------------------ MODULE LinkTables ------------------------------
(***************************************************************************)
(* The join tables of the schema and the READ COMMITTED transactions that  *)
(* rewrite them.  A link is a row of collection_grant (a collection, its   *)
(* user or group and a role), of user_group_user, asset_stig or            *)
(* collection_label_asset: a pair of ids that a UNIQUE constraint lets     *)
(* stand in the table once.                                                *)
(*                                                                         *)
(* Postgres is modelled from what the transactions of package store ask of *)
(* it.  A DELETE sees the rows committed when it starts, waits for whoever *)
(* has deleted one of them, and then deletes those that are still there: a *)
(* row committed meanwhile is not among them.  An INSERT waits for whoever *)
(* has deleted or inserted a row with the same key, and for whoever is     *)
(* deleting a row that a foreign key of it names.  The rows that a         *)
(* transaction updates are locked until it ends.                           *)
(***************************************************************************)
EXTENDS LockWaits, Naturals, FiniteSets, Sequences

CONSTANT NULL

VARIABLES
    links,      \* the committed rows
    dead,       \* the ids of the rows that an open transaction has deleted
    added,      \* the rows that an open transaction has inserted
    snap,       \* the rows that a DELETE of it saw when it started
    locked,     \* the rows of other tables that it has updated
    dropping    \* the row of another table that it is deleting

rowLocks == <<locked, dropping>>
linkVars == <<links, dead, added, snap, rowLocks>>

\* by is the request that inserted the row: a pair that is deleted and
\* inserted again is another row.
Link(r, of, to, role) == [by |-> r, of |-> of, to |-> to, role |-> role]
Key(l) == <<l.of, l.to>>
Id(l) == <<l.by, l.of, l.to>>
Ids(S) == {Id(l) : l \in S}

LinksInit(seed) ==
    /\ links = seed
    /\ dead = [r \in Requests |-> {}]
    /\ added = [r \in Requests |-> {}]
    /\ snap = [r \in Requests |-> {}]
    /\ locked = [r \in Requests |-> {}]
    /\ dropping = [r \in Requests |-> {}]

\* Every key stands in the table once, and transactions refer to rows of it.
LinksOK(Row, Rows) ==
    /\ links \subseteq Row
    /\ \A k, l \in links : Key(k) = Key(l) => k = l
    /\ \A r \in Requests : /\ dead[r] \subseteq Ids(links)
                           /\ added[r] \subseteq Row
                           /\ locked[r] \cup dropping[r] \subseteq Rows

-----------------------------------------------------------------------------
(* Whom a statement of request r has to wait for.                          *)

Written(q) == added[q] \cup {l \in links : Id(l) \in dead[q]}

HoldKey(r, k) == {q \in Others(r) : \E l \in Written(q) : Key(l) = k}
HoldRows(r, S) == {q \in Others(r) : dead[q] \cap S # {}}
Updating(r, e) == {q \in Others(r) : e \in locked[q] \cup dropping[q]}
Deleting(r, e) == {q \in Others(r) : e \in dropping[q]}
HasInserted(r, e) == {q \in Others(r) : \E l \in added[q] : e \in {l.of, l.to}}
HasDeleted(r, e) ==
    {q \in Others(r) : \E l \in links : Id(l) \in dead[q] /\ e \in {l.of, l.to}}
InsertWaits(r, k) == HoldKey(r, k) \cup Deleting(r, k[1]) \cup Deleting(r, k[2])
DropWaits(r, e) == Updating(r, e) \cup HasInserted(r, e)

\* Whether request r finds a row with key k.
Present(r, k) == \E l \in links \cup added[r] : Key(l) = k /\ Id(l) \notin dead[r]

-----------------------------------------------------------------------------
(* The statements.                                                         *)

StartDelete(r, S) ==
    /\ snap' = [snap EXCEPT ![r] = Ids(S)]
    /\ UNCHANGED <<links, dead, added, rowLocks>>

FinishDelete(r) ==
    /\ HoldRows(r, snap[r]) = {}
    /\ dead' = [dead EXCEPT ![r] = @ \cup (snap[r] \cap Ids(links))]
    /\ snap' = [snap EXCEPT ![r] = {}]
    /\ UNCHANGED <<links, added, rowLocks>>

InsertLink(r, l) ==
    /\ added' = [added EXCEPT ![r] = @ \cup {l}]
    /\ UNCHANGED <<links, dead, snap, rowLocks>>

\* A statement outside a transaction, or the last one of a transaction.
Write(S) ==
    /\ links' = S
    /\ UNCHANGED <<dead, added, snap, rowLocks>>

LockRows(r, S) ==
    /\ locked' = [locked EXCEPT ![r] = S]
    /\ UNCHANGED <<links, dead, added, snap, dropping>>

\* DELETE of a row that links refer to locks it, waiting for whoever has
\* updated it or inserted a link to it; ON DELETE CASCADE then deletes the
\* links, waiting for whoever has deleted one of them.
StartDrop(r, S) ==
    /\ dropping' = [dropping EXCEPT ![r] = S]
    /\ UNCHANGED <<links, dead, added, snap, locked>>

FinishDrop(r, S) ==
    /\ links' = links \ S
    /\ dropping' = [dropping EXCEPT ![r] = {}]
    /\ UNCHANGED <<dead, added, snap, locked>>

Forget(r) ==
    /\ dead' = [dead EXCEPT ![r] = {}]
    /\ added' = [added EXCEPT ![r] = {}]
    /\ snap' = [snap EXCEPT ![r] = {}]
    /\ locked' = [locked EXCEPT ![r] = {}]
    /\ dropping' = [dropping EXCEPT ![r] = {}]

CommitLinks(r) ==
    /\ links' = {l \in links : Id(l) \notin dead[r]} \cup added[r]
    /\ Forget(r)

Rollback(r) == Forget(r) /\ UNCHANGED links
=============================================================================
