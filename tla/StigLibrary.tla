----------------------------- MODULE StigLibrary -----------------------------
(***************************************************************************)
(* The library of STIGs: the revisions of benchmarks and the transaction   *)
(* of ImportRevisions, which stores a batch of them.  A revision is        *)
(* replaced (clobbered) by a new one with the same benchmark and revision  *)
(* string and a new id.  Severities, texts, dates and CCIs are left out.   *)
(***************************************************************************)
EXTENDS LockWaits, Naturals, FiniteSets, Sequences

CONSTANTS NULL,
          Benchmarks,
          RevisionStrs,
          Rules       \* rule ids: numbers, in the order in which files list them

ASSUME LibraryAssumption == Rules \subseteq Nat /\ NULL \notin Benchmarks \cup RevisionStrs

VARIABLES
    book,       \* every revision ever inserted, by its id
    live,       \* the ids of the committed revisions
    held,       \* the benchmarks whose stig row a transaction has updated
    adding,     \* the ids that it has inserted
    removing,   \* the ids that it has deleted
    began,      \* its now(): when it began
    clock       \* a tick per import, so that no two of them begin at once

libraryVars == <<book, live, held, adding, removing, began, clock>>

Revision == [bench : Benchmarks, str : RevisionStrs, rules : SUBSET Rules]
Stored == [bench : Benchmarks, str : RevisionStrs, rules : SUBSET Rules, at : Nat]

Same(S, b) == {i \in S : book[i].bench = b.bench /\ book[i].str = b.str}

\* (benchmark_id, revision_str) is UNIQUE.
LibraryOK ==
    /\ \A i \in DOMAIN book : book[i] \in Stored
    /\ live \subseteq DOMAIN book
    /\ \A i \in live : Same(live, book[i]) = {i}
    /\ \A r \in Requests : /\ held[r] \subseteq Benchmarks
                           /\ adding[r] \cup removing[r] \subseteq DOMAIN book
                           /\ adding[r] \cap live = {}
                           /\ began[r] <= clock

\* seed: the revisions that are in the library before the first request.
LibraryInit(seed) ==
    /\ book = [i \in DOMAIN seed |-> [bench |-> seed[i].bench, str |-> seed[i].str,
                                      rules |-> seed[i].rules, at |-> 0]]
    /\ live = DOMAIN seed
    /\ held = [r \in Requests |-> {}]
    /\ adding = [r \in Requests |-> {}]
    /\ removing = [r \in Requests |-> {}]
    /\ began = [r \in Requests |-> 0]
    /\ clock = 0

-----------------------------------------------------------------------------
(* The transaction.                                                        *)

BeginImport(r) ==
    /\ clock' = clock + 1
    /\ began' = [began EXCEPT ![r] = clock']
    /\ UNCHANGED <<book, live, held, adding, removing>>

\* What the statements of request r see.
Visible(r) == (live \cup adding[r]) \ removing[r]
HoldStig(r, b) == {q \in Others(r) : b.bench \in held[q]}
Duplicate(r, b) == Same(Visible(r), b) # {}

Insert(r, b, replaced) ==
    /\ book' = Append(book, [bench |-> b.bench, str |-> b.str, rules |-> b.rules,
                             at |-> began[r]])
    /\ held' = [held EXCEPT ![r] = @ \cup {b.bench}]
    /\ adding' = [adding EXCEPT ![r] = @ \cup {Len(book')}]
    /\ removing' = [removing EXCEPT ![r] = @ \cup replaced]
    /\ UNCHANGED <<live, began, clock>>

\* Mutant of StoreRevision: the revision that is replaced is not deleted.
StoreBeside(r, b, clobber) == HoldStig(r, b) = {} /\ Insert(r, b, {})
\* The statements for one benchmark: the first, which updates the row of the
\* stig, waits for whoever has updated it, and nobody sees what the others do.
StoreRevision(r, b, clobber) ==
    /\ HoldStig(r, b) = {}
    /\ Duplicate(r, b) => clobber
    /\ Insert(r, b, Same(Visible(r), b))

RefuseRevision(r, b, clobber) ==
    /\ HoldStig(r, b) = {}
    /\ Duplicate(r, b)
    /\ ~clobber

EndImport(r) ==
    /\ held' = [held EXCEPT ![r] = {}]
    /\ adding' = [adding EXCEPT ![r] = {}]
    /\ removing' = [removing EXCEPT ![r] = {}]
    /\ UNCHANGED <<book, began, clock>>

CommitImport(r) == live' = Visible(r) /\ EndImport(r)
RollbackImport(r) == EndImport(r) /\ UNCHANGED live

-----------------------------------------------------------------------------
(* The revision that a request without a revision string means, for exports: *)
(* the one imported last, and of several of one transaction the last id.     *)

Newer(i, j) == book[i].at > book[j].at \/ (book[i].at = book[j].at /\ i > j)

\* The revision of a benchmark that a statement finds, or none.  str is NULL
\* for the latest.
RevisionOf(bench, str) ==
    {i \in live : /\ book[i].bench = bench
                  /\ IF str = NULL
                     THEN \A j \in live \ {i} : book[j].bench = bench => Newer(i, j)
                     ELSE book[i].str = str}
=============================================================================
