------------------------------ MODULE Revisions ------------------------------
(***************************************************************************)
(* What the reading half of package store sees of the STIG library: the    *)
(* committed rows of stig_revision with their rules and CCIs.  An import   *)
(* is one commit here; StigLibrary has its transaction, statement by       *)
(* statement.  revision_id and rule_pk are identity columns: a revision    *)
(* that is imported again is another row, with other rules.                *)
(***************************************************************************)
EXTENDS Naturals, Sequences, FiniteSetsExt

CONSTANTS NULL,
          Benchmarks,
          RevisionStrs,
          Rules,      \* rule ids
          Groups,     \* group ids
          Ccis,
          Files,      \* what may be imported
          Seed,       \* the revisions in the library at first, in this order
          Imports     \* bound on the imports

Severities == {"high", "medium", "low", "unknown"}

\* What a revision says of a rule.  A row of stig_rule is of one revision:
\* another that lists the same rule_id, of the same benchmark or another, may
\* say something else.  The version_str is 0 for an empty one.
StigRule == [severity : Severities, group : Groups, version : Nat, ccis : SUBSET Ccis]

\* A file: the revision it is of, the rules it lists (NULL for the others), its
\* release date and its benchmark date (0 if the file has none, NULL in the
\* table), and the day on which it is imported.
File == [bench : Benchmarks, str : RevisionStrs,
         rules : [Rules -> StigRule \cup {NULL}],
         released : Nat, dated : Nat, day : Nat]

ASSUME RevisionsAssumption ==
    /\ NULL \notin Benchmarks \cup RevisionStrs
    /\ Files \subseteq File
    /\ Seed \in Seq(File)
    /\ \A i, j \in DOMAIN Seed : Seed[i].bench = Seed[j].bench /\ Seed[i].str = Seed[j].str => i = j
    /\ Imports \in Nat

VARIABLES
    book,       \* every revision ever committed, by revision_id
    live        \* the ids of those that are in the table

libraryVars == <<book, live>>

RulesOf(i) == {x \in Rules : book[i].rules[x] # NULL}
Of(b) == {i \in live : book[i].bench = b}

\* (benchmark_id, revision_str) is UNIQUE.
LibraryType ==
    /\ book \in Seq(File) /\ live \subseteq DOMAIN book
    /\ \A i, j \in live : book[i].bench = book[j].bench /\ book[i].str = book[j].str => i = j

LibraryInit == book = Seed /\ live = DOMAIN Seed

-----------------------------------------------------------------------------
\* ImportRevisions with clobber, for one file: the rows of the revision that it
\* replaces go, with their rules and the CCIs of these (ON DELETE CASCADE).
Import(f) ==
    /\ Len(book) < Len(Seed) + Imports
    /\ \A i \in DOMAIN book : book[i].day <= f.day
    /\ book' = Append(book, f)
    /\ live' = {i \in live : book[i].bench # f.bench \/ book[i].str # f.str} \cup {Len(book')}

-----------------------------------------------------------------------------
(* The latest revision of a benchmark.  The statements of the code do not    *)
(* all order revisions alike; each of these is a set of one or no id.        *)

First(S, Before(_, _)) == {i \in S : \A j \in S \ {i} : Before(i, j)}

\* ORDER BY revision_id DESC: the library's own pages.
LastImported(b) == First(Of(b), LAMBDA i, j : i > j)

\* ORDER BY release_date DESC NULLS LAST, revision_id DESC: metrics, POA&M.
LastReleased(b) ==
    First(Of(b), LAMBDA i, j : \/ book[i].released > book[j].released
                               \/ book[i].released = book[j].released /\ i > j)

\* ORDER BY COALESCE(benchmark_date, imported_at::date) DESC, revision_id DESC:
\* review lists.
Dated(i) == IF book[i].dated = 0 THEN book[i].day ELSE book[i].dated
LastDated(b) ==
    First(Of(b), LAMBDA i, j : Dated(i) > Dated(j) \/ (Dated(i) = Dated(j) /\ i > j))

-----------------------------------------------------------------------------
(* Statements that read the library alone.                                   *)

Strs(b) == {book[i].str : i \in Of(b)}

\* A row of List and of Get: the benchmark with its last imported revision.
Summary(b) ==
    [bench |-> b, revisions |-> Strs(b),
     last |-> {book[i].str : i \in LastImported(b)},
     count |-> {Cardinality(RulesOf(i)) : i \in LastImported(b)}]

\* A benchmark stays in table stig when its revisions are replaced.
Stigs == {book[i].bench : i \in DOMAIN book}
List == {Summary(b) : b \in Stigs}
Get(b) == {s \in List : s.bench = b}
=============================================================================
