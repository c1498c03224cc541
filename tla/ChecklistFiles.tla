---------------------------- MODULE ChecklistFiles ----------------------------
(***************************************************************************)
(* Checklist files: exports of an asset's reviews as CKL, CKLB or XCCDF    *)
(* files, one at a time or as an archive, and imports of such files, while *)
(* revisions are replaced and assets and reviews change.  One step is one  *)
(* statement of the database.                                              *)
(*                                                                         *)
(* The contents of a file are its asset, and per STIG a status and a note  *)
(* (detail and comment) for each rule.  Names, FQDNs, MACs and IPs stand   *)
(* for what equals them after folding case and separators.  The STIGs of   *)
(* an asset do not change here (AssetLabels), nor does any code write the  *)
(* pin asset_stig.revision_id.  ReviewStore has the transaction of a write. *)
(***************************************************************************)
EXTENDS StigLibrary, SequencesExt

CONSTANTS Assets, Colls,
          Names,             \* numbers, in alphabetical order
          Fqdns, Macs, Ips,
          Notes,
          Mapped,            \* the benchmarks of each asset, in order
          Short,             \* the first label of a name with dots, or NULL
          Bare,              \* the rule id that is left without its XCCDF prefix
          Ops,               \* what requests ask for
          Seeds,             \* the library, assets and reviews at first
          MaxFiles,          \* bound: files per import
          Faulty             \* the requests whose statements may fail

Formats == {"ckl", "cklb", "xccdf"}
Results == {"pass", "fail", "notapplicable", "notchecked",
            "informational", "unknown", "error", "fixed"}
Kinds == {"upload", "single", "multi", "archive", "import", "put", "update", "delete"}

Identity == [name : Names, fqdn : Fqdns \cup {NULL}, mac : Macs \cup {NULL}, ip : Ips \cup {NULL}]
AssetRow == [coll : Colls, enabled : BOOLEAN, name : Names, fqdn : Fqdns \cup {NULL},
             mac : Macs \cup {NULL}, ip : Ips \cup {NULL}]
Review == [result : Results, note : Notes \cup {NULL}, auto : BOOLEAN]

\* What a selection asks for: a STIG, in its latest revision if str is NULL.
\* A selection without items means all the STIGs of the asset.
Asked == [bench : Benchmarks, str : RevisionStrs \cup {NULL}]
Selections == [at : Assets, items : Seq(Asked)]

\* A review as a request writes it.
Written == [rule : Rules, result : Results, note : Notes \cup {NULL}, auto : BOOLEAN]

Columns == [coll |-> Colls, name |-> Names, fqdn |-> Fqdns \cup {NULL},
            mac |-> Macs \cup {NULL}, ip |-> Ips \cup {NULL}]

\* An upload is one XCCDF file or a zip of several.
OpType(o) ==
    /\ o.kind \in Kinds
    /\ o.kind = "upload" => o.items \in Seq(Revision) /\ o.items # <<>> /\ o.clobber \in BOOLEAN
    /\ o.kind \in {"single", "multi", "put", "update", "delete"} => o.at \in Assets
    /\ o.kind \in {"single", "multi", "archive"} => o.format \in Formats
    /\ o.kind = "single" => o.items \in Seq(Asked) /\ Len(o.items) = 1
    /\ o.kind = "archive" => o.items \in Seq(Selections)
    /\ o.kind = "put" => o.items \in Seq(Written) /\ Len(o.items) = 1
    /\ o.kind = "update" => /\ DOMAIN o.columns \subseteq DOMAIN Columns
                            /\ \A f \in DOMAIN o.columns : o.columns[f] \in Columns[f]

\* Two enabled assets of a collection do not have one name.
NamesApart(table) ==
    \A a, b \in Assets :
       ( /\ table[a].enabled /\ table[b].enabled
         /\ table[a].coll = table[b].coll /\ table[a].name = table[b].name ) => a = b

SeedType(s) ==
    /\ s.library \in Seq(Revision)
    /\ \A i, j \in DOMAIN s.library :
          (s.library[i].bench = s.library[j].bench /\ s.library[i].str = s.library[j].str) => i = j
    /\ s.asset \in [Assets -> AssetRow] /\ NamesApart(s.asset)
    /\ s.review \in [Assets -> [Rules -> Review \cup {NULL}]]

ASSUME FilesAssumption ==
    /\ Names \subseteq Nat /\ MaxFiles \in Nat
    /\ IsFiniteSet(Assets) /\ IsFiniteSet(Rules)
    /\ Mapped \in [Assets -> Seq(Benchmarks)]
    /\ Short \in [Names -> Names \cup {NULL}]
    /\ Bare \in [Rules -> Rules]
    /\ NULL \notin Fqdns \cup Macs \cup Ips \cup Notes \cup Assets \cup Names
    /\ \A o \in Ops : OpType(o)
    /\ \A s \in Seeds : SeedType(s)

VARIABLES
    asset,      \* the rows of assets
    review,     \* the review of each asset and rule, or NULL
    pc, op,     \* where each request is, and what it asks for
    more,       \* the selections of an archive, or the files of an import, to come
    todo,       \* the revisions to store or read, or the reviews to write
    target,     \* the asset that is read or written
    head,       \* its identity as exported
    rev,        \* the revision that is read
    doc,        \* the STIGs read so far
    out,        \* the files made of them
    index       \* the assets that an import has listed, by id

rowVars == <<asset, review>>
exportVars == <<target, head, rev, doc, out>>
localVars == <<op, more, todo, exportVars, index>>
vars == <<libraryVars, rowVars, pc, localVars>>

Finished == {"ok", "failed"}

TypeOK ==
    /\ LibraryOK
    /\ asset \in [Assets -> AssetRow]
    /\ review \in [Assets -> [Rules -> Review \cup {NULL}]]
    /\ pc \in [Requests -> Finished \cup
                  {"idle", "begin", "store", "get", "select", "load", "revision", "header",
                   "rules", "write", "list", "file", "put", "update", "disable"}]
    /\ op \in [Requests -> Ops \cup {NULL}]
    /\ target \in [Requests -> Assets \cup {NULL}]
    /\ head \in [Requests -> Identity \cup {NULL}]
    /\ \A r \in Requests : /\ rev[r] \in DOMAIN book \cup {NULL}
                           /\ index[r] \subseteq Assets \X Identity

Init ==
    /\ \E s \in Seeds :
          /\ LibraryInit(s.library)
          /\ asset = s.asset
          /\ review = s.review
    /\ pc = [r \in Requests |-> "idle"]
    /\ op = [r \in Requests |-> NULL]
    /\ more = [r \in Requests |-> <<>>]
    /\ todo = [r \in Requests |-> <<>>]
    /\ target = [r \in Requests |-> NULL]
    /\ head = [r \in Requests |-> NULL]
    /\ rev = [r \in Requests |-> NULL]
    /\ doc = [r \in Requests |-> <<>>]
    /\ out = [r \in Requests |-> <<>>]
    /\ index = [r \in Requests |-> {}]

Goto(r, here, there) == pc[r] = here /\ pc' = [pc EXCEPT ![r] = there]

\* The files that clients have, and may send back.
Files == UNION {ToSet(out[r]) : r \in {q \in Requests : pc[q] = "ok"}}

-----------------------------------------------------------------------------
(* The formats.                                                            *)

CklStatus == [pass |-> "NotAFinding", fail |-> "Open", notapplicable |-> "Not_Applicable"]
CklbStatus == [pass |-> "not_a_finding", fail |-> "open", notapplicable |-> "not_applicable",
               informational |-> "informational"]
XccdfStatus == [x \in Results \ {"notchecked"} |-> x]
Statuses == [ckl |-> CklStatus, cklb |-> CklbStatus, xccdf |-> XccdfStatus]
Unreviewed == [ckl |-> "Not_Reviewed", cklb |-> "not_reviewed", xccdf |-> "notchecked"]

\* Mutant of StatusOf: Not_Applicable is written as no finding.
StatusOfApplicable(format, v) ==
    IF v # NULL /\ v.result \in DOMAIN Statuses[format]
    THEN Statuses[format][IF v.result = "notapplicable" THEN "pass" ELSE v.result]
    ELSE Unreviewed[format]
\* What a writer makes of a review, or of none.
StatusOf(format, v) ==
    IF v # NULL /\ v.result \in DOMAIN Statuses[format]
    THEN Statuses[format][v.result]
    ELSE Unreviewed[format]

\* What the parsers make of a status.
CklResult == [NotAFinding |-> "pass", Open |-> "fail", Not_Applicable |-> "notapplicable",
              Not_Reviewed |-> "notchecked"]
CklbResult == [not_a_finding |-> "pass", open |-> "fail", not_applicable |-> "notapplicable",
               not_reviewed |-> "notchecked", informational |-> "informational"]
XccdfResult == [x \in Results |-> x]
ResultOf == [ckl |-> CklResult, cklb |-> CklbResult, xccdf |-> XccdfResult]

NoteIn(format, v) == IF v = NULL \/ format = "xccdf" THEN NULL ELSE v.note

\* id and was are history: the revision, and the review at the time.
Row(format, v) == [status |-> StatusOf(format, v), note |-> NoteIn(format, v), was |-> v]
Section(format, s) == [id |-> s.id, rows |-> [q \in DOMAIN s.rows |-> Row(format, s.rows[q])]]

\* Only CKL files carry the id of the asset (TARGET_KEY); nobody reads it.
FileOf(r, id, sections) ==
    [format |-> op[r].format, from |-> target[r], head |-> id,
     stigs |-> [i \in DOMAIN sections |-> Section(op[r].format, sections[i])]]

\* The reviews in a file, as parsed: STIG by STIG, in the order of the rules.
RuleIn(format, q) == IF format = "xccdf" THEN Bare[q] ELSE q
Entry(f, q, row) ==
    [rule |-> RuleIn(f.format, q), result |-> ResultOf[f.format][row.status],
     note |-> row.note, auto |-> f.format = "xccdf",
     from |-> f.from, format |-> f.format, was |-> row.was]
Cells(f) == {c \in (DOMAIN f.stigs) \X Rules : c[2] \in DOMAIN f.stigs[c[1]].rows}
UpTo(S, c) == {d \in S : d[1] < c[1] \/ (d[1] = c[1] /\ d[2] <= c[2])}
InOrder(S) == [k \in 1..Cardinality(S) |-> CHOOSE c \in S : Cardinality(UpTo(S, c)) = k]
Entries(f) ==
    [k \in DOMAIN InOrder(Cells(f)) |->
        LET c == InOrder(Cells(f))[k]
        IN Entry(f, c[2], f.stigs[c[1]].rows[c[2]])]

-----------------------------------------------------------------------------
(* The asset of a file.                                                    *)

\* Of the listed assets with a value the last by name: each overwrites the
\* entry of the one before.
LastByName(L) == CHOOSE e \in L : \A d \in L : d[2].name <= e[2].name
By(L, field, value) ==
    LET found == IF value = NULL THEN {} ELSE {e \in L : e[2][field] = value}
    IN IF found = {} THEN NULL ELSE LastByName(found)[1]

FirstOf(s) == LET found == {i \in DOMAIN s : s[i] # NULL}
              IN IF found = {} THEN NULL ELSE s[Min(found)]

\* Mutant of Resolve: the order that checklist.go:38 gives.
ResolveAsDocumented(L, id) ==
    FirstOf(<<By(L, "fqdn", id.fqdn), By(L, "mac", id.mac), By(L, "ip", id.ip),
              By(L, "name", id.name), By(L, "name", Short[id.name])>>)
\* The name of an exported file gives its host name again, or a name with a
\* benchmark in it that no asset has: it is left out.
Resolve(L, id) ==
    FirstOf(<<By(L, "fqdn", id.fqdn), By(L, "name", id.name),
              By(L, "name", Short[id.name]), By(L, "mac", id.mac), By(L, "ip", id.ip)>>)

-----------------------------------------------------------------------------
(* Requests.                                                               *)

FirstStep(o) ==
    CASE o.kind = "upload" -> "begin"
      [] o.kind = "archive" -> "select"
      [] o.kind = "import" -> "list"
      [] OTHER -> "get"

Receive(r, o) ==
    /\ Goto(r, "idle", FirstStep(o))
    /\ op' = [op EXCEPT ![r] = o]
    /\ target' = [target EXCEPT ![r] = IF FirstStep(o) = "get" THEN o.at ELSE NULL]
    /\ todo' = [todo EXCEPT ![r] = IF o.kind \in {"upload", "single", "put"} THEN o.items ELSE <<>>]
    /\ \E fs \in IF o.kind = "import" THEN UNION {[1..n -> Files] : n \in 1..MaxFiles} ELSE {<<>>} :
          more' = [more EXCEPT ![r] = IF o.kind = "archive" THEN o.items ELSE fs]
    /\ UNCHANGED <<libraryVars, rowVars, head, rev, doc, out, index>>

\* The variables of a handler go with it.
Return(r, how, files) ==
    /\ pc' = [pc EXCEPT ![r] = how]
    /\ op' = [op EXCEPT ![r] = NULL]
    /\ more' = [more EXCEPT ![r] = <<>>]
    /\ todo' = [todo EXCEPT ![r] = <<>>]
    /\ target' = [target EXCEPT ![r] = NULL]
    /\ head' = [head EXCEPT ![r] = NULL]
    /\ rev' = [rev EXCEPT ![r] = NULL]
    /\ doc' = [doc EXCEPT ![r] = <<>>]
    /\ out' = [out EXCEPT ![r] = files]
    /\ index' = [index EXCEPT ![r] = {}]
Answer(r, here, files) == pc[r] = here /\ Return(r, "ok", files)
Refuse(r, here) == pc[r] = here /\ Return(r, "failed", <<>>)

Enabled(a) == asset[a].enabled
IdentityOf(a) == [f \in {"name", "fqdn", "mac", "ip"} |-> asset[a][f]]

AfterGet(o) ==
    CASE o.kind \in {"single", "multi"} -> "load"
      [] o.kind = "put" -> "put"
      [] o.kind = "update" -> "update"
      [] o.kind = "delete" -> "disable"

GetAsset(r) ==
    /\ Goto(r, "get", AfterGet(op[r]))
    /\ Enabled(target[r])
    /\ UNCHANGED <<libraryVars, rowVars, localVars>>

AssetNotFound(r) ==
    /\ Refuse(r, "get")
    /\ ~Enabled(target[r])
    /\ UNCHANGED <<libraryVars, rowVars>>

-----------------------------------------------------------------------------
(* Imports of revisions.                                                   *)

BeginUpload(r) ==
    /\ Goto(r, "begin", "store")
    /\ BeginImport(r)
    /\ UNCHANGED <<rowVars, localVars>>

StoreItem(r) ==
    /\ Goto(r, "store", "store")
    /\ todo[r] # <<>>
    /\ StoreRevision(r, Head(todo[r]), op[r].clobber)
    /\ todo' = [todo EXCEPT ![r] = Tail(@)]
    /\ UNCHANGED <<rowVars, op, more, exportVars, index>>

RefuseItem(r) ==
    /\ Refuse(r, "store")
    /\ todo[r] # <<>>
    /\ RefuseRevision(r, Head(todo[r]), op[r].clobber)
    /\ RollbackImport(r)
    /\ UNCHANGED rowVars

CommitUpload(r) ==
    /\ Answer(r, "store", <<>>)
    /\ todo[r] = <<>>
    /\ CommitImport(r)
    /\ UNCHANGED rowVars

-----------------------------------------------------------------------------
(* Exports.                                                                *)

\* A selection of an archive is of an asset of the collection, or is left out.
NextSelection(r) ==
    LET s == Head(more[r])
    IN /\ Goto(r, "select", "load")
       /\ more[r] # <<>>
       /\ Enabled(s.at) /\ asset[s.at].coll = op[r].coll
       /\ target' = [target EXCEPT ![r] = s.at]
       /\ todo' = [todo EXCEPT ![r] = s.items]
       /\ UNCHANGED <<libraryVars, rowVars, op, more, head, rev, doc, out, index>>

LeaveOutSelection(r) ==
    LET s == Head(more[r])
    IN /\ Goto(r, "select", "select")
       /\ more[r] # <<>>
       /\ r \in Faulty \/ ~Enabled(s.at) \/ asset[s.at].coll # op[r].coll
       /\ more' = [more EXCEPT ![r] = Tail(@)]
       /\ UNCHANGED <<libraryVars, rowVars, op, todo, exportVars, index>>

ArchiveDone(r) ==
    /\ Answer(r, "select", out[r])
    /\ more[r] = <<>>
    /\ UNCHANGED <<libraryVars, rowVars>>

\* AssetMulti reads every STIG of the asset, AssetSingle the one it is given.
Multi(r) == \/ op[r].kind = "multi"
            \/ op[r].kind = "archive" /\ Head(more[r]).items = <<>>
Wanted(r, b) == op[r].kind = "multi" /\ op[r].wanted # {} => b \in op[r].wanted
Applied(r) ==
    LET bs == SelectSeq(Mapped[target[r]], LAMBDA b : Wanted(r, b))
    IN [i \in DOMAIN bs |-> [bench |-> bs[i], str |-> NULL]]

AfterItem(r, rest) ==
    IF rest = <<>> THEN "write" ELSE IF Multi(r) THEN "revision" ELSE "load"

SkipItem(r) ==
    /\ todo' = [todo EXCEPT ![r] = Tail(@)]
    /\ pc' = [pc EXCEPT ![r] = AfterItem(r, todo'[r])]
    /\ UNCHANGED <<op, more, exportVars, index>>

\* AssetSingle or AssetMulti returns an error: the request fails, or the
\* archive goes on without what it was reading.
Drop(r) ==
    \/ op[r].kind # "archive" /\ Return(r, "failed", <<>>)
    \/ op[r].kind = "archive" /\ ~Multi(r) /\ SkipItem(r)
    \/ /\ op[r].kind = "archive" /\ Multi(r)
       /\ pc' = [pc EXCEPT ![r] = "write"]
       /\ todo' = [todo EXCEPT ![r] = <<>>]
       /\ doc' = [doc EXCEPT ![r] = <<>>]
       /\ UNCHANGED <<op, more, target, head, rev, out, index>>
NotFound(r) == IF Multi(r) THEN SkipItem(r) ELSE Drop(r)

LoadAsset(r) ==
    /\ pc[r] = "load" /\ Enabled(target[r])
    /\ head' = [head EXCEPT ![r] = IdentityOf(target[r])]
    /\ todo' = [todo EXCEPT ![r] = IF Multi(r) THEN Applied(r) ELSE @]
    /\ pc' = [pc EXCEPT ![r] = IF Multi(r) THEN AfterItem(r, todo'[r]) ELSE "revision"]
    /\ UNCHANGED <<libraryVars, rowVars, op, more, target, rev, doc, out, index>>

AssetGone(r) ==
    /\ pc[r] = "load" /\ ~Enabled(target[r])
    /\ Drop(r)
    /\ UNCHANGED <<libraryVars, rowVars>>

ReadRevision(r) ==
    /\ Goto(r, "revision", "header")
    /\ \E i \in RevisionOf(Head(todo[r]).bench, Head(todo[r]).str) : rev' = [rev EXCEPT ![r] = i]
    /\ UNCHANGED <<libraryVars, rowVars, op, more, todo, target, head, doc, out, index>>

NoRevision(r) ==
    /\ pc[r] = "revision"
    /\ RevisionOf(Head(todo[r]).bench, Head(todo[r]).str) = {}
    /\ NotFound(r)
    /\ UNCHANGED <<libraryVars, rowVars>>

ReadHeader(r) ==
    /\ Goto(r, "header", "rules")
    /\ rev[r] \in live
    /\ UNCHANGED <<libraryVars, rowVars, localVars>>

HeaderGone(r) ==
    /\ pc[r] = "header" /\ rev[r] \notin live
    /\ NotFound(r)
    /\ UNCHANGED <<libraryVars, rowVars>>

\* Mutant of RulesRead: the rules of the revision string, not of the id.
RulesOfName(r) ==
    UNION {book[i].rules : i \in RevisionOf(Head(todo[r]).bench, Head(todo[r]).str)}
RulesRead(r) == IF rev[r] \in live THEN book[rev[r]].rules ELSE {}

\* One statement reads the rules with their reviews; it is content with none.
ReadRules(r) ==
    /\ pc[r] = "rules"
    /\ doc' = [doc EXCEPT ![r] = Append(@, [head |-> head[r], id |-> rev[r],
                  rows |-> [q \in RulesRead(r) |-> review[target[r]][q]]])]
    /\ todo' = [todo EXCEPT ![r] = Tail(@)]
    /\ pc' = [pc EXCEPT ![r] = AfterItem(r, todo'[r])]
    /\ UNCHANGED <<libraryVars, rowVars, op, more, target, head, rev, out, index>>

WriteFile(r) ==
    /\ Answer(r, "write", <<FileOf(r, head[r], doc[r])>>)
    /\ op[r].kind # "archive"
    /\ UNCHANGED <<libraryVars, rowVars>>

\* An archive has a file for each STIG.
WriteEntries(r) ==
    /\ Goto(r, "write", "select")
    /\ op[r].kind = "archive"
    /\ out' = [out EXCEPT ![r] = @ \o
                  [i \in DOMAIN doc[r] |-> FileOf(r, doc[r][i].head, <<doc[r][i]>>)]]
    /\ doc' = [doc EXCEPT ![r] = <<>>]
    /\ more' = [more EXCEPT ![r] = Tail(@)]
    /\ UNCHANGED <<libraryVars, rowVars, op, todo, target, head, rev, index>>

-----------------------------------------------------------------------------
(* Imports of files, and changes of assets and reviews.                    *)

ListAssets(r) ==
    /\ Goto(r, "list", "file")
    /\ index' = [index EXCEPT ![r] =
           {<<a, IdentityOf(a)>> : a \in {b \in Assets : Enabled(b) /\ asset[b].coll = op[r].coll}}]
    /\ UNCHANGED <<libraryVars, rowVars, op, more, todo, exportVars>>

\* A file that resolves to no asset is reported and passed over.
NextFile(r) ==
    LET f == Head(more[r])
        a == Resolve(index[r], f.head)
    IN /\ pc[r] = "file" /\ more[r] # <<>>
       /\ target' = [target EXCEPT ![r] = a]
       /\ todo' = [todo EXCEPT ![r] = IF a = NULL THEN <<>> ELSE Entries(f)]
       /\ more' = [more EXCEPT ![r] = Tail(@)]
       /\ pc' = [pc EXCEPT ![r] = IF todo'[r] = <<>> THEN "file" ELSE "put"]
       /\ UNCHANGED <<libraryVars, rowVars, op, head, rev, doc, out, index>>

ImportDone(r) ==
    /\ Answer(r, "file", <<>>)
    /\ more[r] = <<>>
    /\ UNCHANGED <<libraryVars, rowVars>>

NextEntry(r) ==
    \/ op[r].kind = "put" /\ Return(r, "ok", <<>>)
    \/ /\ op[r].kind = "import"
       /\ todo' = [todo EXCEPT ![r] = Tail(@)]
       /\ pc' = [pc EXCEPT ![r] = IF todo'[r] = <<>> THEN "file" ELSE "put"]
       /\ UNCHANGED <<op, more, exportVars, index>>

PutReview(r) ==
    LET e == Head(todo[r])
    IN /\ pc[r] = "put"
       /\ review' = [review EXCEPT ![target[r]][e.rule] =
                         [result |-> e.result, note |-> e.note, auto |-> e.auto]]
       /\ NextEntry(r)
       /\ UNCHANGED <<libraryVars, asset>>

\* A review that is refused does not end the import.
RejectReview(r) ==
    /\ pc[r] = "put" /\ r \in Faulty
    /\ op[r].kind = "import" /\ NextEntry(r)
    /\ UNCHANGED <<libraryVars, rowVars>>

\* Two enabled assets of a collection do not have one name.
NameTaken(a, row) ==
    \E b \in Assets \ {a} : Enabled(b) /\ asset[b].coll = row.coll /\ asset[b].name = row.name

UpdateAsset(r) ==
    LET a == target[r]
        columns == op[r].columns
        row == [f \in DOMAIN asset[a] |-> IF f \in DOMAIN columns THEN columns[f] ELSE asset[a][f]]
        done == Enabled(a) /\ ~NameTaken(a, row)
    IN /\ pc[r] = "update"
       /\ asset' = IF done THEN [asset EXCEPT ![a] = row] ELSE asset
       /\ Return(r, IF done THEN "ok" ELSE "failed", <<>>)
       /\ UNCHANGED <<libraryVars, review>>

DisableAsset(r) ==
    /\ pc[r] = "disable"
    /\ asset' = [asset EXCEPT ![target[r]].enabled = FALSE]
    /\ Return(r, IF Enabled(target[r]) THEN "ok" ELSE "failed", <<>>)
    /\ UNCHANGED <<libraryVars, review>>

-----------------------------------------------------------------------------
(* Statements that fail, and waits.                                        *)

ReadFails(r) ==
    /\ r \in Faulty /\ pc[r] \in {"load", "revision", "header", "rules"}
    /\ Drop(r)
    /\ UNCHANGED <<libraryVars, rowVars>>

UploadEnds(r) ==
    /\ Refuse(r, "store")
    /\ RollbackImport(r)
    /\ UNCHANGED rowVars
UploadFails(r) == r \in Faulty /\ UploadEnds(r)

RequestFails(r) ==
    /\ r \in Faulty
    /\ \E here \in {"begin", "get", "list", "put", "update", "disable"} :
          Refuse(r, here) /\ (here = "put" => op[r].kind = "put")
    /\ UNCHANGED <<libraryVars, rowVars>>

WaitsFor(q) ==
    IF pc[q] = "store" /\ todo[q] # <<>> THEN HoldStig(q, Head(todo[q])) ELSE {}
Deadlock(r) == Deadlocked(r, [q \in Requests |-> WaitsFor(q)]) /\ UploadEnds(r)

Step(r) ==
    \/ GetAsset(r) \/ AssetNotFound(r)
    \/ BeginUpload(r) \/ StoreItem(r) \/ RefuseItem(r) \/ CommitUpload(r)
    \/ NextSelection(r) \/ LeaveOutSelection(r) \/ ArchiveDone(r)
    \/ LoadAsset(r) \/ AssetGone(r) \/ ReadRevision(r) \/ NoRevision(r)
    \/ ReadHeader(r) \/ HeaderGone(r) \/ ReadRules(r) \/ WriteFile(r) \/ WriteEntries(r)
    \/ ListAssets(r) \/ NextFile(r) \/ ImportDone(r) \/ PutReview(r)
    \/ UpdateAsset(r) \/ DisableAsset(r)
    \/ Deadlock(r)
Fault(r) == RejectReview(r) \/ ReadFails(r) \/ UploadFails(r) \/ RequestFails(r)

AllDone == (\A r \in Requests : pc[r] \in Finished) /\ UNCHANGED vars

Next ==
    \/ \E r \in Requests : Step(r) \/ Fault(r) \/ \E o \in Ops : Receive(r, o)
    \/ AllDone

Spec == Init /\ [][Next]_vars

-----------------------------------------------------------------------------
(* Properties.                                                             *)

\* The rules of each STIG in a file are those of the revision that its
\* header names, although the two are read apart and the revision may be
\* replaced between them: then the STIG has no rules (checklists.go:197).
WholeRevision ==
    \A f \in Files : \A i \in DOMAIN f.stigs :
       LET s == f.stigs[i]
       IN \/ DOMAIN s.rows = book[s.id].rules
          \/ DOMAIN s.rows = {} /\ s.id \notin live

\* An import of a file into the asset it was exported from leaves the
\* judgement of a review as it was exported, and in CKL and CKLB files its
\* detail and comment: what a writer makes of a review its parser undoes
\* (export.go:72, ckl.go:146, cklb.go:99, xccdf.go:101).
Judged == {"pass", "fail", "notapplicable"}
ResultsSurvive ==
    [][\A r \in Requests :
          (pc[r] = "put" /\ op[r].kind = "import" /\ todo'[r] # todo[r] /\ review' # review) =>
             LET e == Head(todo[r])
                 now == review'[target[r]][e.rule]
             IN (e.from = target[r] /\ review[target[r]][e.rule] = e.was /\ e.was # NULL) =>
                   /\ e.was.result \in Judged => now.result = e.was.result
                   /\ e.format # "xccdf" => now.note = e.was.note]_vars

\* A file goes back to its asset if that is listed under its name and no
\* other asset of the list has its FQDN, whatever MAC or IP the others have
\* (reviews_import_handler.go:291).
OwnAsset ==
    \A r \in Requests : \A f \in Files : \A e \in index[r] :
       ( /\ e[1] = f.from /\ e[2].name = f.head.name
         /\ f.head.fqdn # NULL => \A d \in index[r] \ {e} : d[2].fqdn # f.head.fqdn )
       => Resolve(index[r], f.head) = f.from
=============================================================================
