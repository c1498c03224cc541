------------------------------- MODULE Reports -------------------------------
(***************************************************************************)
(* The reading half of the API beside its writers: reviews are written and *)
(* deleted and benchmarks imported while reports are made and the library  *)
(* is read.  Every report has to tell of the same tables.                  *)
(***************************************************************************)
EXTENDS Metrics, LibraryReads

CONSTANTS Settings,     \* what a behaviour starts with and what it asks
          Queries,      \* the query parameters of metrics and POA&M requests
          MaxReviews    \* bound on the reviews at a time

\* A behaviour writes reviews or reads the library, or both: library reads
\* touch no review.
ASSUME ReportsAssumption ==
    /\ \A s \in Settings : /\ s.asset \in [Assets -> Asset]
                           /\ s.reviews \subseteq Review
                           /\ s.asks \subseteq Asks
    /\ \A q \in Queries : /\ q.assets \subseteq Assets \cup {BAD}
                          /\ q.benches \subseteq Benchmarks
                          /\ q.labels \subseteq Labels
                          /\ q.unlabeled \in BOOLEAN

VARIABLE set    \* the settings

vars == <<libraryVars, reviewedVars, readVars, set>>

TypeOK == LibraryType /\ MetricsType /\ ReadsType /\ set \in Settings

Init ==
    /\ set \in Settings
    /\ LibraryInit
    /\ asset = set.asset
    /\ review = [k \in Assets \X Rules |-> NULL]
    /\ ReadsInit

Reviewed == {k \in DOMAIN review : review[k] # NULL}

\* Put and Patch, by their commits: ReviewStore has the transactions.
PutReview(k, rv) ==
    /\ Cardinality(Reviewed \cup {k}) <= MaxReviews
    /\ review' = [review EXCEPT ![k] = rv]
    /\ UNCHANGED <<libraryVars, asset, readVars, set>>
DeleteReview(k) ==
    /\ k \in Reviewed
    /\ review' = [review EXCEPT ![k] = NULL]
    /\ UNCHANGED <<libraryVars, asset, readVars, set>>

Next ==
    \/ \E k \in DOMAIN review, rv \in set.reviews : PutReview(k, rv)
    \/ \E k \in DOMAIN review : DeleteReview(k)
    \/ \E f \in Files : Import(f) /\ UNCHANGED <<reviewedVars, readVars, set>>
    \/ \E r \in Readers : Read(r, set.asks) /\ UNCHANGED <<libraryVars, reviewedVars, set>>

Spec == Init /\ [][Next]_vars

-----------------------------------------------------------------------------
\* Pairs of a place of R and one of what there is at this place.
Pairs(R, D) == UNION {{r} \X D[r] : r \in R}

\* A sum over rows is the number of pairs of a row and one of what it counts.
Total(R) == [m \in Measures |-> Cardinality(Pairs(R, [r \in R |-> 1..r.counts[m]]))]
\* A label row counts an asset once, so an asset counts as often as it has
\* label rows.
Weighted(R) ==
    LET I == Pairs(R, [r \in R |-> LabelsOf(r.key)])
    IN  [m \in Measures |-> Cardinality(Pairs(I, [i \in I |-> 1..i[1].counts[m]]))]

\* The five summaries of one collection and filter tell the same: per asset and
\* benchmark, per asset, per benchmark and per label they count the same rules
\* and reviews, and so does the collection's own row when there is anything to
\* assess.  Every assessed rule is in one result and in one status.
ReportsAgree ==
    \A c \in Colls, q \in Queries :
       LET f == FilterOf(q)
           W == Total(Unagg(c, f))
       IN  /\ Total(AggAsset(c, f)) = W
           /\ Total(AggStig(c, f)) = W
           /\ Total(AggLabel(c, f)) = Weighted(AggAsset(c, f))
           /\ Unagg(c, f) # {} => \E r \in AggCollection(c, f) : r.coll = c /\ r.counts = W
           /\ W[<<"assessed", "any">>] = W[<<"result", "pass">>] + W[<<"result", "fail">>]
                                         + W[<<"result", "notapplicable">>] + W[<<"result", "other">>]
           /\ W[<<"assessed", "any">>] = W[<<"status", "saved">>] + W[<<"status", "submitted">>]
                                         + W[<<"status", "accepted">>] + W[<<"status", "rejected">>]
           /\ W[<<"result", "fail">>] >= W[<<"findings", "high">>] + W[<<"findings", "medium">>]
                                         + W[<<"findings", "low">>]

\* The revisions that a review counts under: those released last, of the
\* benchmarks that its asset has and the request names, that list its rule.
Places(k, f) ==
    {i \in UNION {LastReleased(b) : b \in {d \in asset[k[1]].stigs : Among(d, f.benches)}} :
        k[2] \in RulesOf(i)}

\* A failing review that a POA&M request asks for, and all such with one of their
\* places.
Asked(k, c, f, acceptedOnly) ==
    /\ review[k].result = "fail"
    /\ acceptedOnly => review[k].status = "accepted"
    /\ asset[k[1]].enabled /\ asset[k[1]].coll = c /\ Among(k[1], f.assets)
Fails(c, f, acceptedOnly) ==
    UNION {{[asset |-> k[1], rule |-> k[2], rev |-> i] : i \in Places(k, f)} :
              k \in {l \in Reviewed : Asked(l, c, f, acceptedOnly)}}

\* What the place says of the rule.
GroupAt(p) == book[p.rev].rules[p.rule].group
SeverityAt(p) == book[p.rev].rules[p.rule].severity
KeyAt(agg, p) == IF agg = "ruleId" THEN p.rule ELSE GroupAt(p)
NoLower(s) == CASE s = "high" -> {"high"} [] s = "medium" -> {"high", "medium"}
                [] s = "low" -> {"high", "medium", "low"} [] OTHER -> Severities

\* The workbook has every failing review that is asked for, at each of its
\* places, on the row of the rule or of the group that it has there, with asset
\* and benchmark and no lower a severity than there; that row has nothing that
\* does not fail there, and a severity that something on it has.  No key has two
\* rows, so by rule a review is on one row, and by group on two only if two
\* benchmarks put its rule into different groups.
Covered(c, f, acceptedOnly, agg) ==
    LET F == GetFindings(c, f, acceptedOnly, agg)
        fails == Fails(c, f, acceptedOnly)
        at(g) == {p \in fails : KeyAt(agg, p) = g.key}
    IN  /\ \A p \in fails : \E g \in F :
              /\ g.key = KeyAt(agg, p)
              /\ p.rule \in g.rules /\ p.asset \in g.assets /\ book[p.rev].bench \in g.stigs
              /\ g.severity \in NoLower(SeverityAt(p))
        /\ \A g \in F : /\ g.severity \in {SeverityAt(p) : p \in at(g)}
                        /\ g.assets = {p.asset : p \in at(g)} /\ g.rules = {p.rule : p \in at(g)}
                        /\ \A h \in F : g.key = h.key => g = h
        /\ {w.checks : w \in Workbook(F)} = {KeyAt(agg, p) : p \in fails}
        /\ Cardinality(Workbook(F)) = Cardinality(F)

\* Unless only accepted failures are asked for, the metrics count a high finding
\* just where the POA&M has a high row.
HighInBoth(c, f, acceptedOnly, agg) ==
    ~acceptedOnly => ((\E g \in GetFindings(c, f, acceptedOnly, agg) : g.severity = "high")
                      <=> (\E r \in Unagg(c, f) : r.counts[<<"findings", "high">>] > 0))

\* The POA&M of a collection tells of all failures of its enabled assets and of
\* nothing else, under what the revisions in force say of each rule, and agrees
\* with the metrics, whatever is written and imported (store/poam.go:50).
PoamCovers ==
    \A c \in Colls, q \in {p \in Queries : p.labels = {} /\ ~p.unlabeled},
       acceptedOnly \in BOOLEAN, agg \in Aggregators :
       LET f == FilterOf(q)
       IN  ~Unscannable(Failures(c, f, acceptedOnly)) =>
              /\ Covered(c, f, acceptedOnly, agg)
              /\ HighInBoth(c, f, acceptedOnly, agg)

\* Where the dates of the library agree, so that metrics and review lists mean
\* the same revision by the default one, the reviews listed with rules=default
\* are those that metrics count as assessed.
ListedIsAssessed ==
    (\A i \in live : book[i].dated = book[i].released /\ book[i].dated # 0) =>
    \A c \in Colls :
       ListReviews(c, "default") = {<<j.asset, j.rule>> : j \in {i \in Joined(c, NoFilter) : HasReview(i)}}
=============================================================================
