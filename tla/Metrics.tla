------------------------------- MODULE Metrics -------------------------------
(***************************************************************************)
(* The reports on a collection: the five metrics endpoints, the findings   *)
(* and rows of the POA&M export, and the review list with its rules        *)
(* filter.  Each report is the result of one statement, so it is a         *)
(* function of the committed tables.  Names, texts and timestamps are left *)
(* out; so is asset_stig.revision_id, which no statement of the repository *)
(* sets: every asset is on the default revision of its benchmarks.         *)
(***************************************************************************)
EXTENDS Revisions

CONSTANTS Assets, Colls, Labels,
          BAD         \* what is no positive number where an asset id should be

Results == {"pass", "fail", "notapplicable", "informational"}
Statuses == {"saved", "submitted", "accepted", "rejected"}

\* Every table has finitely many rows.
ASSUME MetricsAssumption ==
    /\ BAD \notin Assets
    /\ IsFiniteSet(Assets) /\ IsFiniteSet(Benchmarks)
    /\ IsFiniteSet(Rules) /\ IsFiniteSet(Labels)

VARIABLES
    asset,      \* the rows of asset: collection, state, benchmarks, labels
    review      \* the review of each asset and rule, or NULL

reviewedVars == <<asset, review>>

Asset == [coll : Colls, enabled : BOOLEAN, stigs : SUBSET Benchmarks, labels : SUBSET Labels]
Review == [result : Results, status : Statuses]

MetricsType ==
    /\ asset \in [Assets -> Asset]
    /\ review \in [Assets \X Rules -> Review \cup {NULL}]

-----------------------------------------------------------------------------
(* The universe that every report is made from.                              *)

\* metricsCommonParams.filter: ids that are no numbers are dropped, and a list
\* of nothing else filters nothing.  labels: by id or by name.
FilterOf(q) == [assets |-> q.assets \ {BAD}, benches |-> q.benches,
                labels |-> q.labels, unlabeled |-> q.unlabeled]
NoFilter == [assets |-> {}, benches |-> {}, labels |-> {}, unlabeled |-> FALSE]

Among(x, S) == S = {} \/ x \in S

\* target_assets.  labelMatch=null widens a filter by labels: it is one more
\* alternative of theirs.
TargetAssets(c, f) ==
    {a \in Assets :
        /\ asset[a].coll = c
        /\ asset[a].enabled
        /\ Among(a, f.assets)
        /\ \/ f.labels = {} /\ ~f.unlabeled
           \/ asset[a].labels \cap f.labels # {}
           \/ f.unlabeled /\ asset[a].labels = {}}

\* asset_benchmark.
Checklists(c, f) ==
    {k \in TargetAssets(c, f) \X Benchmarks : k[2] \in asset[k[1]].stigs /\ Among(k[2], f.benches)}

\* effective_revisions, rule_universe and joined: a row for every rule that an
\* asset is to be assessed for, under each benchmark that lists it.
Row(a, b, i, x) == [asset |-> a, bench |-> b, rev |-> i, rule |-> x, review |-> review[<<a, x>>]]
Joined(c, f) ==
    UNION {UNION {{Row(k[1], k[2], i, x) : x \in RulesOf(i)} : i \in LastReleased(k[2])} :
              k \in Checklists(c, f)}

\* Its row of stig_rule, by rule_pk.
StigRuleOf(j) == book[j.rev].rules[j.rule]
HasReview(j) == j.review # NULL
Failing(j) == HasReview(j) /\ j.review.result = "fail"

-----------------------------------------------------------------------------
(* The summaries.  Every row has the same counts over its part of joined.    *)

Measures ==
    ({"assessments", "assessed"} \X {"any", "high", "medium", "low"})
    \cup ({"findings"} \X {"high", "medium", "low"})
    \cup ({"result"} \X {"pass", "fail", "notapplicable", "other"})
    \cup ({"status"} \X Statuses)

\* metricsAggExprs; what is neither pass, fail nor notapplicable is other.
Class(r) == IF r \in {"pass", "fail", "notapplicable"} THEN r ELSE "other"
Counted(j, m) ==
    CASE m[1] = "assessments" -> m[2] \in {"any", StigRuleOf(j).severity}
      [] m[1] = "assessed" -> HasReview(j) /\ m[2] \in {"any", StigRuleOf(j).severity}
      [] m[1] = "findings" -> Failing(j) /\ m[2] = StigRuleOf(j).severity
      [] m[1] = "result" -> HasReview(j) /\ m[2] = Class(j.review.result)
      [] m[1] = "status" -> HasReview(j) /\ m[2] = j.review.status
Counts(S) == [m \in Measures |-> Cardinality({j \in S : Counted(j, m)})]

\* A GROUP BY: a row for every value of Part that occurs.
Grouped(S, Part(_)) ==
    {[key |-> k, counts |-> Counts({j \in S : Part(j) = k})] : k \in {Part(j) : j \in S}}

Unagg(c, f) == Grouped(Joined(c, f), LAMBDA j : <<j.asset, j.bench>>)
AggAsset(c, f) == Grouped(Joined(c, f), LAMBDA j : j.asset)

\* Mutant of AggStig: the rows of the revision that the library shows.
AggStigOfLastImported(c, f) ==
    Grouped({j \in Joined(c, f) : j.rev \in LastImported(j.bench)}, LAMBDA j : j.bench)
\* The number of rules is that of the revision released last.
AggStig(c, f) == Grouped(Joined(c, f), LAMBDA j : j.bench)
RuleCount(b) == {Cardinality(RulesOf(i)) : i \in LastReleased(b)}

\* An asset counts once under each of its labels, or under none (NULL): under
\* all of them, those the filter does not name included.
LabelsOf(a) == IF asset[a].labels = {} THEN {NULL} ELSE asset[a].labels
AggLabel(c, f) ==
    LET J == Joined(c, f)
    IN  {[key |-> l, counts |-> Counts({j \in J : l \in LabelsOf(j.asset)})] :
            l \in UNION {LabelsOf(j.asset) : j \in J}}

\* AggCollection.  The join is a RIGHT JOIN on a condition on the collection
\* alone, so it has a row for every collection: the others', and the own one if
\* there is nothing to assess, are a row without a rule, which counts as one
\* assessment.  The assets, stigs and checklists beside the counts are of the
\* collection asked for.  QueryRow takes any of the rows.
Empty == [Counts({}) EXCEPT ![<<"assessments", "any">>] = 1]
AggCollection(c, f) ==
    {[coll |-> d,
      assets |-> Cardinality(TargetAssets(c, f)),
      stigs |-> Cardinality({k[2] : k \in Checklists(c, f)}),
      checklists |-> Cardinality(Checklists(c, f)),
      counts |-> IF d = c /\ Joined(c, f) # {} THEN Counts(Joined(c, f)) ELSE Empty] : d \in Colls}

-----------------------------------------------------------------------------
(* The POA&M export.                                                         *)

Aggregators == {"groupId", "ruleId"}

\* Mutant of AggKey: stig_rule is joined by rule_id instead of by rule_pk, and
\* the row imported last taken.
AggKeyByRuleId(agg, j) ==
    IF agg = "ruleId" THEN j.rule
    ELSE LET i == CHOOSE i \in {n \in live : j.rule \in RulesOf(n)} :
                     \A n \in live : j.rule \in RulesOf(n) => n <= i
         IN  book[i].rules[j.rule].group
\* The groups are those of the revisions: two benchmarks that share a rule may
\* have it in different ones.
AggKey(agg, j) == IF agg = "ruleId" THEN j.rule ELSE StigRuleOf(j).group

\* The rows that GetFindings groups.
Failures(c, f, acceptedOnly) ==
    {j \in Joined(c, f) : Failing(j) /\ (acceptedOnly => j.review.status = "accepted")}

\* CASE WHEN bool_or(severity = 'high') ...
Worst(S) ==
    LET has(s) == \E j \in S : StigRuleOf(j).severity = s
    IN  IF has("high") THEN "high" ELSE IF has("medium") THEN "medium"
        ELSE IF has("low") THEN "low" ELSE "unknown"

\* One finding per key.  Its rules, assets, stigs and CCIs are DISTINCT arrays
\* of their own, in alphabetical order: sets.
Finding(S, k) ==
    [key |-> k, severity |-> Worst(S),
     rules |-> {j.rule : j \in S}, assets |-> {j.asset : j \in S},
     stigs |-> {j.bench : j \in S}, revisions |-> {book[j.rev].str : j \in S},
     ccis |-> UNION {StigRuleOf(j).ccis : j \in S}]

\* A benchmark date that is NULL cannot be scanned: the report fails.
Unscannable(S) == \E j \in S : book[j.rev].dated = 0
GetFindings(c, f, acceptedOnly, agg) ==
    LET S == Failures(c, f, acceptedOnly)
    IN  {Finding({j \in S : AggKey(agg, j) = k}, k) : k \in {AggKey(agg, j) : j \in S}}

\* The workbook has a row per finding.  EMASS and MCCAST lay it out differently
\* and say the same: the key under "Security Checks", the severity as a word
\* and (EMASS) as a category, the assets by name.
Category(s) == CASE s = "low" -> "III" [] s = "medium" -> "II" [] s = "high" -> "I" [] OTHER -> "Mixed"
Workbook(F) ==
    {[checks |-> g.key, severity |-> g.severity, category |-> Category(g.severity),
      assets |-> g.assets, comments |-> g.ccis] : g \in F}

-----------------------------------------------------------------------------
(* The review list and the library pages of a collection.                    *)

\* asset_default_rev: the revisions that the rules filter goes by.
DefaultRevs(a) == UNION {LastDated(b) : b \in asset[a].stigs}
ByDefault(k) == \E i \in DefaultRevs(k[1]) : k[2] \in RulesOf(i)
\* A rule that some revision of the library lists with the version and group of
\* a rule of a default revision; a version may be empty.
Mapped(k) ==
    \E j \in {n \in live : k[2] \in RulesOf(n)}, i \in DefaultRevs(k[1]) :
       \E y \in RulesOf(i) :
          /\ book[i].rules[y].version = book[j].rules[k[2]].version
          /\ book[i].rules[y].group = book[j].rules[k[2]].group
          /\ book[i].rules[y].version # 0
\* rulesFilterClause.
RulesFilter(k, rules) ==
    CASE rules = "default" -> ByDefault(k)
      [] rules = "not-default" -> ~ByDefault(k)
      [] rules \in {"mapped", "default-mapped"} -> Mapped(k)
      [] rules = "not-mapped" -> ~Mapped(k)
      [] rules = "not-default-mapped" -> ~ByDefault(k) /\ Mapped(k)
      [] OTHER -> TRUE

\* Mutant of ListReviews: disabled assets are listed.
ListReviewsOfAll(c, rules) ==
    {k \in Assets \X Rules : asset[k[1]].coll = c /\ review[k] # NULL /\ RulesFilter(k, rules)}
\* ReviewRepo.List.
ListReviews(c, rules) ==
    {k \in Assets \X Rules : /\ asset[k[1]].coll = c /\ asset[k[1]].enabled
                             /\ review[k] # NULL
                             /\ RulesFilter(k, rules)}

\* ListByCollection: the benchmarks that assets have, disabled ones included.
ListByCollection(c) ==
    LET mapped(b) == {a \in Assets : asset[a].coll = c /\ b \in asset[a].stigs}
    IN  {[bench |-> b, assets |-> Cardinality(mapped(b)),
          count |-> {Cardinality(RulesOf(i)) : i \in LastImported(b)}] :
             b \in {d \in Stigs : mapped(d) # {}}}
=============================================================================
