------------------------------ MODULE MCReports ------------------------------
(* A small library, two assets and the requests about them.                 *)
EXTENDS Reports, TLC

CONSTANTS a1, a2, b1, b2, c1, c2, l1, l2, x1, x2, x3, i1, i2

MCRule(severity, group, version, cs) ==
    [severity |-> severity, group |-> group, version |-> version, ccis |-> cs]
MCFile(b, str, lists, released, dated, day) ==
    [bench |-> b, str |-> str,
     rules |-> [x \in Rules |-> IF x \in DOMAIN lists THEN lists[x] ELSE NULL],
     released |-> released, dated |-> dated, day |-> day]

\* Rule x2 is in both benchmarks, in different groups and with different
\* severities.
MCSeed == <<MCFile(b1, "r1", x1 :> MCRule("high", "V1", 1, {i1})
                             @@ x2 :> MCRule("medium", "V1", 2, {i1, i2}), 2, 2, 2),
            MCFile(b2, "r1", x2 :> MCRule("high", "V2", 2, {})
                             @@ x3 :> MCRule("low", "V2", 0, {i2}), 2, 2, 2)>>

\* A revision that is replaced by another with other CCIs, a newer revision
\* (which gives rule x2 the group and version that x1 had), an older one that
\* comes later, and one without a date.
MCFiles == {MCFile(b1, "r1", x1 :> MCRule("medium", "V1", 1, {i2})
                             @@ x3 :> MCRule("unknown", "V1", 3, {i1}), 2, 2, 3),
            MCFile(b1, "r2", x2 :> MCRule("low", "V1", 1, {})
                             @@ x3 :> MCRule("medium", "V3", 0, {i1}), 3, 3, 3),
            MCFile(b2, "r0", x1 :> MCRule("low", "V1", 1, {i1}), 1, 1, 3),
            MCFile(b2, "r2", x2 :> MCRule("medium", "V1", 2, {i1})
                             @@ x3 :> MCRule("low", "V2", 0, {}), 0, 0, 3)}

MCReview(res, st) == [result |-> res, status |-> st]
MCReviews == {MCReview("pass", "saved"), MCReview("fail", "submitted"),
              MCReview("fail", "accepted"), MCReview("informational", "rejected")}

MCAsset(c, enabled, stigs, labels) ==
    [coll |-> c, enabled |-> enabled, stigs |-> stigs, labels |-> labels]
MCTables == {a1 :> MCAsset(c1, TRUE, {b1, b2}, {l1, l2}) @@ a2 :> MCAsset(c1, TRUE, {b2}, {}),
             a1 :> MCAsset(c1, TRUE, {b1}, {l1}) @@ a2 :> MCAsset(c1, FALSE, {b1, b2}, {l1}),
             a1 :> MCAsset(c1, TRUE, {b1, b2}, {}) @@ a2 :> MCAsset(c2, TRUE, {b1}, {l2})}

MCAsk(kind, b, str, x, i, withCcis) ==
    [kind |-> kind, bench |-> b, str |-> str, rule |-> x, cci |-> i, ccis |-> withCcis]
MCAsks == {MCAsk("rules", b1, NULL, NULL, NULL, TRUE), MCAsk("rules", b1, "r1", NULL, NULL, TRUE),
           MCAsk("rules", b1, "r2", NULL, NULL, FALSE), MCAsk("rules", b1, "r1", NULL, NULL, FALSE),
           MCAsk("rule", b1, "r1", x2, NULL, TRUE), MCAsk("rule", b1, NULL, x1, NULL, FALSE),
           MCAsk("byId", NULL, NULL, x1, NULL, TRUE), MCAsk("byId", NULL, NULL, x3, NULL, TRUE),
           MCAsk("cci", NULL, NULL, NULL, i2, FALSE), MCAsk("cci", NULL, NULL, NULL, NULL, FALSE)}

MCSettings ==
    {[asset |-> t, reviews |-> MCReviews, asks |-> {}] : t \in MCTables}
    \cup {[asset |-> CHOOSE t \in MCTables : TRUE, reviews |-> {}, asks |-> MCAsks]}

MCQuery(assets, benches, labels, unlabeled) ==
    [assets |-> assets, benches |-> benches, labels |-> labels, unlabeled |-> unlabeled]
MCQueries == {MCQuery({}, {}, {}, FALSE), MCQuery({BAD, a1}, {}, {}, FALSE),
              MCQuery({BAD}, {b2}, {}, FALSE), MCQuery({}, {}, {l1}, FALSE),
              MCQuery({}, {b1}, {l2}, TRUE)}
=============================================================================
