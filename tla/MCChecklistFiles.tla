--------------------------- MODULE MCChecklistFiles ---------------------------
(* The requests of a small instance: bodies cannot be written in a .cfg.   *)
EXTENDS ChecklistFiles

CONSTANTS a1, a2, b1, b2, c1, c2, v1, v2, f1, m1, i1, n1, n2

Rev(bench, str, rules) == [bench |-> bench, str |-> str, rules |-> rules]
Ask(bench, str) == [bench |-> bench, str |-> str]
Selection(at, items) == [at |-> at, items |-> items]

Uploads ==
    {[kind |-> "upload", clobber |-> TRUE, items |-> <<Rev(b1, v1, {1, 3})>>],
     [kind |-> "upload", clobber |-> TRUE, items |-> <<Rev(b1, v2, {1}), Rev(b2, v1, {2})>>],
     [kind |-> "upload", clobber |-> FALSE, items |-> <<Rev(b2, v2, {1, 2}), Rev(b1, v1, {1})>>]}
Exports ==
    {[kind |-> "single", at |-> a2, items |-> <<Ask(b1, v2)>>, format |-> "xccdf"],
     [kind |-> "multi", at |-> a1, wanted |-> {}, format |-> "cklb"],
     [kind |-> "multi", at |-> a2, wanted |-> {b2}, format |-> "ckl"],
     [kind |-> "archive", coll |-> c1, format |-> "xccdf",
      items |-> <<Selection(a1, <<>>), Selection(a2, <<Ask(b1, v2), Ask(b2, NULL)>>)>>]}
Changes ==
    {[kind |-> "import", coll |-> c1],
     [kind |-> "put", at |-> a1,
      items |-> <<[rule |-> 2, result |-> "fail", note |-> n2, auto |-> FALSE]>>],
     [kind |-> "update", at |-> a1, columns |-> [name |-> 3, fqdn |-> NULL]],
     [kind |-> "update", at |-> a2, columns |-> [name |-> 1, fqdn |-> f1, ip |-> i1]],
     [kind |-> "update", at |-> a2, columns |-> [coll |-> c2]],
     [kind |-> "delete", at |-> a1]}
MCOps == Uploads \cup Exports \cup Changes

\* 3 is 1 with a domain; rule 3 is rule 2 with a prefix.
MCMapped == (a1 :> <<b1, b2>>) @@ (a2 :> <<b2>>)
MCShort == <<NULL, NULL, 1>>
MCBare == <<1, 2, 2>>

Asset(name, fqdn) ==
    [coll |-> c1, enabled |-> TRUE, name |-> name, fqdn |-> fqdn, mac |-> m1, ip |-> NULL]
Reviewed(result, note) == [result |-> result, note |-> note, auto |-> FALSE]
MCSeeds ==
    {[library |-> <<Rev(b1, v1, {1, 2}), Rev(b2, v1, {2, 3})>>,
      asset |-> (a1 :> Asset(1, fqdn)) @@ (a2 :> Asset(2, NULL)),
      review |-> (a1 :> <<Reviewed("pass", n1), Reviewed("notapplicable", n1),
                          Reviewed("informational", NULL)>>)
                 @@ (a2 :> <<NULL, Reviewed("fail", NULL), NULL>>)] : fqdn \in {NULL, f1}}

Symmetry == Permutations(Requests \ Faulty)
=============================================================================
