------------------------------- MODULE MCApi -------------------------------
(* Api for TLC: every path of the API, with a token that grants all of it;  *)
(* the ones a router could take for another; and for every operation the    *)
(* tokens that grant less.                                                   *)
EXTENDS Api

Bases == {"collection", "op", "stig", "user"}
AllOf(bases, readings) == bases \X readings

Admin == Verified("admin", AllOf(Bases, {FALSE}))
Tokens == {Absent, Verified("u", {}), Verified("u", AllOf(Bases, {TRUE}))}
          \cup {Verified("u", AllOf({b}, {r})) : b \in Bases, r \in BOOLEAN}

\* An instance of a template, with a value for its parameters.
Instance(template, value) ==
    [i \in DOMAIN template |-> IF template[i] = Var THEN value ELSE template[i]]

Methods == {"GET", "PUT", "POST", "PATCH", "DELETE"}
\* Paths that fit two templates, a parameter having the value of a literal: it
\* is with these that the router could go astray.
Literals == {"meta", "runs", "tasks", "ccis", "rules", "scap-maps", "batch", "import"}
Confusing ==
    {p \in {Instance(t, l) : t \in Templates, l \in Literals} :
       \E t1, t2 \in Templates : t1 # t2 /\ Fits(t1, p) /\ Fits(t2, p)}

Routed == [method : Methods, path : Confusing \cup {Instance(t, "1") : t \in Templates},
           token : {Absent}]
Granted == UNION {[method : {Route[o].method}, path : {Instance(Route[o].path, "1")},
                   token : Tokens \cup {Admin}] : o \in Operations}
MCRequests == Routed \cup Granted

\* The requests that change one review or several of one asset, with all scopes.
MCReviewRequests ==
    [method : {"PUT", "PATCH", "POST", "DELETE"},
     path : {Instance(Route[o].path, "1") : o \in {"PutReviewByAssetRule", "PostReviewsByAsset"}},
     token : {Admin}]
=============================================================================
