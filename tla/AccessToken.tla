---------------------------- MODULE AccessToken ----------------------------
(***************************************************************************)
(* What the API makes of the bearer token of a request: the user that      *)
(* auth.Middleware attaches to it, the scopes it grants and the bucket the *)
(* request counts against.                                                 *)
(*                                                                         *)
(* A token is "absent" (no header, or one that is not a bearer token),     *)
(* "rejected" (Verify refused it) or "verified", and then has the subject  *)
(* of its claims, which may be empty, and the set of its scopes.  A scope  *)
(* is a pair: its base, and whether it ends in ":read".                    *)
(***************************************************************************)

Absent == [kind |-> "absent", subject |-> "", scopes |-> {}]
Rejected == [kind |-> "rejected", subject |-> "", scopes |-> {}]
\* Verify and WithUser, on the claims of a token that the verifier accepts.
Verified(subject, scopes) == [kind |-> "verified", subject |-> subject, scopes |-> scopes]

\* Middleware never refuses a request: without a valid token it passes on
\* without a user, and so do all when no provider is configured.
HasUser(token, provider) == provider /\ token.kind = "verified"

\* Mutant of HasScope: the base is compared and the ":read" forgotten.
HasScopeOfBase(token, required) == \E have \in token.scopes : have[1] = required[1]

\* A scope without ":read" satisfies the requirement for the one with it.
HasScope(token, required) ==
    \E have \in token.scopes :
       \/ have = required
       \/ required[2] /\ have = <<required[1], FALSE>>

\* keyFor: users are limited by their subject, everyone else by address.
BucketKey(token, provider, address) ==
    IF HasUser(token, provider) /\ token.subject # "" THEN <<"u", token.subject>>
                                                      ELSE <<"ip", address>>

\* requiredScope for every scope the operation asks for, none when its
\* security is []: the status it answers, 200 to go on.
Gate(token, provider, required) ==
    IF required = {} THEN 200
    ELSE IF ~HasUser(token, provider) THEN 401
    ELSE IF \A s \in required : HasScope(token, s) THEN 200
    ELSE 403
=============================================================================
