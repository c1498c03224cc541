---------------------------- MODULE MCHttpServer ----------------------------
(* Operations, addresses and tokens for the run of HttpServer.             *)
EXTENDS HttpServer, TLC

CONSTANTS r1, r2, r3

MCAddress == r1 :> "a" @@ r2 :> "a" @@ r3 :> "a"

Admin == Verified("u", {<<"op", FALSE>>, <<"collection", FALSE>>})
Reader == Verified("u", {<<"op", TRUE>>, <<"collection", TRUE>>})

Setting(database, scheduled, until, ask) ==
    [database |-> database, scheduled |-> scheduled, provider |-> TRUE, limited |-> TRUE,
     until |-> until, ask |-> ask]
Ask(route, token) == [route |-> route, token |-> token]

\* With a database: two writes of one user, who shares a bucket, a stream
\* beside a write, and a read beside a write that is turned away.  Without
\* one: three requests from one address, more than its burst.
MCSettings ==
    {Setting(TRUE, FALSE, 2, r1 :> Ask("create", Admin) @@ r2 :> Ask("create", Reader)),
     Setting(TRUE, TRUE, 2, r1 :> Ask("sse", Absent) @@ r2 :> Ask("create", Admin)),
     Setting(TRUE, FALSE, 2, r1 :> Ask("appinfo", Reader) @@ r2 :> Ask("replace", Admin)),
     Setting(FALSE, TRUE, 2, r1 :> Ask("health", Absent) @@ r2 :> Ask("create", Admin)),
     Setting(FALSE, TRUE, 1, r1 :> Ask("env", Absent) @@ r2 :> Ask("env", Absent)
                             @@ r3 :> Ask("replace", Rejected))}
=============================================================================
