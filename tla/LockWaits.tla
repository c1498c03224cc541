------------------------------ MODULE LockWaits ------------------------------
(* Requests that wait for each other's row locks in Postgres.              *)
CONSTANT Requests     \* the HTTP requests, each of which arrives once

Others(r) == Requests \ {r}

\* Postgres ends the wait of one of the transactions of a cycle;
\* waits[q] are the requests that q waits for.
Deadlocked(r, waits) ==
    \E D \in SUBSET Requests : r \in D /\ \A q \in D : waits[q] \cap D # {}
=============================================================================
