---------------------------- MODULE MCReviewStore ----------------------------
(* Requests for the runs of ReviewStore. *)
EXTENDS ReviewStore

MCBody(kind, label, filter, full) ==
    [kind |-> kind, label |-> label, filter |-> filter, full |-> full]

\* Writers of one review and of several, down every branch of the handlers.
MCMany == {MCBody("put", NULL, NULL, TRUE), MCBody("patch", "accepted", NULL, FALSE),
           MCBody("delete", NULL, NULL, FALSE), MCBody("bulk", NULL, NULL, TRUE),
           MCBody("insert", NULL, NULL, FALSE),
           MCBody("update", NULL, "saved", FALSE), MCBody("merge", NULL, NULL, TRUE)}
=============================================================================
