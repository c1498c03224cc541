--------------------------- MODULE MCJobScheduler ---------------------------
(* Event bodies for the runs of JobScheduler. *)
EXTENDS JobScheduler

MCOnce(t) == [type |-> "once", starts |-> t, ends |-> NULL,
              enabled |-> NULL, interval |-> NULL]
MCRecurring(starts, ends, enabled, n) ==
    [type |-> "recurring", starts |-> starts, ends |-> ends,
     enabled |-> enabled, interval |-> n]

\* Two starts to move between, a bounded and an unbounded recurrence, one
\* that omits its start, one that is switched off and one malformed.
MCBodies == {MCOnce(1), MCOnce(2),
             MCRecurring(0, NULL, NULL, 1),
             MCRecurring(1, 2, TRUE, 2),
             MCRecurring(NULL, NULL, NULL, 1),
             MCRecurring(1, NULL, FALSE, 1),
             MCRecurring(0, NULL, NULL, 0)}

\* For two jobs and liveness.
MCFewBodies == {MCOnce(1), MCRecurring(0, 1, NULL, 1)}
=============================================================================
