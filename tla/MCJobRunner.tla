----------------------------- MODULE MCJobRunner -----------------------------
(* Task lists for the runs of JobRunner. *)
EXTENDS JobRunner

CONSTANTS ping, fail, retired

\* No task, a task that succeeds, one that fails before another, one that
\* this binary no longer registers.
MCTaskLists == {<<>>, <<ping>>, <<ping, fail, ping>>, <<retired>>}
=============================================================================
