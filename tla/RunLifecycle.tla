---------------------------- MODULE RunLifecycle ----------------------------
(***************************************************************************)
(* What a client may see of a job run: it appears as running, ends at most *)
(* once as completed or failed, and may be deleted (with the other runs of *)
(* its job) at any time.  Its id is not used again.                        *)
(***************************************************************************)
CONSTANT Runs

VARIABLE state

RunStates == {"none", "running", "completed", "failed", "gone"}

Init == state = [r \in Runs |-> "none"]

Move(r, old, new) ==
    /\ state[r] = old
    /\ state' = [state EXCEPT ![r] = new]

Delete(S) ==
    /\ \A r \in S : state[r] \in {"running", "completed", "failed"}
    /\ state' = [r \in Runs |-> IF r \in S THEN "gone" ELSE state[r]]

Next ==
    \/ \E r \in Runs : \/ Move(r, "none", "running")
                       \/ Move(r, "running", "completed")
                       \/ Move(r, "running", "failed")
    \/ \E S \in SUBSET Runs : Delete(S)

Spec == Init /\ [][Next]_state
=============================================================================
