------------------------- MODULE OccurrenceDelivery -------------------------
(***************************************************************************)
(* What the scheduler promises about the occurrences of the jobs' events:  *)
(* each is claimed at most once and, once claimed, gets one run or none.   *)
(* Nothing is promised about a claim whose owner fails: it stays lost.     *)
(***************************************************************************)
CONSTANTS JobIds, Slots      \* an occurrence is a job and one of its slots

VARIABLE status

Statuses == {"open", "claimed", "run", "lost"}

Init == status = [j \in JobIds |-> [s \in Slots |-> "open"]]

\* A claim is lost at once when the claimer does not learn that it has it.
Arrows == {<<"open", "claimed">>, <<"open", "lost">>,
           <<"claimed", "run">>, <<"claimed", "lost">>}

Move(j, s) ==
    /\ <<status[j][s], status'[j][s]>> \in Arrows
    /\ status' = [status EXCEPT ![j][s] = status'[j][s]]

Next == \E j \in JobIds, s \in Slots : Move(j, s)

Spec == Init /\ [][Next]_status
=============================================================================
