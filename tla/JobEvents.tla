------------------------------ MODULE JobEvents ------------------------------
(***************************************************************************)
(* The rows of table `job` (only the event columns; names, descriptions    *)
(* and users play no part in scheduling), the bodies of POST and PATCH     *)
(* /jobs as the store applies them to a row, and the pure function that    *)
(* decides when a row fires next.                                          *)
(*                                                                         *)
(* Time is counted in ticks of the smallest interval.  Calendar arithmetic *)
(* (the day, week and month fields of addInterval) is not modelled here:   *)
(* an interval is the number of ticks it adds.                             *)
(***************************************************************************)
EXTENDS Integers

CONSTANTS NULL,        \* a nullable column that is NULL, a Go pointer that is nil
          MaxTime,     \* bound: the last tick of the clock
          Intervals    \* the intervals of recurring events

\* 0 stands for an interval that is missing or malformed ("", "abc", "-1"):
\* the column is free text and ComputeNextFire is what rejects it.
ASSUME EventsAssumption ==
    /\ MaxTime \in Nat
    /\ NULL \notin Int \cup BOOLEAN
    /\ Intervals \subseteq Nat
    /\ 0 \in Intervals

Times == 0..MaxTime
Nullable(S) == S \cup {NULL}

\* "manual" is event_type IS NULL.
EventTypes == {"manual", "once", "recurring"}

JobRow == [type : EventTypes, enabled : BOOLEAN,
           starts : Nullable(Times), ends : Nullable(Times),
           interval : Intervals, last : Nullable(Times)]

EmptyRow == [type |-> "manual", enabled |-> TRUE, starts |-> NULL,
             ends |-> NULL, interval |-> 0, last |-> NULL]

-----------------------------------------------------------------------------
(***************************************************************************)
(* The event of a request body, field by field; NULL is a field that the   *)
(* body does not set.  A "once" body carries its type and start and        *)
(* nothing else; a "recurring" one always has its interval.                *)
(***************************************************************************)
OnceEvents == [type : {"once"}, starts : Times, ends : {NULL},
               enabled : {NULL}, interval : {NULL}]
RecurringEvents == [type : {"recurring"}, starts : Nullable(Times),
                    ends : Nullable(Times), enabled : Nullable(BOOLEAN),
                    interval : Intervals]
EventBodies == OnceEvents \cup RecurringEvents

IfSet(new, old) == IF new = NULL THEN old ELSE new

\* JobRepo.Patch with an event in the body: every field the body sets is
\* written, the others keep their value, and last_event_fire is reset.
ApplyEvent(r, b) ==
    [type |-> b.type, enabled |-> IfSet(b.enabled, r.enabled),
     starts |-> IfSet(b.starts, r.starts), ends |-> IfSet(b.ends, r.ends),
     interval |-> IfSet(b.interval, r.interval), last |-> NULL]

-----------------------------------------------------------------------------
\* Mutant of Occurrence: the interval that a job keeps from an earlier event
\* makes a "once" event recur.
OccurrenceByInterval(r) ==
    IF r.last = NULL THEN r.starts
    ELSE IF r.interval > 0 THEN r.last + r.interval ELSE NULL

\* The occurrence that follows the last one claimed, before event_ends is
\* looked at: a "once" event has only the first.
Occurrence(r) ==
    CASE r.type = "once" /\ r.last = NULL -> r.starts
      [] r.type = "recurring" /\ r.interval > 0 /\ r.last = NULL -> r.starts
      [] r.type = "recurring" /\ r.interval > 0 /\ r.last # NULL -> r.last + r.interval
      [] OTHER -> NULL

\* The time row r fires next, or NULL when it is not schedulable.
ComputeNextFire(r) ==
    IF \/ ~r.enabled
       \/ r.starts = NULL
       \/ Occurrence(r) = NULL
       \/ r.ends # NULL /\ Occurrence(r) > r.ends
    THEN NULL ELSE Occurrence(r)
=============================================================================
