---------------------------- MODULE RequestStats ---------------------------
(***************************************************************************)
(* RequestCounter: what it accumulates for GET /op/appinfo.  Every update  *)
(* and every Snapshot is made under the counter's lock.                    *)
(***************************************************************************)
EXTENDS Integers, Bags

NewStats == [total |-> 0, duration |-> 0, api |-> 0, errors |-> 0, ops |-> <<>>]

NewOp(ms) == [total |-> 0, duration |-> 0, min |-> ms, max |-> 0, errors |-> EmptyBag]

IsError(status) == status >= 400

\* Mutant of ObserveOp: the maximum is not kept when a first sample sets it.
ObserveOpLate(s, ms, status) ==
    [total    |-> s.total + 1,
     duration |-> s.duration + ms,
     min      |-> IF ms < s.min \/ s.min = 0 THEN ms ELSE s.min,
     max      |-> IF s.total > 0 /\ ms > s.max THEN ms ELSE s.max,
     errors   |-> IF IsError(status) THEN s.errors (+) SetToBag({status}) ELSE s.errors]

\* One operation's sample.  A minimum of 0 ms counts as "not set yet" and
\* gives way to whatever comes next.
ObserveOp(s, ms, status) ==
    [total    |-> s.total + 1,
     duration |-> s.duration + ms,
     min      |-> IF ms < s.min \/ s.min = 0 THEN ms ELSE s.min,
     max      |-> IF ms > s.max THEN ms ELSE s.max,
     errors   |-> IF IsError(status) THEN s.errors (+) SetToBag({status}) ELSE s.errors]

\* observe: a request to operation op that took ms and ended with status.
Observe(stats, op, isApi, ms, status) ==
    LET old == IF op \in DOMAIN stats.ops THEN stats.ops[op] ELSE NewOp(ms)
    IN  [total    |-> stats.total + 1,
         duration |-> stats.duration + ms,
         api      |-> stats.api + (IF isApi THEN 1 ELSE 0),
         errors   |-> stats.errors + (IF IsError(status) THEN 1 ELSE 0),
         ops      |-> [o \in DOMAIN stats.ops \cup {op} |->
                          IF o = op THEN ObserveOp(old, ms, status) ELSE stats.ops[o]]]
=============================================================================
