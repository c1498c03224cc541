---------------------------- MODULE TokenBucket ----------------------------
(***************************************************************************)
(* The token bucket that ratelimit.Limiter keeps for a caller              *)
(* (golang.org/x/time/rate).                                               *)
(*                                                                         *)
(* The level is counted in time: one unit is what the bucket gains in one  *)
(* unit of the clock, a request costs Cost units (1/RequestsPerSecond) and *)
(* the bucket holds those of Burst requests.  The clock reading is an      *)
(* argument of AllowN, made by the caller: it may be older than the one    *)
(* the bucket saw last.                                                    *)
(***************************************************************************)
EXTENDS Integers

CONSTANTS Burst,   \* requests a full bucket lets through at once
          Cost     \* clock units in which the bucket regains one request

ASSUME BucketAssumption == Burst \in Nat \ {0} /\ Cost \in Nat \ {0}

Full == Burst * Cost

\* LoadOrStore puts a full bucket under a key it has not seen.
NewBucket == [level |-> Full, last |-> 0]

\* advance: the level at time t; a reading older than the last one adds nothing.
Advance(b, t) ==
    LET elapsed == IF t < b.last THEN 0 ELSE t - b.last
    IN  IF b.level + elapsed > Full THEN Full ELSE b.level + elapsed

\* AllowN(t, 1) grants a request when the bucket holds its cost.
Allows(b, t) == Advance(b, t) >= Cost

\* The bucket after a grant: the reading becomes the last one, whichever way
\* it lies.  A refusal leaves the bucket as it was.
Spend(b, t) == [level |-> Advance(b, t) - Cost, last |-> t]
=============================================================================
