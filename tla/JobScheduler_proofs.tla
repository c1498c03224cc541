------------------------- MODULE JobScheduler_proofs -------------------------
(***************************************************************************)
(* Proofs about JobScheduler for any set of jobs, processes and bodies,    *)
(* any number of patches and any length of time.                           *)
(***************************************************************************)
EXTENDS JobScheduler, TLAPS

USE DEF Times, Nullable

(***************************************************************************)
(* The operators of JobEvents.                                             *)
(***************************************************************************)

\* NULL, the value of a column that is not set, is none of the values it may
\* otherwise have.
LEMMA NullIsNoValue == NULL \notin Int /\ NULL \notin BOOLEAN
  BY EventsAssumption

\* A job without an event is a row of the table.
LEMMA EmptyRowType == EmptyRow \in JobRow
  BY EventsAssumption DEF EmptyRow, JobRow, EventTypes

\* Setting an event, as JobRepo.Create and JobRepo.Patch do, makes a row of
\* the table out of a row and a body.
LEMMA ApplyEventType ==
  ASSUME NEW r \in JobRow, NEW b \in EventBodies
  PROVE  ApplyEvent(r, b) \in JobRow
<1>1. r = [type |-> r.type, enabled |-> r.enabled, starts |-> r.starts,
           ends |-> r.ends, interval |-> r.interval, last |-> r.last]
  BY DEF JobRow
<1>2. /\ r.enabled \in BOOLEAN /\ r.starts \in Nullable(Times)
      /\ r.ends \in Nullable(Times) /\ r.interval \in Intervals
  BY DEF JobRow
<1>3. /\ b.type \in EventTypes /\ b.starts \in Nullable(Times)
      /\ b.ends \in Nullable(Times) /\ b.enabled \in Nullable(BOOLEAN)
      /\ b.interval \in Nullable(Intervals)
  <2>1. CASE b \in OnceEvents
    BY <2>1 DEF OnceEvents, EventTypes
  <2>2. CASE b \in RecurringEvents
    BY <2>2 DEF RecurringEvents, EventTypes
  <2> QED
    BY <2>1, <2>2 DEF EventBodies
<1>4. IfSet(b.enabled, r.enabled) \in BOOLEAN
  BY <1>2, <1>3, Zenon DEF IfSet
<1>5. IfSet(b.starts, r.starts) \in Nullable(Times)
  BY <1>2, <1>3, Zenon DEF IfSet
<1>6. IfSet(b.ends, r.ends) \in Nullable(Times)
  BY <1>2, <1>3, Zenon DEF IfSet
<1>7. IfSet(b.interval, r.interval) \in Intervals
  BY <1>2, <1>3, Zenon DEF IfSet
<1> QED
  BY <1>3, <1>4, <1>5, <1>6, <1>7 DEF ApplyEvent, JobRow

\* ComputeNextFire returns a time or nothing; the time may lie after MaxTime.
LEMMA FireType ==
  ASSUME NEW r \in JobRow
  PROVE  ComputeNextFire(r) \in Nullable(Nat)
<1>1. r.starts \in Nullable(Nat) /\ r.last \in Nullable(Nat) /\ r.interval \in Nat
  <2>1. r.starts \in Nullable(Times) /\ r.last \in Nullable(Times) /\ r.interval \in Intervals
    BY DEF JobRow
  <2>2. Intervals \subseteq Nat /\ Times \subseteq Nat
    BY EventsAssumption
  <2> QED
    BY <2>1, <2>2, Zenon
<1>2. Occurrence(r) \in Nullable(Nat)
  BY <1>1 DEF Occurrence
<1> QED
  BY <1>2 DEF ComputeNextFire

(***************************************************************************)
(* The inductive invariant.                                                *)
(***************************************************************************)
Inv == TypeOK /\ ClaimsApart

\* Nothing is claimed, held or run at first.
LEMMA InitInv == Init => Inv
<1> SUFFICES ASSUME Init PROVE Inv
  OBVIOUS
<1>1. TypeOK
  BY EmptyRowType, EventsAssumption, SchedulerAssumption
  DEF Init, TypeOK, NoFire, Epochs, Slots
<1>2. ClaimsApart
  BY <1>1 DEF Init, TypeOK, ClaimsApart, NoFire
<1> QED
  BY <1>1, <1>2 DEF Inv

\* The clock and the clients: they touch neither schedulers nor claims, and
\* a PATCH starts a new epoch, under which nothing has been claimed.
LEMMA ClientInv ==
  ASSUME Inv,
         \/ Tick
         \/ \E j \in JobIds, b \in Bodies : PostJob(j, b) \/ PatchJob(j, b)
         \/ \E j \in JobIds : DeleteJob(j)
  PROVE  Inv'
<1> USE DEF Inv, dbVars, schedVars
<1>1. CASE Tick
  <2>1. TypeOK'
    BY <1>1, EventsAssumption DEF Tick, TypeOK
  <2>2. ClaimsApart'
    BY <1>1 DEF Tick, TypeOK, ClaimsApart, Slots, Epochs
  <2> QED
    BY <2>1, <2>2
<1>2. ASSUME NEW j \in JobIds, NEW b \in Bodies, PostJob(j, b)
      PROVE  Inv'
  <2>1. TypeOK'
    BY <1>2, ApplyEventType, EmptyRowType, SchedulerAssumption
    DEF PostJob, TypeOK, Epochs
  <2>2. claims[j] = {}
    BY <1>2 DEF PostJob, TypeOK, ClaimsApart, Slots, Epochs
  <2>3. ClaimsApart'
    BY <1>2, <2>2 DEF PostJob, TypeOK, ClaimsApart, Slots, Epochs
  <2> QED
    BY <2>1, <2>3
<1>3. ASSUME NEW j \in JobIds, NEW b \in Bodies, PatchJob(j, b)
      PROVE  Inv'
  <2>1. TypeOK'
    BY <1>3, ApplyEventType, SchedulerAssumption DEF PatchJob, TypeOK, Epochs
  <2>2. ClaimsApart'
    BY <1>3 DEF PatchJob, TypeOK, ClaimsApart, Slots, Epochs
  <2> QED
    BY <2>1, <2>2
<1>4. ASSUME NEW j \in JobIds, DeleteJob(j)
      PROVE  Inv'
  BY <1>4 DEF DeleteJob, TypeOK, ClaimsApart
<1> QED
  BY <1>1, <1>2, <1>3, <1>4

\* The steps of RunOnce that neither claim nor create a run.
LEMMA CycleInv ==
  ASSUME Inv, NEW i \in Instances,
         \/ ListJobs(i) \/ ReadClock(i) \/ EndCycle(i) \/ Halt(i) \/ Restart(i)
         \/ CreateRunError(i)
         \/ \E j \in JobIds : ClaimLost(i, j)
  PROVE  Inv'
<1> USE DEF Inv, dbVars, schedVars
<1>1. CASE ListJobs(i)
  <2>1. \A j \in JobIds : ComputeNextFire(row[j]) \in Nullable(Nat)
    BY FireType DEF TypeOK
  <2>2. TypeOK'
    BY <1>1, <2>1 DEF ListJobs, TypeOK
  <2>3. ClaimsApart'
    BY <1>1 DEF ListJobs, TypeOK, ClaimsApart
  <2> QED
    BY <2>2, <2>3
<1>2. CASE ReadClock(i)
  <2>1. TypeOK'
    BY <1>2 DEF ReadClock, TypeOK
  <2>2. ClaimsApart'
    BY <1>2 DEF ReadClock, TypeOK, ClaimsApart
  <2> QED
    BY <2>1, <2>2
<1>3. CASE EndCycle(i)
  BY <1>3 DEF EndCycle, TypeOK, ClaimsApart
<1>4. CASE Halt(i)
  BY <1>4 DEF Halt, TypeOK, ClaimsApart, NoFire
<1>5. CASE Restart(i)
  BY <1>5 DEF Restart, TypeOK, ClaimsApart
<1>6. CASE CreateRunError(i)
  BY <1>6 DEF CreateRunError, TypeOK, ClaimsApart
<1>7. ASSUME NEW j \in JobIds, ClaimLost(i, j)
      PROVE  Inv'
  BY <1>7 DEF ClaimLost, TypeOK, ClaimsApart
<1> QED
  BY <1>1, <1>2, <1>3, <1>4, <1>5, <1>6, <1>7

\* The occurrence that the WHERE clause of ClaimEventFire lets through was
\* never claimed: every claim under the present event lies at or before
\* last_event_fire, and the clause asks for a later time.
LEMMA ClaimIsNew ==
  ASSUME Inv, NEW i \in Instances, NEW j \in JobIds,
         pc[i] = "dispatch", IsNext(i, j), CanClaim(j, next[i][j])
  PROVE  /\ next[i][j] \in Times
         /\ next[i][j] <= clock
         /\ <<epoch[j], next[i][j]>> \in Slots \ claims[j]
         /\ runs[j][<<epoch[j], next[i][j]>>] = 0
<1> USE DEF Inv
<1> DEFINE t == next[i][j]
<1>1. t \in Nat /\ t <= clock
  BY NullIsNoValue DEF TypeOK, IsNext, Pending, ClaimsApart
<1>2. t \in Times
  BY <1>1, EventsAssumption DEF TypeOK
<1>3. <<epoch[j], t>> \in Slots
  BY <1>2 DEF CanClaim, TypeOK, ClaimsApart, Slots, Epochs
<1>4. <<epoch[j], t>> \notin claims[j]
  <2> SUFFICES ASSUME <<epoch[j], t>> \in claims[j] PROVE FALSE
    OBVIOUS
  <2>1. row[j].last # NULL /\ t <= row[j].last
    BY DEF CanClaim, ClaimsApart
  <2>2. row[j].last < t
    BY <2>1 DEF CanClaim
  <2>3. row[j].last \in Times
    BY <2>1 DEF TypeOK, JobRow
  <2> QED
    BY <2>1, <2>2, <2>3, <1>2, EventsAssumption
<1>5. runs[j][<<epoch[j], t>>] = 0
  BY <1>3, <1>4 DEF TypeOK, ClaimsApart
<1> QED
  BY <1>1, <1>2, <1>3, <1>4, <1>5

\* A row whose last_event_fire is written.
LEMMA SetLastType ==
  ASSUME NEW r \in JobRow, NEW t \in Times
  PROVE  [r EXCEPT !.last = t] \in JobRow /\ [r EXCEPT !.last = t].last = t
<1>1. r = [type |-> r.type, enabled |-> r.enabled, starts |-> r.starts,
           ends |-> r.ends, interval |-> r.interval, last |-> r.last]
  BY DEF JobRow
<1>2. [r EXCEPT !.last = t]
        = [type |-> r.type, enabled |-> r.enabled, starts |-> r.starts,
           ends |-> r.ends, interval |-> r.interval, last |-> t]
  BY <1>1
<1> QED
  BY <1>2 DEF JobRow

\* The UPDATE of ClaimEventFire on its own, whatever becomes of its answer.
LEMMA ClaimEffect ==
  ASSUME Inv, NEW j \in JobIds, NEW t \in Times, t <= clock,
         CanClaim(j, t), ClaimEventFire(j, t), UNCHANGED <<clock, jobs, epoch>>
  PROVE  /\ row' \in [JobIds -> JobRow]
         /\ claims' \in [JobIds -> SUBSET Slots]
         /\ \A k \in JobIds : claims[k] \subseteq claims'[k]
         /\ <<epoch[j], t>> \in claims'[j]
         /\ \A k \in JobIds : \A s \in claims'[k] :
               /\ s[1] <= epoch[k] /\ s[2] <= clock
               /\ k \in jobs /\ s[1] = epoch[k] =>
                     row'[k].last # NULL /\ s[2] <= row'[k].last
<1> USE DEF Inv
<1>1. <<epoch[j], t>> \in Slots
  BY DEF CanClaim, TypeOK, ClaimsApart, Slots, Epochs
<1>2. row' \in [JobIds -> JobRow] /\ row'[j].last = t
  <2>1. row[j] \in JobRow
    BY DEF TypeOK
  <2> DEFINE new == [row[j] EXCEPT !.last = t]
  <2>2. new \in JobRow /\ new.last = t
    BY <2>1, SetLastType
  <2>3. row' = [row EXCEPT ![j] = new]
    BY Zenon DEF ClaimEventFire
  <2> HIDE DEF new
  <2> QED
    BY <2>2, <2>3 DEF TypeOK
<1>3. claims' \in [JobIds -> SUBSET Slots]
  BY <1>1 DEF ClaimEventFire, TypeOK
<1>4. /\ \A k \in JobIds : claims[k] \subseteq claims'[k]
      /\ <<epoch[j], t>> \in claims'[j]
  BY DEF ClaimEventFire, TypeOK
<1>5. ASSUME NEW k \in JobIds, NEW s \in claims'[k]
      PROVE  /\ s[1] <= epoch[k] /\ s[2] <= clock
             /\ k \in jobs /\ s[1] = epoch[k] =>
                   row'[k].last # NULL /\ s[2] <= row'[k].last
  <2>1. CASE k # j
    BY <2>1, <1>5 DEF ClaimEventFire, TypeOK, ClaimsApart
  <2>2. CASE k = j
    <3>1. row'[j].last = t
      BY <1>2
    <3>2. t # NULL /\ t \in Nat
      BY NullIsNoValue, EventsAssumption
    <3>3. CASE s = <<epoch[j], t>>
      BY <2>2, <3>1, <3>2, <3>3, EventsAssumption DEF TypeOK, Epochs
    <3>4. CASE s \in claims[j]
      <4>1. s \in Slots /\ s[1] <= epoch[j] /\ s[2] <= clock
        BY <3>4 DEF TypeOK, ClaimsApart
      <4>2. s[1] = epoch[j] => row[j].last # NULL /\ s[2] <= row[j].last
        BY <3>4 DEF ClaimsApart, CanClaim
      <4>3. row[j].last # NULL => row[j].last < t /\ row[j].last \in Times
        BY DEF CanClaim, TypeOK, JobRow
      <4> QED
        BY <4>1, <4>2, <4>3, <3>1, <3>2, <2>2, EventsAssumption DEF Slots
    <3> QED
      BY <1>5, <2>2, <3>3, <3>4 DEF ClaimEventFire, TypeOK
  <2> QED
    BY <2>1, <2>2
<1> QED
  BY <1>2, <1>3, <1>4, <1>5

\* The steps that claim.
LEMMA ClaimInv ==
  ASSUME Inv, NEW i \in Instances, NEW j \in JobIds,
         ClaimWon(i, j) \/ ClaimError(i, j)
  PROVE  Inv'
<1> USE DEF Inv, dbVars, schedVars
<1> DEFINE t == next[i][j]
           s == <<epoch[j], t>>
<1>1. CASE ClaimWon(i, j)
  <2>1. t \in Times /\ t <= clock /\ s \in Slots \ claims[j] /\ runs[j][s] = 0
    BY <1>1, ClaimIsNew DEF ClaimWon
  <2>2. /\ row' \in [JobIds -> JobRow]
        /\ claims' \in [JobIds -> SUBSET Slots]
        /\ \A k \in JobIds : claims[k] \subseteq claims'[k]
        /\ s \in claims'[j]
        /\ \A k \in JobIds : \A u \in claims'[k] :
              /\ u[1] <= epoch[k] /\ u[2] <= clock
              /\ k \in jobs /\ u[1] = epoch[k] =>
                    row'[k].last # NULL /\ u[2] <= row'[k].last
    BY <1>1, <2>1, ClaimEffect DEF ClaimWon
  <2>3. TypeOK'
    BY <1>1, <2>1, <2>2 DEF ClaimWon, TypeOK
  <2>4. <<j, s>> # NULL
    BY SchedulerAssumption, <2>1, EventsAssumption DEF Slots, Epochs
  <2>5. \A k \in Instances : held[k] # <<j, s>>
    BY <2>1, <2>4 DEF ClaimsApart
  <2>6. ClaimsApart'
    BY <1>1, <2>1, <2>2, <2>4, <2>5, ZenonT(60) DEF ClaimWon, TypeOK, ClaimsApart
  <2> QED
    BY <2>3, <2>6
<1>2. CASE ClaimError(i, j)
  <2>1. CASE UNCHANGED <<row, claims>>
    BY <1>2, <2>1 DEF ClaimError, TypeOK, ClaimsApart
  <2>2. CASE CanClaim(j, t) /\ ClaimEventFire(j, t)
    <3>1. t \in Times /\ t <= clock
      BY <1>2, <2>2, ClaimIsNew DEF ClaimError
    <3>2. /\ row' \in [JobIds -> JobRow]
          /\ claims' \in [JobIds -> SUBSET Slots]
          /\ \A k \in JobIds : claims[k] \subseteq claims'[k]
          /\ \A k \in JobIds : \A u \in claims'[k] :
                /\ u[1] <= epoch[k] /\ u[2] <= clock
                /\ k \in jobs /\ u[1] = epoch[k] =>
                      row'[k].last # NULL /\ u[2] <= row'[k].last
      BY <1>2, <2>2, <3>1, ClaimEffect DEF ClaimError
    <3>3. TypeOK'
      BY <1>2, <3>2 DEF ClaimError, TypeOK
    <3>4. ClaimsApart'
      BY <1>2, <3>2 DEF ClaimError, TypeOK, ClaimsApart
    <3> QED
      BY <3>3, <3>4
  <2> QED
    BY <1>2, <2>1, <2>2 DEF ClaimError
<1> QED
  BY <1>1, <1>2

\* CreateRun gives the run to the one scheduler that holds the claim.
LEMMA CreateRunInv ==
  ASSUME Inv, NEW i \in Instances, CreateRun(i)
  PROVE  Inv'
<1> USE DEF Inv, dbVars, schedVars
<1> DEFINE j == held[i][1]
           s == held[i][2]
<1>1. held[i] # NULL /\ held[i] \in JobIds \X Slots
  BY DEF CreateRun, TypeOK, ClaimsApart
<1>2. j \in JobIds /\ s \in Slots /\ held[i] = <<j, s>>
  BY <1>1
<1>3. runs[j][s] = 0 /\ s \in claims[j]
  BY <1>1 DEF ClaimsApart
<1>4. TypeOK'
  BY <1>2 DEF CreateRun, TypeOK
<1>5. \A k \in Instances : held'[k] # NULL => held'[k] = held[k] /\ held[k] # <<j, s>>
  BY <1>1, <1>2 DEF CreateRun, TypeOK, ClaimsApart
<1>6. \A k \in JobIds, u \in Slots :
         runs'[k][u] = IF k = j /\ u = s THEN 1 ELSE runs[k][u]
  BY <1>2, <1>3 DEF CreateRun, TypeOK
<1>7. \A k \in Instances : held'[k] # NULL => runs'[held'[k][1]][held'[k][2]] = 0
  <2> SUFFICES ASSUME NEW k \in Instances, held'[k] # NULL
               PROVE  runs'[held'[k][1]][held'[k][2]] = 0
    OBVIOUS
  <2>1. held'[k] = held[k] /\ held[k] \in JobIds \X Slots /\ held[k] # <<j, s>>
    BY <1>5 DEF TypeOK
  <2>2. ~(held[k][1] = j /\ held[k][2] = s)
    BY <2>1
  <2>3. runs[held[k][1]][held[k][2]] = 0
    BY <2>1 DEF ClaimsApart
  <2> QED
    BY <2>1, <2>2, <2>3, <1>6
<1>8. ClaimsApart'
  BY <1>2, <1>3, <1>4, <1>5, <1>6, <1>7, SMTT(30) DEF CreateRun, TypeOK, ClaimsApart
<1> QED
  BY <1>4, <1>8

\* Every step preserves the invariant.
LEMMA NextInv == Inv /\ [Next]_vars => Inv'
<1> SUFFICES ASSUME Inv, [Next]_vars PROVE Inv'
  OBVIOUS
<1>1. CASE UNCHANGED vars
  BY <1>1 DEF Inv, TypeOK, ClaimsApart, vars, dbVars, schedVars
<1>2. CASE Tick \/ (\E j \in JobIds, b \in Bodies : PostJob(j, b) \/ PatchJob(j, b))
           \/ \E j \in JobIds : DeleteJob(j)
  BY <1>2, ClientInv
<1>3. ASSUME NEW i \in Instances, RunOnce(i) \/ Halt(i) \/ Restart(i)
      PROVE  Inv'
  BY <1>3, CycleInv, ClaimInv, CreateRunInv DEF RunOnce
<1> QED
  BY <1>1, <1>2, <1>3 DEF Next

\* The invariant holds of every behaviour.
LEMMA InvAlways == Spec => []Inv
  BY InitInv, NextInv, PTL DEF Spec

(***************************************************************************)
(* What follows from it.                                                   *)
(***************************************************************************)

\* Every variable of the scheduler keeps its type.  In particular no claim
\* writes a last_event_fire that lies in the future or outside the clock.
THEOREM TypeCorrect == Spec => []TypeOK
<1>1. Inv => TypeOK
  BY DEF Inv
<1> QED
  BY <1>1, InvAlways, PTL

\* The claims of the schedulers never overlap: the conditional UPDATE of
\* ClaimEventFire lets one of them through, and its run is not there yet.
THEOREM ClaimsStayApart == Spec => []ClaimsApart
<1>1. Inv => ClaimsApart
  BY DEF Inv
<1> QED
  BY <1>1, InvAlways, PTL

\* No occurrence of a job's event gets a second job_run row, however many
\* processes schedule over one database, fail, stop and restart.
THEOREM AtMostOneRun == Spec => []NoDoubleRun
<1>1. Inv => NoDoubleRun
  BY DEF Inv, ClaimsApart, NoDoubleRun
<1> QED
  BY <1>1, InvAlways, PTL

\* No occurrence is claimed before its time, even by a process that computed
\* it from a row it read long ago.
THEOREM NeverClaimedEarly == Spec => []NeverEarly
<1>1. Inv => NeverEarly
  BY DEF Inv, ClaimsApart, NeverEarly
<1> QED
  BY <1>1, InvAlways, PTL

(***************************************************************************)
(* The claims of a job whose event is never patched are its occurrences,   *)
(* one after the other.                                                    *)
(***************************************************************************)
FreshInv == Inv /\ CandidatesFresh

\* The claim refuses every candidate but the occurrence that is due next.
LEMMA ClaimIsNext ==
  ASSUME FreshInv, NEW i \in Instances, NEW j \in JobIds,
         pc[i] = "dispatch", IsNext(i, j), CanClaim(j, next[i][j]), epoch[j] = 1
  PROVE  next[i][j] = ComputeNextFire(row[j])
<1> USE DEF FreshInv, Inv
<1>1. next[i][j] # NULL /\ next[i][j] \in Times /\ j \in jobs
  <2>1. next[i][j] \in Times
    BY ClaimIsNew, Zenon
  <2>2. next[i][j] # NULL /\ j \in jobs
    BY DEF IsNext, Pending, CanClaim
  <2> QED
    BY <2>1, <2>2
<1>2. row[j].last # NULL => row[j].last < next[i][j] /\ row[j].last \in Times
  BY DEF CanClaim, TypeOK, JobRow
<1>3. ~(row[j].last # NULL /\ next[i][j] <= row[j].last)
  BY <1>1, <1>2, EventsAssumption
<1> QED
  BY <1>1, <1>3 DEF CandidatesFresh

\* A claim turns every other scheduler's candidate for the same occurrence
\* into one that the claim will refuse.
LEMMA ClaimFresh ==
  ASSUME FreshInv, NEW i \in Instances, NEW j \in JobIds,
         pc[i] = "dispatch", IsNext(i, j), CanClaim(j, next[i][j]),
         ClaimEventFire(j, next[i][j]),
         next' = [next EXCEPT ![i][j] = NULL], UNCHANGED <<jobs, epoch>>
  PROVE  CandidatesFresh'
<1> USE DEF FreshInv, Inv
<1>1. next[i][j] \in Times
  BY ClaimIsNew
<1>2. row' = [row EXCEPT ![j] = row'[j]] /\ row'[j].last = next[i][j]
  <2>1. row[j] \in JobRow
    BY DEF TypeOK
  <2> DEFINE new == [row[j] EXCEPT !.last = next[i][j]]
  <2>2. new.last = next[i][j]
    BY <1>1, <2>1, SetLastType
  <2>3. row' = [row EXCEPT ![j] = new]
    BY Zenon DEF ClaimEventFire
  <2> HIDE DEF new
  <2> QED
    BY <2>2, <2>3 DEF TypeOK
<1> SUFFICES ASSUME NEW k \in Instances, NEW l \in JobIds, next'[k][l] # NULL
             PROVE  /\ epoch[l] >= 1
                    /\ l \in jobs /\ epoch[l] = 1 =>
                          \/ next'[k][l] = ComputeNextFire(row'[l])
                          \/ row'[l].last # NULL /\ next'[k][l] <= row'[l].last
  BY DEF CandidatesFresh
<1>3. next'[k][l] = next[k][l]
  BY DEF TypeOK
<1>4. CASE l # j
  BY <1>2, <1>3, <1>4 DEF CandidatesFresh, TypeOK
<1>5. CASE l = j
  <2>1. epoch[j] >= 1
    BY <1>3, <1>5 DEF CandidatesFresh
  <2>2. ASSUME j \in jobs, epoch[j] = 1
        PROVE  row'[j].last # NULL /\ next[k][j] <= row'[j].last
    <3>1. next[i][j] = ComputeNextFire(row[j])
      BY <2>2, ClaimIsNext
    <3>2. next[i][j] # NULL
      BY <1>1, NullIsNoValue, EventsAssumption
    <3>3. row[j].last # NULL => row[j].last < next[i][j] /\ row[j].last \in Times
      BY DEF CanClaim, TypeOK, JobRow
    <3>4. next[k][j] \in Nat
      BY <1>3, <1>5 DEF TypeOK
    <3>5. \/ next[k][j] = next[i][j]
          \/ row[j].last # NULL /\ next[k][j] <= row[j].last
      BY <1>3, <1>5, <2>2, <3>1 DEF CandidatesFresh
    <3> QED
      BY <1>1, <1>2, <3>2, <3>3, <3>4, <3>5, EventsAssumption
  <2> QED
    BY <1>3, <1>5, <2>1, <2>2
<1> QED
  BY <1>4, <1>5

\* Every step keeps the candidates fresh.
LEMMA FreshNext == FreshInv /\ [Next]_vars => FreshInv'
<1> SUFFICES ASSUME FreshInv, [Next]_vars PROVE CandidatesFresh'
  BY NextInv DEF FreshInv
<1> USE DEF FreshInv, Inv, dbVars, schedVars
<1>1. CASE UNCHANGED vars
  BY <1>1 DEF CandidatesFresh, vars
<1>2. CASE Tick
  BY <1>2 DEF Tick, CandidatesFresh
<1>3. ASSUME NEW j \in JobIds, NEW b \in Bodies, PostJob(j, b)
      PROVE  CandidatesFresh'
  BY <1>3 DEF PostJob, CandidatesFresh, TypeOK, Epochs
<1>4. ASSUME NEW j \in JobIds, NEW b \in Bodies, PatchJob(j, b)
      PROVE  CandidatesFresh'
  BY <1>4 DEF PatchJob, CandidatesFresh, ClaimsApart, TypeOK, Epochs
<1>5. ASSUME NEW j \in JobIds, DeleteJob(j)
      PROVE  CandidatesFresh'
  BY <1>5 DEF DeleteJob, CandidatesFresh
<1>6. ASSUME NEW i \in Instances, RunOnce(i) \/ Halt(i) \/ Restart(i)
      PROVE  CandidatesFresh'
  <2>1. CASE ListJobs(i)
    BY <2>1 DEF ListJobs, CandidatesFresh, ClaimsApart, TypeOK
  <2>2. CASE ReadClock(i)
    BY <2>2 DEF ReadClock, CandidatesFresh, TypeOK
  <2>3. CASE CreateRun(i) \/ CreateRunError(i) \/ EndCycle(i) \/ Restart(i)
    BY <2>3 DEF CreateRun, CreateRunError, EndCycle, Restart, CandidatesFresh
  <2>4. CASE Halt(i)
    BY <2>4 DEF Halt, NoFire, CandidatesFresh, TypeOK
  <2>5. ASSUME NEW j \in JobIds, ClaimWon(i, j)
        PROVE  CandidatesFresh'
    BY <2>5, ClaimFresh DEF ClaimWon
  <2>6. ASSUME NEW j \in JobIds, ClaimLost(i, j)
        PROVE  CandidatesFresh'
    BY <2>6 DEF ClaimLost, CandidatesFresh, TypeOK
  <2>7. ASSUME NEW j \in JobIds, ClaimError(i, j)
        PROVE  CandidatesFresh'
    <3>1. CASE CanClaim(j, next[i][j]) /\ ClaimEventFire(j, next[i][j])
      BY <2>7, <3>1, ClaimFresh DEF ClaimError
    <3>2. CASE UNCHANGED <<row, claims>>
      BY <2>7, <3>2 DEF ClaimError, CandidatesFresh, TypeOK
    <3> QED
      BY <2>7, <3>1, <3>2 DEF ClaimError
  <2> QED
    BY <1>6, <2>1, <2>2, <2>3, <2>4, <2>5, <2>6, <2>7 DEF RunOnce
<1> QED
  BY <1>1, <1>2, <1>3, <1>4, <1>5, <1>6 DEF Next

\* A step that changes last_event_fire of a job under its first event is the
\* claim of the next occurrence.
LEMMA StepFiresNext ==
  ASSUME FreshInv, [Next]_vars, NEW j \in jobs,
         epoch'[j] = 1, row'[j].last # row[j].last
  PROVE  row'[j].last = ComputeNextFire(row[j])
<1> USE DEF FreshInv, Inv, dbVars, schedVars
<1>1. j \in JobIds /\ epoch[j] \in Nat /\ epoch[j] >= 1
  BY DEF TypeOK, ClaimsApart, Epochs
<1>2. CASE UNCHANGED row
  BY <1>2
<1>3. ASSUME NEW k \in JobIds, NEW b \in Bodies, PostJob(k, b)
      PROVE  FALSE
  BY <1>1, <1>3 DEF PostJob, TypeOK
<1>4. ASSUME NEW k \in JobIds, NEW b \in Bodies, PatchJob(k, b)
      PROVE  FALSE
  BY <1>1, <1>4 DEF PatchJob, TypeOK
<1>5. ASSUME NEW i \in Instances, NEW k \in JobIds,
             pc[i] = "dispatch", IsNext(i, k), CanClaim(k, next[i][k]),
             ClaimEventFire(k, next[i][k]), UNCHANGED epoch
      PROVE  row'[j].last = ComputeNextFire(row[j])
  <2>1. k = j
    BY <1>1, <1>5 DEF ClaimEventFire, TypeOK
  <2>2. next[i][j] = ComputeNextFire(row[j]) /\ next[i][j] \in Times
    BY <1>5, <2>1, ClaimIsNext, ClaimIsNew
  <2>3. row'[j].last = next[i][j]
    <3>1. row[j] \in JobRow
      BY <1>1 DEF TypeOK
    <3>2. [row[j] EXCEPT !.last = next[i][j]].last = next[i][j]
      BY <2>2, <3>1, SetLastType
    <3>3. row'[j] = [row[j] EXCEPT !.last = next[i][j]]
      BY <1>1, <1>5, <2>1, Zenon DEF ClaimEventFire, TypeOK
    <3> QED
      BY <3>2, <3>3
  <2> QED
    BY <2>2, <2>3
<1>6. ASSUME NEW i \in Instances, RunOnce(i) \/ Halt(i) \/ Restart(i)
      PROVE  row'[j].last = ComputeNextFire(row[j])
  <2>1. ASSUME NEW k \in JobIds, ClaimWon(i, k) \/ ClaimError(i, k)
        PROVE  row'[j].last = ComputeNextFire(row[j])
    BY <1>2, <1>5, <2>1 DEF ClaimWon, ClaimError
  <2>2. CASE \/ ListJobs(i) \/ ReadClock(i) \/ CreateRun(i) \/ CreateRunError(i)
             \/ EndCycle(i) \/ Halt(i) \/ Restart(i)
             \/ \E k \in JobIds : ClaimLost(i, k)
    BY <1>2, <2>2 DEF ListJobs, ReadClock, CreateRun, CreateRunError, EndCycle,
                      Halt, Restart, ClaimLost
  <2> QED
    BY <1>6, <2>1, <2>2 DEF RunOnce
<1> QED
  BY <1>2, <1>3, <1>4, <1>6 DEF Next, Tick, DeleteJob, vars

\* As long as the event of a job is not patched, the schedulers claim its
\* occurrences in order, none skipped and none repeated, although each works
\* from rows it read some time ago.
THEOREM FiresInOrder == Spec => FiresNextOccurrence
<1>1. Init => FreshInv
  BY InitInv DEF Init, FreshInv, CandidatesFresh, NoFire
<1>2. FreshInv /\ [Next]_vars =>
        [\A j \in jobs : epoch'[j] = 1 /\ row'[j].last # row[j].last
                           => row'[j].last = ComputeNextFire(row[j])]_vars
  BY StepFiresNext
<1> QED
  BY <1>1, <1>2, FreshNext, PTL DEF Spec, FiresNextOccurrence

\* A fire that a scheduler still has to try is the one the row asks for, or
\* the claim will refuse it.
THEOREM CandidatesStayFresh == Spec => []CandidatesFresh
<1>1. Init => FreshInv
  BY InitInv DEF Init, FreshInv, CandidatesFresh, NoFire
<1>2. FreshInv => CandidatesFresh
  BY DEF FreshInv
<1> QED
  BY <1>1, <1>2, FreshNext, PTL DEF Spec

(***************************************************************************)
(* One scheduler alone runs a "once" event once for each time it is set.   *)
(***************************************************************************)

\* What is left of the cycle of a single scheduler was computed before the
\* event was claimed, and under its present setting it is claimed once.
OnceInv ==
    /\ Inv
    /\ \A j \in jobs : row[j].type = "once" =>
          /\ \A i \in Instances : next[i][j] # NULL => row[j].last = NULL
          /\ \A s, u \in claims[j] : s[1] = epoch[j] /\ u[1] = epoch[j] => s = u

\* A "once" event that has been claimed does not fire again.
LEMMA OnceFiresFirst ==
  ASSUME NEW r \in JobRow, r.type = "once", ComputeNextFire(r) # NULL
  PROVE  r.last = NULL
BY DEF ComputeNextFire, Occurrence

\* A claim leaves the other jobs as they were and keeps the type of its own.
LEMMA OnceClaimed ==
  ASSUME OnceInv, \A a, b \in Instances : a = b,
         NEW i \in Instances, NEW j \in JobIds,
         pc[i] = "dispatch", IsNext(i, j), CanClaim(j, next[i][j]),
         ClaimEventFire(j, next[i][j]),
         next' = [next EXCEPT ![i][j] = NULL], UNCHANGED <<jobs, epoch>>, Inv'
  PROVE  OnceInv'
<1> USE DEF OnceInv, Inv
<1> DEFINE t == next[i][j]
<1>1. t \in Times /\ t # NULL /\ j \in jobs
  BY ClaimIsNew, NullIsNoValue DEF CanClaim, IsNext, Pending
<1>2. /\ row' = [row EXCEPT ![j].last = t]
      /\ claims' = [claims EXCEPT ![j] = @ \cup {<<epoch[j], t>>}]
  BY DEF ClaimEventFire
<1>3. row[j] \in JobRow /\ row \in [JobIds -> JobRow] /\ claims \in [JobIds -> SUBSET Slots]
      /\ next \in [Instances -> [JobIds -> Nullable(Nat)]] /\ jobs \subseteq JobIds
  BY DEF TypeOK
<1>4. ASSUME NEW k \in jobs', row'[k].type = "once"
      PROVE  /\ \A m \in Instances : next'[m][k] # NULL => row'[k].last = NULL
             /\ \A s, u \in claims'[k] : s[1] = epoch'[k] /\ u[1] = epoch'[k] => s = u
  <2>1. CASE k # j
    BY <1>2, <1>3, <1>4, <2>1
  <2>2. CASE k = j
    <3>1. row'[j] = [row[j] EXCEPT !.last = t] /\ claims'[j] = claims[j] \cup {<<epoch[j], t>>}
      BY <1>1, <1>2, <1>3
    <3>2. row[j].type = "once"
      BY <1>3, <1>4, <2>2, <3>1, SetLastType, <1>1 DEF JobRow
    <3>3. row[j].last = NULL
      BY <1>1, <3>2
    <3>4. \A s \in claims[j] : s[1] # epoch[j]
      BY <1>1, <1>3, <3>3 DEF ClaimsApart
    <3>5. \A m \in Instances : next'[m][j] = NULL
      BY <1>3
    <3> QED
      BY <2>2, <3>1, <3>4, <3>5
  <2> QED
    BY <2>1, <2>2
<1> QED
  BY <1>4

\* Each step of a single scheduler, a client or the clock keeps OnceInv.
LEMMA OnceNext ==
  ASSUME \A a, b \in Instances : a = b, OnceInv, [Next]_vars
  PROVE  OnceInv'
<1>1. Inv'
  BY NextInv DEF OnceInv
<1> USE DEF OnceInv, Inv, dbVars, schedVars
<1>2. row \in [JobIds -> JobRow] /\ next \in [Instances -> [JobIds -> Nullable(Nat)]]
      /\ jobs \subseteq JobIds
  BY DEF TypeOK
<1>3. CASE UNCHANGED vars \/ Tick
  BY <1>1, <1>3 DEF vars, Tick
<1>4. ASSUME NEW j \in JobIds, NEW b \in Bodies, PostJob(j, b) \/ PatchJob(j, b)
      PROVE  OnceInv'
  <2>1. /\ jobs' = jobs \cup {j} /\ claims' = claims /\ next' = next
        /\ \A k \in jobs \ {j} : row'[k] = row[k] /\ epoch'[k] = epoch[k]
        /\ row'[j].last = NULL /\ epoch'[j] = epoch[j] + 1
    BY <1>2, <1>4 DEF PostJob, PatchJob, ApplyEvent, TypeOK, Epochs
  <2>2. \A s \in claims[j] : s[1] <= epoch[j] /\ s[1] \in Int
    BY DEF ClaimsApart, TypeOK, Slots, Epochs
  <2>3. epoch[j] \in Int
    BY SchedulerAssumption DEF TypeOK, Epochs
  <2>4. \A s \in claims[j] : s[1] # epoch'[j]
    BY <2>1, <2>2, <2>3
  <2> QED
    BY <1>1, <2>1, <2>4
<1>5. ASSUME NEW j \in JobIds, DeleteJob(j) PROVE OnceInv'
  BY <1>1, <1>5 DEF DeleteJob
<1>6. ASSUME NEW i \in Instances, ListJobs(i) PROVE OnceInv'
  <2>1. /\ UNCHANGED <<jobs, row, epoch, claims>>
        /\ \A k \in JobIds : next'[i][k] # NULL => ComputeNextFire(row[k]) # NULL
    BY <1>2, <1>6 DEF ListJobs
  <2>2. \A k \in jobs : row[k].type = "once" /\ next'[i][k] # NULL => row[k].last = NULL
    BY <1>2, <2>1, OnceFiresFirst
  <2>3. \A m \in Instances : m = i
    OBVIOUS
  <2> QED
    BY <1>1, <2>1, <2>2, <2>3
<1>7. ASSUME NEW i \in Instances,
             \/ ReadClock(i) \/ EndCycle(i) \/ Halt(i) \/ Restart(i) \/ CreateRunError(i) \/ CreateRun(i)
             \/ \E j \in JobIds : ClaimLost(i, j)
      PROVE  OnceInv'
  <2>1. /\ UNCHANGED <<jobs, row, epoch, claims>>
        /\ \A m \in Instances, k \in JobIds : next'[m][k] # NULL => next[m][k] # NULL
    BY <1>2, <1>7 DEF ReadClock, EndCycle, Halt, Restart, CreateRunError, CreateRun, ClaimLost, NoFire
  <2> QED
    BY <1>1, <1>2, <2>1
<1>8. ASSUME NEW i \in Instances, NEW j \in JobIds, ClaimWon(i, j) \/ ClaimError(i, j)
      PROVE  OnceInv'
  <2>1. pc[i] = "dispatch" /\ IsNext(i, j) /\ next' = [next EXCEPT ![i][j] = NULL]
        /\ UNCHANGED <<jobs, epoch>>
    BY <1>8 DEF ClaimWon, ClaimError
  <2>2. CASE CanClaim(j, next[i][j]) /\ ClaimEventFire(j, next[i][j])
    BY <1>1, <2>1, <2>2, OnceClaimed
  <2>3. CASE UNCHANGED <<row, claims>>
    <3>1. \A m \in Instances, k \in JobIds : next'[m][k] # NULL => next[m][k] # NULL
      BY <1>2, <2>1
    <3> QED
      BY <1>1, <1>2, <2>1, <2>3, <3>1
  <2> QED
    BY <1>8, <2>2, <2>3 DEF ClaimWon, ClaimError
<1> QED
  BY <1>3, <1>4, <1>5, <1>6, <1>7, <1>8 DEF Next, RunOnce

\* A single process runs a "once" event at most once for each time it is set,
\* although it may claim the time of an older setting that it had listed
\* (RunOnce and ClaimEventFire).  With two processes it may not: the other
\* one still has the old time to try when the first has claimed the new one.
THEOREM OnceRunsOnceAlone ==
  ASSUME \A a, b \in Instances : a = b
  PROVE  Spec => []OnceRunsOnce
<1>1. Init => OnceInv
  BY InitInv DEF Init, OnceInv
<1>2. OnceInv /\ [Next]_vars => OnceInv'
  BY OnceNext
<1>3. OnceInv => OnceRunsOnce
  <2> SUFFICES ASSUME OnceInv, NEW j \in jobs, row[j].type = "once", NEW t \in Times, NEW u \in Times,
                      runs[j][<<epoch[j], t>>] > 0, runs[j][<<epoch[j], u>>] > 0
               PROVE  t = u
    BY DEF OnceRunsOnce
  <2>1. j \in JobIds /\ epoch[j] \in Epochs
    BY SchedulerAssumption DEF OnceInv, Inv, TypeOK, ClaimsApart, Epochs
  <2>2. <<epoch[j], t>> \in Slots /\ <<epoch[j], u>> \in Slots
    BY <2>1 DEF Slots
  <2>3. <<epoch[j], t>> \in claims[j] /\ <<epoch[j], u>> \in claims[j]
    BY <2>1, <2>2 DEF OnceInv, Inv, ClaimsApart
  <2> QED
    BY <2>3 DEF OnceInv
<1> QED
  BY <1>1, <1>2, <1>3, PTL DEF Spec

(***************************************************************************)
(* JobScheduler implements OccurrenceDelivery: every step of the scheduler *)
(* leaves the status of all occurrences alone, or moves that of one        *)
(* occurrence along an arrow of OccurrenceDelivery.                        *)
(***************************************************************************)

\* What the mapping gives for the variable of OccurrenceDelivery.
StatusOf == [j \in JobIds |-> [s \in Slots |-> DeliveryStatus(j, s)]]

\* A claim is held as a pair, never as NULL.
LEMMA HeldIsPair == Slots \subseteq Nat \X Nat /\ NULL \notin JobIds \X Slots
<1>1. Slots \subseteq Nat \X Nat
  BY SchedulerAssumption, EventsAssumption DEF Slots, Epochs
<1>2. JobIds \X Slots \subseteq Nat \X (Nat \X Nat)
  BY <1>1, SchedulerAssumption
<1> QED
  BY <1>1, <1>2, SchedulerAssumption

\* Two functions of two arguments that differ in one place.
LEMMA UpdateOne ==
  ASSUME NEW J, NEW S, NEW T, NEW f \in [J -> [S -> T]], NEW g \in [J -> [S -> T]],
         NEW j \in J, NEW s \in S,
         \A k \in J, u \in S : ~(k = j /\ u = s) => g[k][u] = f[k][u]
  PROVE  g = [f EXCEPT ![j][s] = g[j][s]]
<1> DEFINE h == [f EXCEPT ![j][s] = g[j][s]]
<1>1. h \in [J -> [S -> T]]
  OBVIOUS
<1>2. ASSUME NEW k \in J
      PROVE  g[k] = h[k]
  <2>1. g[k] \in [S -> T] /\ h[k] \in [S -> T]
    BY <1>1
  <2>2. \A u \in S : g[k][u] = h[k][u]
    OBVIOUS
  <2> HIDE DEF h
  <2> QED
    BY <2>1, <2>2
<1> HIDE DEF h
<1>3. g = h
  BY <1>1, <1>2
<1> QED
  BY <1>3 DEF h

\* Some scheduler holds a claim on an occurrence.
IsHeld(j, s) == \E i \in Instances : held[i] = <<j, s>>

\* The values of DeliveryStatus.
StatusTable ==
  \A j \in JobIds, s \in Slots :
     /\ runs[j][s] \in {0, 1}
     /\ runs[j][s] = 1 => DeliveryStatus(j, s) = "run"
     /\ runs[j][s] = 0 /\ IsHeld(j, s) => DeliveryStatus(j, s) = "claimed"
     /\ runs[j][s] = 0 /\ ~IsHeld(j, s) /\ s \in claims[j]
           => DeliveryStatus(j, s) = "lost"
     /\ runs[j][s] = 0 /\ ~IsHeld(j, s) /\ s \notin claims[j]
           => DeliveryStatus(j, s) = "open"

\* The invariant excludes the status "run twice".
LEMMA StatusValue == Inv => StatusTable
<1> SUFFICES ASSUME Inv, NEW j \in JobIds, NEW s \in Slots
             PROVE  /\ runs[j][s] \in {0, 1}
                    /\ runs[j][s] = 1 => DeliveryStatus(j, s) = "run"
                    /\ runs[j][s] = 0 /\ IsHeld(j, s) => DeliveryStatus(j, s) = "claimed"
                    /\ runs[j][s] = 0 /\ ~IsHeld(j, s) /\ s \in claims[j]
                          => DeliveryStatus(j, s) = "lost"
                    /\ runs[j][s] = 0 /\ ~IsHeld(j, s) /\ s \notin claims[j]
                          => DeliveryStatus(j, s) = "open"
  BY DEF StatusTable
<1>1. runs[j][s] \in {0, 1}
  BY DEF Inv, TypeOK, ClaimsApart
<1>2. CASE runs[j][s] = 1
  BY <1>2 DEF DeliveryStatus
<1>3. CASE runs[j][s] = 0
  <2>1. ~(runs[j][s] > 1) /\ runs[j][s] # 1
    BY <1>3
  <2>2. CASE IsHeld(j, s)
    BY <1>3, <2>1, <2>2 DEF DeliveryStatus, IsHeld
  <2>3. CASE ~IsHeld(j, s) /\ s \in claims[j]
    BY <1>3, <2>1, <2>3 DEF DeliveryStatus, IsHeld
  <2>4. CASE ~IsHeld(j, s) /\ s \notin claims[j]
    BY <1>3, <2>1, <2>4 DEF DeliveryStatus, IsHeld
  <2> QED
    BY <1>3, <2>2, <2>3, <2>4
<1> QED
  BY <1>1, <1>2, <1>3

\* The same of the next state.
LEMMA StatusValueNext == Inv' => StatusTable'
  BY StatusValue, PTL

\* The status of an occurrence depends on its runs, its holder and its claim.
LEMMA StatusSame ==
  ASSUME StatusTable, StatusTable', NEW j \in JobIds, NEW s \in Slots,
         runs'[j][s] = runs[j][s], IsHeld(j, s)' <=> IsHeld(j, s),
         s \in claims'[j] <=> s \in claims[j]
  PROVE  DeliveryStatus(j, s)' = DeliveryStatus(j, s)
<1>1. CASE runs[j][s] = 1
  BY <1>1 DEF StatusTable
<1>2. CASE runs[j][s] = 0 /\ IsHeld(j, s)
  BY <1>2 DEF StatusTable
<1>3. CASE runs[j][s] = 0 /\ ~IsHeld(j, s) /\ s \in claims[j]
  BY <1>3 DEF StatusTable
<1>4. CASE runs[j][s] = 0 /\ ~IsHeld(j, s) /\ s \notin claims[j]
  BY <1>4 DEF StatusTable
<1> QED
  BY <1>1, <1>2, <1>3, <1>4 DEF StatusTable

\* A step that leaves the runs, holders and claims of all occurrences but one
\* as they are moves that one.
LEMMA OneMoves ==
  ASSUME StatusTable, StatusTable', NEW j \in JobIds, NEW s \in Slots,
         <<DeliveryStatus(j, s), DeliveryStatus(j, s)'>> \in Delivery!Arrows,
         \A k \in JobIds, u \in Slots : ~(k = j /\ u = s) =>
            /\ runs'[k][u] = runs[k][u]
            /\ IsHeld(k, u)' <=> IsHeld(k, u)
            /\ u \in claims'[k] <=> u \in claims[k]
  PROVE  Delivery!Move(j, s)
<1>1. \A k \in JobIds, u \in Slots :
         ~(k = j /\ u = s) => DeliveryStatus(k, u)' = DeliveryStatus(k, u)
  BY StatusSame
<1> DEFINE Values == {"run twice", "run", "claimed", "lost", "open"}
<1>2. StatusOf \in [JobIds -> [Slots -> Values]] /\ StatusOf' \in [JobIds -> [Slots -> Values]]
  <2>1. \A k \in JobIds, u \in Slots :
           DeliveryStatus(k, u) \in Values /\ DeliveryStatus(k, u)' \in Values
    <3> TAKE k \in JobIds, u \in Slots
    <3>1. DeliveryStatus(k, u) \in {"run", "claimed", "lost", "open"}
      BY DEF StatusTable
    <3>2. DeliveryStatus(k, u)' \in {"run", "claimed", "lost", "open"}
      BY DEF StatusTable
    <3> QED
      BY <3>1, <3>2
  <2> HIDE DEF Values
  <2> QED
    BY <2>1, Zenon DEF StatusOf
<1>4. /\ \A k \in JobIds, u \in Slots : StatusOf[k][u] = DeliveryStatus(k, u)
      /\ \A k \in JobIds, u \in Slots : StatusOf'[k][u] = DeliveryStatus(k, u)'
  BY DEF StatusOf
<1>5. StatusOf' = [StatusOf EXCEPT ![j][s] = StatusOf'[j][s]]
  <2>1. \A k \in JobIds, u \in Slots :
           ~(k = j /\ u = s) => StatusOf'[k][u] = StatusOf[k][u]
    BY <1>1, <1>4
  <2> HIDE DEF Values
  <2> QED
    BY <1>2, <2>1, UpdateOne
<1>3. <<StatusOf[j][s], StatusOf'[j][s]>> \in Delivery!Arrows
  BY <1>4
<1> QED
  BY <1>3, <1>5, Zenon DEF Delivery!Move, StatusOf

\* A step that leaves all three as they are moves nothing.
LEMMA NoneMoves ==
  ASSUME StatusTable, StatusTable', UNCHANGED <<runs, held, claims>>
  PROVE  UNCHANGED StatusOf
<1>1. \A k \in JobIds, u \in Slots : DeliveryStatus(k, u)' = DeliveryStatus(k, u)
  BY StatusSame DEF IsHeld
<1> QED
  BY <1>1, Zenon DEF StatusOf

\* A scheduler that holds a claim loses it, without the run or with it.
LEMMA ReleaseMoves ==
  ASSUME Inv, StatusTable, StatusTable', NEW i \in Instances,
         NEW j \in JobIds, NEW s \in Slots, held[i] = <<j, s>>,
         held' = [held EXCEPT ![i] = NULL], UNCHANGED claims,
         NEW new,
         \/ new = "lost" /\ UNCHANGED runs
         \/ new = "run" /\ runs' = [runs EXCEPT ![j][s] = @ + 1]
  PROVE  Delivery!Move(j, s)
<1>1. held[i] # NULL
  BY HeldIsPair
<1>2. runs[j][s] = 0 /\ s \in claims[j]
  <2>1. held[i][1] = j /\ held[i][2] = s
    OBVIOUS
  <2>2. held[i][2] \in claims[held[i][1]] /\ runs[held[i][1]][held[i][2]] = 0
    BY <1>1, Zenon DEF Inv, ClaimsApart
  <2> QED
    BY <2>1, <2>2
<1>3. DeliveryStatus(j, s) = "claimed"
  BY <1>1, <1>2 DEF StatusTable, IsHeld
<1>4. ~IsHeld(j, s)'
  <2>1. \A k \in Instances : held[k] = <<j, s>> => k = i
    BY <1>1 DEF Inv, ClaimsApart
  <2>2. <<j, s>> # NULL
    BY <1>1, HeldIsPair
  <2> QED
    BY <2>1, <2>2, <1>1 DEF IsHeld, Inv, TypeOK
<1>5. DeliveryStatus(j, s)' = new
  <2>1. CASE UNCHANGED runs /\ new = "lost"
    BY <2>1, <1>1, <1>2, <1>4 DEF StatusTable
  <2>2. CASE runs' = [runs EXCEPT ![j][s] = @ + 1] /\ new = "run"
    <3>1. runs'[j][s] = 1
      BY <2>2, <1>1, <1>2 DEF Inv, TypeOK
    <3> QED
      BY <2>2, <3>1, <1>1 DEF StatusTable
  <2> QED
    BY <2>1, <2>2
<1>6. ASSUME NEW k \in JobIds, NEW u \in Slots, ~(k = j /\ u = s)
      PROVE  /\ runs'[k][u] = runs[k][u]
             /\ IsHeld(k, u)' <=> IsHeld(k, u)
             /\ u \in claims'[k] <=> u \in claims[k]
  <2>1. runs'[k][u] = runs[k][u]
    BY <1>1, <1>6 DEF Inv, TypeOK
  <2>2. <<k, u>> # NULL /\ <<k, u>> # held[i]
    BY <1>1, <1>6, HeldIsPair
  <2>3. IsHeld(k, u)' <=> IsHeld(k, u)
    BY <2>2 DEF IsHeld, Inv, TypeOK
  <2> QED
    BY <2>1, <2>3
<1> QED
  BY <1>3, <1>5, <1>6, OneMoves DEF Delivery!Arrows

\* A claim takes an occurrence that was open.
LEMMA ClaimMoves ==
  ASSUME Inv, Inv', StatusTable, StatusTable', NEW i \in Instances, NEW j \in JobIds,
         pc[i] = "dispatch", IsNext(i, j), CanClaim(j, next[i][j]),
         ClaimEventFire(j, next[i][j]), UNCHANGED runs,
         NEW s, s = <<epoch[j], next[i][j]>>,
         NEW new,
         \/ new = "lost" /\ UNCHANGED held
         \/ new = "claimed" /\ held' = [held EXCEPT ![i] = <<j, s>>]
  PROVE  s \in Slots /\ Delivery!Move(j, s)
<1>1. s \in Slots \ claims[j] /\ runs[j][s] = 0
  BY ClaimIsNew
<1>2. held[i] = NULL /\ <<j, s>> # NULL
  <2>1. held[i] = NULL
    BY Zenon DEF Inv, ClaimsApart
  <2>2. <<j, s>> # NULL
    BY <1>1, HeldIsPair
  <2> QED
    BY <2>1, <2>2
<1>3. ~IsHeld(j, s)
  BY <1>1, <1>2 DEF IsHeld, Inv, ClaimsApart
<1>4. DeliveryStatus(j, s) = "open"
  BY <1>1, <1>3 DEF StatusTable
<1>5. s \in claims'[j]
  BY DEF ClaimEventFire, Inv, TypeOK
<1>6. DeliveryStatus(j, s)' = new
  <2>1. CASE UNCHANGED held /\ new = "lost"
    <3>1. ~IsHeld(j, s)'
      BY <1>3, <2>1 DEF IsHeld
    <3> QED
      BY <2>1, <3>1, <1>1, <1>5 DEF StatusTable
  <2>2. CASE held' = [held EXCEPT ![i] = <<j, s>>] /\ new = "claimed"
    <3>1. IsHeld(j, s)'
      BY <2>2 DEF IsHeld, Inv, TypeOK
    <3> QED
      BY <2>2, <3>1, <1>1 DEF StatusTable
  <2> QED
    BY <2>1, <2>2
<1>7. ASSUME NEW k \in JobIds, NEW u \in Slots, ~(k = j /\ u = s)
      PROVE  /\ runs'[k][u] = runs[k][u]
             /\ IsHeld(k, u)' <=> IsHeld(k, u)
             /\ u \in claims'[k] <=> u \in claims[k]
  <2>1. u \in claims'[k] <=> u \in claims[k]
    BY <1>7 DEF ClaimEventFire, Inv, TypeOK
  <2>2. <<k, u>> # NULL /\ <<k, u>> # <<j, s>>
    BY <1>7, HeldIsPair
  <2>3. IsHeld(k, u)' <=> IsHeld(k, u)
    BY <1>2, <2>2 DEF IsHeld, Inv, TypeOK
  <2> QED
    BY <2>1, <2>3
<1> QED
  BY <1>1, <1>4, <1>6, <1>7, OneMoves DEF Delivery!Arrows

\* Every step of the scheduler is a step of OccurrenceDelivery or a stutter.
LEMMA StepDelivers ==
  ASSUME Inv, [Next]_vars
  PROVE  Delivery!Next \/ UNCHANGED StatusOf
<1> USE DEF dbVars, schedVars
<1>0. Inv' /\ StatusTable /\ StatusTable'
  BY NextInv, StatusValue, StatusValueNext
<1>1. CASE UNCHANGED <<runs, held, claims>>
  BY <1>0, <1>1, NoneMoves
<1>2. ASSUME NEW i \in Instances, held[i] # NULL,
             CreateRun(i) \/ CreateRunError(i) \/ Halt(i)
      PROVE  Delivery!Next
  <2>1. PICK j \in JobIds, s \in Slots : held[i] = <<j, s>>
    BY <1>2 DEF Inv, TypeOK
  <2>2. CASE CreateRun(i)
    <3>1. /\ runs' = [runs EXCEPT ![j][s] = @ + 1]
          /\ held' = [held EXCEPT ![i] = NULL] /\ UNCHANGED claims
      BY <2>1, <2>2 DEF CreateRun
    <3>2. Delivery!Move(j, s)
      BY <1>0, <2>1, <3>1, ReleaseMoves
    <3> QED
      BY <3>2 DEF Delivery!Next
  <2>3. CASE CreateRunError(i) \/ Halt(i)
    <3>1. held' = [held EXCEPT ![i] = NULL] /\ UNCHANGED <<runs, claims>>
      BY <2>3 DEF CreateRunError, Halt
    <3>2. Delivery!Move(j, s)
      BY <1>0, <2>1, <3>1, ReleaseMoves
    <3> QED
      BY <3>2 DEF Delivery!Next
  <2> QED
    BY <1>2, <2>2, <2>3
<1>3. ASSUME NEW i \in Instances, held[i] = NULL,
             CreateRun(i) \/ CreateRunError(i) \/ Halt(i)
      PROVE  UNCHANGED <<runs, held, claims>>
  BY <1>3 DEF CreateRun, CreateRunError, Halt, Inv, TypeOK, ClaimsApart
<1>4. ASSUME NEW i \in Instances, NEW j \in JobIds, ClaimWon(i, j)
      PROVE  Delivery!Next
  <2>1. PICK s : s = <<epoch[j], next[i][j]>>
    OBVIOUS
  <2>2. s \in Slots /\ Delivery!Move(j, s)
    BY <1>0, <1>4, <2>1, ClaimMoves DEF ClaimWon
  <2> QED
    BY <2>2 DEF Delivery!Next
<1>5. ASSUME NEW i \in Instances, NEW j \in JobIds, ClaimError(i, j)
      PROVE  Delivery!Next \/ UNCHANGED <<runs, held, claims>>
  <2>1. CASE CanClaim(j, next[i][j]) /\ ClaimEventFire(j, next[i][j])
    <3>1. PICK s : s = <<epoch[j], next[i][j]>>
      OBVIOUS
    <3>2. s \in Slots /\ Delivery!Move(j, s)
      BY <1>0, <1>5, <2>1, <3>1, ClaimMoves DEF ClaimError
    <3> QED
      BY <3>2 DEF Delivery!Next
  <2>2. CASE UNCHANGED claims
    BY <1>5, <2>2 DEF ClaimError
  <2> QED
    BY <1>5, <2>1, <2>2 DEF ClaimError
<1>6. ASSUME NEW i \in Instances,
             \/ ListJobs(i) \/ ReadClock(i) \/ EndCycle(i) \/ Restart(i)
             \/ \E j \in JobIds : ClaimLost(i, j)
      PROVE  UNCHANGED <<runs, held, claims>>
  BY <1>6 DEF ListJobs, ReadClock, EndCycle, Restart, ClaimLost
<1>7. CASE \/ Tick
           \/ \E j \in JobIds, b \in Bodies : PostJob(j, b) \/ PatchJob(j, b)
           \/ \E j \in JobIds : DeleteJob(j)
  BY <1>1, <1>7 DEF Tick, PostJob, PatchJob, DeleteJob
<1>8. CASE UNCHANGED vars
  BY <1>1, <1>8 DEF vars
<1> QED
  BY <1>1, <1>2, <1>3, <1>4, <1>5, <1>6, <1>7, <1>8 DEF Next, RunOnce

\* Nothing is claimed at first.
LEMMA StartsOpen == Init => Delivery!Init
<1> SUFFICES ASSUME Init PROVE Delivery!Init
  OBVIOUS
<1>1. ASSUME NEW j \in JobIds, NEW s \in Slots
      PROVE  DeliveryStatus(j, s) = "open"
  <2>1. runs[j][s] = 0 /\ s \notin claims[j]
    BY <1>1 DEF Init
  <2>2. <<j, s>> # NULL
    BY <1>1, HeldIsPair
  <2>3. ~IsHeld(j, s)
    BY <2>2 DEF Init, IsHeld
  <2> QED
    BY <2>1, <2>3, InitInv, StatusValue DEF StatusTable
<1> QED
  BY <1>1, Zenon DEF Delivery!Init

\* However many processes schedule, fail and restart, an occurrence is
\* claimed at most once, gets at most one run, and stays lost when the
\* process that claimed it failed before it created the run.
THEOREM DeliveryImplemented == Spec => DeliversAtMostOnce
<1>1. Inv /\ [Next]_vars => [Delivery!Next]_StatusOf
  BY StepDelivers
<1> QED
  BY <1>1, StartsOpen, InvAlways, PTL
  DEF Spec, DeliversAtMostOnce, Delivery!Spec, StatusOf
=============================================================================
