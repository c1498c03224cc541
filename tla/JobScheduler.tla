---------------------------- MODULE JobScheduler ----------------------------
(***************************************************************************)
(* The job scheduler of one or more API processes over one database.       *)
(*                                                                         *)
(* Each process runs RunOnce at start-up and then on every tick: it lists  *)
(* the enabled jobs, computes the next fire of each from the rows it has   *)
(* read, and for every one that is due issues a conditional UPDATE, the    *)
(* claim, and then inserts the job_run row.  The four are separate         *)
(* statements on a READ COMMITTED connection pool, so another scheduler,   *)
(* PATCH /jobs, DELETE /jobs or the end of the process may fall between    *)
(* any two of them.  What the runs do is in JobRunner.                     *)
(***************************************************************************)
EXTENDS JobEvents

CONSTANTS JobIds,      \* job_id values, handed out by an identity column
          Instances,   \* API processes, each with one Scheduler
          Bodies,      \* the event bodies that clients send
          MaxEpoch,    \* bound: 1 + the number of event PATCHes of a job
          Faults       \* statements may fail and processes may stop

ASSUME SchedulerAssumption ==
    /\ JobIds \subseteq Nat
    /\ Bodies \subseteq EventBodies
    /\ MaxEpoch \in Nat \ {0}
    /\ Faults \in BOOLEAN
    /\ NULL \notin Nat \X (Nat \X Nat)

Epochs == 1..MaxEpoch
\* One occurrence of a job: which configuration of its event, and when.
Slots == Epochs \X Times

VARIABLES
    clock,     \* the wall clock
    jobs,      \* ids of the rows of table job
    row,       \* their event columns
    epoch,     \* history: how many times the event of a job was set, 0 = no such id yet
    pc,        \* where each scheduler is in RunOnce
    next,      \* the fire times a scheduler has computed and not yet tried
    held,      \* the occurrence it has claimed and not yet created a run for
    claims,    \* history: every occurrence claimed
    runs       \* history: the number of scheduled runs created for each occurrence

dbVars == <<jobs, row, epoch>>
schedVars == <<pc, next, held>>
vars == <<clock, dbVars, schedVars, claims, runs>>

NoFire == [j \in JobIds |-> NULL]
Pending(i) == {j \in JobIds : next[i][j] # NULL}

TypeOK ==
    /\ clock \in Times
    /\ jobs \subseteq JobIds
    /\ row \in [JobIds -> JobRow]
    /\ epoch \in [JobIds -> Epochs \cup {0}]
    /\ pc \in [Instances -> {"down", "idle", "listed", "dispatch", "claimed"}]
    /\ next \in [Instances -> [JobIds -> Nullable(Nat)]]
    /\ held \in [Instances -> (JobIds \X Slots) \cup {NULL}]
    /\ claims \in [JobIds -> SUBSET Slots]
    /\ runs \in [JobIds -> [Slots -> Nat]]

Init ==
    /\ clock = 0
    /\ jobs = {}
    /\ row = [j \in JobIds |-> EmptyRow]
    /\ epoch = [j \in JobIds |-> 0]
    /\ pc = [i \in Instances |-> "idle"]
    /\ next = [i \in Instances |-> NoFire]
    /\ held = [i \in Instances |-> NULL]
    /\ claims = [j \in JobIds |-> {}]
    /\ runs = [j \in JobIds |-> [s \in Slots |-> 0]]

-----------------------------------------------------------------------------
(* The clock and the clients of the API.                                   *)

Tick ==
    /\ clock < MaxTime
    /\ clock' = clock + 1
    /\ UNCHANGED <<dbVars, schedVars, claims, runs>>

\* POST /jobs with an event.  (A job without one is never listed, and gets
\* the same row as far as a later PATCH can tell.)
PostJob(j, b) ==
    /\ epoch[j] = 0
    /\ jobs' = jobs \cup {j}
    /\ row' = [row EXCEPT ![j] = ApplyEvent(EmptyRow, b)]
    /\ epoch' = [epoch EXCEPT ![j] = 1]
    /\ UNCHANGED <<clock, schedVars, claims, runs>>

\* PATCH /jobs/{jobId} with an event; without one it writes no event column.
PatchJob(j, b) ==
    /\ j \in jobs
    /\ epoch[j] < MaxEpoch
    /\ row' = [row EXCEPT ![j] = ApplyEvent(@, b)]
    /\ epoch' = [epoch EXCEPT ![j] = @ + 1]
    /\ UNCHANGED <<clock, jobs, schedVars, claims, runs>>

DeleteJob(j) ==
    /\ j \in jobs
    /\ jobs' = jobs \ {j}
    /\ UNCHANGED <<clock, row, epoch, schedVars, claims, runs>>

-----------------------------------------------------------------------------
(* RunOnce.                                                                *)

\* ListEnabledScheduled.  ComputeNextFire depends on nothing but the row, so
\* it is evaluated here, on the rows as they were read.  (When the statement
\* fails RunOnce returns and the scheduler stays idle until the next tick.)
ListJobs(i) ==
    /\ pc[i] = "idle"
    /\ next' = [next EXCEPT ![i] = [j \in JobIds |->
                   IF j \in jobs /\ row[j].type # "manual" /\ row[j].enabled
                   THEN ComputeNextFire(row[j]) ELSE NULL]]
    /\ pc' = [pc EXCEPT ![i] = "listed"]
    /\ UNCHANGED <<clock, dbVars, held, claims, runs>>

\* Mutant of ReadClock: the loop returns at the first job that is not due.
ReadClockUntilFuture(i) ==
    /\ pc[i] = "listed"
    /\ next' = [next EXCEPT ![i] = [j \in JobIds |->
                   IF \A k \in Pending(i) : k <= j => @[k] <= clock THEN @[j] ELSE NULL]]
    /\ pc' = [pc EXCEPT ![i] = "dispatch"]
    /\ UNCHANGED <<clock, dbVars, held, claims, runs>>

\* now := s.now(), read once for the cycle; jobs that fire later are skipped.
ReadClock(i) ==
    /\ pc[i] = "listed"
    /\ next' = [next EXCEPT ![i] = [j \in JobIds |->
                   IF @[j] # NULL /\ @[j] <= clock THEN @[j] ELSE NULL]]
    /\ pc' = [pc EXCEPT ![i] = "dispatch"]
    /\ UNCHANGED <<clock, dbVars, held, claims, runs>>

\* The loop takes the jobs in the order of the list, ORDER BY job_id.
IsNext(i, j) == j \in Pending(i) /\ \A k \in Pending(i) : j <= k

\* Mutant of CanClaim: <= for <.
CanClaimSame(j, t) ==
    /\ j \in jobs
    /\ row[j].last # NULL => row[j].last <= t
    /\ row[j].enabled
    /\ row[j].type # "manual"

\* Mutant of CanClaim: no comparison with last_event_fire.
CanClaimAny(j, t) == j \in jobs /\ row[j].enabled /\ row[j].type # "manual"

\* The WHERE clause of ClaimEventFire, on the row as it is now.
CanClaim(j, t) ==
    /\ j \in jobs
    /\ row[j].last # NULL => row[j].last < t
    /\ row[j].enabled
    /\ row[j].type # "manual"

ClaimEventFire(j, t) ==
    /\ row' = [row EXCEPT ![j].last = t]
    /\ claims' = [claims EXCEPT ![j] = @ \cup {<<epoch[j], t>>}]

ClaimWon(i, j) ==
    /\ pc[i] = "dispatch" /\ IsNext(i, j)
    /\ CanClaim(j, next[i][j])
    /\ ClaimEventFire(j, next[i][j])
    /\ held' = [held EXCEPT ![i] = <<j, <<epoch[j], next[i][j]>>>>]
    /\ next' = [next EXCEPT ![i][j] = NULL]
    /\ pc' = [pc EXCEPT ![i] = "claimed"]
    /\ UNCHANGED <<clock, jobs, epoch, runs>>

ClaimLost(i, j) ==
    /\ pc[i] = "dispatch" /\ IsNext(i, j)
    /\ ~CanClaim(j, next[i][j])
    /\ next' = [next EXCEPT ![i][j] = NULL]
    /\ UNCHANGED <<clock, dbVars, pc, held, claims, runs>>

\* ClaimEventFire returns an error: the statement had no effect, or it took
\* effect and the answer was lost.  The loop goes on either way.
ClaimError(i, j) ==
    /\ Faults
    /\ pc[i] = "dispatch" /\ IsNext(i, j)
    /\ \/ UNCHANGED <<row, claims>>
       \/ CanClaim(j, next[i][j]) /\ ClaimEventFire(j, next[i][j])
    /\ next' = [next EXCEPT ![i][j] = NULL]
    /\ UNCHANGED <<clock, jobs, epoch, pc, held, runs>>

\* CreateRun inserts the job_run row and Runner.Start hands it to a goroutine.
CreateRun(i) ==
    /\ pc[i] = "claimed"
    /\ held[i][1] \in jobs
    /\ runs' = [runs EXCEPT ![held[i][1]][held[i][2]] = @ + 1]
    /\ held' = [held EXCEPT ![i] = NULL]
    /\ pc' = [pc EXCEPT ![i] = "dispatch"]
    /\ UNCHANGED <<clock, dbVars, next, claims>>

\* Mutant of CreateRunError: the claim is undone so that the next cycle retries.
CreateRunRetry(i) ==
    /\ pc[i] = "claimed"
    /\ held[i][1] \notin jobs \/ Faults
    /\ row' = [row EXCEPT ![held[i][1]].last = NULL]
    /\ held' = [held EXCEPT ![i] = NULL]
    /\ pc' = [pc EXCEPT ![i] = "dispatch"]
    /\ UNCHANGED <<clock, jobs, epoch, next, claims, runs>>

\* The insert fails: the job is gone (foreign key), or any other error.
CreateRunError(i) ==
    /\ pc[i] = "claimed"
    /\ held[i][1] \notin jobs \/ Faults
    /\ held' = [held EXCEPT ![i] = NULL]
    /\ pc' = [pc EXCEPT ![i] = "dispatch"]
    /\ UNCHANGED <<clock, dbVars, next, claims, runs>>

EndCycle(i) ==
    /\ pc[i] = "dispatch" /\ Pending(i) = {}
    /\ pc' = [pc EXCEPT ![i] = "idle"]
    /\ UNCHANGED <<clock, dbVars, next, held, claims, runs>>

\* The process ends at any point.  A graceful stop is no different here: the
\* context of RunOnce is cancelled, so the statements that remain fail.
Halt(i) ==
    /\ Faults /\ pc[i] # "down"
    /\ pc' = [pc EXCEPT ![i] = "down"]
    /\ next' = [next EXCEPT ![i] = NoFire]
    /\ held' = [held EXCEPT ![i] = NULL]
    /\ UNCHANGED <<clock, dbVars, claims, runs>>

\* Scheduler.Run starts with a cycle of its own; nothing is recovered.
Restart(i) ==
    /\ pc[i] = "down"
    /\ pc' = [pc EXCEPT ![i] = "idle"]
    /\ UNCHANGED <<clock, dbVars, next, held, claims, runs>>

RunOnce(i) ==
    \/ ListJobs(i)
    \/ ReadClock(i)
    \/ \E j \in JobIds : ClaimWon(i, j) \/ ClaimLost(i, j) \/ ClaimError(i, j)
    \/ CreateRun(i)
    \/ CreateRunError(i)
    \/ EndCycle(i)

Next ==
    \/ Tick
    \/ \E j \in JobIds, b \in Bodies : PostJob(j, b) \/ PatchJob(j, b)
    \/ \E j \in JobIds : DeleteJob(j)
    \/ \E i \in Instances : RunOnce(i) \/ Halt(i) \/ Restart(i)

Spec == Init /\ [][Next]_vars

\* Scheduler.Run loops on a ticker until its context ends: a process that is
\* up takes its next step.  Clients and the clock owe nothing.
FairSpec == Spec /\ \A i \in Instances : WF_vars(RunOnce(i))
-----------------------------------------------------------------------------
(* Correctness.                                                            *)

\* The claim does its work: however many schedulers race, restart or lose an
\* answer, no occurrence of a job's event gets a second job_run row.
NoDoubleRun == \A j \in JobIds, s \in Slots : runs[j][s] <= 1

\* What keeps the claims apart (the inductive invariant of the proofs): a
\* fire that is about to be claimed is due, as every claim was; the claims
\* under the present event of a job lie at or before its last_event_fire; a
\* scheduler that holds a claim holds it alone, and no run exists for it yet.
ClaimsApart ==
    /\ \A j \in jobs : epoch[j] >= 1
    /\ \A i \in Instances : pc[i] = "claimed" <=> held[i] # NULL
    /\ \A i \in Instances, j \in JobIds :
          pc[i] \in {"dispatch", "claimed"} /\ next[i][j] # NULL => next[i][j] <= clock
    /\ \A j \in JobIds : \A s \in claims[j] :
          /\ s[1] <= epoch[j] /\ s[2] <= clock
          /\ j \in jobs /\ s[1] = epoch[j] => row[j].last # NULL /\ s[2] <= row[j].last
    /\ \A i \in Instances : held[i] # NULL =>
          /\ held[i][2] \in claims[held[i][1]]
          /\ runs[held[i][1]][held[i][2]] = 0
    /\ \A i, k \in Instances : held[i] # NULL /\ held[i] = held[k] => i = k
    /\ \A j \in JobIds, s \in Slots :
          runs[j][s] <= 1 /\ (runs[j][s] > 0 => s \in claims[j])

\* What has become of occurrence s of job j, as far as OccurrenceDelivery goes.
DeliveryStatus(j, s) ==
    CASE runs[j][s] > 1 -> "run twice"
      [] runs[j][s] = 1 -> "run"
      [] runs[j][s] = 0 /\ \E i \in Instances : held[i] = <<j, s>> -> "claimed"
      [] runs[j][s] = 0 /\ (\A i \in Instances : held[i] # <<j, s>>) /\ s \in claims[j] -> "lost"
      [] OTHER -> "open"

Delivery == INSTANCE OccurrenceDelivery
            WITH status <- [j \in JobIds |-> [s \in Slots |-> DeliveryStatus(j, s)]]

\* The scheduler implements OccurrenceDelivery: a lost occurrence is never
\* claimed again and one that has its run never gets another.
DeliversAtMostOnce == Delivery!Spec

\* No occurrence is claimed before its time, whenever its row was read.
NeverEarly == \A j \in JobIds : \A s \in claims[j] : s[2] <= clock

\* As long as the event of a job is never patched, every claim takes exactly
\* the occurrence that follows the last one in the row as it is at that
\* moment, although the claimer computed it from a row it read earlier:
\* schedulers in a race neither skip an occurrence nor go back.
FiresNextOccurrence ==
    [][\A j \in jobs :
          epoch'[j] = 1 /\ row'[j].last # row[j].last
             => row'[j].last = ComputeNextFire(row[j])]_vars

\* Why that is so: under the first event of a job, a fire that a scheduler
\* still has to try is either the occurrence the row asks for now or one that
\* the claim will refuse, however old the row was that it was computed from.
CandidatesFresh ==
    \A i \in Instances, j \in JobIds : next[i][j] # NULL =>
       /\ epoch[j] >= 1
       /\ j \in jobs /\ epoch[j] = 1 =>
             \/ next[i][j] = ComputeNextFire(row[j])
             \/ row[j].last # NULL /\ next[i][j] <= row[j].last

\* A "once" event gets at most one run for each time it is set.
OnceRunsOnce ==
    \A j \in jobs : row[j].type = "once" =>
       \A t, u \in Times :
          runs[j][<<epoch[j], t>>] > 0 /\ runs[j][<<epoch[j], u>>] > 0 => t = u

Due(j, t) == j \in jobs /\ ComputeNextFire(row[j]) = t /\ t <= clock

\* An occurrence that is due gets its run, unless a client changes or deletes
\* the job first; a scheduler that was late catches up, one at a cycle.
DueIsRun ==
    \A j \in JobIds, t \in Times :
       (Due(j, t) /\ epoch[j] = 1)
          ~> (runs[j][<<1, t>>] > 0 \/ epoch[j] # 1 \/ j \notin jobs)
=============================================================================
