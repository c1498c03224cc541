------------------------------ MODULE JobRunner ------------------------------
(***************************************************************************)
(* The job runs: their rows, the output they stream and the goroutine that *)
(* executes each one task after task.  Runner.execute issues one statement *)
(* at a time outside any transaction and ignores the errors of most, while *)
(* clients patch and delete jobs and runs, statements fail and the process *)
(* may end.  When a scheduled job gets its run is in JobScheduler.         *)
(***************************************************************************)
EXTENDS Naturals, Sequences, SequencesExt

CONSTANTS JobIds,       \* jobs that exist at first
          Runs,         \* run ids (uuid.New: never the same twice)
          Tasks,        \* rows of job_task
          Registered,   \* the tasks this binary has a TaskFunc for
          Failing,      \* those whose TaskFunc returns an error
          TaskLists,    \* the task lists clients give to a job
          Faulty        \* the runs whose statements may fail

ASSUME RunnerAssumption ==
    /\ Registered \subseteq Tasks
    /\ Failing \subseteq Registered
    /\ TaskLists \subseteq Seq(Tasks)
    /\ TaskLists # {}
    /\ Faulty \subseteq Runs

VARIABLES
    jobs,      \* ids of the rows of table job
    links,     \* job_task_link: the tasks of each job, in order
    state,     \* job_run.state; "none" before the insert, "gone" after a delete
    jobOf,     \* job_run.job_id
    out,       \* job_run_output of the run, in the order of seq
    pc,        \* the next statement of the run's goroutine
    todo,      \* job.Tasks as loaded when the run started
    pos,       \* index into todo
    verdict,   \* the terminal state execute is about to write
    told,      \* the transitions the Listener was notified of, in order
    faulted    \* history: the runs with a statement that failed, or whose process ended

jobVars == <<jobs, links>>
rowVars == <<state, jobOf, out>>
execVars == <<pc, todo, pos, verdict, told>>
vars == <<jobVars, rowVars, execVars, faulted>>

Kinds == {"system", "started", "stdout", "completed", "stderr", "failed"}
Lines == [task : Tasks \cup {"runner"}, kind : Kinds]
Terminal == {"completed", "failed"}
PCs == {"none", "row", "tasks", "loadFailed", "loadFailedOutput", "loop", "call",
        "taskCompleted", "taskError", "taskFailed", "finish", "notify", "end", "dead"}

TypeOK ==
    /\ jobs \subseteq JobIds
    /\ links \in [JobIds -> TaskLists]
    /\ state \in [Runs -> {"none", "running", "completed", "failed", "gone"}]
    /\ jobOf \in [Runs -> JobIds]
    /\ out \in [Runs -> Seq(Lines)]
    /\ pc \in [Runs -> PCs]
    /\ todo \in [Runs -> Seq(Tasks)]
    /\ pos \in [Runs -> Nat]
    /\ verdict \in [Runs -> Terminal]
    /\ told \in [Runs -> Seq({"running"} \cup Terminal)]
    /\ faulted \subseteq Runs

Init ==
    /\ jobs = JobIds
    /\ links \in [JobIds -> TaskLists]
    /\ state = [r \in Runs |-> "none"]
    /\ jobOf \in [Runs -> JobIds]
    /\ out = [r \in Runs |-> <<>>]
    /\ pc = [r \in Runs |-> "none"]
    /\ todo = [r \in Runs |-> <<>>]
    /\ pos = [r \in Runs |-> 1]
    /\ verdict = [r \in Runs |-> "completed"]
    /\ told = [r \in Runs |-> <<>>]
    /\ faulted = {}

Exists(r) == state[r] \in {"running", "completed", "failed"}

-----------------------------------------------------------------------------
(* The API.                                                                *)

\* CreateRun, by the scheduler or by POST /jobs/{jobId}/runs, and Start.  The
\* foreign key refuses a run of a job that was deleted after the handler's Get.
StartRun(r) ==
    /\ state[r] = "none" /\ jobOf[r] \in jobs
    /\ state' = [state EXCEPT ![r] = "running"]
    /\ pc' = [pc EXCEPT ![r] = "row"]
    /\ UNCHANGED <<jobVars, jobOf, out, todo, pos, verdict, told, faulted>>

\* The tasks of a job are replaced in one transaction.
PatchTasks(j, tasks) ==
    /\ j \in jobs
    /\ links' = [links EXCEPT ![j] = tasks]
    /\ UNCHANGED <<jobs, rowVars, execVars, faulted>>

\* The deletes cascade: a job to its runs, a run to its output.
RemoveRuns(S) ==
    /\ state' = [r \in Runs |-> IF r \in S THEN "gone" ELSE state[r]]
    /\ out' = [r \in Runs |-> IF r \in S THEN <<>> ELSE out[r]]

DeleteJob(j) ==
    /\ j \in jobs
    /\ jobs' = jobs \ {j}
    /\ RemoveRuns({r \in Runs : Exists(r) /\ jobOf[r] = j})
    /\ UNCHANGED <<links, jobOf, execVars, faulted>>

DeleteRun(r) ==
    /\ Exists(r)
    /\ RemoveRuns({r})
    /\ UNCHANGED <<jobVars, jobOf, execVars, faulted>>

-----------------------------------------------------------------------------
(* Runner.execute.                                                         *)

At(r, here, there) == pc[r] = here /\ pc' = [pc EXCEPT ![r] = there]
Told(r, what) == told' = [told EXCEPT ![r] = Append(@, what)]

\* A statement on behalf of run r fails, for a reason that is not its data.
Fault(r) == r \in Faulty /\ faulted' = faulted \cup {r}

\* AppendOutput writes a row after the last of the run: an error if the run
\* is gone (foreign key) or the statement fails.
Appended(r, task, kind) ==
    /\ Exists(r)
    /\ out' = [out EXCEPT ![r] = Append(@, [task |-> task, kind |-> kind])]
    /\ UNCHANGED faulted
NotAppended(r) ==
    /\ \/ ~Exists(r) /\ UNCHANGED faulted
       \/ Exists(r) /\ Fault(r)
    /\ UNCHANGED out

\* ... whose error execute ignores.
AppendOutput(r, task, kind) == Appended(r, task, kind) \/ NotAppended(r)

\* JobRepo.Get reads the job row and then, in another statement, its tasks;
\* a job deleted between the two has none.
LoadRow(r) ==
    /\ \/ jobOf[r] \in jobs /\ At(r, "row", "tasks") /\ UNCHANGED faulted
       \/ jobOf[r] \notin jobs /\ At(r, "row", "loadFailed") /\ UNCHANGED faulted
       \/ jobOf[r] \in jobs /\ At(r, "row", "loadFailed") /\ Fault(r)
    /\ UNCHANGED <<jobVars, rowVars, todo, pos, verdict, told>>

LoadTasks(r) ==
    /\ At(r, "tasks", "loop")
    /\ todo' = [todo EXCEPT ![r] = IF jobOf[r] \in jobs THEN links[jobOf[r]] ELSE <<>>]
    /\ Told(r, "running")
    /\ UNCHANGED <<jobVars, rowVars, pos, verdict, faulted>>

\* hydrateJob does not look at the error that ends the rows: a statement that
\* fails among them leaves the tasks read so far, and the run goes on with these.
LoadTasksCut(r) ==
    /\ At(r, "tasks", "loop")
    /\ jobOf[r] \in jobs /\ Fault(r)
    /\ \E n \in 0..Len(links[jobOf[r]]) - 1 :
          todo' = [todo EXCEPT ![r] = SubSeq(links[jobOf[r]], 1, n)]
    /\ Told(r, "running")
    /\ UNCHANGED <<jobVars, rowVars, pos, verdict>>

\* Any other failure of the statements of hydrateJob.
LoadTasksError(r) ==
    /\ At(r, "tasks", "loadFailed")
    /\ Fault(r)
    /\ UNCHANGED <<jobVars, rowVars, todo, pos, verdict, told>>

\* FinishRun updates no row when the run is gone; its errors are ignored too.
FinishRun(r, terminal) ==
    \/ Exists(r) /\ state' = [state EXCEPT ![r] = terminal] /\ UNCHANGED faulted
    \/ ~Exists(r) /\ UNCHANGED <<state, faulted>>
    \/ Exists(r) /\ Fault(r) /\ UNCHANGED state

\* Mutant of FinishLoadFailed: the listener is told before the last message.
FinishLoadFailedTells(r) ==
    /\ At(r, "loadFailed", "loadFailedOutput")
    /\ FinishRun(r, "failed")
    /\ Told(r, "failed")
    /\ verdict' = [verdict EXCEPT ![r] = "failed"]
    /\ UNCHANGED <<jobVars, jobOf, out, todo, pos>>

\* The job could not be loaded: here the run is finished before the message.
FinishLoadFailed(r) ==
    /\ At(r, "loadFailed", "loadFailedOutput")
    /\ FinishRun(r, "failed")
    /\ verdict' = [verdict EXCEPT ![r] = "failed"]
    /\ UNCHANGED <<jobVars, jobOf, out, todo, pos, told>>

LoadFailedOutput(r) ==
    /\ At(r, "loadFailedOutput", "notify")
    /\ AppendOutput(r, "runner", "system")
    /\ UNCHANGED <<jobVars, state, jobOf, todo, pos, verdict, told>>

Current(r) == todo[r][pos[r]]

\* Mutant of NoTasks: it returns without finishing the run.
NoTasksReturns(r) ==
    /\ todo[r] = <<>>
    /\ At(r, "loop", "end")
    /\ AppendOutput(r, "runner", "system")
    /\ UNCHANGED <<jobVars, state, jobOf, todo, pos, verdict, told>>

NoTasks(r) ==
    /\ todo[r] = <<>>
    /\ At(r, "loop", "finish")
    /\ AppendOutput(r, "runner", "system")
    /\ UNCHANGED <<jobVars, state, jobOf, todo, pos, verdict, told>>

\* LookupByID, at the head of the loop over job.Tasks.
NotRegistered(r) ==
    /\ pos[r] <= Len(todo[r]) /\ Current(r) \notin Registered
    /\ At(r, "loop", "finish")
    /\ AppendOutput(r, Current(r), "system")
    /\ verdict' = [verdict EXCEPT ![r] = "failed"]
    /\ UNCHANGED <<jobVars, state, jobOf, todo, pos, told>>

TaskStarted(r) ==
    /\ pos[r] <= Len(todo[r]) /\ Current(r) \in Registered
    /\ At(r, "loop", "call")
    /\ AppendOutput(r, Current(r), "started")
    /\ UNCHANGED <<jobVars, state, jobOf, todo, pos, verdict, told>>

\* def.Run.  The built-in tasks write one line; noop and ping return the
\* error of the write, fail returns one of its own.
CallTask(r) ==
    /\ \/ /\ At(r, "call", "taskCompleted")
          /\ Current(r) \notin Failing /\ Appended(r, Current(r), "stdout")
       \/ /\ At(r, "call", "taskError")
          /\ Current(r) \notin Failing /\ NotAppended(r)
       \/ /\ At(r, "call", "taskError")
          /\ Current(r) \in Failing /\ AppendOutput(r, Current(r), "stderr")
    /\ UNCHANGED <<jobVars, state, jobOf, todo, pos, verdict, told>>

TaskCompleted(r) ==
    /\ At(r, "taskCompleted", "loop")
    /\ AppendOutput(r, Current(r), "completed")
    /\ pos' = [pos EXCEPT ![r] = @ + 1]
    /\ UNCHANGED <<jobVars, state, jobOf, todo, verdict, told>>

\* The error of the task, then "task failed"; the remaining tasks do not run.
TaskError(r) ==
    /\ At(r, "taskError", "taskFailed")
    /\ AppendOutput(r, Current(r), "stderr")
    /\ UNCHANGED <<jobVars, state, jobOf, todo, pos, verdict, told>>

\* Mutant of TaskFailed: the failure is not remembered.
TaskFailedForgotten(r) ==
    /\ At(r, "taskFailed", "finish")
    /\ AppendOutput(r, Current(r), "failed")
    /\ UNCHANGED <<jobVars, state, jobOf, todo, pos, verdict, told>>

\* Mutant of TaskFailed: it fails the run at once and goes on to the next task.
TaskFailedGoesOn(r) ==
    /\ At(r, "taskFailed", "loop")
    /\ FinishRun(r, "failed")
    /\ pos' = [pos EXCEPT ![r] = @ + 1]
    /\ UNCHANGED <<jobVars, jobOf, out, todo, verdict, told>>

TaskFailed(r) ==
    /\ At(r, "taskFailed", "finish")
    /\ AppendOutput(r, Current(r), "failed")
    /\ verdict' = [verdict EXCEPT ![r] = "failed"]
    /\ UNCHANGED <<jobVars, state, jobOf, todo, pos, told>>

\* After the last task, or after one of the branches above.
Finish(r) ==
    /\ \/ At(r, "finish", "notify")
       \/ todo[r] # <<>> /\ pos[r] > Len(todo[r]) /\ At(r, "loop", "notify")
    /\ FinishRun(r, verdict[r])
    /\ UNCHANGED <<jobVars, jobOf, out, todo, pos, verdict, told>>

Notify(r) ==
    /\ At(r, "notify", "end")
    /\ Told(r, verdict[r])
    /\ UNCHANGED <<jobVars, rowVars, todo, pos, verdict, faulted>>

Execute(r) ==
    \/ LoadRow(r) \/ LoadTasks(r) \/ LoadTasksCut(r) \/ LoadTasksError(r)
    \/ FinishLoadFailed(r) \/ LoadFailedOutput(r)
    \/ NoTasks(r) \/ NotRegistered(r)
    \/ TaskStarted(r) \/ CallTask(r) \/ TaskCompleted(r)
    \/ TaskError(r) \/ TaskFailed(r)
    \/ Finish(r) \/ Notify(r)

\* The process ends with its goroutines (they outlive the request or cycle
\* that started them, not the process).  No start-up code looks for them.
Halt ==
    /\ Faulty # {}
    /\ pc' = [r \in Runs |-> IF pc[r] \in {"none", "end"} THEN pc[r] ELSE "dead"]
    /\ faulted' = faulted \cup {r \in Runs : pc'[r] = "dead"}
    /\ UNCHANGED <<jobVars, rowVars, todo, pos, verdict, told>>

Next ==
    \/ \E r \in Runs : StartRun(r) \/ DeleteRun(r) \/ Execute(r)
    \/ \E j \in JobIds : DeleteJob(j) \/ \E tasks \in TaskLists : PatchTasks(j, tasks)
    \/ Halt

Spec == Init /\ [][Next]_vars

\* A goroutine that can take its next statement takes it.
FairSpec == Spec /\ \A r \in Runs : WF_vars(Execute(r))

-----------------------------------------------------------------------------
(* Correctness.                                                            *)

Lifecycle == INSTANCE RunLifecycle

\* A run ends once: whatever fails, and whoever deletes the run or the job
\* under the goroutine, a terminal state is never replaced by another one and
\* a deleted run does not come back.
FollowsLifecycle == Lifecycle!Spec

\* The three lines of a task that completes: its start, its own, its end.
Wrote(r, i, n, kind) == out[r][n] = [task |-> todo[r][i], kind |-> kind]
LinesOfTask(r, i) ==
    /\ Wrote(r, i, 3 * i - 2, "started")
    /\ Wrote(r, i, 3 * i - 1, "stdout")
    /\ Wrote(r, i, 3 * i, "completed")

\* The output tells that the first n tasks of the job completed, in their
\* order, that no other did, and that of those only the next was started.
TellsOf(r, n) ==
    /\ 3 * n <= Len(out[r])
    /\ \A i \in 1..n : LinesOfTask(r, i)
    /\ \A k \in 3 * n + 1..Len(out[r]) :
          /\ out[r][k].kind # "completed"
          /\ out[r][k].kind = "started" => out[r][k].task = todo[r][n + 1]

\* The output tells how a run without failures went, whatever happens to the
\* others: all the tasks of a completed run completed, and not all of a
\* failed one, where nothing was started after the task that failed.
OutputMatchesOutcome ==
    \A r \in Runs \ faulted : Exists(r) =>
       \E n \in 0..Len(todo[r]) :
          /\ TellsOf(r, n)
          /\ state[r] = "completed" => n = Len(todo[r])
          /\ state[r] = "failed" => n < Len(todo[r])

\* A client that hears of the end of a run finds the run in that state, or
\* deleted, unless a statement of that run has failed.
ToldAfterRow ==
    \A r \in Runs \ faulted : \A v \in Terminal :
       v \in ToSet(told[r]) => state[r] \in {v, "gone"}

\* The three records of how a run ended, its row, its output and what was
\* announced of it, never contradict each other (jobs.go:203-290).
RecordsAgree == OutputMatchesOutcome /\ ToldAfterRow

\* Even with failures, the notification of the end is the last thing a run
\* does: its output and its row are final, and it is notified only once.
FinalWhenTold ==
    [][\A r \in Runs : ToSet(told[r]) \cap Terminal # {} =>
          /\ told'[r] = told[r]
          /\ Exists(r) /\ Exists(r)' => out'[r] = out[r] /\ state'[r] = state[r]]_vars

\* A run ends, or is deleted, unless a statement of its own fails or the
\* process stops: nothing that happens to its job or its task list holds it.
RunEnds == \A r \in Runs : state[r] = "running" ~> state[r] # "running" \/ r \in faulted
=============================================================================
