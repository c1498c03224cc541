--------------------------- MODULE JobRunner_proofs ---------------------------
(***************************************************************************)
(* Proofs about JobRunner: for any sets of jobs, runs and tasks, any task  *)
(* lists, with failing statements and processes that end.                  *)
(***************************************************************************)
EXTENDS JobRunner, TLAPS

\* The statements before the one that finishes a run.
Before == {"row", "tasks", "loadFailed", "loop", "call", "taskCompleted", "taskError",
           "taskFailed", "finish"}

\* The row and the goroutine of a run agree: there is neither before it starts,
\* and until the goroutine finishes it the run is running or deleted.
RowOfRun ==
    \A r \in Runs :
       /\ pc[r] = "none" <=> state[r] = "none"
       /\ pc[r] \in Before => state[r] \in {"running", "gone"}

\* The end of a run is announced by the last step of its goroutine.
ToldLast == \A r \in Runs : ToSet(told[r]) \cap Terminal # {} => pc[r] = "end"

\* Without failures, what is about to be announced, or was, is in the row.
RowIsVerdict ==
    \A r \in Runs \ faulted :
       /\ pc[r] \in {"loadFailedOutput", "notify"} => state[r] \in {verdict[r], "gone"}
       /\ \A v \in Terminal : v \in ToSet(told[r]) => state[r] \in {v, "gone"}

\* A goroutine that works on a task works on one of the list it has loaded.
OnTask ==
    \A r \in Runs :
       /\ pos[r] >= 1
       /\ pc[r] \in {"call", "taskCompleted", "taskError", "taskFailed"} => pos[r] <= Len(todo[r])

RunnerInv == TypeOK /\ OnTask /\ RowOfRun /\ ToldLast /\ RowIsVerdict

\* What listeners are notified of.
Transitions == {"running"} \cup Terminal

\* A notification more.
LEMMA AppendToSet ==
  ASSUME NEW q \in Seq(Transitions), NEW e \in Transitions
  PROVE  ToSet(Append(q, e)) = ToSet(q) \cup {e}
<1> DEFINE v == Append(q, e)
<1>1. Len(v) = Len(q) + 1 /\ v[Len(q) + 1] = e /\ Len(q) \in Nat
  OBVIOUS
<1>2. \A i \in 1..Len(q) : v[i] = q[i]
  OBVIOUS
<1>3. DOMAIN v = 1..Len(v) /\ DOMAIN q = 1..Len(q)
  OBVIOUS
<1> HIDE DEF v
<1>4. \A i : i \in 1..Len(v) <=> (i \in 1..Len(q) \/ i = Len(q) + 1)
  BY <1>1
<1>5. ToSet(v) = ToSet(q) \cup {e}
  BY <1>1, <1>2, <1>3, <1>4 DEF ToSet
<1> QED
  BY <1>5 DEF v

\* Nobody is notified of anything at first.
LEMMA NothingYet == ToSet(<<>>) = {}
BY DEF ToSet

\* The first state.
LEMMA InitInv == Init => RunnerInv
<1> SUFFICES ASSUME Init PROVE RunnerInv
  OBVIOUS
<1>1. TypeOK
  BY DEF Init, TypeOK, PCs, Terminal, Lines, Kinds
<1>2. OnTask /\ RowOfRun /\ ToldLast /\ RowIsVerdict
  BY NothingYet DEF Init, OnTask, RowOfRun, ToldLast, RowIsVerdict, Before
<1> QED
  BY <1>1, <1>2 DEF RunnerInv

\* Writing a line, or failing to, keeps the types.
LEMMA OutputTyped ==
  ASSUME TypeOK, NEW r \in Runs, NEW t \in Tasks \cup {"runner"}, NEW k \in Kinds,
         AppendOutput(r, t, k)
  PROVE  out' \in [Runs -> Seq(Lines)] /\ faulted' \subseteq Runs
<1>1. [task |-> t, kind |-> k] \in Lines
  BY DEF Lines
<1>2. Append(out[r], [task |-> t, kind |-> k]) \in Seq(Lines)
  BY <1>1 DEF TypeOK
<1>3. out' = out \/ out' = [out EXCEPT ![r] = Append(@, [task |-> t, kind |-> k])]
  BY DEF AppendOutput, Appended, NotAppended
<1>4. faulted' = faulted \/ faulted' = faulted \cup {r}
  BY DEF AppendOutput, Appended, NotAppended, Fault
<1> QED
  BY <1>2, <1>3, <1>4 DEF TypeOK

\* A task list is a sequence of tasks, and so is the beginning of one.
LEMMA TodoIsSeq == ASSUME TypeOK, NEW r \in Runs PROVE todo[r] \in Seq(Tasks)
BY DEF TypeOK

\* What is read of the links, all or not.
LEMMA Loaded ==
  ASSUME TypeOK, NEW r \in Runs, LoadTasks(r) \/ LoadTasksCut(r)
  PROVE  todo' \in [Runs -> Seq(Tasks)]
<1>1. /\ TaskLists \subseteq Seq(Tasks) /\ <<>> \in Seq(Tasks)
      /\ jobOf[r] \in JobIds /\ links[jobOf[r]] \in TaskLists
  BY RunnerAssumption DEF TypeOK
<1>2. \A l \in Seq(Tasks) : \A n \in 0..Len(l) - 1 : SubSeq(l, 1, n) \in Seq(Tasks)
  OBVIOUS
<1>3. CASE LoadTasks(r)
  BY <1>1, <1>3 DEF LoadTasks, TypeOK
<1>4. CASE LoadTasksCut(r)
  <2>1. PICK n \in 0..Len(links[jobOf[r]]) - 1 :
           todo' = [todo EXCEPT ![r] = SubSeq(links[jobOf[r]], 1, n)]
    BY <1>4 DEF LoadTasksCut
  <2>2. SubSeq(links[jobOf[r]], 1, n) \in Seq(Tasks)
    BY <1>1, <1>2
  <2> QED
    BY <2>1, <2>2 DEF TypeOK
<1> QED
  BY <1>3, <1>4

\* The current task of a run is a task.
LEMMA CurrentIsTask ==
  ASSUME TypeOK, NEW r \in Runs, pos[r] \in 1..Len(todo[r])
  PROVE  Current(r) \in Tasks
<1>1. todo[r] \in Seq(Tasks)
  BY TodoIsSeq
<1> QED
  BY <1>1 DEF Current

\* Each step keeps the types.
LEMMA TypeKept == ASSUME TypeOK, OnTask, [Next]_vars PROVE TypeOK'
<1> USE DEF TypeOK, jobVars, rowVars, execVars
<1>1. ASSUME NEW r \in Runs, StartRun(r) PROVE TypeOK'
  BY <1>1 DEF StartRun, PCs
<1>2. ASSUME NEW S \in SUBSET Runs, RemoveRuns(S)
      PROVE  /\ state' \in [Runs -> {"none", "running", "completed", "failed", "gone"}]
             /\ out' \in [Runs -> Seq(Lines)]
  BY <1>2 DEF RemoveRuns
<1>3. ASSUME NEW r \in Runs, DeleteRun(r) PROVE TypeOK'
  <2>1. RemoveRuns({r}) /\ {r} \in SUBSET Runs /\ UNCHANGED <<jobVars, jobOf, execVars, faulted>>
    BY <1>3 DEF DeleteRun
  <2> QED
    BY <2>1, <1>2
<1>4. ASSUME NEW j \in JobIds, DeleteJob(j) PROVE TypeOK'
  <2> DEFINE S == {r \in Runs : Exists(r) /\ jobOf[r] = j}
  <2>1. RemoveRuns(S) /\ S \in SUBSET Runs /\ jobs' = jobs \ {j}
        /\ UNCHANGED <<links, jobOf, execVars, faulted>>
    BY <1>4 DEF DeleteJob
  <2> HIDE DEF S
  <2> QED
    BY <2>1, <1>2
<1>5. ASSUME NEW j \in JobIds, NEW tasks \in TaskLists, PatchTasks(j, tasks) PROVE TypeOK'
  BY <1>5 DEF PatchTasks
<1>6. CASE Halt
  BY <1>6 DEF Halt, PCs
<1>7. CASE UNCHANGED vars
  BY <1>7 DEF vars
<1>8. ASSUME NEW r \in Runs, Execute(r) PROVE TypeOK'
  <2>1. CASE LoadRow(r) \/ LoadTasksError(r)
    BY <2>1 DEF LoadRow, LoadTasksError, At, Fault, PCs
  <2>2. CASE LoadTasks(r) \/ LoadTasksCut(r)
    <3>1. Append(told[r], "running") \in Seq({"running"} \cup Terminal)
      OBVIOUS
    <3>2. told' = [told EXCEPT ![r] = Append(told[r], "running")]
      BY <2>2 DEF LoadTasks, LoadTasksCut, Told
    <3>3. told' \in [Runs -> Seq({"running"} \cup Terminal)]
      BY <3>1, <3>2
    <3>4. todo' \in [Runs -> Seq(Tasks)]
      BY <2>2, Loaded
    <3> QED
      BY <2>2, <3>3, <3>4 DEF LoadTasks, LoadTasksCut, At, Fault, PCs
  <2>3. ASSUME NEW v \in Terminal, FinishRun(r, v)
        PROVE  /\ state' \in [Runs -> {"none", "running", "completed", "failed", "gone"}]
               /\ faulted' \subseteq Runs
    BY <2>3 DEF FinishRun, Fault, Terminal
  <2>4. CASE FinishLoadFailed(r)
    BY <2>4, <2>3 DEF FinishLoadFailed, At, PCs, Terminal
  <2>5. CASE Finish(r)
    BY <2>5, <2>3 DEF Finish, At, PCs
  <2>6. CASE Notify(r)
    <3>1. Append(told[r], verdict[r]) \in Seq({"running"} \cup Terminal)
      OBVIOUS
    <3>2. told' = [told EXCEPT ![r] = Append(told[r], verdict[r])]
      BY <2>6 DEF Notify, Told
    <3>3. told' \in [Runs -> Seq({"running"} \cup Terminal)]
      BY <3>1, <3>2
    <3> QED
      BY <2>6, <3>3 DEF Notify, At, PCs
  <2>7. CASE LoadFailedOutput(r) \/ NoTasks(r)
    <3>1. AppendOutput(r, "runner", "system")
      BY <2>7 DEF LoadFailedOutput, NoTasks
    <3>2. out' \in [Runs -> Seq(Lines)] /\ faulted' \subseteq Runs
      BY <3>1, OutputTyped DEF Kinds
    <3> QED
      BY <2>7, <3>2 DEF LoadFailedOutput, NoTasks, At, PCs
  <2>8. CASE NotRegistered(r) \/ TaskStarted(r) \/ CallTask(r) \/ TaskCompleted(r)
             \/ TaskError(r) \/ TaskFailed(r)
    <3>1. pos[r] \in 1..Len(todo[r])
      <4>1. todo[r] \in Seq(Tasks) /\ pos[r] \in Nat /\ pos[r] >= 1
        BY TodoIsSeq DEF OnTask
      <4>2. CASE NotRegistered(r) \/ TaskStarted(r)
        BY <4>1, <4>2 DEF NotRegistered, TaskStarted
      <4>3. CASE CallTask(r) \/ TaskCompleted(r) \/ TaskError(r) \/ TaskFailed(r)
        <5>1. pc[r] \in {"call", "taskCompleted", "taskError", "taskFailed"}
          BY <4>3 DEF CallTask, TaskCompleted, TaskError, TaskFailed, At
        <5> QED
          BY <4>1, <5>1 DEF OnTask
      <4> QED
        BY <2>8, <4>2, <4>3
    <3>2. Current(r) \in Tasks
      BY <3>1, CurrentIsTask
    <3>3. \E k \in Kinds : AppendOutput(r, Current(r), k)
      BY <2>8 DEF NotRegistered, TaskStarted, CallTask, TaskCompleted, TaskError, TaskFailed,
                  AppendOutput, Kinds
    <3>4. out' \in [Runs -> Seq(Lines)] /\ faulted' \subseteq Runs
      BY <3>2, <3>3, OutputTyped
    <3>5. pc' \in [Runs -> PCs]
      <4>1. CASE NotRegistered(r) \/ TaskStarted(r) \/ TaskCompleted(r)
        BY <4>1, SMTT(30), ZenonT(30) DEF NotRegistered, TaskStarted, TaskCompleted, At, PCs
      <4>2. CASE CallTask(r)
        BY <4>2 DEF CallTask, At, PCs
      <4>3. CASE TaskError(r)
        BY <4>3 DEF TaskError, At, PCs
      <4>4. CASE TaskFailed(r)
        BY <4>4 DEF TaskFailed, At, PCs
      <4> QED
        BY <2>8, <4>1, <4>2, <4>3, <4>4
    <3>6. pos' \in [Runs -> Nat] /\ verdict' \in [Runs -> Terminal]
      <4>1. CASE NotRegistered(r) \/ TaskFailed(r)
        BY <4>1 DEF NotRegistered, TaskFailed, Terminal
      <4>2. CASE TaskCompleted(r)
        BY <4>2 DEF TaskCompleted
      <4>3. CASE TaskStarted(r) \/ CallTask(r) \/ TaskError(r)
        BY <4>3 DEF TaskStarted, CallTask, TaskError
      <4> QED
        BY <2>8, <4>1, <4>2, <4>3
    <3>7. UNCHANGED <<jobVars, state, jobOf, todo, told>>
      BY <2>8 DEF NotRegistered, TaskStarted, CallTask, TaskCompleted, TaskError, TaskFailed
    <3> QED
      BY <3>4, <3>5, <3>6, <3>7
  <2> QED
    BY <1>8, <2>1, <2>2, <2>4, <2>5, <2>6, <2>7, <2>8 DEF Execute
<1> QED
  BY <1>1, <1>3, <1>4, <1>5, <1>6, <1>7, <1>8 DEF Next

\* A goroutine changes its own run only.
LEMMA OwnRun ==
  ASSUME TypeOK, NEW r \in Runs, Execute(r)
  PROVE  /\ \A q \in Runs \ {r} :
              /\ pc'[q] = pc[q] /\ todo'[q] = todo[q] /\ pos'[q] = pos[q]
              /\ verdict'[q] = verdict[q] /\ told'[q] = told[q]
              /\ state'[q] = state[q] /\ out'[q] = out[q]
         /\ faulted' \in {faulted, faulted \cup {r}}
         /\ UNCHANGED <<jobVars, jobOf>>
<1> USE DEF TypeOK, jobVars, rowVars, execVars
<1>1. CASE LoadRow(r) \/ LoadTasks(r) \/ LoadTasksCut(r) \/ LoadTasksError(r)
  BY <1>1 DEF LoadRow, LoadTasks, LoadTasksCut, LoadTasksError, At, Fault, Told
<1>2. CASE FinishLoadFailed(r)
  BY <1>2 DEF FinishLoadFailed, At, FinishRun, Fault
<1>3. CASE Finish(r)
  BY <1>3 DEF Finish, At, FinishRun, Fault
<1>4. CASE Notify(r)
  BY <1>4 DEF Notify, At, Told
<1>5. CASE LoadFailedOutput(r)
  BY <1>5 DEF LoadFailedOutput, At, AppendOutput, Appended, NotAppended, Fault
<1>6. CASE NoTasks(r)
  BY <1>6 DEF NoTasks, At, AppendOutput, Appended, NotAppended, Fault
<1>7. CASE NotRegistered(r)
  BY <1>7 DEF NotRegistered, At, AppendOutput, Appended, NotAppended, Fault
<1>8. CASE TaskStarted(r)
  BY <1>8 DEF TaskStarted, At, AppendOutput, Appended, NotAppended, Fault
<1>9. CASE CallTask(r)
  BY <1>9 DEF CallTask, At, AppendOutput, Appended, NotAppended, Fault
<1>10. CASE TaskCompleted(r)
  BY <1>10 DEF TaskCompleted, At, AppendOutput, Appended, NotAppended, Fault
<1>11. CASE TaskError(r)
  BY <1>11 DEF TaskError, At, AppendOutput, Appended, NotAppended, Fault
<1>12. CASE TaskFailed(r)
  BY <1>12 DEF TaskFailed, At, AppendOutput, Appended, NotAppended, Fault
<1> QED
  BY <1>1, <1>2, <1>3, <1>4, <1>5, <1>6, <1>7, <1>8, <1>9, <1>10, <1>11, <1>12 DEF Execute

\* Between its start and the statement that finishes the run, a goroutine
\* leaves the row as it is and announces nothing but the start.
LEMMA Working ==
  ASSUME TypeOK, OnTask, NEW r \in Runs,
         \/ LoadRow(r) \/ LoadTasks(r) \/ LoadTasksCut(r) \/ LoadTasksError(r)
         \/ NoTasks(r) \/ NotRegistered(r)
         \/ TaskStarted(r) \/ CallTask(r) \/ TaskCompleted(r) \/ TaskError(r) \/ TaskFailed(r)
  PROVE  /\ pc[r] \in Before /\ pc'[r] \in Before
         /\ state' = state
         /\ told'[r] \in {told[r], Append(told[r], "running")}
         /\ pos'[r] >= 1
         /\ pc'[r] \in {"call", "taskCompleted", "taskError", "taskFailed"} =>
               pos'[r] <= Len(todo'[r])
<1> USE DEF TypeOK, Before, At, rowVars, execVars
<1>1. CASE LoadRow(r) \/ LoadTasksError(r)
  BY <1>1 DEF LoadRow, LoadTasksError, OnTask
<1>2. CASE LoadTasks(r) \/ LoadTasksCut(r)
  BY <1>2 DEF LoadTasks, LoadTasksCut, Told, OnTask
<1>3. CASE NoTasks(r) \/ NotRegistered(r)
  BY <1>3 DEF NoTasks, NotRegistered, OnTask
<1>4. CASE TaskStarted(r)
  BY <1>4 DEF TaskStarted, OnTask
<1>5. CASE CallTask(r)
  BY <1>5 DEF CallTask, OnTask
<1>6. CASE TaskCompleted(r)
  BY <1>6 DEF TaskCompleted, OnTask
<1>7. CASE TaskError(r) \/ TaskFailed(r)
  BY <1>7 DEF TaskError, TaskFailed, OnTask
<1> QED
  BY <1>1, <1>2, <1>3, <1>4, <1>5, <1>6, <1>7

\* A statement that ends a run which was running or deleted: the row says so,
\* is gone, or the statement failed.
LEMMA Finishing ==
  ASSUME TypeOK, NEW r \in Runs, NEW v \in Terminal, FinishRun(r, v), state[r] # "none"
  PROVE  state'[r] # "none" /\ (r \notin faulted' => state'[r] \in {v, "gone"})
BY DEF TypeOK, FinishRun, Fault, Exists, Terminal

\* What each step of a goroutine makes of its own run.
LEMMA OwnRunKept ==
  ASSUME RunnerInv, NEW r \in Runs, Execute(r)
  PROVE  /\ pos'[r] >= 1
         /\ pc'[r] \in {"call", "taskCompleted", "taskError", "taskFailed"} =>
               pos'[r] <= Len(todo'[r])
         /\ pc'[r] = "none" <=> state'[r] = "none"
         /\ pc'[r] \in Before => state'[r] \in {"running", "gone"}
         /\ ToSet(told'[r]) \cap Terminal # {} => pc'[r] = "end"
         /\ r \notin faulted' =>
               /\ pc'[r] \in {"loadFailedOutput", "notify"} => state'[r] \in {verdict'[r], "gone"}
               /\ \A v \in Terminal : v \in ToSet(told'[r]) => state'[r] \in {v, "gone"}
<1> USE DEF RunnerInv, TypeOK, rowVars, execVars
<1>1. CASE \/ LoadRow(r) \/ LoadTasks(r) \/ LoadTasksCut(r) \/ LoadTasksError(r)
           \/ NoTasks(r) \/ NotRegistered(r)
           \/ TaskStarted(r) \/ CallTask(r) \/ TaskCompleted(r) \/ TaskError(r) \/ TaskFailed(r)
  <2>1. /\ pc[r] \in Before /\ pc'[r] \in Before /\ state' = state
        /\ told'[r] \in {told[r], Append(told[r], "running")}
        /\ pos'[r] >= 1
        /\ pc'[r] \in {"call", "taskCompleted", "taskError", "taskFailed"} =>
               pos'[r] <= Len(todo'[r])
    BY <1>1, Working
  <2>2. ToSet(told[r]) \cap Terminal = {}
    BY <2>1 DEF ToldLast, Before
  <2>3. ToSet(Append(told[r], "running")) = ToSet(told[r]) \cup {"running"}
    <3>1. told[r] \in Seq(Transitions) /\ "running" \in Transitions
      BY DEF Transitions
    <3> QED
      BY <3>1, AppendToSet
  <2>4. ToSet(told'[r]) \cap Terminal = {}
    BY <2>1, <2>2, <2>3 DEF Terminal
  <2>5. state[r] \in {"running", "gone"}
    BY <2>1 DEF RowOfRun
  <2> QED
    BY <2>1, <2>4, <2>5 DEF Before
<1>2. CASE FinishLoadFailed(r) \/ Finish(r)
  <2>1. /\ pc[r] \in Before /\ pc'[r] \in {"loadFailedOutput", "notify"} /\ pos' = pos /\ told' = told
        /\ FinishRun(r, verdict'[r]) /\ verdict'[r] \in Terminal
    BY <1>2 DEF FinishLoadFailed, Finish, At, Before, Terminal
  <2>2. state[r] \in {"running", "gone"} /\ ToSet(told[r]) \cap Terminal = {} /\ pos[r] >= 1
    BY <2>1 DEF RowOfRun, ToldLast, OnTask, Before
  <2>3. state'[r] # "none" /\ (r \notin faulted' => state'[r] \in {verdict'[r], "gone"})
    BY <2>1, <2>2, Finishing
  <2> QED
    BY <2>1, <2>2, <2>3 DEF Before
<1>3. CASE LoadFailedOutput(r)
  <2>1. /\ pc[r] = "loadFailedOutput" /\ pc'[r] = "notify" /\ UNCHANGED <<state, pos, told, verdict>>
        /\ faulted \subseteq faulted'
    BY <1>3 DEF LoadFailedOutput, At, AppendOutput, Appended, NotAppended, Fault
  <2>2. state[r] # "none" /\ ToSet(told[r]) \cap Terminal = {} /\ pos[r] >= 1
        /\ (r \notin faulted => state[r] \in {verdict[r], "gone"})
    BY <2>1 DEF RowOfRun, ToldLast, OnTask, RowIsVerdict
  <2> QED
    BY <2>1, <2>2 DEF Before
<1>4. CASE Notify(r)
  <2>1. /\ pc[r] = "notify" /\ pc'[r] = "end" /\ UNCHANGED <<state, pos, faulted>>
        /\ told'[r] = Append(told[r], verdict[r])
    BY <1>4 DEF Notify, At, Told
  <2>2. state[r] # "none" /\ ToSet(told[r]) \cap Terminal = {} /\ pos[r] >= 1
        /\ (r \notin faulted => state[r] \in {verdict[r], "gone"})
    BY <2>1 DEF RowOfRun, ToldLast, OnTask, RowIsVerdict
  <2>3. ToSet(told'[r]) = ToSet(told[r]) \cup {verdict[r]}
    <3>1. told[r] \in Seq(Transitions) /\ verdict[r] \in Transitions
      BY DEF Transitions
    <3> QED
      BY <2>1, <3>1, AppendToSet
  <2>4. \A v \in Terminal : v \in ToSet(told'[r]) => v = verdict[r]
    BY <2>2, <2>3
  <2> QED
    BY <2>1, <2>2, <2>4 DEF Before
<1> QED
  BY <1>1, <1>2, <1>3, <1>4 DEF Execute

\* Each step keeps the rows, the goroutines and the announcements in agreement.
LEMMA AgreementKept ==
  ASSUME RunnerInv, [Next]_vars
  PROVE  OnTask' /\ RowOfRun' /\ ToldLast' /\ RowIsVerdict'
<1> USE DEF RunnerInv, TypeOK, OnTask, RowOfRun, ToldLast, RowIsVerdict, jobVars, rowVars, execVars
<1>1. ASSUME NEW r \in Runs, Execute(r)
      PROVE  OnTask' /\ RowOfRun' /\ ToldLast' /\ RowIsVerdict'
  <2>1. /\ \A q \in Runs \ {r} :
              /\ pc'[q] = pc[q] /\ todo'[q] = todo[q] /\ pos'[q] = pos[q]
              /\ verdict'[q] = verdict[q] /\ told'[q] = told[q] /\ state'[q] = state[q]
        /\ faulted' \in {faulted, faulted \cup {r}}
    BY <1>1, OwnRun
  <2> HIDE DEF TypeOK
  <2>2. OnTask'
    BY <1>1, <2>1, OwnRunKept
  <2>3. RowOfRun'
    BY <1>1, <2>1, OwnRunKept
  <2>4. ToldLast'
    BY <1>1, <2>1, OwnRunKept
  <2>5. RowIsVerdict'
    BY <1>1, <2>1, OwnRunKept
  <2> QED
    BY <2>2, <2>3, <2>4, <2>5
<1>2. ASSUME NEW r \in Runs, StartRun(r)
      PROVE  OnTask' /\ RowOfRun' /\ ToldLast' /\ RowIsVerdict'
  BY <1>2 DEF StartRun, Before
<1>3. ASSUME NEW S \in SUBSET Runs, RemoveRuns(S), \A r \in S : Exists(r),
             UNCHANGED <<execVars, faulted>>
      PROVE  OnTask' /\ RowOfRun' /\ ToldLast' /\ RowIsVerdict'
  <2>1. \A r \in Runs : state'[r] = IF r \in S THEN "gone" ELSE state[r]
    BY <1>3 DEF RemoveRuns
  <2>2. \A r \in S : state[r] # "none"
    BY <1>3 DEF Exists
  <2>3. OnTask' /\ ToldLast'
    BY <1>3
  <2>4. RowOfRun'
    BY <1>3, <2>1, <2>2
  <2>5. RowIsVerdict'
    BY <1>3, <2>1
  <2> QED
    BY <2>3, <2>4, <2>5
<1>4. ASSUME NEW r \in Runs, DeleteRun(r)
      PROVE  OnTask' /\ RowOfRun' /\ ToldLast' /\ RowIsVerdict'
  BY <1>3, <1>4, ZenonT(30) DEF DeleteRun
<1>5. ASSUME NEW j \in JobIds, DeleteJob(j)
      PROVE  OnTask' /\ RowOfRun' /\ ToldLast' /\ RowIsVerdict'
  <2> DEFINE S == {r \in Runs : Exists(r) /\ jobOf[r] = j}
  <2>1. S \in SUBSET Runs /\ (\A r \in S : Exists(r)) /\ RemoveRuns(S)
        /\ UNCHANGED <<execVars, faulted>>
    BY <1>5 DEF DeleteJob
  <2> HIDE DEF S
  <2> QED
    BY <1>3, <2>1
<1>6. ASSUME NEW j \in JobIds, NEW tasks \in TaskLists, PatchTasks(j, tasks)
      PROVE  OnTask' /\ RowOfRun' /\ ToldLast' /\ RowIsVerdict'
  BY <1>6 DEF PatchTasks
<1>7. CASE Halt
  BY <1>7 DEF Halt, Before
<1>8. CASE UNCHANGED vars
  BY <1>8 DEF vars
<1> QED
  BY <1>1, <1>2, <1>4, <1>5, <1>6, <1>7, <1>8 DEF Next

\* The inductive invariant of the runner.
THEOREM Invariance == Spec => []RunnerInv
<1>1. RunnerInv /\ [Next]_vars => RunnerInv'
  BY TypeKept, AgreementKept DEF RunnerInv
<1> QED
  BY InitInv, <1>1, PTL DEF Spec

\* Every value of the tables and of the goroutines is of its kind.
THEOREM TypeCorrect == Spec => []TypeOK
<1>1. RunnerInv => TypeOK
  BY DEF RunnerInv
<1> QED
  BY Invariance, <1>1, PTL

\* Whoever hears of the end of a run finds it in the row, unless the row has
\* been deleted or a statement of the run has failed (Runner.execute).
THEOREM RowBeforeNews == Spec => []ToldAfterRow
<1>1. RunnerInv => ToldAfterRow
  BY DEF RunnerInv, RowIsVerdict, ToldAfterRow
<1> QED
  BY Invariance, <1>1, PTL

\* The announcement of the end is the last thing a run does: nothing of it
\* changes afterwards, whatever fails (Runner.execute, notify).
THEOREM NewsIsFinal == Spec => FinalWhenTold
<1>1. ASSUME RunnerInv, [Next]_vars, NEW r \in Runs, ToSet(told[r]) \cap Terminal # {}
      PROVE  /\ told'[r] = told[r]
             /\ Exists(r) /\ Exists(r)' => out'[r] = out[r] /\ state'[r] = state[r]
  <2> USE DEF RunnerInv, TypeOK, jobVars, rowVars, execVars
  <2>1. pc[r] = "end" /\ state[r] # "none"
    BY <1>1 DEF ToldLast, RowOfRun
  <2>2. ASSUME NEW q \in Runs, Execute(q) PROVE told'[r] = told[r] /\ out'[r] = out[r] /\ state'[r] = state[r]
    <3>1. ~Execute(r)
      BY <2>1 DEF Execute, LoadRow, LoadTasks, LoadTasksCut, LoadTasksError, FinishLoadFailed,
                  LoadFailedOutput, NoTasks, NotRegistered, TaskStarted, CallTask, TaskCompleted, TaskError,
                  TaskFailed, Finish, Notify, At
    <3>2. r \in Runs \ {q}
      BY <2>2, <3>1
    <3> QED
      BY <2>2, <3>2, <1>1, OwnRun DEF RunnerInv
  <2>3. ASSUME NEW q \in Runs, StartRun(q) PROVE told'[r] = told[r] /\ out'[r] = out[r] /\ state'[r] = state[r]
    BY <2>1, <2>3, <1>1 DEF StartRun
  <2>4. ASSUME NEW S \in SUBSET Runs, RemoveRuns(S)
        PROVE  Exists(r)' => out'[r] = out[r] /\ state'[r] = state[r]
    BY <2>4 DEF RemoveRuns, Exists
  <2>5. ASSUME NEW q \in Runs, DeleteRun(q)
        PROVE  told'[r] = told[r] /\ (Exists(r)' => out'[r] = out[r] /\ state'[r] = state[r])
    BY <2>4, <2>5 DEF DeleteRun
  <2>6. ASSUME NEW j \in JobIds, DeleteJob(j)
        PROVE  told'[r] = told[r] /\ (Exists(r)' => out'[r] = out[r] /\ state'[r] = state[r])
    BY <2>4, <2>6 DEF DeleteJob
  <2>7. CASE Halt \/ UNCHANGED vars \/ \E j \in JobIds, tasks \in TaskLists : PatchTasks(j, tasks)
    BY <2>7 DEF Halt, vars, PatchTasks
  <2> QED
    BY <1>1, <2>2, <2>3, <2>5, <2>6, <2>7 DEF Next
<1>2. RunnerInv /\ [Next]_vars =>
        [\A r \in Runs : ToSet(told[r]) \cap Terminal # {} =>
           /\ told'[r] = told[r]
           /\ Exists(r) /\ Exists(r)' => out'[r] = out[r] /\ state'[r] = state[r]]_vars
  BY <1>1
<1> QED
  BY Invariance, <1>2, PTL DEF Spec, FinalWhenTold

(***************************************************************************)
(* The refinement: what clients see of a run is RunLifecycle.              *)
(***************************************************************************)

\* The deletes of the API.
LEMMA DeleteMoves ==
  ASSUME NEW S \in SUBSET Runs, \A r \in S : Exists(r), RemoveRuns(S)
  PROVE  Lifecycle!Next
BY DEF RemoveRuns, Exists, Lifecycle!Next, Lifecycle!Delete

\* The end of a run.
LEMMA FinishMoves ==
  ASSUME NEW r \in Runs, NEW v \in Terminal, FinishRun(r, v), state[r] \in {"running", "gone"}
  PROVE  Lifecycle!Next \/ state' = state
BY DEF FinishRun, Fault, Exists, Terminal, Lifecycle!Next, Lifecycle!Move

\* Each step is one of RunLifecycle or leaves what clients see as it is.
LEMMA StepMoves ==
  ASSUME RunnerInv, [Next]_vars
  PROVE  Lifecycle!Next \/ state' = state
<1> USE DEF jobVars, rowVars, execVars
<1>1. ASSUME NEW r \in Runs, Execute(r) PROVE Lifecycle!Next \/ state' = state
  <2>1. CASE FinishLoadFailed(r) \/ Finish(r)
    <3>1. \E v \in Terminal : FinishRun(r, v)
      BY <2>1 DEF FinishLoadFailed, Finish, Terminal, RunnerInv, TypeOK
    <3>2. state[r] \in {"running", "gone"}
      BY <2>1 DEF FinishLoadFailed, Finish, At, Before, RunnerInv, RowOfRun
    <3> QED
      BY <3>1, <3>2, FinishMoves
  <2>2. CASE \/ LoadRow(r) \/ LoadTasks(r) \/ LoadTasksCut(r) \/ LoadTasksError(r)
             \/ NoTasks(r) \/ NotRegistered(r)
             \/ TaskStarted(r) \/ CallTask(r) \/ TaskCompleted(r) \/ TaskError(r) \/ TaskFailed(r)
    BY <2>2, Working DEF RunnerInv
  <2>3. CASE LoadFailedOutput(r) \/ Notify(r)
    BY <2>3 DEF LoadFailedOutput, Notify
  <2> QED
    BY <1>1, <2>1, <2>2, <2>3 DEF Execute
<1>2. ASSUME NEW r \in Runs, StartRun(r) PROVE Lifecycle!Next
  BY <1>2 DEF StartRun, Lifecycle!Next, Lifecycle!Move
<1>3. ASSUME NEW r \in Runs, DeleteRun(r) PROVE Lifecycle!Next
  BY <1>3, DeleteMoves DEF DeleteRun
<1>4. ASSUME NEW j \in JobIds, DeleteJob(j) PROVE Lifecycle!Next
  <2> DEFINE S == {r \in Runs : Exists(r) /\ jobOf[r] = j}
  <2>1. S \in SUBSET Runs /\ (\A r \in S : Exists(r)) /\ RemoveRuns(S)
    BY <1>4 DEF DeleteJob
  <2> HIDE DEF S
  <2> QED
    BY <2>1, DeleteMoves
<1>5. CASE Halt \/ UNCHANGED vars \/ \E j \in JobIds, tasks \in TaskLists : PatchTasks(j, tasks)
  BY <1>5 DEF Halt, vars, PatchTasks
<1> QED
  BY <1>1, <1>2, <1>3, <1>4, <1>5 DEF Next

\* The runner implements the life cycle that clients are promised: a run ends
\* once, and neither a failure nor a race of the goroutine with a delete
\* revives it or changes how it ended.
THEOREM LifecycleImplemented == Spec => FollowsLifecycle
<1>1. Init => Lifecycle!Init
  BY DEF Init, Lifecycle!Init
<1>2. RunnerInv /\ [Next]_vars => [Lifecycle!Next]_state
  BY StepMoves
<1> QED
  BY Invariance, <1>1, <1>2, PTL DEF Spec, FollowsLifecycle, Lifecycle!Spec

(***************************************************************************)
(* The output.                                                             *)
(***************************************************************************)

\* A run's job is there as long as the run is: the delete cascades.
JobOfRun == \A r \in Runs : Exists(r) => jobOf[r] \in jobs

\* Where the goroutine of a run is, the output tells: n tasks are behind it.
OutputAt(r, n) ==
    /\ n <= Len(todo[r])
    /\ TellsOf(r, n)
    /\ pc[r] \notin {"none", "loadFailed", "loadFailedOutput", "dead"}
    /\ pc[r] \in {"row", "tasks"} => todo[r] = <<>> /\ out[r] = <<>>
    /\ pc[r] = "loop" => Len(out[r]) = 3 * n
    /\ pc[r] = "call" => Len(out[r]) = 3 * n + 1
    /\ pc[r] = "taskCompleted" => Len(out[r]) = 3 * n + 2
    /\ pc[r] \in {"call", "taskCompleted"} => Wrote(r, n + 1, 3 * n + 1, "started")
    /\ pc[r] = "taskCompleted" => Wrote(r, n + 1, 3 * n + 2, "stdout")
    /\ pc[r] \in Before \ {"finish"} => verdict[r] = "completed"
    /\ pc[r] = "finish" => (verdict[r] = "completed" <=> n = Len(todo[r]))
    /\ state[r] = "completed" => n = Len(todo[r])
    /\ state[r] = "failed" => n < Len(todo[r])

\* A run that has not started has nothing yet.
Unstarted ==
    \A r \in Runs : state[r] = "none" =>
       pos[r] = 1 /\ todo[r] = <<>> /\ out[r] = <<>> /\ verdict[r] = "completed"

OutputInv ==
    /\ JobOfRun /\ Unstarted
    /\ \A r \in Runs \ faulted : Exists(r) =>
          \A n \in Nat : pos[r] = n + 1 => OutputAt(r, n)

\* A line more at the end of an output.
LEMMA OneLineMore ==
  ASSUME TypeOK, NEW r \in Runs, NEW t, NEW k, Appended(r, t, k)
  PROVE  /\ Len(out[r]) \in Nat
         /\ Len(out'[r]) = Len(out[r]) + 1
         /\ out'[r][Len(out[r]) + 1] = [task |-> t, kind |-> k]
         /\ \A i \in 1..Len(out[r]) : out'[r][i] = out[r][i]
<1>1. out[r] \in Seq(Lines)
  BY DEF TypeOK
<1>2. out'[r] = Append(out[r], [task |-> t, kind |-> k])
  BY DEF Appended, TypeOK
<1> QED
  BY <1>1, <1>2

\* A line that does not complete a task keeps what the output tells, if a
\* line about a start is about the next task.
LEMMA LineKeeps ==
  ASSUME TypeOK, NEW r \in Runs, NEW t, NEW k, Appended(r, t, k), todo'[r] = todo[r],
         NEW n \in Nat, TellsOf(r, n),
         k # "completed", k = "started" => t = todo[r][n + 1]
  PROVE  TellsOf(r, n)'
<1>1. /\ Len(out[r]) \in Nat
      /\ Len(out'[r]) = Len(out[r]) + 1
      /\ out'[r][Len(out[r]) + 1] = [task |-> t, kind |-> k]
      /\ \A i \in 1..Len(out[r]) : out'[r][i] = out[r][i]
  BY OneLineMore
<1>2. 3 * n <= Len(out'[r])
  BY <1>1 DEF TellsOf
<1>3. ASSUME NEW i \in 1..n PROVE LinesOfTask(r, i)'
  <2>1. 3 * i - 2 \in 1..Len(out[r]) /\ 3 * i - 1 \in 1..Len(out[r]) /\ 3 * i \in 1..Len(out[r])
    BY <1>1, <1>3 DEF TellsOf
  <2>2. LinesOfTask(r, i)
    BY DEF TellsOf
  <2> QED
    BY <1>1, <2>1, <2>2 DEF LinesOfTask, Wrote
<1>4. ASSUME NEW j \in 3 * n + 1..Len(out'[r])
      PROVE  /\ out'[r][j].kind # "completed"
             /\ out'[r][j].kind = "started" => out'[r][j].task = todo'[r][n + 1]
  <2>1. CASE j = Len(out[r]) + 1
    BY <1>1, <2>1
  <2>2. CASE j # Len(out[r]) + 1
    <3>1. j \in 3 * n + 1..Len(out[r]) /\ j \in 1..Len(out[r])
      BY <1>1, <2>2
    <3> QED
      BY <1>1, <3>1 DEF TellsOf
  <2> QED
    BY <2>1, <2>2
<1> QED
  BY <1>2, <1>3, <1>4 DEF TellsOf

\* The completion of the next task makes it one of those completed.
LEMMA LineCompletes ==
  ASSUME TypeOK, NEW r \in Runs, NEW n \in Nat, TellsOf(r, n), todo'[r] = todo[r],
         Len(out[r]) = 3 * n + 2,
         Wrote(r, n + 1, 3 * n + 1, "started"), Wrote(r, n + 1, 3 * n + 2, "stdout"),
         Appended(r, todo[r][n + 1], "completed")
  PROVE  TellsOf(r, n + 1)' /\ Len(out'[r]) = 3 * (n + 1)
<1>1. /\ Len(out'[r]) = 3 * n + 3
      /\ out'[r][3 * n + 3] = [task |-> todo[r][n + 1], kind |-> "completed"]
      /\ \A i \in 1..3 * n + 2 : out'[r][i] = out[r][i]
  <2>1. /\ Len(out'[r]) = Len(out[r]) + 1
        /\ out'[r][Len(out[r]) + 1] = [task |-> todo[r][n + 1], kind |-> "completed"]
        /\ \A i \in 1..Len(out[r]) : out'[r][i] = out[r][i]
    BY OneLineMore
  <2>2. (3 * n + 2) + 1 = 3 * n + 3
    OBVIOUS
  <2> QED
    BY <2>1, <2>2
<1>2. ASSUME NEW i \in 1..n PROVE LinesOfTask(r, i)'
  <2>1. 3 * i - 2 \in 1..3 * n + 2 /\ 3 * i - 1 \in 1..3 * n + 2 /\ 3 * i \in 1..3 * n + 2
    OBVIOUS
  <2>2. LinesOfTask(r, i)
    BY DEF TellsOf
  <2> QED
    BY <1>1, <2>1, <2>2 DEF LinesOfTask, Wrote
<1>3. LinesOfTask(r, n + 1)'
  <2>1. 3 * (n + 1) - 2 = 3 * n + 1 /\ 3 * (n + 1) - 1 = 3 * n + 2 /\ 3 * (n + 1) = 3 * n + 3
        /\ 3 * n + 1 \in 1..3 * n + 2 /\ 3 * n + 2 \in 1..3 * n + 2
    OBVIOUS
  <2>2. out'[r][3 * n + 1] = out[r][3 * n + 1] /\ out'[r][3 * n + 2] = out[r][3 * n + 2]
    BY <1>1, <2>1
  <2> QED
    BY <1>1, <2>1, <2>2 DEF LinesOfTask, Wrote
<1>4. \A i \in 1..n + 1 : LinesOfTask(r, i)'
  BY <1>2, <1>3
<1>5. 3 * (n + 1) = Len(out'[r]) /\ 3 * (n + 1) + 1..Len(out'[r]) = {}
  BY <1>1
<1> QED
  BY <1>4, <1>5 DEF TellsOf

\* A goroutine does not bring a run back, nor forgets a fault.
LEMMA ExistedBefore ==
  ASSUME TypeOK, NEW q \in Runs, Execute(q), NEW r \in Runs, Exists(r)'
  PROVE  Exists(r) /\ (r \notin faulted' => r \notin faulted)
<1> USE DEF TypeOK, rowVars, execVars
<1>1. r \notin faulted' => r \notin faulted
  BY OwnRun
<1>2. CASE FinishLoadFailed(q)
  BY <1>1, <1>2 DEF FinishLoadFailed, FinishRun, Exists
<1>3. CASE Finish(q)
  BY <1>1, <1>3 DEF Finish, FinishRun, Exists
<1>4. CASE ~FinishLoadFailed(q) /\ ~Finish(q)
  <2>1. state' = state
    BY <1>4 DEF Execute, LoadRow, LoadTasks, LoadTasksCut, LoadTasksError, LoadFailedOutput, NoTasks, NotRegistered,
                TaskStarted, CallTask, TaskCompleted, TaskError, TaskFailed, Notify
  <2> QED
    BY <1>1, <2>1 DEF Exists
<1> QED
  BY <1>2, <1>3, <1>4

\* Without a fault a line is written to a run that is there.
LEMMA LineWritten ==
  ASSUME NEW r \in Runs, NEW t, NEW k, Exists(r), r \notin faulted'
  PROVE  /\ AppendOutput(r, t, k) => Appended(r, t, k)
         /\ ~NotAppended(r)
BY DEF AppendOutput, NotAppended, Fault

\* Without a fault the output keeps telling where the goroutine is.
LEMMA OutputStep ==
  ASSUME RunnerInv, JobOfRun, NEW r \in Runs, Execute(r), Exists(r)', r \notin faulted',
         NEW n \in Nat, pos[r] = n + 1, OutputAt(r, n),
         NEW m \in Nat, pos'[r] = m + 1
  PROVE  OutputAt(r, m)'
<1>1. todo[r] \in Seq(Tasks) /\ Len(todo[r]) \in Nat
  BY TodoIsSeq DEF RunnerInv
<1>2. Exists(r) /\ r \notin faulted
  BY ExistedBefore DEF RunnerInv
<1>3. pc[r] \in Before => state[r] = "running"
  BY <1>2 DEF RunnerInv, RowOfRun, Exists
<1>4. Len(out[r]) \in Nat
  BY DEF RunnerInv, TypeOK
<1>keeps. ASSUME NEW t, NEW k, Appended(r, t, k), todo'[r] = todo[r],
             k # "completed", k = "started" => t = todo[r][n + 1]
      PROVE  TellsOf(r, n)'
  <2>1. TypeOK /\ TellsOf(r, n)
    BY DEF RunnerInv, OutputAt
  <2> QED
    BY <1>keeps, <2>1, LineKeeps
<1>grows. ASSUME NEW t, NEW k, Appended(r, t, k)
      PROVE  /\ Len(out'[r]) = Len(out[r]) + 1
             /\ out'[r][Len(out[r]) + 1] = [task |-> t, kind |-> k]
             /\ \A i \in 1..Len(out[r]) : out'[r][i] = out[r][i]
  BY <1>grows, OneLineMore DEF RunnerInv
<1>ends. ASSUME todo'[r] = todo[r], Len(out[r]) = 3 * n + 2,
             Wrote(r, n + 1, 3 * n + 1, "started"), Wrote(r, n + 1, 3 * n + 2, "stdout"),
             Appended(r, todo[r][n + 1], "completed")
      PROVE  TellsOf(r, n + 1)' /\ Len(out'[r]) = 3 * (n + 1)
  <2>1. TypeOK /\ TellsOf(r, n)
    BY DEF RunnerInv, OutputAt
  <2> QED
    BY <1>ends, <2>1, LineCompletes
<1> USE DEF RunnerInv, TypeOK, rowVars, execVars, At, Before
<1>5. CASE LoadRow(r)
  BY <1>1, <1>2, <1>5 DEF LoadRow, JobOfRun, Fault, OutputAt, TellsOf, LinesOfTask, Wrote
<1>6. CASE LoadTasks(r)
  <2>1. /\ pc[r] = "tasks" /\ pc'[r] = "loop" /\ out' = out /\ pos' = pos /\ verdict' = verdict /\ state' = state
        /\ out[r] = <<>> /\ Len(todo[r]) = 0 /\ n = 0 /\ todo'[r] \in Seq(Tasks)
    <3>2. todo'[r] \in Seq(Tasks)
      BY <1>6, Loaded
    <3>3. out[r] = <<>> /\ todo[r] = <<>> /\ n <= Len(todo[r])
      BY <1>6 DEF LoadTasks, OutputAt
    <3> QED
      BY <1>1, <1>6, <3>2, <3>3 DEF LoadTasks
  <2>2. Len(todo'[r]) \in Nat /\ Len(out'[r]) = 0
    BY <2>1
  <2>3. TellsOf(r, 0)'
    BY <2>2 DEF TellsOf
  <2>4. verdict'[r] = "completed" /\ state'[r] = "running"
    BY <1>3, <2>1 DEF OutputAt
  <2> QED
    BY <1>1, <2>1, <2>2, <2>3, <2>4 DEF OutputAt
<1>7. ASSUME LoadTasksCut(r) \/ LoadTasksError(r) PROVE FALSE
  BY <1>2, <1>7 DEF LoadTasksCut, LoadTasksError, Fault
<1>8. ASSUME FinishLoadFailed(r) \/ LoadFailedOutput(r) PROVE FALSE
  BY <1>8 DEF FinishLoadFailed, LoadFailedOutput, OutputAt
<1>9. CASE NoTasks(r)
  <2>1. /\ pc[r] = "loop" /\ pc'[r] = "finish" /\ UNCHANGED <<todo, pos, verdict, state>>
        /\ todo[r] = <<>> /\ AppendOutput(r, "runner", "system")
    BY <1>9 DEF NoTasks
  <2>2. TellsOf(r, n)'
    BY <1>1, <1>2, <2>1, <1>keeps, LineWritten
  <2>3. n = Len(todo[r]) /\ verdict[r] = "completed" /\ state[r] = "running"
    BY <1>1, <1>3, <2>1 DEF OutputAt
  <2> QED
    BY <1>1, <2>1, <2>2, <2>3 DEF OutputAt
<1>10. CASE NotRegistered(r)
  <2>1. /\ pc[r] = "loop" /\ pc'[r] = "finish" /\ UNCHANGED <<todo, pos, state>>
        /\ verdict'[r] = "failed" /\ AppendOutput(r, Current(r), "system") /\ pos[r] <= Len(todo[r])
    BY <1>10 DEF NotRegistered
  <2>2. TellsOf(r, n)'
    BY <1>1, <1>2, <2>1, <1>keeps, LineWritten
  <2>3. n < Len(todo[r]) /\ state[r] = "running"
    BY <1>1, <1>3, <2>1
  <2> QED
    BY <1>1, <2>1, <2>2, <2>3 DEF OutputAt
<1>11. CASE TaskStarted(r)
  <2>1. /\ pc[r] = "loop" /\ pc'[r] = "call" /\ UNCHANGED <<todo, pos, verdict, state>>
        /\ AppendOutput(r, Current(r), "started") /\ pos[r] <= Len(todo[r])
    BY <1>11 DEF TaskStarted
  <2>2. Appended(r, todo[r][n + 1], "started")
    BY <1>1, <1>2, <2>1, LineWritten DEF Current
  <2>3. TellsOf(r, n)'
    BY <1>1, <2>1, <2>2, <1>keeps
  <2>4. Len(out'[r]) = 3 * n + 1 /\ Wrote(r, n + 1, 3 * n + 1, "started")'
    <3>1. Len(out[r]) = 3 * n
      BY <2>1 DEF OutputAt
    <3>2. /\ Len(out'[r]) = 3 * n + 1
          /\ out'[r][3 * n + 1] = [task |-> todo[r][n + 1], kind |-> "started"]
      BY <2>2, <3>1, <1>grows
    <3>3. todo'[r] = todo[r]
      BY <2>1
    <3>4. out'[r][3 * n + 1] = [task |-> todo'[r][n + 1], kind |-> "started"]
      BY <3>2, <3>3, Zenon
    <3> QED
      BY <3>2, <3>4, Zenon DEF Wrote
  <2>5. n <= Len(todo[r]) /\ state[r] = "running" /\ verdict[r] = "completed"
    BY <1>3, <2>1 DEF OutputAt
  <2>6. /\ m = n /\ pc'[r] = "call" /\ todo'[r] = todo[r]
        /\ verdict'[r] = "completed" /\ state'[r] = "running"
    BY <2>1, <2>5
  <2>7. OutputAt(r, n)'
    BY <1>1, <2>3, <2>4, <2>5, <2>6 DEF OutputAt
  <2> QED
    BY <2>6, <2>7
<1>12. CASE CallTask(r)
  <2>1. /\ pc[r] = "call" /\ UNCHANGED <<todo, pos, verdict, state>>
        /\ \/ pc'[r] = "taskCompleted" /\ Appended(r, Current(r), "stdout")
           \/ pc'[r] = "taskError" /\ Appended(r, Current(r), "stderr")
    <3>1. ~NotAppended(r)
      BY <1>2, LineWritten
    <3>2. AppendOutput(r, Current(r), "stderr") => Appended(r, Current(r), "stderr")
      BY <1>2, LineWritten
    <3> QED
      BY <1>12, <3>1, <3>2 DEF CallTask
  <2>2. /\ Len(out[r]) = 3 * n + 1 /\ Wrote(r, n + 1, 3 * n + 1, "started") /\ TellsOf(r, n)
        /\ n <= Len(todo[r]) /\ state[r] = "running" /\ verdict[r] = "completed"
    BY <1>3, <2>1 DEF OutputAt
  <2>3. TellsOf(r, n)'
    BY <1>1, <2>1, <2>2, <1>keeps
  <2>4. CASE pc'[r] = "taskCompleted"
    <3>1. /\ Len(out'[r]) = 3 * n + 2
          /\ Wrote(r, n + 1, 3 * n + 1, "started")' /\ Wrote(r, n + 1, 3 * n + 2, "stdout")'
      <4>1. /\ Len(out'[r]) = Len(out[r]) + 1
            /\ out'[r][Len(out[r]) + 1] = [task |-> Current(r), kind |-> "stdout"]
            /\ \A i \in 1..Len(out[r]) : out'[r][i] = out[r][i]
        BY <2>1, <2>4, <1>grows
      <4>2. (3 * n + 1) + 1 = 3 * n + 2 /\ 3 * n + 1 \in 1..3 * n + 1
        BY <1>1
      <4>3. Current(r) = todo[r][n + 1]
        BY <1>1 DEF Current
      <4>4. /\ Len(out'[r]) = 3 * n + 2
            /\ out'[r][3 * n + 2] = [task |-> todo[r][n + 1], kind |-> "stdout"]
            /\ out'[r][3 * n + 1] = out[r][3 * n + 1]
        BY <2>2, <4>1, <4>2, <4>3
      <4>5. out[r][3 * n + 1] = [task |-> todo[r][n + 1], kind |-> "started"]
        BY <2>2 DEF Wrote
      <4>6. todo'[r] = todo[r]
        BY <2>1
      <4>7. out'[r][3 * n + 1] = [task |-> todo'[r][n + 1], kind |-> "started"]
        BY <4>4, <4>5, <4>6, Zenon
      <4>8. out'[r][3 * n + 2] = [task |-> todo'[r][n + 1], kind |-> "stdout"]
        BY <4>4, <4>6, Zenon
      <4> QED
        BY <4>4, <4>7, <4>8, Zenon DEF Wrote
    <3>2. m = n
      BY <2>1
    <3>3. pc'[r] = "taskCompleted" /\ todo'[r] = todo[r] /\ verdict'[r] = "completed" /\ state'[r] = "running"
      BY <2>1, <2>2, <2>4
    <3>4. OutputAt(r, n)'
      BY <1>1, <2>2, <2>3, <3>1, <3>3 DEF OutputAt
    <3> QED
      BY <3>2, <3>4
  <2>5. CASE pc'[r] = "taskError"
    BY <1>1, <2>1, <2>2, <2>3, <2>5 DEF OutputAt
  <2> QED
    BY <2>1, <2>4, <2>5
<1>13. CASE TaskCompleted(r)
  <2>1. /\ pc[r] = "taskCompleted" /\ pc'[r] = "loop" /\ UNCHANGED <<todo, verdict, state>>
        /\ pos'[r] = pos[r] + 1 /\ AppendOutput(r, Current(r), "completed")
    BY <1>13 DEF TaskCompleted
  <2>2. Appended(r, todo[r][n + 1], "completed")
    BY <1>1, <1>2, <2>1, LineWritten DEF Current
  <2>3. /\ Len(out[r]) = 3 * n + 2 /\ TellsOf(r, n)
        /\ Wrote(r, n + 1, 3 * n + 1, "started") /\ Wrote(r, n + 1, 3 * n + 2, "stdout")
        /\ state[r] = "running" /\ verdict[r] = "completed"
    BY <1>3, <2>1 DEF OutputAt
  <2>4. TellsOf(r, n + 1)' /\ Len(out'[r]) = 3 * (n + 1)
    BY <1>1, <2>1, <2>2, <2>3, <1>ends
  <2>5. n + 1 <= Len(todo[r])
    BY <1>1, <2>1 DEF OnTask
  <2>6. m = n + 1
    BY <2>1
  <2> QED
    BY <1>1, <2>1, <2>3, <2>4, <2>5, <2>6 DEF OutputAt
<1>14. CASE TaskError(r)
  <2>1. /\ pc[r] = "taskError" /\ pc'[r] = "taskFailed" /\ UNCHANGED <<todo, pos, verdict, state>>
        /\ AppendOutput(r, Current(r), "stderr")
    BY <1>14 DEF TaskError
  <2>2. TellsOf(r, n)'
    BY <1>1, <1>2, <2>1, <1>keeps, LineWritten
  <2>3. n <= Len(todo[r]) /\ state[r] = "running" /\ verdict[r] = "completed"
    BY <1>3, <2>1 DEF OutputAt
  <2> QED
    BY <1>1, <2>1, <2>2, <2>3 DEF OutputAt
<1>15. CASE TaskFailed(r)
  <2>1. /\ pc[r] = "taskFailed" /\ pc'[r] = "finish" /\ UNCHANGED <<todo, pos, state>>
        /\ verdict'[r] = "failed" /\ AppendOutput(r, Current(r), "failed")
    BY <1>15 DEF TaskFailed
  <2>2. TellsOf(r, n)'
    BY <1>1, <1>2, <2>1, <1>keeps, LineWritten
  <2>3. n < Len(todo[r]) /\ state[r] = "running"
    BY <1>1, <1>3, <2>1 DEF OnTask
  <2> QED
    BY <1>1, <2>1, <2>2, <2>3 DEF OutputAt
<1>16. CASE Finish(r)
  <2>1. /\ pc[r] \in {"finish", "loop"} /\ pc'[r] = "notify" /\ UNCHANGED <<out, todo, pos, verdict>>
        /\ pc[r] = "loop" => pos[r] > Len(todo[r])
        /\ state'[r] = verdict[r]
    BY <1>2, <1>16 DEF Finish, FinishRun, Fault
  <2>2. /\ n <= Len(todo[r]) /\ TellsOf(r, n)
        /\ verdict[r] = "completed" <=> n = Len(todo[r])
    BY <1>1, <2>1 DEF OutputAt
  <2>3. TellsOf(r, n)'
    BY <2>1, <2>2 DEF TellsOf, LinesOfTask, Wrote
  <2>4. verdict[r] \in {"completed", "failed"}
    BY DEF Terminal
  <2> QED
    BY <1>1, <2>1, <2>2, <2>3, <2>4 DEF OutputAt
<1>17. CASE Notify(r)
  <2>1. pc[r] = "notify" /\ pc'[r] = "end" /\ UNCHANGED <<out, todo, pos, verdict, state>>
    BY <1>17 DEF Notify
  <2>2. TellsOf(r, n)'
    BY <2>1 DEF OutputAt, TellsOf, LinesOfTask, Wrote
  <2>3. m = n
    BY <2>1
  <2>4. OutputAt(r, n)'
    BY <2>1, <2>2 DEF OutputAt
  <2> QED
    BY <2>3, <2>4
<1> QED
  BY <1>5, <1>6, <1>7, <1>8, <1>9, <1>10, <1>11, <1>12, <1>13, <1>14, <1>15, <1>16, <1>17 DEF Execute

\* Other steps leave the output of a run as it is, or remove the run.
LEMMA OutputElsewhere ==
  ASSUME NEW r \in Runs, NEW n \in Nat, OutputAt(r, n), Exists(r),
         state'[r] = state[r], out'[r] = out[r], pc'[r] = pc[r], todo'[r] = todo[r],
         verdict'[r] = verdict[r]
  PROVE  OutputAt(r, n)'
<1>1. TellsOf(r, n)'
  BY DEF OutputAt, TellsOf, LinesOfTask, Wrote
<1> QED
  BY <1>1 DEF OutputAt, Wrote

\* Each step keeps what the outputs tell.
LEMMA OutputKept == ASSUME RunnerInv, OutputInv, [Next]_vars PROVE OutputInv'
<1> USE DEF OutputInv, jobVars, rowVars, execVars
<1>1. TypeOK
  BY DEF RunnerInv
<1>2. ASSUME NEW q \in Runs, Execute(q) PROVE OutputInv'
  <2>1. /\ \A r \in Runs \ {q} :
              /\ pc'[r] = pc[r] /\ todo'[r] = todo[r] /\ pos'[r] = pos[r]
              /\ verdict'[r] = verdict[r] /\ state'[r] = state[r] /\ out'[r] = out[r]
        /\ faulted \subseteq faulted' /\ jobs' = jobs /\ jobOf' = jobOf
    BY <1>1, <1>2, OwnRun
  <2>2. ASSUME NEW r \in Runs, Exists(r)', r \notin faulted',
               NEW m \in Nat, pos'[r] = m + 1
        PROVE  OutputAt(r, m)'
    <3>1. CASE r = q
      <4>1. Exists(r) /\ r \notin faulted
        BY <1>1, <1>2, <2>2, <3>1, ExistedBefore
      <4>2. PICK n \in Nat : pos[r] = n + 1
        <5>1. pos[r] \in Nat /\ pos[r] >= 1
          BY DEF RunnerInv, OnTask, TypeOK
        <5>2. pos[r] - 1 \in Nat /\ pos[r] = (pos[r] - 1) + 1
          BY <5>1
        <5> QED
          BY <5>2
      <4>3. OutputAt(r, n)
        BY <4>1, <4>2
      <4> QED
        BY <1>2, <2>2, <3>1, <4>2, <4>3, OutputStep
    <3>2. CASE r # q
      <4>1. Exists(r) /\ r \notin faulted /\ pos[r] = m + 1
        BY <2>1, <2>2, <3>2 DEF Exists
      <4>2. OutputAt(r, m)
        BY <4>1
      <4> QED
        BY <2>1, <3>2, <4>1, <4>2, OutputElsewhere
    <3> QED
      BY <3>1, <3>2
  <2>3. ASSUME NEW r \in Runs, Exists(r)' PROVE jobOf'[r] \in jobs'
    <3>1. Exists(r)
      BY <1>1, <1>2, <2>3, ExistedBefore
    <3> QED
      BY <2>1, <3>1 DEF JobOfRun
  <2>4. Unstarted'
    <3>1. state'[q] # "none"
      <4>1. state[q] # "none"
        BY <1>2 DEF RunnerInv, RowOfRun, Execute, LoadRow, LoadTasks, LoadTasksCut, LoadTasksError,
                    FinishLoadFailed, LoadFailedOutput, NoTasks, NotRegistered, TaskStarted, CallTask,
                    TaskCompleted, TaskError, TaskFailed, Finish, Notify, At
      <4>2. pc'[q] # "none"
        BY <1>1, <1>2 DEF TypeOK, Execute, LoadRow, LoadTasks, LoadTasksCut, LoadTasksError,
                    FinishLoadFailed, LoadFailedOutput, NoTasks, NotRegistered, TaskStarted, CallTask,
                    TaskCompleted, TaskError, TaskFailed, Finish, Notify, At
      <4> QED
        BY <1>2, <4>2, OwnRunKept
    <3> QED
      BY <2>1, <3>1 DEF Unstarted
  <2> QED
    BY <2>2, <2>3, <2>4 DEF JobOfRun
<1>3. ASSUME NEW r \in Runs, StartRun(r) PROVE OutputInv'
  <2>1. /\ state[r] = "none" /\ jobOf[r] \in jobs /\ state' = [state EXCEPT ![r] = "running"]
        /\ pc' = [pc EXCEPT ![r] = "row"]
        /\ UNCHANGED <<jobVars, jobOf, out, todo, pos, verdict, faulted>>
    BY <1>3 DEF StartRun
  <2>2. ASSUME NEW m \in Nat, pos'[r] = m + 1 PROVE OutputAt(r, m)'
    <3>1. /\ pos'[r] = 1 /\ todo'[r] = <<>> /\ out'[r] = <<>> /\ verdict'[r] = "completed"
          /\ pc'[r] = "row" /\ state'[r] = "running"
      BY <1>1, <2>1 DEF Unstarted, TypeOK
    <3>2. m = 0 /\ Len(out'[r]) = 0 /\ Len(todo'[r]) = 0
      BY <2>2, <3>1
    <3>3. TellsOf(r, 0)'
      BY <3>2 DEF TellsOf
    <3> QED
      BY <3>1, <3>2, <3>3 DEF OutputAt
  <2>3. ASSUME NEW q \in Runs \ {r}, q \notin faulted', Exists(q)', NEW m \in Nat, pos'[q] = m + 1
        PROVE  OutputAt(q, m)'
    <3>1. q \notin faulted /\ Exists(q) /\ pos[q] = m + 1 /\ state'[q] = state[q] /\ out'[q] = out[q]
          /\ pc'[q] = pc[q] /\ todo'[q] = todo[q] /\ verdict'[q] = verdict[q]
      BY <1>1, <2>1, <2>3 DEF Exists, TypeOK
    <3> QED
      BY <3>1, OutputElsewhere
  <2>4. JobOfRun'
    BY <1>1, <2>1 DEF JobOfRun, Exists, TypeOK
  <2>5. Unstarted'
    BY <1>1, <2>1 DEF Unstarted, TypeOK
  <2> QED
    BY <2>2, <2>3, <2>4, <2>5
<1>4. ASSUME NEW S \in SUBSET Runs, RemoveRuns(S), \A r \in S : Exists(r),
             UNCHANGED <<execVars, faulted, jobOf>>,
             \A r \in Runs \ S : Exists(r) => jobOf[r] \in jobs'
      PROVE  OutputInv'
  <2>1. /\ \A r \in S : state'[r] = "gone"
        /\ \A r \in Runs \ S : state'[r] = state[r] /\ out'[r] = out[r]
    BY <1>4 DEF RemoveRuns
  <2>2. ASSUME NEW q \in Runs, q \notin faulted', Exists(q)', NEW m \in Nat, pos'[q] = m + 1
        PROVE  OutputAt(q, m)'
    <3>1. q \notin S /\ q \notin faulted /\ Exists(q) /\ pos[q] = m + 1
      BY <1>4, <2>1, <2>2 DEF Exists
    <3>2. OutputAt(q, m)
      BY <3>1
    <3> QED
      BY <1>4, <2>1, <3>1, <3>2, OutputElsewhere
  <2>3. JobOfRun'
    BY <1>4, <2>1 DEF JobOfRun, Exists
  <2>4. Unstarted'
    BY <1>4, <2>1 DEF Unstarted, Exists
  <2> QED
    BY <2>2, <2>3, <2>4
<1>5. ASSUME NEW r \in Runs, DeleteRun(r) PROVE OutputInv'
  BY <1>4, <1>5 DEF DeleteRun, JobOfRun
<1>6. ASSUME NEW j \in JobIds, DeleteJob(j) PROVE OutputInv'
  <2> DEFINE S == {r \in Runs : Exists(r) /\ jobOf[r] = j}
  <2>1. S \in SUBSET Runs /\ (\A r \in S : Exists(r)) /\ RemoveRuns(S)
        /\ UNCHANGED <<execVars, faulted, jobOf>>
    BY <1>6 DEF DeleteJob
  <2>2. \A r \in Runs \ S : Exists(r) => jobOf[r] \in jobs'
    BY <1>6 DEF DeleteJob, JobOfRun
  <2> HIDE DEF S
  <2> QED
    BY <1>4, <2>1, <2>2
<1>7. ASSUME UNCHANGED <<rowVars, execVars, jobs, faulted>> PROVE OutputInv'
  <2>1. ASSUME NEW q \in Runs, q \notin faulted', Exists(q)', NEW m \in Nat, pos'[q] = m + 1
        PROVE  OutputAt(q, m)'
    <3>1. q \notin faulted /\ Exists(q) /\ pos[q] = m + 1
      BY <1>7, <2>1 DEF Exists
    <3>2. OutputAt(q, m)
      BY <3>1
    <3> QED
      BY <1>7, <3>1, <3>2, OutputElsewhere
  <2> QED
    BY <1>7, <2>1 DEF JobOfRun, Unstarted, Exists
<1>8. ASSUME NEW j \in JobIds, NEW tasks \in TaskLists, PatchTasks(j, tasks) PROVE OutputInv'
  BY <1>7, <1>8 DEF PatchTasks
<1>9. CASE Halt
  <2>1. /\ \A q \in Runs : q \notin faulted' => q \notin faulted /\ pc'[q] = pc[q]
        /\ UNCHANGED <<jobVars, rowVars, todo, pos, verdict, told>>
    BY <1>1, <1>9 DEF Halt, TypeOK
  <2>2. ASSUME NEW q \in Runs, q \notin faulted', Exists(q)', NEW m \in Nat, pos'[q] = m + 1
        PROVE  OutputAt(q, m)'
    <3>1. q \notin faulted /\ Exists(q) /\ pos[q] = m + 1 /\ pc'[q] = pc[q]
      BY <2>1, <2>2 DEF Exists
    <3>2. OutputAt(q, m)
      BY <3>1
    <3> QED
      BY <2>1, <3>1, <3>2, OutputElsewhere
  <2> QED
    BY <2>1, <2>2 DEF JobOfRun, Unstarted, Exists
<1>10. CASE UNCHANGED vars
  BY <1>7, <1>10 DEF vars
<1> QED
  BY <1>2, <1>3, <1>5, <1>6, <1>8, <1>9, <1>10 DEF Next

\* Row, output and announcements of a run never contradict each other,
\* whatever happens to its job, its task list and the other runs
\* (Runner.execute, DeleteJob, DeleteRun).
THEOREM RecordsStayInAgreement == Spec => []RecordsAgree
<1>1. Init => OutputInv
  BY DEF Init, OutputInv, JobOfRun, Unstarted, Exists
<1>2. RunnerInv /\ OutputInv /\ [Next]_vars => OutputInv'
  BY OutputKept
<1>3. ASSUME RunnerInv, OutputInv, NEW r \in Runs, r \notin faulted, Exists(r)
      PROVE  \E n \in 0..Len(todo[r]) :
                /\ TellsOf(r, n)
                /\ state[r] = "completed" => n = Len(todo[r])
                /\ state[r] = "failed" => n < Len(todo[r])
  <2>1. pos[r] \in Nat /\ pos[r] >= 1 /\ Len(todo[r]) \in Nat
    BY <1>3, TodoIsSeq DEF RunnerInv, OnTask, TypeOK
  <2>2. PICK n \in Nat : pos[r] = n + 1
    <3>1. pos[r] - 1 \in Nat /\ pos[r] = (pos[r] - 1) + 1
      BY <2>1
    <3> QED
      BY <3>1
  <2>3. OutputAt(r, n)
    BY <1>3, <2>2 DEF OutputInv
  <2> QED
    BY <2>1, <2>3 DEF OutputAt
<1>4. RunnerInv /\ OutputInv => RecordsAgree
  BY <1>3 DEF RecordsAgree, OutputMatchesOutcome, ToldAfterRow, RunnerInv, RowIsVerdict
<1> QED
  BY Invariance, <1>1, <1>2, <1>4, PTL DEF Spec

=============================================================================
