----------------------------- MODULE Server_proofs -----------------------------
(***************************************************************************)
(* Proofs about what a process serves.  HttpServer: for any number of      *)
(* requests, any settings and budgets and any length of time, with         *)
(* failures.  StateBroker: for any sets of subscribers, probers and runs,  *)
(* and channels of any capacity.                                           *)
(***************************************************************************)
EXTENDS HttpServer, StateBroker, FiniteSetTheorems, TLAPS

(***************************************************************************)
(* The token bucket.                                                       *)
(***************************************************************************)
Buckets == [level : 0..Full, last : Nat]

\* A bucket holds at least one request.
LEMMA FullIsNat == Full \in Nat /\ Cost \in Nat /\ Cost <= Full
<1>1. Burst \in Nat /\ Cost \in Nat /\ Burst >= 1
  BY BucketAssumption
<1>2. \A b, c \in Nat : b >= 1 => b * c \in Nat /\ c <= b * c
  OBVIOUS
<1> QED
  BY <1>1, <1>2 DEF Full

\* A new bucket is full, and a grant leaves a bucket.
LEMMA BucketType ==
  /\ NewBucket \in Buckets
  /\ \A b \in Buckets, t \in Nat : Allows(b, t) => Spend(b, t) \in Buckets
BY FullIsNat DEF NewBucket, Buckets, Allows, Spend, Advance

\* What is true of a bucket, the readings it has granted and their lag: every
\* window of grants is within budget, and what is left in the bucket could
\* still be spent on top of any window that reaches up to now.
Budget(b, s, l) ==
  /\ Len(s) > 0 => b.last = s[Len(s)]
  /\ \A i \in 1..Len(s) :
        b.level + Cost * (Len(s) - i + 1) <= Full + (b.last - s[i]) + l
  /\ \A j \in 1..Len(s) : \A i \in 1..j :
        Cost * (j - i + 1) <= Full + (s[j] - s[i]) + l

Lag(b, t, l) == IF t < b.last THEN l + (b.last - t) ELSE l

\* A grant keeps the budget, whether its reading is newer than the last one
\* or older.
LEMMA GrantKeepsBudget ==
  ASSUME NEW b \in Buckets, NEW s \in Seq(Nat), NEW l \in Nat, NEW t \in Nat,
         Allows(b, t), Budget(b, s, l)
  PROVE  Budget(Spend(b, t), Append(s, t), Lag(b, t, l))
<1> DEFINE n == Len(s)
           c == Spend(b, t)
           u == Append(s, t)
           m == Lag(b, t, l)
           C == [x \in Nat |-> Cost * x]
<1>1. n \in Nat /\ Len(u) = n + 1 /\ u[n + 1] = t /\ \A i \in 1..n : u[i] = s[i] /\ s[i] \in Nat
  OBVIOUS
<1>2. \A x \in Nat : C[x] \in Nat /\ C[x + 1] = C[x] + Cost
  BY FullIsNat
<1>3. C[1] = Cost
  BY FullIsNat
<1>4. b.level \in Nat /\ b.level <= Full /\ b.last \in Nat /\ Full \in Nat /\ Cost \in Nat
  BY FullIsNat DEF Buckets
<1>5. m \in Nat /\ m >= l
  BY <1>4 DEF Lag
<1>6. /\ c.last = t
      /\ c.level >= 0 /\ c.level \in Int /\ c.level + Cost <= Full
      /\ c.level + Cost + b.last + l <= b.level + t + m
  <2>1. Advance(b, t) \in Nat /\ Cost <= Advance(b, t) /\ Advance(b, t) <= Full
    BY <1>4, SMTT(30) DEF Advance, Allows
  <2>2. Advance(b, t) + b.last + l <= b.level + t + m
    <3>1. CASE t < b.last
      <4>1. Advance(b, t) <= b.level /\ m = l + (b.last - t)
        BY <1>4, <3>1 DEF Advance, Lag
      <4>2. \A a, v, z \in Nat : a <= v => a + z + l <= v + t + (l + (z - t))
        OBVIOUS
      <4> HIDE DEF m
      <4> QED
        BY <1>4, <2>1, <4>1, <4>2
    <3>2. CASE ~(t < b.last)
      <4>1. Advance(b, t) <= b.level + (t - b.last) /\ m = l
        BY <1>4, <3>2 DEF Advance, Lag
      <4>2. \A a, v, z \in Nat : a <= v + (t - z) => a + z + l <= v + t + l
        OBVIOUS
      <4> HIDE DEF m
      <4> QED
        BY <1>4, <2>1, <4>1, <4>2
    <3> QED
      BY <3>1, <3>2
  <2>3. c.last = t /\ c.level = Advance(b, t) - Cost
    BY DEF Spend
  <2>4. \A a, k, f \in Nat : k <= a /\ a <= f => a - k >= 0 /\ a - k \in Int /\ (a - k) + k <= f /\ (a - k) + k = a
    OBVIOUS
  <2>5. c.level >= 0 /\ c.level \in Int /\ c.level + Cost <= Full /\ c.level + Cost = Advance(b, t)
    <3> HIDE DEF c
    <3> QED
      BY <1>4, <2>1, <2>3, <2>4
  <2> HIDE DEF c, m
  <2> QED
    BY <2>2, <2>3, <2>5
<1>7. \A i \in 1..n : b.level + C[n - i + 1] <= Full + (b.last - s[i]) + l
  <2>1. \A i \in 1..n : n - i + 1 \in Nat
    BY <1>1
  <2> QED
    BY <2>1 DEF Budget
<1>8. \A j \in 1..n : \A i \in 1..j : C[j - i + 1] <= Full + (s[j] - s[i]) + l
  <2>1. \A j \in 1..n : \A i \in 1..j : j - i + 1 \in Nat
    BY <1>1
  <2> QED
    BY <2>1 DEF Budget
<1> HIDE DEF C, c, u, m, n
<1>9. \A i \in 1..(n + 1) : c.level + C[n + 1 - i + 1] <= Full + (c.last - u[i]) + m
  <2> SUFFICES ASSUME NEW i \in 1..(n + 1)
               PROVE  c.level + C[n + 1 - i + 1] <= Full + (c.last - u[i]) + m
    OBVIOUS
  <2>1. CASE i = n + 1
    <3>1. n + 1 - i + 1 = 1
      BY <2>1, <1>1
    <3>2. C[n + 1 - i + 1] = Cost
      BY <3>1, <1>3, Zenon
    <3>3. c.last - u[i] = 0
      <4>1. c.last = t /\ u[i] = t
        BY <2>1, <1>1, <1>6
      <4> QED
        BY <4>1
    <3>4. c.level + Cost <= Full + 0 + m
      BY <1>4, <1>5, <1>6
    <3> QED
      BY <3>2, <3>3, <3>4, Zenon
  <2>2. CASE i \in 1..n
    <3>1. n - i + 1 \in Nat /\ n + 1 - i + 1 = (n - i + 1) + 1
      BY <2>2, <1>1
    <3>2. C[n + 1 - i + 1] = C[n - i + 1] + Cost /\ C[n - i + 1] \in Nat
      BY <3>1, <1>2
    <3>3. b.level + C[n - i + 1] <= Full + (b.last - s[i]) + l
      BY <2>2, <1>7
    <3>4. u[i] = s[i] /\ s[i] \in Nat
      BY <2>2, <1>1
    <3>5. c.level + (C[n - i + 1] + Cost) <= Full + (t - s[i]) + m
      <4> DEFINE x == C[n - i + 1]
                 first == s[i]
                 old == b.level
                 from == b.last
                 new == c.level
      <4>1. /\ x \in Nat /\ first \in Nat /\ old + x <= Full + (from - first) + l
            /\ old \in Nat /\ from \in Nat /\ new \in Int
            /\ new + Cost + from + l <= old + t + m
        BY <3>2, <3>3, <3>4, <1>4, <1>6, Zenon
      <4>2. Full \in Nat /\ Cost \in Nat /\ m \in Nat
        BY <1>4, <1>5
      <4> HIDE DEF x, first, old, from, new
      <4>3. new + (x + Cost) <= Full + (t - first) + m
        BY <4>1, <4>2
      <4> QED
        BY <4>3 DEF x, first, new
    <3> QED
      BY <3>2, <3>4, <3>5, <1>6, Zenon
  <2> QED
    BY <2>1, <2>2, <1>1
<1>10. \A j \in 1..(n + 1) : \A i \in 1..j : C[j - i + 1] <= Full + (u[j] - u[i]) + m
  <2> SUFFICES ASSUME NEW j \in 1..(n + 1), NEW i \in 1..j
               PROVE  C[j - i + 1] <= Full + (u[j] - u[i]) + m
    OBVIOUS
  <2>1. CASE j = n + 1
    <3>1. i \in 1..(n + 1) /\ j - i + 1 = n + 1 - i + 1
      BY <2>1, <1>1
    <3>2. C[j - i + 1] \in Nat
      <4>1. j - i + 1 \in Nat
        BY <2>1, <1>1
      <4> QED
        BY <4>1, <1>2
    <3>3. u[i] \in Nat
      BY <3>1, <1>1, <1>6
    <3>4. c.level + C[j - i + 1] <= Full + (c.last - u[i]) + m
      BY <3>1, <1>9
    <3>5. c.last = u[j]
      BY <2>1, <1>1, <1>6
    <3> QED
      <4> DEFINE x == C[j - i + 1]
                 first == u[i]
                 end == u[j]
      <4>1. x \in Nat /\ first \in Nat /\ end = t /\ c.level + x <= Full + (end - first) + m
        BY <3>2, <3>3, <3>4, <3>5, <1>6, Zenon
      <4> HIDE DEF x, first, end
      <4>2. \A v, y, p, q, f, k \in Int : v >= 0 /\ v + y <= f + (p - q) + k => y <= f + (p - q) + k
        OBVIOUS
      <4>3. x <= Full + (end - first) + m
        BY <4>1, <4>2, <1>4, <1>5, <1>6, SMTT(30)
      <4> QED
        BY <4>3 DEF x, first, end
  <2>2. CASE j \in 1..n
    <3>1. C[j - i + 1] <= Full + (s[j] - s[i]) + l
      BY <2>2, <1>8
    <3>2. u[j] = s[j] /\ u[i] = s[i] /\ s[i] \in Nat /\ s[j] \in Nat /\ j - i + 1 \in Nat
      BY <2>2, <1>1
    <3>3. C[j - i + 1] \in Nat
      BY <3>2, <1>2
    <3>4. C[j - i + 1] <= Full + (s[j] - s[i]) + m
      <4> DEFINE x == C[j - i + 1]
                 first == s[i]
                 end == s[j]
      <4>1. x \in Nat /\ first \in Nat /\ end \in Nat /\ x <= Full + (end - first) + l
        BY <3>1, <3>2, <3>3, Zenon
      <4> HIDE DEF x, first, end
      <4>2. x <= Full + (end - first) + m
        BY <4>1, <1>4, <1>5
      <4> QED
        BY <4>2 DEF x, first, end
    <3> QED
      BY <3>2, <3>4, Zenon
  <2> QED
    BY <2>1, <2>2, <1>1
<1>11. \A i \in 1..(n + 1) : c.level + Cost * (n + 1 - i + 1) <= Full + (c.last - u[i]) + m
  <2>1. \A i \in 1..(n + 1) : n + 1 - i + 1 \in Nat
    BY <1>1
  <2> QED
    BY <2>1, <1>9 DEF C
<1>12. \A j \in 1..(n + 1) : \A i \in 1..j : Cost * (j - i + 1) <= Full + (u[j] - u[i]) + m
  <2>1. \A j \in 1..(n + 1) : \A i \in 1..j : j - i + 1 \in Nat
    BY <1>1
  <2> QED
    BY <2>1, <1>10 DEF C
<1>13. Budget(c, u, m)
  BY <1>1, <1>6, <1>11, <1>12 DEF Budget
<1> QED
  BY <1>13 DEF c, u, m

(***************************************************************************)
(* The inductive invariant.                                                *)
(***************************************************************************)

\* Who is recorded, and what for: the goroutine of a request exists once the
\* handler has answered it, and its row once that goroutine is done.
AuditInv ==
  /\ \A r \in Requests :
        /\ stage[r] = "answered" => answer[r] \in Statuses
        /\ writer[r] # "none" =>
              /\ Audited(r) /\ stage[r] \in {"answered", "done"}
              /\ answer[r] \in Statuses /\ answer[r] # 429
  /\ \A i \in 1..Len(log) :
        /\ writer[log[i][1]] \in {"stored", "lost"}
        /\ log[i][2] = answer[log[i][1]]
  /\ \A i, j \in 1..Len(log) : log[i][1] = log[j][1] => i = j

\* How the process stops: no request comes once the listener is closed, and
\* the deadline is set by the signal.
StopInv ==
  /\ phase \in {"booting", "migrating", "serving"} => deadline = 0 /\ outcome = "none"
  /\ phase \in {"draining", "waiting"} => outcome = "none"
  /\ phase = "waiting" => Idle
  /\ CleanStopWaits

BudgetInv == \A k \in Keys : Budget(bucket[k], taken[k], lag[k])

\* A request under way is one of the configuration, and came in the past.
AskInv == \A r \in Requests : began[r] <= now /\ (stage[r] # "idle" => r \in DOMAIN set.ask)

Inv == TypeOK /\ AskInv /\ AuditInv /\ StopInv /\ BudgetInv

\* Every request counts against a key of its settings.
LEMMA KeyIsKey ==
  ASSUME TypeOK, NEW r \in DOMAIN set.ask
  PROVE  Key(r) \in Keys
BY DEF TypeOK, Key, Keys

\* requiredScope answers 200, 401 or 403.
LEMMA GateType ==
  ASSUME NEW t, NEW p, NEW q
  PROVE  Gate(t, p, q) \in {200, 401, 403}
BY DEF Gate

\* It holds at boot.
LEMMA InitInv == Init => Inv
<1> SUFFICES ASSUME Init PROVE Inv
  OBVIOUS
<1>1. TypeOK
  BY BucketType DEF Init, TypeOK, Buckets
<1>2. AuditInv /\ StopInv
  BY DEF Init, AuditInv, StopInv, CleanStopWaits
<1>3. BudgetInv
  BY <1>1 DEF Init, BudgetInv, Budget
<1>4. AskInv
  BY DEF Init, AskInv
<1> QED
  BY <1>1, <1>2, <1>3, <1>4 DEF Inv

\* What run() and the scheduler leave alone: everything about requests.
LEMMA MainInv ==
  ASSUME Inv, Main \/ Tick \/ SchedulerStep
  PROVE  Inv'
<1> USE DEF Inv, TypeOK, procVars, askVars, limitVars, countVars, auditVars
<1>1. UNCHANGED <<stage, askVars, answer, limitVars, countVars, auditVars>>
  BY DEF Main, BootFails, OpenPool, MigrateFails, Serve, ListenFails, Signal, Drained,
         DrainExpires, SchedulerAwaited, ClosePool, Exit, Tick, SchedulerStep
<1>2. TypeOK'
  <2>1. CASE Main
    BY <1>1, <2>1, ServerAssumption
    DEF Main, BootFails, OpenPool, MigrateFails, Serve, ListenFails, Signal, Drained,
        DrainExpires, SchedulerAwaited, ClosePool, Exit
  <2>2. CASE Tick
    BY <1>1, <2>2 DEF Tick
  <2>3. CASE SchedulerStep
    BY <1>1, <2>3 DEF SchedulerStep
  <2> QED
    BY <2>1, <2>2, <2>3
<1>3. AuditInv'
  BY <1>1 DEF AuditInv, Audited, Op
<1>4. StopInv'
  <2> USE DEF StopInv, CleanStopWaits, Idle
  <2>1. CASE BootFails \/ OpenPool \/ MigrateFails \/ Serve \/ ListenFails
    BY <1>1, <2>1 DEF BootFails, OpenPool, MigrateFails, Serve, ListenFails
  <2>2. CASE Signal
    BY <1>1, <2>2 DEF Signal
  <2>3. CASE Drained \/ DrainExpires \/ SchedulerAwaited
    BY <1>1, <2>3 DEF Drained, DrainExpires, SchedulerAwaited
  <2>4. CASE ClosePool \/ Exit
    BY <1>1, <2>4 DEF ClosePool, Exit
  <2>5. CASE Tick
    BY <1>1, <2>5 DEF Tick
  <2>6. CASE SchedulerStep
    BY <1>1, <2>6 DEF SchedulerStep
  <2> QED
    BY <2>1, <2>2, <2>3, <2>4, <2>5, <2>6 DEF Main
<1>5. BudgetInv'
  BY <1>1 DEF BudgetInv
<1>6. AskInv'
  <2>1. now' \in Nat /\ now' >= now
    BY DEF Main, BootFails, OpenPool, MigrateFails, Serve, ListenFails, Signal, Drained,
           DrainExpires, SchedulerAwaited, ClosePool, Exit, Tick, SchedulerStep
  <2> QED
    BY <1>1, <2>1 DEF AskInv
<1> QED
  BY <1>2, <1>3, <1>4, <1>5, <1>6

\* A request's own step leaves run() alone, and is not one that Shutdown
\* has waited for.
LEMMA RequestStop ==
  ASSUME Inv, NEW r \in Requests, Request(r) \/ StartRecord(r) \/ Record(r)
  PROVE  StopInv'
<1> USE DEF Inv, TypeOK, procVars, askVars, limitVars, countVars, auditVars
<1>1. UNCHANGED <<procVars, now, sched, set>>
  BY DEF Request, Arrive, ReadClock, Grant, Refuse, Handle, Finish, Panic, StreamEnds, Count,
         StartRecord, Record
<1>2. CASE Request(r)
  <2>1. phase = "serving" \/ stage[r] \notin {"idle", "done"}
    BY <1>2 DEF Request, Arrive, ReadClock, Grant, Refuse, Handle, Finish, Panic, StreamEnds, Count
  <2>2. phase = "serving" \/ ~Idle
    BY <2>1 DEF Idle
  <2>3. phase' # "waiting" /\ outcome' # "clean"
    BY <1>1, <2>2 DEF StopInv, CleanStopWaits
  <2> QED
    BY <1>1, <2>3 DEF StopInv, CleanStopWaits
<1>3. CASE StartRecord(r) \/ Record(r)
  <2>1. UNCHANGED stage
    BY <1>3 DEF StartRecord, Record
  <2> QED
    BY <1>1, <2>1 DEF StopInv, CleanStopWaits, Idle
<1> QED
  BY <1>2, <1>3

\* A request that the handler has not answered has no row.
LEMMA NotRecorded ==
  ASSUME Inv, NEW r \in Requests, stage[r] \notin {"answered", "done"}
  PROVE  writer[r] = "none" /\ \A i \in 1..Len(log) : log[i][1] # r
<1>1. writer[r] = "none"
  BY DEF Inv, AuditInv
<1>2. ASSUME NEW i \in 1..Len(log), log[i][1] = r PROVE FALSE
  BY <1>1, <1>2 DEF Inv, AuditInv
<1> QED
  BY <1>1, <1>2

\* Its way in changes no row and no answer.
LEMMA WayIn ==
  ASSUME Inv, NEW r \in Requests, stage[r] \notin {"answered", "done"},
         NEW place \in {"limiting", "clocked", "routing", "working", "streaming"},
         stage' = [stage EXCEPT ![r] = place], UNCHANGED <<set, answer, writer, log>>
  PROVE  AuditInv'
<1>1. writer[r] = "none"
  BY NotRecorded
<1>2. ASSUME NEW q \in Requests
      PROVE  /\ stage'[q] = "answered" => answer'[q] \in Statuses
             /\ writer'[q] # "none" =>
                   /\ Audited(q)' /\ stage'[q] \in {"answered", "done"}
                   /\ answer'[q] \in Statuses /\ answer'[q] # 429
  <2>1. Audited(q)' = Audited(q)
    BY DEF Audited, Op
  <2>2. CASE q = r
    <3>1. stage'[q] = place /\ writer'[q] = "none"
      BY <2>2, <1>1 DEF Inv, TypeOK
    <3> QED
      BY <3>1
  <2>3. CASE q # r
    <3>1. stage'[q] = stage[q] /\ writer'[q] = writer[q] /\ answer'[q] = answer[q]
      BY <2>3 DEF Inv, TypeOK
    <3> QED
      BY <2>1, <3>1 DEF Inv, AuditInv
  <2> QED
    BY <2>2, <2>3
<1> QED
  BY <1>2 DEF Inv, AuditInv

\* Its way on, with an answer that nobody records, changes no row.
LEMMA UnrecordedStep ==
  ASSUME Inv, NEW r \in Requests, stage[r] \notin {"answered", "done"},
         NEW status \in Statuses, answer' = [answer EXCEPT ![r] = status],
         NEW place \in {"answered", "done"}, stage' = [stage EXCEPT ![r] = place],
         UNCHANGED <<set, writer, log>>
  PROVE  AuditInv'
<1>1. writer[r] = "none" /\ \A i \in 1..Len(log) : log[i][1] # r
  BY NotRecorded
<1>2. ASSUME NEW q \in Requests
      PROVE  /\ stage'[q] = "answered" => answer'[q] \in Statuses
             /\ writer'[q] # "none" =>
                   /\ Audited(q)' /\ stage'[q] \in {"answered", "done"}
                   /\ answer'[q] \in Statuses /\ answer'[q] # 429
  BY <1>1 DEF Inv, TypeOK, AuditInv, Audited, Op
<1>3. ASSUME NEW i \in 1..Len(log)
      PROVE  writer'[log[i][1]] \in {"stored", "lost"} /\ log[i][2] = answer'[log[i][1]]
  <2>1. log[i] \in Requests \X Statuses
    BY DEF Inv, TypeOK
  <2>2. log[i][1] \in Requests /\ log[i][1] # r
    BY <1>1, <2>1
  <2>3. answer'[log[i][1]] = answer[log[i][1]]
    BY <2>2 DEF Inv, TypeOK
  <2>4. writer[log[i][1]] \in {"stored", "lost"} /\ log[i][2] = answer[log[i][1]]
    BY DEF Inv, AuditInv
  <2> QED
    BY <2>3, <2>4
<1> QED
  BY <1>2, <1>3 DEF Inv, AuditInv

\* What an answer, given by the handler, leaves true.
LEMMA AnswerInv ==
  ASSUME Inv, NEW r \in Requests, NEW status \in Statuses, status # 429,
         stage[r] \in {"routing", "working", "streaming"},
         Answer(r, status), UNCHANGED <<procVars, now, sched, askVars, limitVars, countVars, log>>
  PROVE  TypeOK' /\ AskInv' /\ AuditInv' /\ BudgetInv'
<1>3. writer[r] = "none" /\ \A i \in 1..Len(log) : log[i][1] # r
  BY NotRecorded
<1> USE DEF Inv, TypeOK, procVars, askVars, limitVars, countVars, Answer
<1>1. TypeOK'
  OBVIOUS
<1>2. AskInv' /\ BudgetInv'
  <2>1. AskInv'
    BY DEF AskInv
  <2>2. BudgetInv'
    BY DEF BudgetInv
  <2> QED
    BY <2>1, <2>2
<1>4. \A q \in Requests : Audited(q)' = Audited(q)
  BY DEF Audited, Op
<1>5. AuditInv'
  <2>1. ASSUME NEW q \in Requests
        PROVE  /\ stage'[q] = "answered" => answer'[q] \in Statuses
               /\ writer'[q] # "none" =>
                     /\ Audited(q)' /\ stage'[q] \in {"answered", "done"}
                     /\ answer'[q] \in Statuses /\ answer'[q] # 429
    BY <1>3, <1>4 DEF AuditInv
  <2>2. ASSUME NEW i \in 1..Len(log)
        PROVE  writer'[log[i][1]] \in {"stored", "lost"} /\ log[i][2] = answer'[log[i][1]]
    <3>1. log[i][1] \in Requests /\ log[i][1] # r
      BY <1>3
    <3> QED
      BY <3>1 DEF AuditInv
  <2> QED
    BY <2>1, <2>2 DEF AuditInv
<1> QED
  BY <1>1, <1>2, <1>5

\* A log that gets another row is a log.
LEMMA AppendIsSeq ==
  ASSUME NEW S, NEW q \in Seq(S), NEW x \in S
  PROVE  Append(q, x) \in Seq(S)
OBVIOUS

\* A request's own step leaves it a request of the configuration, and a
\* recorded one with the answer that its row has.
LEMMA RequestInv ==
  ASSUME Inv, NEW r \in Requests, Request(r) \/ StartRecord(r) \/ Record(r)
  PROVE  TypeOK' /\ AskInv' /\ AuditInv' /\ BudgetInv'
<1>5. CASE Handle(r)
  <2>1. UNCHANGED <<procVars, now, sched, askVars, limitVars, countVars, log>> /\ stage[r] = "routing"
    BY <1>5 DEF Handle
  <2>2. ASSUME NEW status \in {200, 401, 403, 500, 503}, Answer(r, status)
        PROVE  TypeOK' /\ AskInv' /\ AuditInv' /\ BudgetInv'
    <3>1. status \in Statuses /\ status # 429
      BY DEF Statuses
    <3> QED
      BY <2>1, <2>2, <3>1, AnswerInv
  <2>3. CASE stage' \in {[stage EXCEPT ![r] = "working"], [stage EXCEPT ![r] = "streaming"]}
             /\ UNCHANGED <<answer, writer>>
    <3> USE DEF Inv, TypeOK, procVars, askVars, limitVars, countVars
    <3>1. TypeOK' /\ AskInv'
      BY <2>1, <2>3, ZenonT(30) DEF AskInv
    <3>2. AuditInv'
      BY <2>1, <2>3, WayIn
    <3>3. BudgetInv'
      BY <2>1, <2>3 DEF BudgetInv
    <3> QED
      BY <3>1, <3>2, <3>3
  <2>4. \/ \E status \in {200, 401, 403, 500, 503} : Answer(r, status)
        \/ stage' \in {[stage EXCEPT ![r] = "working"], [stage EXCEPT ![r] = "streaming"]}
           /\ UNCHANGED <<answer, writer>>
    BY <1>5, GateType DEF Handle
  <2> QED
    BY <2>2, <2>3, <2>4
<1>6. CASE Finish(r)
  <2>1. /\ UNCHANGED <<procVars, now, sched, askVars, limitVars, countVars, log>>
        /\ stage[r] = "working"
        /\ \E status \in {200, 500} : Answer(r, status)
    BY <1>6 DEF Finish
  <2>2. PICK status \in {200, 500} : Answer(r, status)
    BY <2>1
  <2>3. status \in Statuses /\ status # 429
    BY DEF Statuses
  <2> QED
    BY <2>1, <2>2, <2>3, AnswerInv
<1>8. CASE StreamEnds(r)
  BY <1>8, AnswerInv DEF StreamEnds, Statuses
<1>7. CASE Refuse(r)
  <2>1. AuditInv'
    <3>1. 429 \in Statuses
      BY DEF Statuses
    <3>2. /\ stage[r] \notin {"answered", "done"} /\ answer' = [answer EXCEPT ![r] = 429]
          /\ stage' = [stage EXCEPT ![r] = "answered"]
          /\ UNCHANGED <<set, writer, log>>
      BY <1>7 DEF Refuse, askVars, auditVars
    <3> QED
      BY <3>1, <3>2, UnrecordedStep
  <2> USE DEF Refuse, Inv, TypeOK, procVars, askVars, limitVars, countVars, auditVars
  <2>2. TypeOK' /\ AskInv'
    BY <1>7, SMTT(30) DEF Statuses, AskInv
  <2>3. BudgetInv'
    BY <1>7 DEF BudgetInv
  <2> QED
    BY <2>1, <2>2, <2>3
<1>9. CASE Panic(r)
  <2>1. AuditInv'
    <3>1. 500 \in Statuses
      BY DEF Statuses
    <3>2. /\ stage[r] \notin {"answered", "done"} /\ answer' = [answer EXCEPT ![r] = 500]
          /\ stage' = [stage EXCEPT ![r] = "done"]
          /\ UNCHANGED <<set, writer, log>>
      BY <1>9 DEF Panic, askVars, auditVars
    <3> QED
      BY <3>1, <3>2, UnrecordedStep
  <2> USE DEF Panic, Inv, TypeOK, procVars, askVars, limitVars, countVars, auditVars
  <2>2. TypeOK' /\ AskInv'
    BY <1>9, SMTT(30) DEF Statuses, AskInv
  <2>3. BudgetInv'
    BY <1>9 DEF BudgetInv
  <2> QED
    BY <2>1, <2>2, <2>3
<1> USE DEF Inv, TypeOK, procVars, askVars, limitVars, countVars, auditVars
<1>1. CASE Arrive(r)
  <2>1. TypeOK' /\ AskInv'
    BY <1>1, SMTT(30) DEF Arrive, AskInv
  <2>2. AuditInv'
    BY <1>1, WayIn DEF Arrive
  <2>3. BudgetInv'
    BY <1>1 DEF Arrive, BudgetInv
  <2> QED
    BY <2>1, <2>2, <2>3
<1>2. CASE ReadClock(r)
  <2>1. TypeOK' /\ AskInv'
    BY <1>2, SMTT(30) DEF ReadClock, AskInv
  <2>2. AuditInv'
    BY <1>2, WayIn DEF ReadClock
  <2>3. BudgetInv'
    BY <1>2 DEF ReadClock, BudgetInv
  <2> QED
    BY <2>1, <2>2, <2>3
<1>3. CASE Grant(r)
  <2>1. Key(r) \in Keys /\ bucket[Key(r)] \in Buckets /\ clock[r] \in Nat
    <3>1. r \in DOMAIN set.ask
      BY <1>3 DEF Grant, AskInv
    <3> QED
      BY <3>1, KeyIsKey DEF Buckets
  <2>2. Spend(bucket[Key(r)], clock[r]) \in Buckets
    BY <1>3, <2>1, BucketType DEF Grant
  <2>3. TypeOK'
    <3>1. bucket' \in [Keys -> [level : 0..Full, last : Nat]]
      BY <1>3, <2>1, <2>2 DEF Grant, Buckets
    <3>2. taken' \in [Keys -> Seq(Nat)]
      BY <1>3, <2>1 DEF Grant
    <3>3. lag' \in [Keys -> Nat]
      BY <1>3, <2>1 DEF Grant, Buckets
    <3> QED
      BY <1>3, <3>1, <3>2, <3>3 DEF Grant
  <2>4. AskInv'
    BY <1>3 DEF Grant, AskInv
  <2>5. AuditInv'
    BY <1>3, WayIn DEF Grant
  <2>6. BudgetInv'
    <3> SUFFICES ASSUME NEW k \in Keys PROVE Budget(bucket'[k], taken'[k], lag'[k])
      BY DEF BudgetInv
    <3>1. CASE k = Key(r)
      <4>1. Budget(Spend(bucket[k], clock[r]), Append(taken[k], clock[r]),
                   Lag(bucket[k], clock[r], lag[k]))
        BY <1>3, <2>1, <3>1, GrantKeepsBudget DEF Grant, BudgetInv
      <4>2. /\ bucket'[k] = Spend(bucket[k], clock[r])
            /\ taken'[k] = Append(taken[k], clock[r])
            /\ lag'[k] = Lag(bucket[k], clock[r], lag[k])
        BY <1>3, <3>1 DEF Grant, Lag
      <4> QED
        BY <4>1, <4>2
    <3>2. CASE k # Key(r)
      BY <1>3, <3>2 DEF Grant, BudgetInv
    <3> QED
      BY <3>1, <3>2
  <2> QED
    BY <2>3, <2>4, <2>5, <2>6
<1>4. CASE Count(r)
  <2>1. sample' \in [Requests -> Sample \cup {NULL}]
    <3>1. now - began[r] \in Nat
      BY DEF AskInv
    <3>2. CountedStatus(r) \in Statuses
      BY <1>4 DEF Count, CountedStatus, AuditInv, Statuses
    <3>3. sample' = [sample EXCEPT ![r] =
                        [ms |-> now - began[r], status |-> CountedStatus(r),
                         routed |-> answer[r] # 429]]
      BY <1>4 DEF Count
    <3> QED
      BY <3>1, <3>2, <3>3 DEF Sample
  <2>2. TypeOK' /\ AskInv'
    BY <1>4, <2>1, SMTT(30) DEF Count, AskInv
  <2>3. AuditInv'
    <3>1. stage[r] = "answered" /\ stage' = [stage EXCEPT ![r] = "done"]
          /\ UNCHANGED <<set, answer, writer, log>>
      BY <1>4 DEF Count
    <3>2. ASSUME NEW q \in Requests
          PROVE  /\ stage'[q] = "answered" => answer'[q] \in Statuses
                 /\ writer'[q] # "none" =>
                       /\ Audited(q)' /\ stage'[q] \in {"answered", "done"}
                       /\ answer'[q] \in Statuses /\ answer'[q] # 429
      BY <3>1 DEF AuditInv, Audited, Op
    <3> QED
      BY <3>1, <3>2 DEF AuditInv
  <2>4. BudgetInv'
    BY <1>4 DEF Count, BudgetInv
  <2> QED
    BY <2>2, <2>3, <2>4
<1>10. CASE StartRecord(r)
  <2>1. TypeOK' /\ AskInv'
    BY <1>10, SMTT(30) DEF StartRecord, AskInv
  <2>2. AuditInv'
    <3>1. /\ writer[r] = "spawned" /\ UNCHANGED <<set, stage, answer, log>>
          /\ \E w \in {"inserting", "lost"} : writer' = [writer EXCEPT ![r] = w]
      BY <1>10 DEF StartRecord
    <3>2. \A q \in Requests : Audited(q)' = Audited(q) /\ (writer'[q] # "none" => writer[q] # "none")
      BY <3>1 DEF Audited, Op
    <3>3. ASSUME NEW i \in 1..Len(log) PROVE writer'[log[i][1]] \in {"stored", "lost"}
      <4>1. writer[log[i][1]] \in {"stored", "lost"}
        BY DEF AuditInv
      <4>2. log[i][1] # r
        BY <3>1, <4>1
      <4>3. log[i] \in Requests \X Statuses
        OBVIOUS
      <4> QED
        BY <3>1, <4>1, <4>2, <4>3
    <3> QED
      BY <3>1, <3>2, <3>3 DEF AuditInv
  <2>3. BudgetInv'
    BY <1>10 DEF StartRecord, BudgetInv
  <2> QED
    BY <2>1, <2>2, <2>3
<1>11. CASE Record(r)
  <2>1. answer[r] \in Statuses /\ Audited(r) /\ \A i \in 1..Len(log) : log[i][1] # r
    <3>1. writer[r] = "inserting"
      BY <1>11 DEF Record
    <3>2. answer[r] \in Statuses /\ Audited(r)
      BY <3>1 DEF AuditInv
    <3>3. \A i \in 1..Len(log) : writer[log[i][1]] \in {"stored", "lost"}
      BY DEF AuditInv
    <3> QED
      BY <3>1, <3>2, <3>3
  <2>2. log' = log \/ log' = Append(log, <<r, answer[r]>>)
    BY <1>11 DEF Record
  <2>3. writer' = [writer EXCEPT ![r] = "stored"] \/ writer' = [writer EXCEPT ![r] = "lost"]
    BY <1>11 DEF Record
  <2>4. TypeOK' /\ AskInv'
    <3>1. log' \in Seq(Requests \X Statuses)
      <4>1. CASE log' = log
        BY <4>1
      <4>2. CASE log' = Append(log, <<r, answer[r]>>)
        <5>1. <<r, answer[r]>> \in Requests \X Statuses
          BY <2>1
        <5>2. Append(log, <<r, answer[r]>>) \in Seq(Requests \X Statuses)
          BY <5>1, AppendIsSeq
        <5> QED
          BY <4>2, <5>2
      <4> QED
        BY <2>2, <4>1, <4>2
    <3>2. writer' \in [Requests -> {"none", "spawned", "inserting", "stored", "lost"}]
      BY <2>3
    <3> QED
      BY <1>11, <3>1, <3>2 DEF Record, AskInv
  <2>5. AuditInv'
    <3>1. \A q \in Requests : Audited(q)' = Audited(q)
      BY <1>11 DEF Record, Audited, Op
    <3>2. ASSUME NEW q \in Requests
          PROVE  /\ stage'[q] = "answered" => answer'[q] \in Statuses
                 /\ writer'[q] # "none" =>
                       /\ Audited(q)' /\ stage'[q] \in {"answered", "done"}
                       /\ answer'[q] \in Statuses /\ answer'[q] # 429
      BY <1>11, <2>3, <3>1 DEF Record, AuditInv
    <3>3. ASSUME NEW i \in 1..Len(log')
          PROVE  /\ i \in 1..Len(log) => log'[i] = log[i]
                 /\ i \notin 1..Len(log) => log'[i][1] = r /\ log'[i][2] = answer[r]
      <4>1. CASE log' = log
        BY <4>1
      <4>2. CASE log' = Append(log, <<r, answer[r]>>)
        BY <4>2, <2>1
      <4> QED
        BY <2>2, <4>1, <4>2
    <3>4. \A i, j \in 1..Len(log') : i \notin 1..Len(log) /\ j \notin 1..Len(log) => i = j
      BY <2>2
    <3>5. ASSUME NEW i \in 1..Len(log')
          PROVE  writer'[log'[i][1]] \in {"stored", "lost"} /\ log'[i][2] = answer'[log'[i][1]]
      <4>1. CASE i \in 1..Len(log)
        <5>1. log[i] \in Requests \X Statuses /\ log[i][1] # r /\ log'[i] = log[i]
          BY <2>1, <3>3, <4>1
        <5>2. writer'[log[i][1]] = writer[log[i][1]] /\ UNCHANGED answer
          BY <1>11, <2>3, <5>1 DEF Record
        <5> QED
          BY <4>1, <5>1, <5>2 DEF AuditInv
      <4>2. CASE i \notin 1..Len(log)
        BY <1>11, <2>3, <3>3, <4>2 DEF Record
      <4> QED
        BY <4>1, <4>2
    <3>6. ASSUME NEW i \in 1..Len(log'), NEW j \in 1..Len(log'), log'[i][1] = log'[j][1]
          PROVE  i = j
      <4>1. CASE i \in 1..Len(log) /\ j \in 1..Len(log)
        <5>1. log[i][1] = log[j][1]
          BY <3>3, <3>6, <4>1, Zenon
        <5> QED
          BY <4>1, <5>1 DEF AuditInv
      <4>2. CASE i \in 1..Len(log) /\ j \notin 1..Len(log)
        <5>1. log[i][1] = r
          BY <3>3, <3>6, <4>2, Zenon
        <5> QED
          BY <2>1, <4>2, <5>1, Zenon
      <4>3. CASE i \notin 1..Len(log) /\ j \in 1..Len(log)
        <5>1. log[j][1] = r
          BY <3>3, <3>6, <4>3, Zenon
        <5> QED
          BY <2>1, <4>3, <5>1, Zenon
      <4> QED
        BY <3>4, <4>1, <4>2, <4>3
    <3> QED
      BY <3>2, <3>5, <3>6 DEF AuditInv
  <2>6. BudgetInv'
    BY <1>11 DEF Record, BudgetInv
  <2> QED
    BY <2>4, <2>5, <2>6
<1> QED
  BY <1>1, <1>2, <1>3, <1>4, <1>5, <1>6, <1>7, <1>8, <1>9, <1>10, <1>11 DEF Request

\* Every step keeps the invariant.
LEMMA NextInv == Inv /\ [Next]_vars => Inv'
<1> SUFFICES ASSUME Inv, [Next]_vars PROVE Inv'
  OBVIOUS
<1>1. CASE Main \/ Tick \/ SchedulerStep
  BY <1>1, MainInv
<1>2. ASSUME NEW r \in Requests, Request(r) \/ StartRecord(r) \/ Record(r) PROVE Inv'
  BY <1>2, RequestStop, RequestInv DEF Inv
<1>3. CASE UNCHANGED vars
  <2> USE DEF vars, procVars, askVars, limitVars, countVars, auditVars
  <2>1. TypeOK' /\ AskInv'
    BY <1>3 DEF Inv, TypeOK, AskInv
  <2>2. AuditInv' /\ BudgetInv'
    BY <1>3 DEF Inv, AuditInv, BudgetInv, Audited, Op
  <2>3. StopInv'
    BY <1>3 DEF Inv, StopInv, CleanStopWaits, Idle
  <2> QED
    BY <2>1, <2>2, <2>3 DEF Inv
<1> QED
  BY <1>1, <1>2, <1>3 DEF Next

\* The invariant that the theorems below read their property from.
THEOREM Invariance == Spec => []Inv
BY InitInv, NextInv, PTL DEF Spec

-----------------------------------------------------------------------------
(***************************************************************************)
(* The request counter.                                                    *)
(***************************************************************************)

\* The milliseconds of the requests S whose samples are f.
MillisOf(f, S) == UNION {{q} \X (1..f[q].ms) : q \in S}

\* There are n milliseconds up to n.
LEMMA UpTo == \A n \in Nat : IsFiniteSet(1..n) /\ Cardinality(1..n) = n
<1> TAKE n \in Nat
<1>1. IsFiniteSet(1..n) /\ Cardinality(1..n) = IF 1 > n THEN 0 ELSE n - 1 + 1
  BY FS_Interval
<1> QED
  BY <1>1

\* One more request adds its own.
LEMMA MillisOneMore ==
  ASSUME NEW S, IsFiniteSet(S), NEW r, r \notin S, NEW f, NEW g, NEW n \in Nat,
         \A q \in S : f[q].ms \in Nat, \A q \in S : g[q] = f[q], g[r].ms = n
  PROVE  Cardinality(MillisOf(g, S \cup {r})) = Cardinality(MillisOf(f, S)) + n
<1> DEFINE A == MillisOf(f, S)
           B == {r} \X (1..n)
           P == [q \in S |-> {q} \X (1..f[q].ms)]
           T == {{q} \X (1..f[q].ms) : q \in S}
<1>1. MillisOf(g, S \cup {r}) = A \cup B
  BY DEF MillisOf
<1>2. A \cap B = {}
  BY DEF MillisOf
<1>3. IsFiniteSet(A)
  <2>1. P \in Surjection(S, T)
    BY DEF Surjection
  <2>2. IsFiniteSet(T)
    <3> HIDE DEF P, T
    <3> QED
      BY <2>1, FS_Surjection
  <2>3. \A t \in T : IsFiniteSet(t)
    <3> SUFFICES ASSUME NEW q \in S PROVE IsFiniteSet({q} \X (1..f[q].ms))
      OBVIOUS
    <3>1. IsFiniteSet({q}) /\ IsFiniteSet(1..f[q].ms)
      BY FS_Singleton, UpTo
    <3> QED
      BY <3>1, FS_Product
  <2> HIDE DEF T
  <2>4. IsFiniteSet(UNION T)
    BY <2>2, <2>3, FS_UNION
  <2> QED
    BY <2>4 DEF MillisOf, T
<1>4. IsFiniteSet(B) /\ Cardinality(B) = n
  <2>1. /\ IsFiniteSet({r}) /\ Cardinality({r}) = 1
        /\ IsFiniteSet(1..n) /\ Cardinality(1..n) = n
    BY FS_Singleton, UpTo
  <2>2. IsFiniteSet(B) /\ Cardinality(B) = Cardinality({r}) * Cardinality(1..n)
    BY <2>1, FS_Product
  <2> QED
    BY <2>1, <2>2
<1> HIDE DEF A, B
<1>5. Cardinality(A \cup B) = Cardinality(A) + Cardinality(B) - Cardinality(A \cap B)
  BY <1>3, <1>4, FS_Union
<1>6. Cardinality(A \cap B) = 0 /\ Cardinality(A) \in Nat
  BY <1>2, <1>3, FS_EmptySet, FS_CardinalityType
<1>7. Cardinality(A \cup B) = Cardinality(A) + n
  <2>1. \A a, b \in Nat : a + b - 0 = a + b
    OBVIOUS
  <2> QED
    BY <1>4, <1>5, <1>6, <2>1
<1> QED
  BY <1>1, <1>7 DEF A

\* The bag of the error statuses among the requests S whose samples are f.
ErrorsOf(f, S) ==
  [s \in {f[q].status : q \in {p \in S : f[p].status >= 400}} |->
     Cardinality({q \in {p \in S : f[p].status >= 400} : f[q].status = s})]

\* An operation's entry tells of the requests S, whose samples are f.
TellsOf(op, f, S) ==
  LET times == {f[q].ms : q \in S}
  IN  /\ op.total = Cardinality(S) /\ op.duration = Cardinality(MillisOf(f, S))
      /\ op.max \in times /\ \A t \in times : t <= op.max
      /\ op.min \in times /\ (0 \notin times => \A t \in times : op.min <= t)
      /\ op.errors = ErrorsOf(f, S)

\* The bag of errors e after a request with the status z.
WithError(e, z) == IF z >= 400 THEN e (+) SetToBag({z}) ELSE e

\* Two tables of samples that tell the same of the requests S.
Alike(f, g, S) == \A q \in S : g[q] = f[q]

\* The bag of errors of one request more is the bag with its status.
LEMMA ErrorsOneMore ==
  ASSUME NEW S, IsFiniteSet(S), NEW r, r \notin S, NEW f, NEW g, Alike(f, g, S),
         NEW z, g[r].status = z
  PROVE  WithError(ErrorsOf(f, S), z) = ErrorsOf(g, S \cup {r})
<1> DEFINE e == ErrorsOf(f, S)
<1>6. \A q \in S : g[q] = f[q]
  BY DEF Alike
<1> DEFINE F == {p \in S : f[p].status >= 400}
           G == {p \in S \cup {r} : g[p].status >= 400}
           D == {f[q].status : q \in F}
           E == {g[q].status : q \in G}
           OfF(s) == {q \in F : f[q].status = s}
           OfG(s) == {q \in G : g[q].status = s}
<1>1. DOMAIN e = D /\ \A s \in D : e[s] = Cardinality(OfF(s))
  BY DEF ErrorsOf
<1>2. e = [s \in D |-> Cardinality(OfF(s))]
  BY DEF ErrorsOf
<1> HIDE DEF e
<1>3. SUFFICES (IF z >= 400 THEN e (+) SetToBag({z}) ELSE e) = [s \in E |-> Cardinality(OfG(s))]
  BY DEF ErrorsOf, WithError, e
<1>4. CASE ~(z >= 400)
  <2>1. G = F /\ \A q \in F : g[q] = f[q]
    BY <1>4, <1>6
  <2>2. E = D
    BY <2>1
  <2>3. \A s : OfG(s) = OfF(s)
    BY <2>1
  <2> HIDE DEF D, E, OfF, OfG
  <2> QED
    BY <1>2, <1>4, <2>2, <2>3
<1>5. CASE z >= 400
  <2>1. G = F \cup {r} /\ r \notin F /\ \A q \in F : g[q] = f[q]
    BY <1>5, <1>6
  <2>2. IsFiniteSet(F)
    BY FS_Subset
  <2> HIDE DEF F, G
  <2>3. E = D \cup {z}
    BY <2>1
  <2>4. OfG(z) = OfF(z) \cup {r} /\ r \notin OfF(z)
    BY <2>1
  <2>5. \A s : s # z => OfG(s) = OfF(s)
    BY <2>1
  <2>6. IsFiniteSet(OfF(z)) /\ (z \notin D => OfF(z) = {})
    BY <2>2, FS_Subset
  <2>7. /\ Cardinality(OfF(z)) \in Nat
        /\ \A s : s \notin D => OfF(s) = {}
        /\ \A s : OfF(s) \in SUBSET F
    BY <2>6, FS_CardinalityType
  <2>8. \A s : Cardinality(OfF(s)) \in Nat
    BY <2>2, <2>7, FS_Subset, FS_CardinalityType
  <2> HIDE DEF D, E, OfF, OfG
  <2>9. Cardinality(OfG(z)) = Cardinality(OfF(z)) + 1
    BY <2>4, <2>6, FS_AddElement
  <2>10. Cardinality({}) = 0
    BY FS_EmptySet
  <2> DEFINE b == SetToBag({z})
  <2>11. DOMAIN b = {z} /\ b[z] = 1
    BY DEF SetToBag
  <2> HIDE DEF b
  <2>12. e (+) b = [s \in D \cup {z} |-> (IF s \in D THEN e[s] ELSE 0)
                                         + (IF s \in {z} THEN b[s] ELSE 0)]
    BY <1>1, <2>11 DEF (+)
  <2>13. ASSUME NEW s \in D \cup {z}
         PROVE  (IF s \in D THEN e[s] ELSE 0) + (IF s \in {z} THEN b[s] ELSE 0) = Cardinality(OfG(s))
    <3>1. CASE s = z
      <4>1. CASE z \in D
        BY <1>1, <2>9, <2>11, <3>1, <4>1
      <4>2. CASE z \notin D
        BY <2>6, <2>9, <2>10, <2>11, <3>1, <4>2
      <4> QED
        BY <4>1, <4>2
    <3>2. CASE s # z
      <4>1. s \in D /\ e[s] = Cardinality(OfF(s)) /\ OfG(s) = OfF(s) /\ Cardinality(OfF(s)) \in Nat
        BY <1>1, <2>5, <2>8, <3>2
      <4> QED
        BY <3>2, <4>1
    <3> QED
      BY <3>1, <3>2
  <2>14. e (+) b = [s \in E |-> Cardinality(OfG(s))]
    BY <2>3, <2>12, <2>13
  <2> QED
    BY <1>5, <2>14 DEF b
<1> QED
  BY <1>4, <1>5

\* ObserveOp keeps an entry true of one more request.
LEMMA EntryOneMore ==
  ASSUME NEW S, IsFiniteSet(S), NEW r, r \notin S, NEW f, NEW g,
         \A q \in S : f[q].ms \in Nat, \A q \in S : g[q] = f[q],
         NEW ms \in Nat, g[r].ms = ms, NEW z, g[r].status = z,
         NEW op, S = {} => op = NewOp(ms), S # {} => TellsOf(op, f, S)
  PROVE  TellsOf(ObserveOp(op, ms, z), g, S \cup {r})
<1> DEFINE new == ObserveOp(op, ms, z)
           T == S \cup {r}
           times == {f[q].ms : q \in S}
<1> SUFFICES TellsOf(new, g, T)
  OBVIOUS
<1>1. {g[q].ms : q \in T} = times \cup {ms} /\ times \subseteq Nat
  OBVIOUS
<1>2. /\ op.total = Cardinality(S) /\ op.duration = Cardinality(MillisOf(f, S))
      /\ op.errors = ErrorsOf(f, S)
  <2>1. CASE S = {}
    <3>1. Cardinality(S) = 0 /\ MillisOf(f, S) = {} /\ Cardinality({}) = 0
      BY <2>1, FS_EmptySet DEF MillisOf
    <3>2. op.total = 0 /\ op.duration = 0 /\ op.errors = [s \in {} |-> 1]
      BY <2>1 DEF NewOp, EmptyBag, SetToBag
    <3>3. {f[q].status : q \in {p \in S : f[p].status >= 400}} = {}
      BY <2>1
    <3>4. op.errors = ErrorsOf(f, S)
      BY <3>2, <3>3 DEF ErrorsOf
    <3> QED
      BY <3>1, <3>2, <3>4
  <2>2. CASE S # {}
    BY <2>2 DEF TellsOf
  <2> QED
    BY <2>1, <2>2
<1>3. /\ S = {} => op.max = 0 /\ op.min = ms /\ times = {}
      /\ S # {} => /\ op.max \in times /\ \A t \in times : t <= op.max
                   /\ op.min \in times /\ (0 \notin times => \A t \in times : op.min <= t)
                   /\ times # {}
  BY DEF TellsOf, NewOp
<1>4. /\ new.total = op.total + 1 /\ new.duration = op.duration + ms
      /\ new.min = IF ms < op.min \/ op.min = 0 THEN ms ELSE op.min
      /\ new.max = IF ms > op.max THEN ms ELSE op.max
      /\ new.errors = IF z >= 400 THEN op.errors (+) SetToBag({z}) ELSE op.errors
  BY DEF ObserveOp, IsError
<1> HIDE DEF new, times
<1>5. new.total = Cardinality(T)
  <2>1. Cardinality(T) = Cardinality(S) + 1
    BY FS_AddElement
  <2> QED
    BY <1>2, <1>4, <2>1
<1>6. new.duration = Cardinality(MillisOf(g, T))
  BY <1>2, <1>4, MillisOneMore
<1>7. new.errors = ErrorsOf(g, T)
  <2>1. Alike(f, g, S)
    BY DEF Alike
  <2>2. WithError(ErrorsOf(f, S), z) = ErrorsOf(g, S \cup {r})
    BY <2>1, ErrorsOneMore
  <2>3. new.errors = WithError(ErrorsOf(f, S), z)
    BY <1>2, <1>4 DEF WithError
  <2> QED
    BY <2>2, <2>3
<1>8. CASE S = {}
  <2>1. op.max = 0 /\ op.min = ms /\ times = {}
    BY <1>3, <1>8
  <2>2. new.max = ms /\ new.min = ms
    BY <1>4, <2>1
  <2>3. {g[q].ms : q \in T} = {ms}
    BY <1>1, <2>1
  <2>4. ms <= ms
    OBVIOUS
  <2> QED
    BY <1>5, <1>6, <1>7, <2>2, <2>3, <2>4 DEF TellsOf
<1>9. CASE S # {}
  <2> DEFINE more == times \cup {ms}
  <2>1. /\ op.max \in times /\ \A t \in times : t <= op.max
        /\ op.min \in times /\ (0 \notin times => \A t \in times : op.min <= t)
        /\ op.max \in Nat /\ op.min \in Nat /\ ms \in Nat /\ \A t \in times : t \in Nat
    BY <1>1, <1>3, <1>9
  <2>2. new.max \in more /\ \A t \in more : t <= new.max
    <3>1. new.max = IF ms > op.max THEN ms ELSE op.max
      BY <1>4
    <3>2. new.max \in Nat /\ ms <= new.max /\ op.max <= new.max /\ new.max \in more
      BY <2>1, <3>1
    <3>3. ASSUME NEW t \in times PROVE t <= new.max
      <4>1. t <= op.max /\ t \in Nat
        BY <2>1
      <4> QED
        BY <2>1, <3>2, <4>1
    <3> QED
      BY <3>2, <3>3
  <2>3. new.min \in more /\ (0 \notin more => \A t \in more : new.min <= t)
    <3>1. new.min = IF ms < op.min \/ op.min = 0 THEN ms ELSE op.min
      BY <1>4
    <3>2. new.min \in more
      BY <2>1, <3>1
    <3>3. ASSUME 0 \notin more PROVE new.min \in Nat /\ new.min <= ms /\ new.min <= op.min
      BY <2>1, <3>1, <3>3
    <3>4. ASSUME 0 \notin more, NEW t \in times PROVE new.min <= t
      <4>1. op.min <= t /\ t \in Nat
        BY <2>1, <3>4
      <4> QED
        BY <2>1, <3>3, <3>4, <4>1
    <3> QED
      BY <3>2, <3>3, <3>4
  <2>4. {g[q].ms : q \in T} = more
    BY <1>1
  <2> HIDE DEF more
  <2> QED
    BY <1>5, <1>6, <1>7, <2>2, <2>3, <2>4 DEF TellsOf
<1> QED
  BY <1>8, <1>9

\* The same samples say the same.
LEMMA SameSamples ==
  ASSUME NEW S, NEW f, NEW g, \A q \in S : g[q] = f[q], NEW op, TellsOf(op, f, S)
  PROVE  TellsOf(op, g, S)
<1>1. {g[q].ms : q \in S} = {f[q].ms : q \in S} /\ MillisOf(g, S) = MillisOf(f, S)
  BY DEF MillisOf
<1>2. ErrorsOf(g, S) = ErrorsOf(f, S)
  <2> DEFINE F == {q \in S : f[q].status >= 400}
             D == {f[q].status : q \in F}
             E == {g[q].status : q \in {p \in S : g[p].status >= 400}}
             OfF(s) == {q \in F : f[q].status = s}
             OfG(s) == {q \in {p \in S : g[p].status >= 400} : g[q].status = s}
  <2>1. E = D /\ \A s : OfG(s) = OfF(s)
    OBVIOUS
  <2>2. ErrorsOf(f, S) = [s \in D |-> Cardinality(OfF(s))]
    BY DEF ErrorsOf
  <2>3. ErrorsOf(g, S) = [s \in E |-> Cardinality(OfG(s))]
    BY DEF ErrorsOf
  <2> HIDE DEF D, E, OfF, OfG
  <2> QED
    BY <2>1, <2>2, <2>3
<1> QED
  BY <1>1, <1>2 DEF TellsOf

\* What is counted: finitely many requests, each when it is done.
CountInv ==
  /\ IsFiniteSet(Counted)
  /\ \A r \in Requests : stage[r] # "done" => sample[r] = NULL
  /\ CountersAddUp

\* What the property says of one operation.
LEMMA EntriesTell ==
  CountersAddUp <=>
    /\ stats.total = Cardinality(Counted)
    /\ stats.duration = Cardinality(MillisOf(sample, Counted))
    /\ stats.api = Cardinality({r \in Counted : Op(r).api})
    /\ stats.errors = Cardinality({r \in Counted : sample[r].status >= 400})
    /\ \A r \in Counted : <<set.ask[r].route, sample[r].routed>> \in DOMAIN stats.ops
    /\ \A o \in DOMAIN stats.ops : TellsOf(stats.ops[o], sample, Sampled(o))
BY DEF CountersAddUp, Failed, Millis, MillisOf, TellsOf, ErrorsOf

\* And after a step.
LEMMA EntriesTellNext ==
  CountersAddUp' <=>
    /\ stats'.total = Cardinality(Counted')
    /\ stats'.duration = Cardinality(MillisOf(sample', Counted'))
    /\ stats'.api = Cardinality({q \in Counted' : Op(q)'.api})
    /\ stats'.errors = Cardinality({q \in Counted' : sample'[q].status >= 400})
    /\ \A q \in Counted' : <<set'.ask[q].route, sample'[q].routed>> \in DOMAIN stats'.ops
    /\ \A o \in DOMAIN stats'.ops : TellsOf(stats'.ops[o], sample', Sampled(o)')
BY DEF CountersAddUp, Failed, Millis, MillisOf, TellsOf, ErrorsOf

\* Only Count counts, and who is done stays so.
LEMMA OnlyCount ==
  ASSUME Inv, [Next]_vars, \A r \in Requests : ~Count(r)
  PROVE  /\ UNCHANGED <<set, countVars>>
         /\ \A q \in Requests : stage[q] = "done" => stage'[q] = "done"
<1> USE DEF Inv, TypeOK, procVars, askVars, limitVars, countVars, auditVars
<1>1. CASE Main \/ Tick \/ SchedulerStep
  BY <1>1 DEF Main, BootFails, OpenPool, MigrateFails, Serve, ListenFails, Signal, Drained,
         DrainExpires, SchedulerAwaited, ClosePool, Exit, Tick, SchedulerStep
<1>2. ASSUME NEW r \in Requests, Request(r) PROVE
         /\ UNCHANGED <<set, countVars>>
         /\ \A q \in Requests : stage[q] = "done" => stage'[q] = "done"
  <2>1. UNCHANGED <<set, countVars>>
    BY <1>2 DEF Request, Arrive, ReadClock, Grant, Refuse, Handle, Finish, Panic, StreamEnds
  <2>2. stage[r] # "done" /\ \E to \in {"idle", "limiting", "clocked", "routing", "working",
                                        "streaming", "answered", "done"} :
           stage' = [stage EXCEPT ![r] = to]
    BY <1>2, GateType
    DEF Request, Arrive, ReadClock, Grant, Refuse, Handle, Finish, Panic, StreamEnds, Answer
  <2> QED
    BY <2>1, <2>2
<1>3. ASSUME NEW r \in Requests, StartRecord(r) \/ Record(r) PROVE
         /\ UNCHANGED <<set, countVars>>
         /\ \A q \in Requests : stage[q] = "done" => stage'[q] = "done"
  BY <1>3 DEF StartRecord, Record
<1>4. CASE UNCHANGED vars
  BY <1>4 DEF vars
<1> QED
  BY <1>1, <1>2, <1>3, <1>4 DEF Next

\* Count keeps the counter true of the requests that are counted.
LEMMA CountKeeps ==
  ASSUME Inv, CountInv, NEW r \in Requests, Count(r)
  PROVE  CountInv'
<1> DEFINE s == [ms |-> now - began[r], status |-> CountedStatus(r), routed |-> answer[r] # 429]
           key == <<set.ask[r].route, answer[r] # 429>>
<1>1. s \in Sample /\ sample' = [sample EXCEPT ![r] = s] /\ set' = set
  <2>1. now - began[r] \in Nat
    BY DEF Inv, TypeOK, AskInv
  <2>2. CountedStatus(r) \in Statuses
    BY DEF Inv, Count, CountedStatus, AuditInv, Statuses
  <2> QED
    BY <2>1, <2>2 DEF Sample, Count
<1>2. stats' = Observe(stats, key, Op(r).api, s.ms, s.status)
  BY DEF Count
<1>3. stage[r] = "answered" /\ stage' = [stage EXCEPT ![r] = "done"]
  BY DEF Count
<1>4. /\ sample \in [Requests -> Sample \cup {NULL}] /\ DOMAIN stage = Requests
      /\ NULL \notin Sample
  BY ServerAssumption DEF Inv, TypeOK
<1> HIDE DEF s
<1>5. r \notin Counted /\ Counted' = Counted \cup {r}
  BY <1>1, <1>3, <1>4 DEF CountInv, Counted
<1>6. sample'[r] = s /\ \A q \in Counted : sample'[q] = sample[q] /\ sample[q] \in Sample
  BY <1>1, <1>4, <1>5 DEF Counted
<1>7. IsFiniteSet(Counted)
  BY DEF CountInv
<1>8. s.routed = (answer[r] # 429)
  BY DEF s
<1>9. \A o : Sampled(o)' = IF o = key THEN Sampled(o) \cup {r} ELSE Sampled(o)
  <2>1. \A o : Sampled(o)' = {q \in Counted' : <<set'.ask[q].route, sample'[q].routed>> = o}
    BY DEF Sampled
  <2>2. <<set'.ask[r].route, sample'[r].routed>> = key
    BY <1>1, <1>6, <1>8
  <2>3. \A q \in Counted : <<set'.ask[q].route, sample'[q].routed>> = <<set.ask[q].route, sample[q].routed>>
    BY <1>1, <1>6
  <2> HIDE DEF key
  <2> QED
    BY <1>5, <2>1, <2>2, <2>3 DEF Sampled
<1>10. ASSUME NEW o
       PROVE  IsFiniteSet(Sampled(o)) /\ Sampled(o) \in SUBSET Counted /\ r \notin Sampled(o)
  BY <1>5, <1>7, FS_Subset DEF Sampled
<1>11. stats'.total = Cardinality(Counted')
  <2>1. Cardinality(Counted') = Cardinality(Counted) + 1
    BY <1>5, <1>7, FS_AddElement
  <2> QED
    BY <1>2, <2>1, EntriesTell DEF CountInv, Observe
<1>12. stats'.duration = Cardinality(MillisOf(sample', Counted'))
  <2>1. s.ms \in Nat /\ \A q \in Counted : sample[q].ms \in Nat
    BY <1>1, <1>6 DEF Sample
  <2>2. /\ \A q \in Counted : sample[q].ms \in Nat
        /\ \A q \in Counted : sample'[q] = sample[q]
    BY <1>6, <2>1
  <2>3. sample'[r].ms \in Nat
    BY <1>6, <2>1
  <2>4. Cardinality(MillisOf(sample', Counted \cup {r})) = Cardinality(MillisOf(sample, Counted)) + sample'[r].ms
    BY <1>5, <1>7, <2>2, <2>3, MillisOneMore
  <2> QED
    BY <1>2, <1>5, <1>6, <2>4, EntriesTell DEF CountInv, Observe
<1>13. stats'.api = Cardinality({q \in Counted' : Op(q)'.api})
  <2> DEFINE A == {q \in Counted : Op(q).api}
  <2>1. {q \in Counted' : Op(q)'.api} = IF Op(r).api THEN A \cup {r} ELSE A
    BY <1>1, <1>5 DEF Op
  <2>2. IsFiniteSet(A) /\ r \notin A
    BY <1>5, <1>7, FS_Subset
  <2>3. stats.api = Cardinality(A) /\ Cardinality(A) \in Nat
    BY <2>2, EntriesTell, FS_CardinalityType DEF CountInv
  <2> HIDE DEF A
  <2>4. Cardinality(A \cup {r}) = Cardinality(A) + 1
    BY <2>2, FS_AddElement
  <2>5. stats'.api = stats.api + (IF Op(r).api THEN 1 ELSE 0)
    BY <1>2 DEF Observe
  <2>6. CASE Op(r).api
    BY <2>1, <2>3, <2>4, <2>5, <2>6
  <2>7. CASE ~(Op(r).api)
    <3>1. {q \in Counted' : Op(q)'.api} = A /\ stats'.api = stats.api + 0
      BY <2>1, <2>5, <2>7
    <3>2. \A n \in Nat : n + 0 = n
      OBVIOUS
    <3>3. stats'.api = Cardinality(A)
      BY <2>3, <3>1, <3>2
    <3> QED
      BY <3>1, <3>3, Zenon
  <2> QED
    BY <2>6, <2>7
<1>14. stats'.errors = Cardinality({q \in Counted' : sample'[q].status >= 400})
  <2> DEFINE A == {q \in Counted : sample[q].status >= 400}
  <2>1. {q \in Counted' : sample'[q].status >= 400} = IF s.status >= 400 THEN A \cup {r} ELSE A
    BY <1>5, <1>6
  <2>2. IsFiniteSet(A) /\ r \notin A
    BY <1>5, <1>7, FS_Subset
  <2>3. stats.errors = Cardinality(A) /\ Cardinality(A) \in Nat
    BY <2>2, EntriesTell, FS_CardinalityType DEF CountInv
  <2> HIDE DEF A
  <2>4. Cardinality(A \cup {r}) = Cardinality(A) + 1
    BY <2>2, FS_AddElement
  <2>5. stats'.errors = stats.errors + (IF s.status >= 400 THEN 1 ELSE 0)
    BY <1>2 DEF Observe, IsError
  <2>6. CASE s.status >= 400
    BY <2>1, <2>3, <2>4, <2>5, <2>6
  <2>7. CASE ~(s.status >= 400)
    <3>1. {q \in Counted' : sample'[q].status >= 400} = A /\ stats'.errors = stats.errors + 0
      BY <2>1, <2>5, <2>7
    <3>2. \A n \in Nat : n + 0 = n
      OBVIOUS
    <3>3. stats'.errors = Cardinality(A)
      BY <2>3, <3>1, <3>2
    <3> QED
      BY <3>1, <3>3, Zenon
  <2> QED
    BY <2>6, <2>7
<1>15. DOMAIN stats'.ops = DOMAIN stats.ops \cup {key}
  BY <1>2 DEF Observe
<1>16. \A q \in Counted' : <<set'.ask[q].route, sample'[q].routed>> \in DOMAIN stats'.ops
  <2>1. \A q \in Counted : <<set.ask[q].route, sample[q].routed>> \in DOMAIN stats.ops
    BY DEF CountInv, CountersAddUp
  <2>2. <<set'.ask[r].route, sample'[r].routed>> = key
    BY <1>1, <1>6, <1>8
  <2>3. \A q \in Counted : <<set'.ask[q].route, sample'[q].routed>> = <<set.ask[q].route, sample[q].routed>>
    BY <1>1, <1>6
  <2> HIDE DEF key
  <2> QED
    BY <1>5, <1>15, <2>1, <2>2, <2>3
<1>17. ASSUME NEW o \in DOMAIN stats'.ops PROVE TellsOf(stats'.ops[o], sample', Sampled(o)')
  <2>1. CASE o # key
    <3>1. o \in DOMAIN stats.ops /\ stats'.ops[o] = stats.ops[o] /\ Sampled(o)' = Sampled(o)
      BY <1>2, <1>9, <1>15, <2>1 DEF Observe
    <3>2. TellsOf(stats.ops[o], sample, Sampled(o))
      BY <3>1, EntriesTell DEF CountInv
    <3> QED
      BY <1>6, <1>10, <3>1, <3>2, SameSamples
  <2>2. CASE o = key
    <3> DEFINE old == IF key \in DOMAIN stats.ops THEN stats.ops[key] ELSE NewOp(s.ms)
               S == Sampled(key)
    <3>1. stats'.ops[key] = ObserveOp(old, s.ms, s.status)
      BY <1>2, <1>15 DEF Observe
    <3>2. Sampled(o)' = S \cup {r}
      BY <1>9, <2>2
    <3>3. S # {} => old = stats.ops[key] /\ TellsOf(stats.ops[key], sample, S)
      <4>1. S # {} => key \in DOMAIN stats.ops
        BY SMTT(30), ZenonT(30) DEF Sampled, CountInv, CountersAddUp
      <4> QED
        BY <4>1, EntriesTell DEF CountInv
    <3>4. S = {} => old = NewOp(s.ms)
      <4> SUFFICES ASSUME key \in DOMAIN stats.ops PROVE S # {}
        OBVIOUS
      <4>1. TellsOf(stats.ops[key], sample, S)
        BY EntriesTell DEF CountInv
      <4>2. stats.ops[key].max \in {sample[q].ms : q \in S}
        BY <4>1, ZenonT(30) DEF TellsOf
      <4> QED
        BY <4>2, Zenon
    <3>5. \A q \in S : sample[q] \in Sample /\ sample'[q] = sample[q]
      BY <1>6, <1>10
    <3>6. IsFiniteSet(S) /\ r \notin S
      BY <1>10
    <3> HIDE DEF old, S, key
    <3>7. TellsOf(ObserveOp(old, s.ms, s.status), sample', S \cup {r})
      <4>1. s.ms \in Nat /\ sample'[r].ms = s.ms /\ sample'[r].status = s.status
        BY <1>1, <1>6 DEF Sample
      <4>2. /\ S = {} => old = NewOp(s.ms)
            /\ S # {} => TellsOf(old, sample, S)
        BY <3>3, <3>4
      <4>3. /\ \A q \in S : sample[q].ms \in Nat
            /\ \A q \in S : sample'[q] = sample[q]
        BY <3>5 DEF Sample
      <4> QED
        BY <3>6, <4>1, <4>2, <4>3, EntryOneMore
    <3> QED
      BY <1>6, <2>2, <3>1, <3>2, <3>7
  <2> QED
    BY <2>1, <2>2
<1>18. CountersAddUp'
  BY <1>11, <1>12, <1>13, <1>14, <1>16, <1>17, EntriesTellNext
<1>19. IsFiniteSet(Counted')
  BY <1>5, <1>7, FS_AddElement
<1>20. \A q \in Requests : stage'[q] # "done" => sample'[q] = NULL
  <2>1. ASSUME NEW q \in Requests, stage'[q] # "done" PROVE sample'[q] = NULL
    <3>1. q # r /\ stage'[q] = stage[q]
      BY <1>3, <1>4, <2>1
    <3> QED
      BY <1>1, <1>4, <2>1, <3>1 DEF CountInv
  <2> QED
    BY <2>1
<1> QED
  BY <1>18, <1>19, <1>20 DEF CountInv

\* So every step keeps it.
LEMMA CountsKept == Spec => [](Inv /\ CountInv)
<1>1. Init => CountInv
  <2> SUFFICES ASSUME Init PROVE CountInv
    OBVIOUS
  <2>1. Counted = {} /\ stats = NewStats /\ \A r \in Requests : sample[r] = NULL
    BY DEF Init, Counted
  <2>2. IsFiniteSet({}) /\ Cardinality({}) = 0
    BY FS_EmptySet
  <2>3. MillisOf(sample, Counted) = {}
    BY <2>1 DEF MillisOf
  <2>4. /\ {r \in Counted : Op(r).api} = {} /\ {r \in Counted : sample[r].status >= 400} = {}
        /\ DOMAIN stats.ops = {}
    BY <2>1 DEF NewStats
  <2>5. stats.total = 0 /\ stats.duration = 0 /\ stats.api = 0 /\ stats.errors = 0
    BY <2>1 DEF NewStats
  <2>6. CountersAddUp
    BY <2>1, <2>2, <2>3, <2>4, <2>5, EntriesTell
  <2> QED
    BY <2>1, <2>2, <2>6 DEF CountInv
<1>2. Inv /\ CountInv /\ [Next]_vars => CountInv'
  <2> SUFFICES ASSUME Inv, CountInv, [Next]_vars PROVE CountInv'
    OBVIOUS
  <2>1. CASE \E r \in Requests : Count(r)
    BY <2>1, CountKeeps
  <2>2. CASE \A r \in Requests : ~Count(r)
    <3>1. /\ UNCHANGED <<set, stats, sample>>
          /\ \A q \in Requests : stage'[q] # "done" => stage[q] # "done"
      BY <2>2, OnlyCount DEF countVars
    <3>2. Counted' = Counted
      BY <3>1 DEF Counted
    <3>3. CountersAddUp'
      <4>1. \A o : Sampled(o)' = Sampled(o)
        BY <3>1, <3>2 DEF Sampled
      <4>2. \A q : Op(q)' = Op(q)
        BY <3>1 DEF Op
      <4>3. {q \in Counted' : Op(q)'.api} = {q \in Counted : Op(q).api}
        BY <3>2, <4>2
      <4>4. CountersAddUp
        BY DEF CountInv
      <4> QED
        BY <3>1, <3>2, <4>1, <4>3, <4>4, EntriesTell, EntriesTellNext, ZenonT(30)
    <3> QED
      BY <3>1, <3>2, <3>3 DEF CountInv
  <2> QED
    BY <2>1, <2>2
<1> QED
  BY <1>1, <1>2, InitInv, NextInv, PTL DEF Spec

-----------------------------------------------------------------------------
\* Every variable keeps its type: in particular no bucket is ever in debt or
\* above its burst, and no request is counted with a negative time.
THEOREM TypeCorrect == Spec => []TypeOK
BY Invariance, PTL DEF Inv

\* The limiter's promise, for every number of concurrent requests: whichever
\* way their clock readings overtake each other, no window of granted
\* requests of a key costs more than a burst, what the bucket regained in the
\* window and the time by which readings went back.
THEOREM BudgetKept == Spec => []WithinBudget
<1>1. BudgetInv => WithinBudget
  BY DEF BudgetInv, Budget, WithinBudget
<1> QED
  BY <1>1, Invariance, PTL DEF Inv

\* The audit log has at most one row of a request, only of an answered
\* mutating one that passed the limiter, and with its status, in whatever
\* order the goroutines of the audit middleware run and fail.
THEOREM AuditTruthful == Spec => []AuditIsTruthful
<1>1. TypeOK /\ AuditInv => AuditIsTruthful
  BY DEF TypeOK, AuditInv, AuditIsTruthful
<1> QED
  BY <1>1, Invariance, PTL DEF Inv

\* What GET /op/appinfo reports is the sum of what was counted, in total and
\* for each operation, for any number of requests and in whatever order they
\* finish, time out or panic.
THEOREM CountersCorrect == Spec => []CountersAddUp
BY CountsKept, PTL DEF CountInv

\* run() reports a clean stop only when Shutdown has seen every request off,
\* and an error after a signal only when the budget is spent.
THEOREM CleanStop == Spec => []CleanStopWaits
BY Invariance, PTL DEF Inv, StopInv

(***************************************************************************)
(* The stream of states.                                                   *)
(***************************************************************************)
USE DEF Procs

\* Before it registers, an SSE request is unknown to the broker; its channel
\* is closed only after Subscribe has returned.
Phases ==
    \A s \in Subscribers :
       /\ s \in closed => pc[s] \in {"loop", "end"}
       /\ s \in subscribed => pc[s] \in {"replay", "send", "loop"} /\ s \notin closed

\* A fan-out visits channels of the map only: the map cannot shrink meanwhile.
Visits == \A p \in Procs : pc[p] = "fanout" => left[p] \subseteq subscribed

BrokerInv == StreamTypeOK /\ Phases /\ Visits

\* What the steps append and take is made of events.
LEMMA EventTypes ==
  /\ \A p \in Procs, s \in States : StateEvent("changed", p, s) \in Events
  /\ \A p \in Procs, s \in States : StateEvent("snapshot", p, s) \in Events
  /\ \A p \in Procs : JobEvent(p, "running") \in Events /\ JobEvent(p, "ended") \in Events
BY DEF StateEvent, JobEvent, Events, States

\* The first state.
LEMMA StreamInitInv == StreamInit => BrokerInv
<1> SUFFICES ASSUME StreamInit PROVE BrokerInv
  OBVIOUS
<1>1. StreamTypeOK
  BY EventTypes DEF StreamInit, StreamTypeOK, PCs, States
<1>2. Phases /\ Visits
  BY DEF StreamInit, Phases, Visits
<1> QED
  BY <1>1, <1>2 DEF BrokerInv

\* The types are kept.
LEMMA TypeKept == ASSUME StreamTypeOK, [StreamNext]_streamVars PROVE StreamTypeOK'
<1> USE DEF StreamTypeOK, brokerVars, histVars
<1>1. CASE DatabaseChange
  BY <1>1 DEF DatabaseChange
<1>2. ASSUME NEW p \in Procs, Publish(p) PROVE StreamTypeOK'
  <2>1. CASE Probe(p)
    BY <2>1 DEF Probe, Goto, States, PCs
  <2>2. CASE CacheSame(p)
    BY <2>2 DEF CacheSame, Goto, After, PCs
  <2>3. CASE CacheChanged(p)
    <3>1. StateEvent("changed", p, snap[p]) \in Events
      BY EventTypes
    <3> QED
      BY <2>3, <3>1 DEF CacheChanged, Goto, PCs
  <2>4. CASE RLock(p)
    BY <2>4 DEF RLock, Goto, PCs
  <2>5. CASE RUnlock(p)
    <3>1. JobEvent(p, "ended") \in Events
      BY EventTypes
    <3>2. pc' \in [Procs -> PCs]
      BY <2>5 DEF RUnlock, Goto, After, PCs
    <3>3. ev' \in [Procs -> Events]
      <4>1. ev' = ev \/ ev' = [ev EXCEPT ![p] = JobEvent(p, "ended")]
        BY <2>5 DEF RUnlock
      <4> QED
        BY <3>1, <4>1
    <3>4. UNCHANGED <<db, last, snap, left, subscribed, chan, closed, gone, frames, due, missed>>
      BY <2>5 DEF RUnlock
    <3> QED
      BY <3>2, <3>3, <3>4
  <2>6. ASSUME NEW s \in Subscribers, Deliver(p, s) PROVE StreamTypeOK'
    <3>1. left' \in [Procs -> SUBSET Subscribers]
      BY <2>6 DEF Deliver
    <3>2. ev[p] \in Events /\ Append(chan[s], ev[p]) \in Seq(Events)
      OBVIOUS
    <3>3. chan' \in [Subscribers -> Seq(Events)]
      BY <2>6, <3>2 DEF Deliver
    <3>4. missed' \in [Subscribers -> SUBSET Events]
      <4>1. missed' = missed \/ missed' = [missed EXCEPT ![s] = @ \cup {ev[p]}]
        BY <2>6 DEF Deliver
      <4>2. missed[s] \cup {ev[p]} \in SUBSET Events
        BY <3>2
      <4> QED
        BY <4>1, <4>2
    <3> QED
      BY <2>6, <3>1, <3>3, <3>4 DEF Deliver
  <2> QED
    BY <1>2, <2>1, <2>2, <2>3, <2>4, <2>5, <2>6 DEF Publish
<1>3. ASSUME NEW s \in Subscribers,
             Subscribe(s) \/ Receive(s) \/ Watch(s) \/ Leave(s) \/ FailWrite(s) \/ ClientGone(s)
      PROVE  StreamTypeOK'
  <2>1. CASE Register(s)
    BY <2>1 DEF Register, Goto, PCs
  <2>2. CASE Replay(s)
    BY <2>2 DEF Replay, Goto, PCs
  <2>3. CASE SendSnapshot(s)
    <3>1. StateEvent("snapshot", s, snap[s]) \in Events
      BY EventTypes
    <3> QED
      BY <2>3, <3>1 DEF SendSnapshot, Goto, PCs
  <2>4. CASE Receive(s)
    BY <2>4 DEF Receive, WriteFrame
  <2>5. CASE Watch(s)
    BY <2>5 DEF Watch, Cancel
  <2>6. CASE Leave(s)
    BY <2>6 DEF Leave, Cancel, Goto, PCs
  <2>7. CASE ClientGone(s)
    BY <2>7 DEF ClientGone
  <2>8. CASE FailWrite(s)
    <3>1. /\ chan' \in [Subscribers -> Seq(Events)]
          /\ frames' \in [Subscribers -> Seq(Events)]
      <4>1. CASE WriteFrame(s)
        BY <4>1 DEF WriteFrame
      <4> QED
        BY <2>8, <4>1 DEF FailWrite
    <3>2. pc' \in [Procs -> PCs] /\ subscribed' \subseteq Subscribers /\ closed' \subseteq Subscribers
      BY <2>8 DEF FailWrite, Cancel, Goto, PCs
    <3> QED
      BY <2>8, <3>1, <3>2 DEF FailWrite
  <2> QED
    BY <1>3, <2>1, <2>2, <2>3, <2>4, <2>5, <2>6, <2>7, <2>8 DEF Subscribe
<1>4. CASE UNCHANGED streamVars
  BY <1>4 DEF streamVars
<1> QED
  BY <1>1, <1>2, <1>3, <1>4 DEF StreamNext

\* Each step keeps the map, the channels and the fan-outs in agreement.
LEMMA AgreementKept == ASSUME BrokerInv, [StreamNext]_streamVars PROVE Phases' /\ Visits'
<1> USE DEF StreamTypeOK, BrokerInv, Phases, Visits, brokerVars, histVars
<1>0. BrokerAssumption
  BY BrokerAssumption
<1>1. CASE DatabaseChange
  BY <1>1 DEF DatabaseChange
<1>2. ASSUME NEW p \in Procs, Publish(p) PROVE Phases' /\ Visits'
  <2>1. CASE Probe(p) \/ CacheSame(p) \/ CacheChanged(p)
    BY <2>1 DEF Probe, CacheSame, CacheChanged, Goto, After
  <2>2. CASE RLock(p)
    BY <2>2 DEF RLock, Goto
  <2>3. CASE RUnlock(p)
    BY <2>3 DEF RUnlock, Goto, After
  <2>4. ASSUME NEW s \in Subscribers, Deliver(p, s) PROVE Phases' /\ Visits'
    BY <2>4 DEF Deliver
  <2> QED
    BY <1>2, <2>1, <2>2, <2>3, <2>4 DEF Publish
<1>3. ASSUME NEW s \in Subscribers,
             Subscribe(s) \/ Receive(s) \/ Watch(s) \/ Leave(s) \/ FailWrite(s) \/ ClientGone(s)
      PROVE  Phases' /\ Visits'
  <2>1. CASE Register(s)
    BY <2>1 DEF Register, Goto
  <2>2. CASE Replay(s) \/ SendSnapshot(s)
    BY <2>2 DEF Replay, SendSnapshot, Goto
  <2>3. CASE Receive(s) \/ ClientGone(s)
    BY <2>3 DEF Receive, WriteFrame, ClientGone
  <2>4. CASE Watch(s)
    BY <2>4 DEF Watch, Cancel, NoReader
  <2>5. CASE Leave(s) \/ FailWrite(s)
    BY <2>5 DEF Leave, FailWrite, WriteFrame, Cancel, NoReader, Goto
  <2> QED
    BY <1>3, <2>1, <2>2, <2>3, <2>4, <2>5 DEF Subscribe
<1>4. CASE UNCHANGED streamVars
  BY <1>4 DEF streamVars
<1> QED
  BY <1>1, <1>2, <1>3, <1>4 DEF StreamNext

\* The inductive invariant of the broker.
THEOREM StreamInvariance == StreamSpec => []BrokerInv
<1>1. BrokerInv /\ [StreamNext]_streamVars => BrokerInv'
  BY TypeKept, AgreementKept DEF BrokerInv
<1> QED
  BY StreamInitInv, <1>1, PTL DEF StreamSpec

\* Every value the broker and its callers keep is of its kind.
THEOREM StreamTypeCorrect == StreamSpec => []StreamTypeOK
<1>1. BrokerInv => StreamTypeOK
  BY DEF BrokerInv
<1> QED
  BY StreamInvariance, <1>1, PTL

\* No publisher and no Subscribe ever sends on a closed channel, which would
\* end the process (Publish and cancel in broker.go).
THEOREM NeverSendsOnClosed == StreamSpec => []NoSendOnClosed
<1>1. BrokerInv => NoSendOnClosed
  BY DEF BrokerInv, StreamTypeOK, Phases, Visits, NoSendOnClosed
<1> QED
  BY StreamInvariance, <1>1, PTL

(***************************************************************************)
(* Nothing is lost but what a full channel drops.                          *)
(***************************************************************************)

\* A sequence with an event more has that element more.
LEMMA AppendedSet ==
  ASSUME NEW E, NEW f \in Seq(E), NEW c \in Seq(E), NEW e \in E
  PROVE  ToSet(f \o Append(c, e)) = ToSet(f \o c) \cup {e}
<1> DEFINE u == f \o c
           v == f \o Append(c, e)
<1>1. Len(v) = Len(u) + 1 /\ v[Len(u) + 1] = e /\ Len(u) \in Nat
  OBVIOUS
<1>2. \A i \in 1..Len(u) : v[i] = u[i]
  OBVIOUS
<1> HIDE DEF u, v
<1>3. \A x : x \in ToSet(v) <=> \E i \in 1..Len(v) : v[i] = x
  BY DEF ToSet
<1>4. \A x : x \in ToSet(u) <=> \E i \in 1..Len(u) : u[i] = x
  BY DEF ToSet
<1>5. \A i : i \in 1..Len(v) <=> (i \in 1..Len(u) \/ i = Len(u) + 1)
  BY <1>1
<1>6. ToSet(v) = ToSet(u) \cup {e}
  BY <1>1, <1>2, <1>3, <1>4, <1>5
<1> QED
  BY <1>6 DEF u, v

\* Moving the head of one sequence to the end of another keeps what both hold.
LEMMA MovedHead ==
  ASSUME NEW E, NEW f \in Seq(E), NEW c \in Seq(E), c # <<>>
  PROVE  Append(f, Head(c)) \o Tail(c) = f \o c
<1>1. Append(f, Head(c)) \in Seq(E) /\ Tail(c) \in Seq(E) /\ Len(c) >= 1
  OBVIOUS
<1>2. Len(Append(f, Head(c)) \o Tail(c)) = Len(f \o c)
  BY <1>1
<1>3. \A i \in 1..Len(f \o c) : (Append(f, Head(c)) \o Tail(c))[i] = (f \o c)[i]
  BY <1>1
<1> QED
  BY <1>1, <1>2, <1>3

\* What a subscriber was sent or will be, but for the snapshot of Subscribe.
Reached(s) == {e \in ToSet(frames[s] \o chan[s]) : e.kind # "snapshot"}

\* What publishers have in hand for it.
Pending(s) == {ev[p] : p \in {q \in Procs : pc[q] = "fanout" /\ s \in left[q]}}

\* Only Subscribe sends snapshots.
NoSnapshot == \A p \in Procs : ev[p].kind # "snapshot"

\* Before it registers, nothing was published to a subscriber.
Untouched ==
    \A s \in Subscribers : pc[s] \in {"probe", "cache", "lock", "fanout", "register"} =>
       due[s] = {} /\ missed[s] = {} /\ frames[s] = <<>> /\ chan[s] = <<>>

\* Publishers publish changes and transitions of jobs.
LEMMA SnapshotsNever == ASSUME BrokerInv, NoSnapshot, [StreamNext]_streamVars PROVE NoSnapshot'
<1> USE DEF BrokerInv, StreamTypeOK, NoSnapshot, brokerVars, histVars
<1>1. \A p \in Procs : CacheChanged(p) => NoSnapshot'
  BY DEF CacheChanged, StateEvent
<1>2. ASSUME NEW p \in Procs, RUnlock(p) PROVE NoSnapshot'
  <2>1. ev' = ev \/ ev' = [ev EXCEPT ![p] = JobEvent(p, "ended")]
    BY <1>2 DEF RUnlock
  <2>2. JobEvent(p, "ended").kind # "snapshot"
    BY DEF JobEvent
  <2> QED
    BY <2>1, <2>2
<1>3. ASSUME NEW p \in Procs, Publish(p) PROVE NoSnapshot'
  <2>1. CASE Probe(p) \/ CacheSame(p) \/ RLock(p)
    BY <2>1 DEF Probe, CacheSame, RLock
  <2>2. ASSUME NEW s \in Subscribers, Deliver(p, s) PROVE NoSnapshot'
    BY <2>2 DEF Deliver
  <2> QED
    BY <1>1, <1>2, <1>3, <2>1, <2>2 DEF Publish
<1>4. ASSUME NEW s \in Subscribers,
             Subscribe(s) \/ Receive(s) \/ Watch(s) \/ Leave(s) \/ FailWrite(s) \/ ClientGone(s)
      PROVE  NoSnapshot'
  BY <1>4 DEF Subscribe, Register, Replay, SendSnapshot, Receive, WriteFrame, Watch, Leave, FailWrite,
              ClientGone
<1>5. CASE DatabaseChange \/ UNCHANGED streamVars
  BY <1>5 DEF DatabaseChange, streamVars
<1> QED
  BY <1>3, <1>4, <1>5 DEF StreamNext

\* A subscriber that has not registered stays untouched.
LEMMA UntouchedKept == ASSUME BrokerInv, Untouched, [StreamNext]_streamVars PROVE Untouched'
<1> USE DEF BrokerInv, StreamTypeOK, Phases, Visits, Untouched, brokerVars, histVars
<1>0. BrokerAssumption
  BY BrokerAssumption
<1>1. CASE DatabaseChange
  BY <1>1 DEF DatabaseChange
<1>2. ASSUME NEW p \in Procs, Publish(p) PROVE Untouched'
  <2>1. CASE Probe(p) \/ CacheSame(p) \/ CacheChanged(p)
    BY <2>1 DEF Probe, CacheSame, CacheChanged, Goto, After
  <2>2. CASE RLock(p)
    BY <2>2 DEF RLock, Goto
  <2>3. CASE RUnlock(p)
    BY <2>3 DEF RUnlock, Goto, After
  <2>4. ASSUME NEW s \in Subscribers, Deliver(p, s) PROVE Untouched'
    BY <2>4 DEF Deliver
  <2> QED
    BY <1>2, <2>1, <2>2, <2>3, <2>4 DEF Publish
<1>3. ASSUME NEW s \in Subscribers,
             Subscribe(s) \/ Receive(s) \/ Watch(s) \/ Leave(s) \/ FailWrite(s) \/ ClientGone(s)
      PROVE  Untouched'
  <2>1. CASE Register(s) \/ Replay(s) \/ SendSnapshot(s)
    BY <2>1 DEF Register, Replay, SendSnapshot, Goto
  <2>2. CASE Receive(s) \/ ClientGone(s)
    BY <2>2 DEF Receive, WriteFrame, ClientGone
  <2>3. CASE Watch(s) \/ Leave(s) \/ FailWrite(s)
    BY <2>3 DEF Watch, Leave, FailWrite, WriteFrame, Cancel, Goto
  <2> QED
    BY <1>3, <2>1, <2>2, <2>3 DEF Subscribe
<1>4. CASE UNCHANGED streamVars
  BY <1>4 DEF streamVars
<1> QED
  BY <1>1, <1>2, <1>3, <1>4 DEF StreamNext

\* The property in terms of the names above.
LEMMA DeliveredAs ==
  DeliveredUnlessFull <=> \A s \in subscribed : due[s] = missed[s] \cup Reached(s) \cup Pending(s)
BY DEF DeliveredUnlessFull, Reached, Pending

\* What a subscriber was sent and what it will be sent stays the same when
\* the handler takes the next event from the channel, or when nothing moves.
LEMMA ReceiveKeepsReached ==
  ASSUME StreamTypeOK, NEW r \in Subscribers, WriteFrame(r), NEW s \in Subscribers
  PROVE  Reached(s)' = Reached(s)
<1>1. frames'[s] \o chan'[s] = frames[s] \o chan[s]
  <2>1. CASE s = r
    <3>1. frames'[s] = Append(frames[s], Head(chan[s])) /\ chan'[s] = Tail(chan[s]) /\ chan[s] # <<>>
      BY <2>1 DEF WriteFrame, StreamTypeOK
    <3>2. frames[s] \in Seq(Events) /\ chan[s] \in Seq(Events)
      BY DEF StreamTypeOK
    <3> QED
      BY <3>1, <3>2, MovedHead
  <2>2. CASE s # r
    BY <2>2 DEF WriteFrame, StreamTypeOK
  <2> QED
    BY <2>1, <2>2
<1> QED
  BY <1>1 DEF Reached

\* A send adds the event, unless it is a snapshot.
LEMMA SendAddsReached ==
  ASSUME StreamTypeOK, NEW r \in Subscribers, NEW e \in Events, frames' = frames,
         chan' = [chan EXCEPT ![r] = Append(@, e)]
  PROVE  /\ \A s \in Subscribers : s # r => Reached(s)' = Reached(s)
         /\ e.kind = "snapshot" => Reached(r)' = Reached(r)
         /\ e.kind # "snapshot" => Reached(r)' = Reached(r) \cup {e}
<1>1. \A s \in Subscribers : s # r => Reached(s)' = Reached(s)
  BY DEF StreamTypeOK, Reached
<1>2. ToSet(frames'[r] \o chan'[r]) = ToSet(frames[r] \o chan[r]) \cup {e}
  <2>1. frames[r] \in Seq(Events) /\ chan[r] \in Seq(Events)
    BY DEF StreamTypeOK
  <2>2. ToSet(frames[r] \o Append(chan[r], e)) = ToSet(frames[r] \o chan[r]) \cup {e}
    BY <2>1, AppendedSet
  <2>3. frames'[r] = frames[r] /\ chan'[r] = Append(chan[r], e)
    BY DEF StreamTypeOK
  <2> QED
    BY <2>2, <2>3
<1> QED
  BY <1>1, <1>2 DEF Reached

\* Each step keeps what is due accounted for.
LEMMA DeliveryKept ==
  ASSUME BrokerInv, BrokerInv', NoSnapshot, Untouched, DeliveredUnlessFull, [StreamNext]_streamVars
  PROVE  DeliveredUnlessFull'
<1> DEFINE Ok(s) == due[s] = missed[s] \cup Reached(s) \cup Pending(s)
<1>0. StreamTypeOK /\ \A s \in subscribed : Ok(s)
  BY DeliveredAs DEF BrokerInv
<1> SUFFICES \A s \in subscribed' : Ok(s)'
  BY DeliveredAs DEF DeliveredUnlessFull, Reached, Pending
<1> USE DEF brokerVars, histVars
<1>1. ASSUME subscribed' \subseteq subscribed, UNCHANGED <<frames, chan, due, missed>>,
             \A s \in subscribed : Pending(s)' = Pending(s)
      PROVE  \A s \in subscribed' : Ok(s)'
  BY <1>0, <1>1 DEF Reached
<1>2. ASSUME NEW p \in Procs, Publish(p) PROVE \A s \in subscribed' : Ok(s)'
  <2>1. CASE Probe(p) \/ CacheSame(p) \/ CacheChanged(p) \/ RUnlock(p)
    <3>1. \A s \in subscribed : Pending(s)' = Pending(s)
      <4>1. \A q \in Procs \ {p} : pc'[q] = pc[q] /\ ev'[q] = ev[q] /\ left'[q] = left[q]
        BY <2>1, <1>0 DEF Probe, CacheSame, CacheChanged, RUnlock, Goto, StreamTypeOK
      <4>2. pc'[p] # "fanout"
        BY <2>1, <1>0 DEF Probe, CacheSame, CacheChanged, RUnlock, Goto, After, StreamTypeOK
      <4>3. pc[p] = "fanout" => left[p] = {}
        BY <2>1, <1>0 DEF Probe, CacheSame, CacheChanged, RUnlock, Goto, StreamTypeOK
      <4> QED
        BY <4>1, <4>2, <4>3 DEF Pending
    <3>2. subscribed' = subscribed /\ UNCHANGED <<frames, chan, due, missed>>
      BY <2>1 DEF Probe, CacheSame, CacheChanged, RUnlock
    <3> QED
      BY <3>1, <3>2, <1>1
  <2>2. CASE RLock(p)
    <3>1. \A s \in subscribed : Pending(s)' = Pending(s) \cup {ev[p]}
      <4>1. \A q \in Procs \ {p} : pc'[q] = pc[q] /\ left'[q] = left[q]
        BY <2>2, <1>0 DEF RLock, Goto, StreamTypeOK
      <4>2. pc[p] = "lock" /\ pc'[p] = "fanout" /\ left'[p] = subscribed /\ ev' = ev
        BY <2>2, <1>0 DEF RLock, Goto, StreamTypeOK
      <4> QED
        BY <4>1, <4>2 DEF Pending
    <3>2. \A s \in subscribed : s \in Subscribers /\ due'[s] = due[s] \cup {ev[p]}
      BY <2>2, <1>0 DEF RLock, StreamTypeOK
    <3>3. subscribed' = subscribed /\ missed' = missed /\ UNCHANGED <<frames, chan>>
      BY <2>2 DEF RLock
    <3>4. \A s \in subscribed : Reached(s)' = Reached(s)
      BY <3>3 DEF Reached
    <3> QED
      BY <3>1, <3>2, <3>3, <3>4, <1>0
  <2>3. ASSUME NEW r \in Subscribers, Deliver(p, r) PROVE \A s \in subscribed' : Ok(s)'
    <3>1. pc' = pc /\ ev' = ev /\ pc[p] = "fanout" /\ r \in left[p] /\ due' = due
          /\ subscribed' = subscribed /\ frames' = frames
      BY <2>3 DEF Deliver
    <3>2. left' = [left EXCEPT ![p] = @ \ {r}]
      BY <2>3 DEF Deliver
    <3>3. \A s \in Subscribers : s # r => Pending(s)' = Pending(s)
      <4>1. \A q \in Procs, s \in Subscribers : s # r => (s \in left'[q] <=> s \in left[q])
        BY <3>2, <1>0 DEF StreamTypeOK
      <4> QED
        BY <3>1, <4>1 DEF Pending
    <3>4. Pending(r) = Pending(r)' \cup {ev[p]}
      <4>1. \A q \in Procs : r \in left'[q] <=> (r \in left[q] /\ q # p)
        BY <3>2, <1>0 DEF StreamTypeOK
      <4> QED
        BY <3>1, <4>1 DEF Pending
    <3>5. subscribed \subseteq Subscribers /\ ev[p] \in Events /\ ev[p].kind # "snapshot"
      BY <1>0 DEF StreamTypeOK, NoSnapshot
    <3>6. CASE chan' = [chan EXCEPT ![r] = Append(@, ev[p])] /\ missed' = missed
      <4>1. /\ \A s \in Subscribers : s # r => Reached(s)' = Reached(s)
            /\ Reached(r)' = Reached(r) \cup {ev[p]}
        BY <3>1, <3>5, <3>6, <1>0, SendAddsReached
      <4>2. ASSUME NEW s \in subscribed, s # r PROVE Ok(s)'
        BY <4>1, <4>2, <3>1, <3>3, <3>5, <3>6, <1>0
      <4>3. ASSUME r \in subscribed PROVE Ok(r)'
        BY <4>1, <4>3, <3>1, <3>4, <3>6, <1>0
      <4> QED
        BY <4>2, <4>3, <3>1
    <3>7. CASE missed' = [missed EXCEPT ![r] = @ \cup {ev[p]}] /\ chan' = chan
      <4>1. \A s \in Subscribers : Reached(s)' = Reached(s)
        BY <3>1, <3>7 DEF Reached
      <4>2. missed'[r] = missed[r] \cup {ev[p]} /\ \A s \in Subscribers : s # r => missed'[s] = missed[s]
        BY <3>7, <1>0 DEF StreamTypeOK
      <4>3. ASSUME NEW s \in subscribed PROVE Ok(s)'
        BY <4>1, <4>2, <3>1, <3>3, <3>4, <3>5, <1>0
      <4> QED
        BY <4>3, <3>1
    <3> QED
      BY <3>6, <3>7, <2>3 DEF Deliver
  <2> QED
    BY <1>2, <2>1, <2>2, <2>3 DEF Publish
<1>3. ASSUME NEW r \in Subscribers, Register(r) PROVE \A s \in subscribed' : Ok(s)'
  <2>1. pc[r] = "register" /\ subscribed' = subscribed \cup {r} /\ NoReader
        /\ UNCHANGED <<ev, left, frames, chan, due, missed>> /\ pc' = [pc EXCEPT ![r] = "replay"]
    BY <1>3 DEF Register, Goto
  <2>2. \A s \in Subscribers : Pending(s) = {} /\ Pending(s)' = {}
    <3>1. \A q \in Procs : pc[q] # "fanout" /\ pc'[q] # "fanout"
      BY <2>1, <1>0 DEF NoReader, StreamTypeOK
    <3> QED
      BY <3>1 DEF Pending
  <2>3. due[r] = {} /\ missed[r] = {} /\ frames[r] = <<>> /\ chan[r] = <<>>
    BY <2>1 DEF Untouched
  <2>4. Reached(r) = {}
    <3>1. frames[r] \o chan[r] = <<>>
      BY <2>3
    <3>2. ToSet(<<>>) = {}
      BY DEF ToSet
    <3> QED
      BY <3>1, <3>2 DEF Reached
  <2>5. \A s \in Subscribers : Reached(s)' = Reached(s)
    BY <2>1 DEF Reached
  <2> QED
    BY <2>1, <2>2, <2>3, <2>4, <2>5, <1>0 DEF StreamTypeOK
<1>4. ASSUME NEW r \in Subscribers, Replay(r) \/ SendSnapshot(r) \/ Receive(r) \/ Watch(r)
                                     \/ Leave(r) \/ FailWrite(r) \/ ClientGone(r)
      PROVE  \A s \in subscribed' : Ok(s)'
  <2>1. \A s \in Subscribers : Pending(s)' = Pending(s)
    <3>1. ev' = ev /\ left' = left /\ \A q \in Procs : pc[q] = "fanout" <=> pc'[q] = "fanout"
      BY <1>4, <1>0 DEF Replay, SendSnapshot, Receive, Watch, Leave, FailWrite, ClientGone, Goto,
                        StreamTypeOK
    <3> QED
      BY <3>1 DEF Pending
  <2>2. subscribed' \subseteq subscribed /\ due' = due /\ missed' = missed
    BY <1>4 DEF Replay, SendSnapshot, Receive, Watch, Leave, FailWrite, ClientGone, Cancel
  <2>3. \A s \in Subscribers : Reached(s)' = Reached(s)
    <3>1. CASE WriteFrame(r)
      BY <3>1, <1>0, ReceiveKeepsReached
    <3>2. CASE SendSnapshot(r)
      <4>1. StateEvent("snapshot", r, snap[r]) \in Events
            /\ StateEvent("snapshot", r, snap[r]).kind = "snapshot"
        BY <1>0, EventTypes DEF StreamTypeOK, StateEvent
      <4>2. frames' = frames
            /\ chan' = [chan EXCEPT ![r] = Append(@, StateEvent("snapshot", r, snap[r]))]
        BY <3>2 DEF SendSnapshot
      <4> QED
        BY <4>1, <4>2, <1>0, SendAddsReached
    <3>3. CASE UNCHANGED <<chan, frames>>
      BY <3>3 DEF Reached
    <3> QED
      BY <1>4, <3>1, <3>2, <3>3 DEF Replay, Receive, Watch, Leave, FailWrite, ClientGone, brokerVars, histVars
  <2> QED
    BY <2>1, <2>2, <2>3, <1>0 DEF StreamTypeOK
<1>5. CASE DatabaseChange \/ UNCHANGED streamVars
  <2>1. subscribed' = subscribed /\ UNCHANGED <<frames, chan, due, missed, pc, ev, left>>
    BY <1>5 DEF DatabaseChange, streamVars
  <2>2. \A s \in subscribed : Pending(s)' = Pending(s)
    BY <2>1 DEF Pending
  <2> QED
    BY <2>1, <2>2, <1>1
<1> QED
  BY <1>2, <1>3, <1>4, <1>5 DEF StreamNext, Subscribe

\* The first state.
LEMMA InitDelivery == StreamInit => NoSnapshot /\ Untouched /\ DeliveredUnlessFull
<1> SUFFICES ASSUME StreamInit PROVE NoSnapshot /\ Untouched /\ DeliveredUnlessFull
  OBVIOUS
<1>1. NoSnapshot /\ Untouched
  BY DEF StreamInit, NoSnapshot, Untouched, JobEvent
<1>2. subscribed = {}
  BY DEF StreamInit
<1> QED
  BY <1>1, <1>2 DEF DeliveredUnlessFull

\* Whatever is published while a subscriber is in the map reaches its channel
\* unless that is full at the time, however publishers, Subscribe, cancel and
\* handlers interleave (Publish in broker.go).
THEOREM DeliveryIsComplete == StreamSpec => []DeliveredUnlessFull
<1> DEFINE DeliveryInv == BrokerInv /\ NoSnapshot /\ Untouched /\ DeliveredUnlessFull
<1>1. StreamInit => DeliveryInv
  BY StreamInitInv, InitDelivery
<1>2. DeliveryInv /\ [StreamNext]_streamVars => DeliveryInv'
  BY TypeKept, AgreementKept, SnapshotsNever, UntouchedKept, DeliveryKept DEF BrokerInv
<1>3. DeliveryInv => DeliveredUnlessFull
  OBVIOUS
<1> QED
  BY <1>1, <1>2, <1>3, PTL DEF StreamSpec

(***************************************************************************)
(* The order of what a subscriber sees.                                    *)
(***************************************************************************)
Seen(s) == frames[s] \o chan[s]

Ordered(seen) ==
    \A m, n \in 1..Len(seen) : m < n =>
       /\ seen[m] # seen[n]
       /\ seen[m].src = seen[n].src => seen[m].state # "ended"

\* What a publisher has in hand is its own, and only runs publish an end.
Own == \A p \in Procs :
          ev[p].src = p /\ ev[p].kind # "snapshot" /\ (ev[p].state = "ended" => p \in Runs)

\* A snapshot is sent by the subscriber itself, once.
OwnSnapshot ==
    \A s \in Subscribers : \A e \in ToSet(Seen(s)) : e.kind = "snapshot" =>
       e.src = s /\ e.state # "ended" /\ pc[s] \in {"loop", "end"}

\* What a subscriber has seen of publisher p came before what p still has to
\* send to it.
Before(p, s) ==
    \A e \in ToSet(Seen(s)) : e.src = p /\ e.kind # "snapshot" =>
       /\ pc[p] \notin {"probe", "cache"}
       /\ ev[p].state # "ended" => e.state # "ended"
       /\ pc[p] = "lock" \/ (pc[p] = "fanout" /\ s \in left[p]) =>
             e # ev[p] /\ e.state # "ended"

OrderInv ==
    /\ Own /\ OwnSnapshot
    /\ \A p \in Procs, s \in Subscribers : Before(p, s)
    /\ \A s \in Subscribers : Ordered(Seen(s))

\* An event that no earlier one equals, and of whose publisher no end was
\* seen, may be sent.
LEMMA AppendOrdered ==
  ASSUME NEW f \in Seq(Events), NEW c \in Seq(Events), NEW e \in Events, Ordered(f \o c),
         \A x \in ToSet(f \o c) : x # e /\ (x.src = e.src => x.state # "ended")
  PROVE  Ordered(f \o Append(c, e))
<1> DEFINE u == f \o c
           v == f \o Append(c, e)
<1>1. Len(v) = Len(u) + 1 /\ v[Len(u) + 1] = e /\ Len(u) \in Nat
  OBVIOUS
<1>2. \A i \in 1..Len(u) : v[i] = u[i]
  OBVIOUS
<1>3. \A i \in 1..Len(u) : u[i] # e /\ (u[i].src = e.src => u[i].state # "ended")
  BY DEF ToSet
<1>4. Ordered(u)
  OBVIOUS
<1> HIDE DEF u, v
<1>5. ASSUME NEW m \in 1..Len(v), NEW n \in 1..Len(v), m < n
      PROVE  v[m] # v[n] /\ (v[m].src = v[n].src => v[m].state # "ended")
  <2>1. m \in 1..Len(u)
    BY <1>1, <1>5
  <2>2. CASE n = Len(u) + 1
    BY <1>1, <1>2, <1>3, <2>1, <2>2
  <2>3. CASE n # Len(u) + 1
    <3>1. n \in 1..Len(u)
      BY <1>1, <2>3
    <3> QED
      BY <1>2, <1>4, <1>5, <2>1, <3>1 DEF Ordered
  <2> QED
    BY <2>2, <2>3
<1> QED
  BY <1>5 DEF Ordered, v

\* What a send makes of what subscribers have seen.
LEMMA SendSeen ==
  ASSUME StreamTypeOK, NEW r \in Subscribers, NEW e \in Events, frames' = frames,
         chan' = [chan EXCEPT ![r] = Append(@, e)]
  PROVE  /\ \A s \in Subscribers : s # r => Seen(s)' = Seen(s)
         /\ Seen(r)' = frames[r] \o Append(chan[r], e)
         /\ ToSet(Seen(r)') = ToSet(Seen(r)) \cup {e}
<1>1. /\ \A s \in Subscribers : s # r => Seen(s)' = Seen(s)
      /\ Seen(r)' = frames[r] \o Append(chan[r], e)
  BY DEF StreamTypeOK, Seen
<1>2. frames[r] \in Seq(Events) /\ chan[r] \in Seq(Events)
  BY DEF StreamTypeOK
<1>3. ToSet(frames[r] \o Append(chan[r], e)) = ToSet(frames[r] \o chan[r]) \cup {e}
  BY <1>2, AppendedSet
<1>4. ToSet(Seen(r)') = ToSet(Seen(r)) \cup {e}
  BY <1>1, <1>3 DEF Seen
<1> QED
  BY <1>1, <1>4

\* The steps that send nothing leave what was seen as it was.
LEMMA NothingSent ==
  ASSUME OrderInv, \A s \in Subscribers : Seen(s)' = Seen(s), Own',
         \A s \in Subscribers : pc[s] \in {"loop", "end"} => pc'[s] \in {"loop", "end"},
         \A p \in Procs, s \in Subscribers : Before(p, s)'
  PROVE  OrderInv'
<1>1. OwnSnapshot'
  <2>1. ASSUME NEW s \in Subscribers, NEW e \in ToSet(Seen(s)'), e.kind = "snapshot"
        PROVE  e.src = s /\ e.state # "ended" /\ pc'[s] \in {"loop", "end"}
    <3>1. e \in ToSet(Seen(s))
      BY <2>1
    <3> QED
      BY <2>1, <3>1 DEF OrderInv, OwnSnapshot
  <2> QED
    BY <2>1 DEF OwnSnapshot
<1>2. \A s \in Subscribers : Ordered(Seen(s))'
  BY DEF OrderInv, Ordered
<1> QED
  BY <1>1, <1>2 DEF OrderInv

\* Publishers that touch no channel keep the order.
LEMMA PublishKeepsOrder ==
  ASSUME BrokerInv, OrderInv, NEW p \in Procs,
         Probe(p) \/ CacheSame(p) \/ CacheChanged(p) \/ RLock(p) \/ RUnlock(p)
  PROVE  OrderInv'
<1>1. StreamTypeOK /\ BrokerAssumption
  BY BrokerAssumption DEF BrokerInv
<1>2. /\ frames' = frames /\ chan' = chan
      /\ \A q \in Procs \ {p} : pc'[q] = pc[q] /\ ev'[q] = ev[q] /\ left'[q] = left[q]
  BY <1>1 DEF Probe, CacheSame, CacheChanged, RLock, RUnlock, Goto, StreamTypeOK, brokerVars, histVars
<1>3. \A s \in Subscribers : Seen(s)' = Seen(s)
  BY <1>2 DEF Seen
<1>4. pc[p] \notin {"loop", "end"}
  BY DEF Probe, CacheSame, CacheChanged, RLock, RUnlock, Goto
<1>5. Own'
  <2>0. Own
    BY DEF OrderInv
  <2>1. CASE CacheChanged(p)
    <3>1. ev'[p] = StateEvent("changed", p, snap[p]) /\ snap[p] # "ended"
      BY <1>1, <2>1 DEF CacheChanged, StreamTypeOK, States
    <3> QED
      BY <1>2, <2>0, <3>1 DEF Own, StateEvent
  <2>2. CASE RUnlock(p) /\ p \in Runs /\ ev[p].state = "running"
    <3>1. ev'[p] = JobEvent(p, "ended")
      BY <1>1, <2>2 DEF RUnlock, StreamTypeOK
    <3> QED
      BY <1>2, <2>0, <2>2, <3>1 DEF Own, JobEvent
  <2>3. CASE Probe(p) \/ CacheSame(p) \/ RLock(p) \/ (RUnlock(p) /\ ~(p \in Runs /\ ev[p].state = "running"))
    <3>1. ev' = ev
      BY <2>3 DEF Probe, CacheSame, RLock, RUnlock
    <3> QED
      BY <2>0, <3>1 DEF Own
  <2> QED
    BY <2>1, <2>2, <2>3
<1>6. ASSUME NEW s \in Subscribers
      PROVE  Before(p, s)'
  <2>0. Before(p, s) /\ Own
    BY DEF OrderInv
  <2>1. CASE Probe(p) \/ CacheSame(p)
    <3>1. pc[p] \in {"probe", "cache"} /\ ev' = ev
      BY <2>1 DEF Probe, CacheSame, Goto
    <3> QED
      BY <2>0, <3>1, <1>3 DEF Before, Own
  <2>2. CASE CacheChanged(p)
    <3>1. pc[p] = "cache" /\ ev' = [ev EXCEPT ![p] = StateEvent("changed", p, snap[p])]
      BY <2>2 DEF CacheChanged, Goto
    <3> QED
      BY <2>0, <3>1, <1>3 DEF Before
  <2>3. CASE RLock(p)
    <3>1. pc[p] = "lock" /\ pc'[p] = "fanout" /\ ev' = ev
      BY <1>1, <2>3 DEF RLock, Goto, StreamTypeOK
    <3> QED
      BY <2>0, <3>1, <1>3 DEF Before, Own
  <2>4. CASE RUnlock(p) /\ p \in Runs /\ ev[p].state = "running"
    <3>1. pc'[p] = "lock" /\ ev' = [ev EXCEPT ![p] = JobEvent(p, "ended")] /\ pc[p] = "fanout"
      BY <1>1, <2>4 DEF RUnlock, Goto, StreamTypeOK
    <3>2. ev'[p] = JobEvent(p, "ended") /\ ev'[p].state = "ended" /\ ev'[p].src = p
          /\ ev'[p].kind # "snapshot"
      BY <1>1, <3>1 DEF StreamTypeOK, JobEvent
    <3>4. \A e \in ToSet(Seen(s)) : e.src = p /\ e.kind # "snapshot" => e.state # "ended"
      BY <2>0, <2>4 DEF Before
    <3> QED
      BY <1>3, <3>1, <3>2, <3>4 DEF Before
  <2>5. CASE RUnlock(p) /\ ~(p \in Runs /\ ev[p].state = "running")
    <3>1. pc'[p] \in {"register", "end"} /\ ev' = ev /\ pc[p] = "fanout"
      BY <1>1, <2>5 DEF RUnlock, Goto, After, StreamTypeOK
    <3> QED
      BY <2>0, <3>1, <1>3 DEF Before, Own
  <2> QED
    BY <2>1, <2>2, <2>3, <2>4, <2>5
<1>7. ASSUME NEW q \in Procs, NEW s \in Subscribers PROVE Before(q, s)'
  <2>1. CASE q = p
    BY <1>6, <2>1
  <2>2. CASE q # p
    <3>1. Before(q, s)
      BY DEF OrderInv
    <3> QED
      BY <1>2, <1>3, <2>2, <3>1 DEF Before
  <2> QED
    BY <2>1, <2>2
<1> QED
  BY <1>2, <1>3, <1>4, <1>5, <1>7, NothingSent

\* A send of a fan-out keeps the order: the channel has not been visited, and
\* what it has of the publisher came before.
LEMMA DeliverKeepsOrder ==
  ASSUME BrokerInv, OrderInv, NEW p \in Procs, NEW r \in Subscribers, Deliver(p, r)
  PROVE  OrderInv'
<1>1. StreamTypeOK
  BY DEF BrokerInv
<1>2. /\ pc[p] = "fanout" /\ r \in left[p] /\ pc' = pc /\ ev' = ev /\ frames' = frames
      /\ left' = [left EXCEPT ![p] = @ \ {r}]
  BY DEF Deliver
<1>3. /\ Own' /\ ev[p] \in Events
      /\ ev[p].src = p /\ ev[p].kind # "snapshot"
  BY <1>1, <1>2 DEF OrderInv, Own, StreamTypeOK
<1>4. /\ \A q \in Procs : left'[q] \subseteq left[q]
      /\ r \notin left'[p]
  BY <1>1, <1>2 DEF StreamTypeOK
<1>5. CASE chan' = chan
  <2>1. \A s \in Subscribers : Seen(s)' = Seen(s)
    BY <1>2, <1>5 DEF Seen
  <2>2. ASSUME NEW q \in Procs, NEW s \in Subscribers PROVE Before(q, s)'
    <3>1. Before(q, s)
      BY DEF OrderInv
    <3> QED
      BY <1>2, <1>4, <2>1, <3>1 DEF Before
  <2> QED
    BY <1>2, <1>3, <2>1, <2>2, NothingSent
<1>6. CASE chan' = [chan EXCEPT ![r] = Append(@, ev[p])]
  <2>1. /\ \A s \in Subscribers : s # r => Seen(s)' = Seen(s)
        /\ Seen(r)' = frames[r] \o Append(chan[r], ev[p])
        /\ ToSet(Seen(r)') = ToSet(Seen(r)) \cup {ev[p]}
    BY <1>1, <1>2, <1>3, <1>6, SendSeen
  <2>2. ASSUME NEW q \in Procs, NEW s \in Subscribers PROVE Before(q, s)'
    <3>1. Before(q, s)
      BY DEF OrderInv
    <3>2. ASSUME NEW e \in ToSet(Seen(s)'), e.src = q, e.kind # "snapshot"
          PROVE  /\ pc'[q] \notin {"probe", "cache"}
                 /\ ev'[q].state # "ended" => e.state # "ended"
                 /\ pc'[q] = "lock" \/ (pc'[q] = "fanout" /\ s \in left'[q]) =>
                       e # ev'[q] /\ e.state # "ended"
      <4>1. CASE e \in ToSet(Seen(s))
        BY <1>2, <1>4, <3>1, <3>2, <4>1 DEF Before
      <4>2. CASE e \notin ToSet(Seen(s))
        <5>1. s = r /\ e = ev[p]
          BY <2>1, <3>2, <4>2
        <5>2. q = p
          BY <1>3, <3>2, <5>1
        <5> QED
          BY <1>2, <1>4, <5>1, <5>2
      <4> QED
        BY <4>1, <4>2
    <3> QED
      BY <3>2 DEF Before
  <2>3. OwnSnapshot'
    <3>1. ASSUME NEW s \in Subscribers, NEW e \in ToSet(Seen(s)'), e.kind = "snapshot"
          PROVE  e.src = s /\ e.state # "ended" /\ pc'[s] \in {"loop", "end"}
      <4>1. e \in ToSet(Seen(s))
        BY <1>3, <2>1, <3>1
      <4> QED
        BY <1>2, <3>1, <4>1 DEF OrderInv, OwnSnapshot
    <3> QED
      BY <3>1 DEF OwnSnapshot
  <2>4. ASSUME NEW x \in ToSet(frames[r] \o chan[r])
        PROVE  x # ev[p] /\ (x.src = ev[p].src => x.state # "ended")
    <3>1. x \in ToSet(Seen(r))
      BY DEF Seen
    <3>2. CASE x.kind = "snapshot"
      BY <1>3, <3>1, <3>2 DEF OrderInv, OwnSnapshot
    <3>3. CASE x.kind # "snapshot"
      <4>1. Before(p, r)
        BY DEF OrderInv
      <4> QED
        BY <1>2, <1>3, <3>1, <3>3, <4>1 DEF Before
    <3> QED
      BY <3>2, <3>3
  <2>5. Ordered(Seen(r)')
    <3>1. Ordered(frames[r] \o chan[r])
      BY DEF OrderInv, Seen
    <3>2. frames[r] \in Seq(Events) /\ chan[r] \in Seq(Events)
      BY <1>1 DEF StreamTypeOK
    <3>3. Ordered(frames[r] \o Append(chan[r], ev[p]))
      BY <1>3, <2>4, <3>1, <3>2, AppendOrdered
    <3> QED
      BY <2>1, <3>3
  <2>6. \A s \in Subscribers : Ordered(Seen(s)')
    BY <2>1, <2>5 DEF OrderInv
  <2> QED
    BY <1>3, <2>2, <2>3, <2>6 DEF OrderInv, Ordered
<1>7. chan' = chan \/ chan' = [chan EXCEPT ![r] = Append(@, ev[p])]
  BY DEF Deliver
<1> QED
  BY <1>5, <1>6, <1>7

\* So does the snapshot that Subscribe sends: nothing of its own request that
\* it has seen is an end, and it sends no second one.
LEMMA SnapshotKeepsOrder ==
  ASSUME BrokerInv, OrderInv, NEW r \in Subscribers, SendSnapshot(r)
  PROVE  OrderInv'
<1> DEFINE snapshot == StateEvent("snapshot", r, snap[r])
<1>1. StreamTypeOK /\ BrokerAssumption /\ r \in Procs /\ r \notin Runs
  BY BrokerAssumption DEF BrokerInv
<1>2. /\ pc[r] = "send" /\ pc' = [pc EXCEPT ![r] = "loop"] /\ ev' = ev /\ left' = left /\ frames' = frames
      /\ chan' = [chan EXCEPT ![r] = Append(@, snapshot)]
  BY DEF SendSnapshot, Goto, histVars
<1>3. /\ snapshot \in Events /\ snapshot.src = r /\ snapshot.kind = "snapshot"
      /\ snapshot.state # "ended"
  <2>1. snap[r] \in States /\ snap[r] # "ended"
    BY <1>1 DEF StreamTypeOK, States
  <2> QED
    BY <1>1, <2>1, EventTypes DEF StateEvent
<1> HIDE DEF snapshot
<1>4. Own' /\ Own
  BY <1>2 DEF OrderInv, Own
<1>5. /\ \A s \in Subscribers : s # r => Seen(s)' = Seen(s)
      /\ Seen(r)' = frames[r] \o Append(chan[r], snapshot)
      /\ ToSet(Seen(r)') = ToSet(Seen(r)) \cup {snapshot}
  BY <1>1, <1>2, <1>3, SendSeen
<1>6. pc'[r] = "loop" /\ \A q \in Procs : q # r => pc'[q] = pc[q]
  BY <1>1, <1>2 DEF StreamTypeOK
<1>7. ASSUME NEW q \in Procs, NEW s \in Subscribers PROVE Before(q, s)'
  <2>1. Before(q, s)
    BY DEF OrderInv
  <2>2. ASSUME NEW e \in ToSet(Seen(s)'), e.kind # "snapshot" PROVE e \in ToSet(Seen(s))
    BY <1>3, <1>5, <2>2
  <2> QED
    BY <1>2, <1>6, <2>1, <2>2 DEF Before
<1>8. OwnSnapshot'
  <2>1. ASSUME NEW s \in Subscribers, NEW e \in ToSet(Seen(s)'), e.kind = "snapshot"
        PROVE  e.src = s /\ e.state # "ended" /\ pc'[s] \in {"loop", "end"}
    <3>1. CASE e \in ToSet(Seen(s))
      BY <1>1, <1>6, <2>1, <3>1 DEF OrderInv, OwnSnapshot
    <3>2. CASE e \notin ToSet(Seen(s))
      BY <1>3, <1>5, <1>6, <2>1, <3>2
    <3> QED
      BY <3>1, <3>2
  <2> QED
    BY <2>1 DEF OwnSnapshot
<1>9. ASSUME NEW x \in ToSet(frames[r] \o chan[r])
      PROVE  x # snapshot /\ (x.src = snapshot.src => x.state # "ended")
  <2>1. x \in ToSet(Seen(r))
    BY DEF Seen
  <2>2. x.kind # "snapshot"
    BY <1>2, <2>1 DEF OrderInv, OwnSnapshot
  <2>3. Before(r, r)
    BY <1>1 DEF OrderInv
  <2>4. ev[r].state # "ended"
    BY <1>1, <1>4 DEF Own
  <2> QED
    BY <1>3, <2>1, <2>2, <2>3, <2>4 DEF Before
<1>10. Ordered(Seen(r)')
  <2>1. Ordered(frames[r] \o chan[r])
    BY DEF OrderInv, Seen
  <2>2. frames[r] \in Seq(Events) /\ chan[r] \in Seq(Events)
    BY <1>1 DEF StreamTypeOK
  <2>3. Ordered(frames[r] \o Append(chan[r], snapshot))
    BY <1>3, <1>9, <2>1, <2>2, AppendOrdered
  <2> QED
    BY <1>5, <2>3
<1>11. \A s \in Subscribers : Ordered(Seen(s)')
  BY <1>5, <1>10 DEF OrderInv
<1> QED
  BY <1>4, <1>7, <1>8, <1>11 DEF OrderInv, Ordered

\* Each step keeps the order.
LEMMA OrderKept == ASSUME BrokerInv, OrderInv, [StreamNext]_streamVars PROVE OrderInv'
<1>1. StreamTypeOK
  BY DEF BrokerInv
<1>2. ASSUME NEW p \in Procs, Publish(p) PROVE OrderInv'
  BY <1>2, PublishKeepsOrder, DeliverKeepsOrder DEF Publish
<1>3. ASSUME ev' = ev, left' = left, \A s \in Subscribers : Seen(s)' = Seen(s),
             \A q \in Procs : pc'[q] # pc[q] => pc'[q] \in {"replay", "send", "loop", "end"},
             \A s \in Subscribers : pc[s] \in {"loop", "end"} => pc'[s] \in {"loop", "end"}
      PROVE  OrderInv'
  <2>1. Own'
    BY <1>3 DEF OrderInv, Own
  <2>2. ASSUME NEW q \in Procs, NEW s \in Subscribers PROVE Before(q, s)'
    <3>1. Before(q, s)
      BY DEF OrderInv
    <3> QED
      BY <1>3, <3>1 DEF Before
  <2> QED
    BY <1>3, <2>1, <2>2, NothingSent
<1>4. ASSUME NEW r \in Subscribers,
             \/ Register(r) \/ Replay(r) \/ Receive(r) \/ Watch(r)
             \/ Leave(r) \/ FailWrite(r) \/ ClientGone(r)
      PROVE  OrderInv'
  <2>1. ev' = ev /\ left' = left
    BY <1>4 DEF Register, Replay, Receive, Watch, Leave, FailWrite, ClientGone
  <2>2. \A s \in Subscribers : Seen(s)' = Seen(s)
    <3>1. CASE WriteFrame(r)
      <4>1. ASSUME NEW s \in Subscribers, s # r PROVE Seen(s)' = Seen(s)
        BY <1>1, <3>1, <4>1 DEF WriteFrame, Seen, StreamTypeOK
      <4>2. frames'[r] = Append(frames[r], Head(chan[r])) /\ chan'[r] = Tail(chan[r]) /\ chan[r] # <<>>
        BY <1>1, <3>1 DEF WriteFrame, StreamTypeOK
      <4>3. frames[r] \in Seq(Events) /\ chan[r] \in Seq(Events)
        BY <1>1 DEF StreamTypeOK
      <4>4. Seen(r)' = Seen(r)
        BY <4>2, <4>3, MovedHead DEF Seen
      <4> QED
        BY <4>1, <4>4
    <3>2. CASE UNCHANGED <<chan, frames>>
      BY <3>2 DEF Seen
    <3> QED
      BY <1>4, <3>1, <3>2 DEF Register, Replay, Receive, Watch, Leave, FailWrite, ClientGone, histVars,
                              brokerVars
  <2>3. \A q \in Procs : pc'[q] # pc[q] =>
           pc'[q] \in {"replay", "send", "loop", "end"} /\ pc[q] # "end"
           /\ (pc[q] = "loop" => pc'[q] = "end")
    BY <1>1, <1>4 DEF Register, Replay, Receive, Watch, Leave, FailWrite, ClientGone, Goto, StreamTypeOK
  <2>4. Subscribers \subseteq Procs
    OBVIOUS
  <2> QED
    BY <1>3, <2>1, <2>2, <2>3, <2>4
<1>5. CASE DatabaseChange \/ UNCHANGED streamVars
  <2>1. ev' = ev /\ left' = left /\ pc' = pc /\ frames' = frames /\ chan' = chan
    BY <1>5 DEF DatabaseChange, streamVars, histVars, brokerVars
  <2>2. \A s \in Subscribers : Seen(s)' = Seen(s)
    BY <2>1 DEF Seen
  <2> QED
    BY <1>3, <2>1, <2>2
<1> QED
  BY <1>2, <1>4, <1>5, SnapshotKeepsOrder DEF StreamNext, Subscribe

\* A subscriber sees no event twice, and no event of a run after its end,
\* however many publishers there are and whatever its channel drops (Publish
\* and Subscribe in broker.go).
THEOREM OrderIsKept == StreamSpec => []RunsInOrder
<1>1. StreamInit => OrderInv
  <2> SUFFICES ASSUME StreamInit PROVE OrderInv
    OBVIOUS
  <2>1. Own
    BY DEF StreamInit, Own, JobEvent
  <2>2. \A s \in Subscribers : Seen(s) = <<>>
    BY DEF StreamInit, Seen
  <2>3. ToSet(<<>>) = {} /\ Ordered(<<>>)
    BY DEF ToSet, Ordered
  <2> QED
    BY <2>1, <2>2, <2>3 DEF OrderInv, OwnSnapshot, Before
<1>2. BrokerInv /\ OrderInv /\ [StreamNext]_streamVars => OrderInv'
  BY OrderKept
<1>3. OrderInv => RunsInOrder
  BY DEF OrderInv, RunsInOrder, Ordered, Seen
<1> QED
  BY StreamInvariance, <1>1, <1>2, <1>3, PTL DEF StreamSpec
=============================================================================
