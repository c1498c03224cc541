----------------------------- MODULE HttpServer -----------------------------
(***************************************************************************)
(* One API process from boot to exit: the middleware chain every request   *)
(* passes, the goroutines that outlive a request, and run() of             *)
(* cmd/stigman, which opens the pool, serves, and on a signal shuts down   *)
(* within a budget.                                                        *)
(*                                                                         *)
(* The chain, from the outside: Recoverer, request counter, timeout, auth, *)
(* rate limiter, audit, handler.  Requests run in goroutines of their own; *)
(* what they share is the limiter's buckets, the counter, the pool and the *)
(* audit log.  The data the handlers work on is in the other modules:      *)
(* here a handler is the time it holds a connection and the status it      *)
(* answers with.                                                           *)
(***************************************************************************)
EXTENDS TokenBucket, RequestStats, AccessToken, FiniteSets, Sequences

CONSTANTS NULL,
          Requests,        \* the requests
          Address,         \* the address each of them comes from
          Settings,        \* configurations, each with the requests that come
          RequestTimeout,  \* of middleware.Timeout, and of the server's writes
          ShutdownBudget,  \* what Shutdown and the wait for the scheduler share
          Faults           \* handlers panic and statements fail

\* The operations, one of each kind the chain tells apart: scope is what
\* requiredScope asks for, needs what the handler works with.
Operations ==
    [health  |-> [api |-> FALSE, mutates |-> FALSE, scope |-> {}, needs |-> "nothing"],
     env     |-> [api |-> FALSE, mutates |-> FALSE, scope |-> {}, needs |-> "nothing"],
     sse     |-> [api |-> TRUE, mutates |-> FALSE, scope |-> {}, needs |-> "stream"],
     appinfo |-> [api |-> TRUE, mutates |-> FALSE, scope |-> {<<"op", TRUE>>}, needs |-> "pool"],
     replace |-> [api |-> TRUE, mutates |-> TRUE, scope |-> {<<"op", FALSE>>}, needs |-> "nothing"],
     create  |-> [api |-> TRUE, mutates |-> TRUE, scope |-> {<<"collection", FALSE>>},
                  needs |-> "pool"]]

Statuses == {200, 401, 403, 429, 500, 503, 504}
\* What is counted for a request.
Sample == [ms : Nat, status : Statuses, routed : BOOLEAN]

\* A configuration: STIGMAN_DATABASE_URL, STIGMAN_SCHEDULER_ENABLED, whether
\* an OIDC issuer is configured, STIGMAN_RATE_LIMIT_ENABLED; and the requests
\* of the behaviour, each with its operation and its bearer token.  The clock
\* is bounded: it stops at until.
ASSUME ServerAssumption ==
    /\ RequestTimeout \in Nat /\ ShutdownBudget \in Nat
    /\ Faults \in BOOLEAN
    /\ NULL \notin Sample
    /\ \A s \in Settings :
          /\ s.until \in Nat
          /\ {s.database, s.scheduled, s.provider, s.limited} \subseteq BOOLEAN
          /\ \A r \in DOMAIN s.ask : r \in Requests /\ s.ask[r].route \in DOMAIN Operations

Keys == UNION {{BucketKey(s.ask[r].token, s.provider, Address[r]) : r \in DOMAIN s.ask} :
               s \in Settings}

VARIABLES
    set,      \* the configuration
    phase,    \* where run() is
    outcome,  \* how it will end, or ended
    pool,     \* the connection pool
    now,      \* the clock
    deadline, \* when the shutdown budget is spent
    sched,    \* the scheduler's goroutine
    stage,    \* where each request is in the chain
    began,    \* when it came, until it is counted
    clock,    \* the time the limiter read for it, until it has used it
    answer,   \* the status the chain below the audit middleware gave it
    bucket,   \* the limiter's bucket of each key
    taken,    \* history: the readings each bucket granted, in order
    lag,      \* history: by how much those readings went back
    stats,    \* the request counter
    sample,   \* history: what was counted for each request
    writer,   \* the goroutine that records the request
    log       \* the rows of audit_log

procVars == <<phase, outcome, pool, deadline>>
limitVars == <<bucket, taken, lag>>
countVars == <<stats, sample>>
auditVars == <<writer, log>>
askVars == <<set, began, clock>>
vars == <<procVars, now, sched, stage, askVars, answer, limitVars, countVars, auditVars>>

Op(r) == Operations[set.ask[r].route]
\* The two paths the limiter skips, and the one the timeout skips.
SkipsLimiter(r) == ~set.limited \/ set.ask[r].route \in {"sse", "health"}
Timed(r) == set.ask[r].route # "sse"
\* isAudited: a mutating method on a path under /api/.
Audited(r) == Op(r).mutates /\ Op(r).api

\* The scheduler and the pool seen by goroutines once the process has gone.
Up == phase # "exited"

TypeOK ==
    /\ phase \in {"booting", "migrating", "serving", "draining", "waiting",
                  "closing", "closed", "exited"}
    /\ outcome \in {"none", "clean", "error"}
    /\ pool \in {"none", "open", "closed"}
    /\ now \in Nat
    /\ deadline \in Nat
    /\ sched \in {"off", "waiting", "ticking", "stopped"}
    /\ stage \in [Requests -> {"idle", "limiting", "clocked", "routing", "working",
                               "streaming", "answered", "done"}]
    /\ set \in Settings
    /\ began \in [Requests -> Nat]
    /\ clock \in [Requests -> Nat]
    /\ answer \in [Requests -> Statuses \cup {0}]
    /\ bucket \in [Keys -> [level : 0..Full, last : Nat]]
    /\ taken \in [Keys -> Seq(Nat)]
    /\ lag \in [Keys -> Nat]
    /\ sample \in [Requests -> Sample \cup {NULL}]
    /\ writer \in [Requests -> {"none", "spawned", "inserting", "stored", "lost"}]
    /\ log \in Seq(Requests \X Statuses)

Init ==
    /\ phase = "booting" /\ outcome = "none" /\ pool = "none"
    /\ now = 0 /\ deadline = 0 /\ sched = "off"
    /\ stage = [r \in Requests |-> "idle"]
    /\ set \in Settings
    /\ began = [r \in Requests |-> 0]
    /\ clock = [r \in Requests |-> 0]
    /\ answer = [r \in Requests |-> 0]
    /\ bucket = [k \in Keys |-> NewBucket]
    /\ taken = [k \in Keys |-> <<>>]
    /\ lag = [k \in Keys |-> 0]
    /\ stats = NewStats
    /\ sample = [r \in Requests |-> NULL]
    /\ writer = [r \in Requests |-> "none"]
    /\ log = <<>>

-----------------------------------------------------------------------------
(* run(): boot, serve, stop.                                               *)

\* config.Load, the OIDC discovery or store.Open fails: there is no pool to
\* close yet.
BootFails ==
    /\ phase = "booting"
    /\ phase' = "exited" /\ outcome' = "error"
    /\ UNCHANGED <<pool, deadline, now, sched, stage, askVars, answer, limitVars, countVars, auditVars>>

OpenPool ==
    /\ phase = "booting" /\ set.database
    /\ pool' = "open" /\ phase' = "migrating"
    /\ UNCHANGED <<outcome, deadline, now, sched, stage, askVars, answer, limitVars, countVars, auditVars>>

\* Migrate or Version fails; the deferred Close runs.
MigrateFails ==
    /\ phase = "migrating"
    /\ phase' = "closing" /\ outcome' = "error"
    /\ UNCHANGED <<pool, deadline, now, sched, stage, askVars, answer, limitVars, countVars, auditVars>>

\* server.New builds the chain and seeds the tasks, whose failure it only
\* logs; the listener and, with a pool, the scheduler get their goroutines.
Serve ==
    /\ phase = IF set.database THEN "migrating" ELSE "booting"
    /\ phase' = "serving"
    /\ sched' = IF set.database /\ set.scheduled THEN "ticking" ELSE "off"
    /\ UNCHANGED <<outcome, pool, deadline, now, stage, askVars, answer, limitVars, countVars, auditVars>>

\* The address cannot be listened on: nothing ever comes in.
ListenFails ==
    /\ phase = "serving" /\ \A r \in Requests : stage[r] = "idle"
    /\ phase' = "closing" /\ outcome' = "error"
    /\ UNCHANGED <<pool, deadline, now, sched, stage, askVars, answer, limitVars, countVars, auditVars>>

\* SIGTERM or an interrupt ends the context; Shutdown closes the listener.
Signal ==
    /\ phase = "serving" /\ now + ShutdownBudget <= set.until
    /\ phase' = "draining" /\ deadline' = now + ShutdownBudget
    /\ UNCHANGED <<outcome, pool, now, sched, stage, askVars, answer, limitVars, countVars, auditVars>>

Idle == \A r \in Requests : stage[r] \in {"idle", "done"}

\* Mutant of Drained: Shutdown is not waited for.
DrainedAtOnce ==
    /\ phase = "draining"
    /\ phase' = "waiting"
    /\ UNCHANGED <<outcome, pool, deadline, now, sched, stage, askVars, answer, limitVars, countVars, auditVars>>

\* Shutdown returns nil: no connection has a request in progress.
Drained ==
    /\ phase = "draining" /\ Idle
    /\ phase' = "waiting"
    /\ UNCHANGED <<outcome, pool, deadline, now, sched, stage, askVars, answer, limitVars, countVars, auditVars>>

\* Mutant of DrainExpires: Shutdown waits for its streams without a limit.
DrainNeverExpires ==
    /\ phase = "draining" /\ now >= deadline /\ Idle
    /\ phase' = "closing" /\ outcome' = "error"
    /\ UNCHANGED <<pool, deadline, now, sched, stage, askVars, answer, limitVars, countVars, auditVars>>

\* The budget is spent first: run returns the error and waits for no one.
DrainExpires ==
    /\ phase = "draining" /\ now >= deadline
    /\ phase' = "closing" /\ outcome' = "error"
    /\ UNCHANGED <<pool, deadline, now, sched, stage, askVars, answer, limitVars, countVars, auditVars>>

\* The scheduler is waited for with what is left of the budget; either way
\* the process "stopped cleanly".
SchedulerAwaited ==
    /\ phase = "waiting"
    /\ sched \in {"off", "stopped"} \/ now >= deadline
    /\ phase' = "closing" /\ outcome' = "clean"
    /\ UNCHANGED <<pool, deadline, now, sched, stage, askVars, answer, limitVars, countVars, auditVars>>

\* Close refuses connections from here on and waits for those in use.
ClosePool ==
    /\ phase = "closing"
    /\ phase' = "closed"
    /\ pool' = IF pool = "open" THEN "closed" ELSE pool
    /\ UNCHANGED <<outcome, deadline, now, sched, stage, askVars, answer, limitVars, countVars, auditVars>>

ConnectionsInUse ==
    \/ \E r \in Requests : stage[r] = "working" \/ writer[r] = "inserting"
    \/ sched = "ticking"

\* run has returned and main exits; what still runs goes with it.
Exit ==
    /\ phase = "closed" /\ ~ConnectionsInUse
    /\ phase' = "exited"
    /\ UNCHANGED <<outcome, pool, deadline, now, sched, stage, askVars, answer, limitVars, countVars, auditVars>>

Tick ==
    /\ Up /\ now < set.until
    /\ now' = now + 1
    /\ UNCHANGED <<procVars, sched, stage, askVars, answer, limitVars, countVars, auditVars>>

\* Scheduler.Run: a cycle at once and then one a tick, until the context
\* ends.  The cycle may be under way when it does; its statements then fail.
SchedulerStep ==
    /\ Up
    /\ \/ sched = "ticking" /\ sched' = "waiting"
       \/ sched = "waiting" /\ phase = "serving" /\ sched' = "ticking"
       \/ sched = "waiting" /\ phase # "serving" /\ sched' = "stopped"
    /\ UNCHANGED <<procVars, now, stage, askVars, answer, limitVars, countVars, auditVars>>

-----------------------------------------------------------------------------
(* A request on its way through the chain.                                 *)

Arrive(r) ==
    /\ phase = "serving" /\ stage[r] = "idle" /\ r \in DOMAIN set.ask
    /\ began' = [began EXCEPT ![r] = now]
    /\ stage' = [stage EXCEPT ![r] = IF SkipsLimiter(r) THEN "routing" ELSE "limiting"]
    /\ UNCHANGED <<procVars, now, sched, set, clock, answer, limitVars, countVars, auditVars>>

Key(r) == BucketKey(set.ask[r].token, set.provider, Address[r])

\* Allow reads the clock before it takes the bucket's lock.
ReadClock(r) ==
    /\ Up /\ stage[r] = "limiting"
    /\ clock' = [clock EXCEPT ![r] = now]
    /\ stage' = [stage EXCEPT ![r] = "clocked"]
    /\ UNCHANGED <<procVars, now, sched, set, began, answer, limitVars, countVars, auditVars>>

\* Mutant of Grant: the reading is not stored, so the time since counts again.
GrantForgetting(r) ==
    /\ Up /\ stage[r] = "clocked" /\ Allows(bucket[Key(r)], clock[r])
    /\ bucket' = [bucket EXCEPT ![Key(r)] = [Spend(@, clock[r]) EXCEPT !.last = bucket[Key(r)].last]]
    /\ taken' = [taken EXCEPT ![Key(r)] = Append(@, clock[r])]
    /\ clock' = [clock EXCEPT ![r] = 0]
    /\ stage' = [stage EXCEPT ![r] = "routing"]
    /\ UNCHANGED <<procVars, now, sched, set, began, answer, lag, countVars, auditVars>>

Grant(r) ==
    /\ Up /\ stage[r] = "clocked" /\ Allows(bucket[Key(r)], clock[r])
    /\ bucket' = [bucket EXCEPT ![Key(r)] = Spend(@, clock[r])]
    /\ taken' = [taken EXCEPT ![Key(r)] = Append(@, clock[r])]
    /\ lag' = [lag EXCEPT ![Key(r)] =
                  IF clock[r] < bucket[Key(r)].last
                  THEN @ + (bucket[Key(r)].last - clock[r]) ELSE @]
    /\ clock' = [clock EXCEPT ![r] = 0]
    /\ stage' = [stage EXCEPT ![r] = "routing"]
    /\ UNCHANGED <<procVars, now, sched, set, began, answer, countVars, auditVars>>

\* writeTooMany: the audit middleware never sees the request.
Refuse(r) ==
    /\ Up /\ stage[r] = "clocked" /\ ~Allows(bucket[Key(r)], clock[r])
    /\ answer' = [answer EXCEPT ![r] = 429]
    /\ clock' = [clock EXCEPT ![r] = 0]
    /\ stage' = [stage EXCEPT ![r] = "answered"]
    /\ UNCHANGED <<procVars, now, sched, set, began, limitVars, countVars, auditVars>>

\* The handler returns, and the audit middleware gives the request's entry
\* to a goroutine of its own.
Answer(r, status) ==
    /\ answer' = [answer EXCEPT ![r] = status]
    /\ stage' = [stage EXCEPT ![r] = "answered"]
    /\ writer' = [writer EXCEPT ![r] = IF Audited(r) THEN "spawned" ELSE @]

\* The handler up to the point where it needs the database: the scope, and
\* whether there is a repository; ReplaceAppData is a stub.
Handle(r) ==
    /\ Up /\ stage[r] = "routing"
    /\ LET gate == Gate(set.ask[r].token, set.provider, Op(r).scope) IN
       \/ /\ gate # 200
          /\ Answer(r, gate)
       \/ /\ gate = 200 /\ Op(r).needs = "nothing"
          /\ Answer(r, IF set.ask[r].route = "replace" THEN 503 ELSE 200)
       \/ /\ gate = 200 /\ Op(r).needs = "pool" /\ pool # "open"
          /\ Answer(r, IF set.ask[r].route = "appinfo" THEN 200
                       ELSE IF pool = "none" THEN 503 ELSE 500)
       \/ /\ gate = 200 /\ Op(r).needs = "pool" /\ pool = "open"
          /\ stage' = [stage EXCEPT ![r] = "working"]
          /\ UNCHANGED <<answer, writer>>
       \/ /\ gate = 200 /\ Op(r).needs = "stream"
          /\ stage' = [stage EXCEPT ![r] = "streaming"]
          /\ UNCHANGED <<answer, writer>>
    /\ UNCHANGED <<procVars, now, sched, askVars, limitVars, countVars, log>>

\* The statements of the handler are done, or failed; GetAppInfo leaves out
\* what it could not read.
Finish(r) ==
    /\ Up /\ stage[r] = "working"
    /\ \E status \in IF set.ask[r].route = "appinfo" THEN {200} ELSE {200, 500} : Answer(r, status)
    /\ UNCHANGED <<procVars, now, sched, askVars, limitVars, countVars, log>>

\* The handler panics.  The middlewares it unwinds have nothing deferred but
\* the timeout's status: no entry, no sample; Recoverer answers.
Panic(r) ==
    /\ Faults /\ Up /\ stage[r] = "working"
    /\ answer' = [answer EXCEPT ![r] = 500]
    /\ stage' = [stage EXCEPT ![r] = "done"]
    /\ UNCHANGED <<procVars, now, sched, askVars, limitVars, countVars, auditVars>>

\* The stream ends: its client leaves, or the write deadline that the server
\* set when it read the request has passed, and the next event, or the next
\* keepalive, cannot be written.
StreamEnds(r) ==
    /\ Up /\ stage[r] = "streaming"
    /\ Answer(r, 200)
    /\ UNCHANGED <<procVars, now, sched, askVars, limitVars, countVars, log>>

\* The status the counter's writer saw last: the timeout middleware writes a
\* 504 of its own over whatever the handler answered.
CountedStatus(r) ==
    IF Timed(r) /\ now - began[r] >= RequestTimeout THEN 504 ELSE answer[r]

\* A request the limiter refused was not routed: it counts under its path.
Count(r) ==
    /\ Up /\ stage[r] = "answered"
    /\ LET ms == now - began[r]
           routed == answer[r] # 429
       IN  /\ stats' = Observe(stats, <<set.ask[r].route, routed>>, Op(r).api, ms, CountedStatus(r))
           /\ sample' = [sample EXCEPT ![r] =
                            [ms |-> ms, status |-> CountedStatus(r), routed |-> routed]]
    /\ began' = [began EXCEPT ![r] = 0]
    /\ stage' = [stage EXCEPT ![r] = "done"]
    /\ UNCHANGED <<procVars, now, sched, set, clock, answer, limitVars, auditVars>>

-----------------------------------------------------------------------------
(* The goroutine that records a request.                                   *)

\* Record takes a connection.  Without a pool, or once it is closed, it fails
\* and the entry is gone but for a line in the log.
StartRecord(r) ==
    /\ Up /\ writer[r] = "spawned"
    /\ writer' = [writer EXCEPT ![r] = IF pool = "open" THEN "inserting" ELSE "lost"]
    /\ UNCHANGED <<procVars, now, sched, stage, askVars, answer, limitVars, countVars, log>>

\* Mutant of Record: a failed insert is tried again, though it took effect.
RecordAgain(r) ==
    /\ Up /\ writer[r] = "inserting"
    /\ \/ writer' = [writer EXCEPT ![r] = "stored"]
       \/ Faults /\ UNCHANGED writer
    /\ log' = Append(log, <<r, answer[r]>>)
    /\ UNCHANGED <<procVars, now, sched, stage, askVars, answer, limitVars, countVars>>

\* The insert succeeds, or fails within five seconds, with or without effect.
Record(r) ==
    /\ Up /\ writer[r] = "inserting"
    /\ \/ /\ writer' = [writer EXCEPT ![r] = "stored"]
          /\ log' = Append(log, <<r, answer[r]>>)
       \/ /\ Faults
          /\ writer' = [writer EXCEPT ![r] = "lost"]
          /\ UNCHANGED log \/ log' = Append(log, <<r, answer[r]>>)
    /\ UNCHANGED <<procVars, now, sched, stage, askVars, answer, limitVars, countVars>>

Main ==
    \/ BootFails \/ OpenPool \/ MigrateFails \/ Serve \/ ListenFails \/ Signal
    \/ Drained \/ DrainExpires \/ SchedulerAwaited \/ ClosePool \/ Exit

Request(r) ==
    \/ Arrive(r) \/ ReadClock(r) \/ Grant(r) \/ Refuse(r) \/ Handle(r)
    \/ Finish(r) \/ Panic(r) \/ StreamEnds(r) \/ Count(r)

Next ==
    \/ Main
    \/ Tick
    \/ SchedulerStep
    \/ \E r \in Requests : Request(r) \/ StartRecord(r) \/ Record(r)

Spec == Init /\ [][Next]_vars

\* Goroutines that can take a step do so, a handler or an insert ends within
\* its timeout, and time passes.  Nothing makes a client leave its stream, or
\* send a request, and nothing has to fail or to signal.
FairSpec ==
    /\ Spec
    /\ WF_vars(Drained \/ DrainExpires \/ SchedulerAwaited \/ ClosePool \/ Exit)
    /\ WF_vars(Tick)
    /\ WF_vars(SchedulerStep)
    /\ \A r \in Requests :
          /\ WF_vars(ReadClock(r) \/ Grant(r) \/ Refuse(r) \/ Handle(r) \/ Finish(r) \/ Count(r))
          /\ WF_vars(StartRecord(r) \/ Record(r))

-----------------------------------------------------------------------------
(* Correctness.                                                            *)

\* Rate and Burst hold over every window of granted requests of a key, not
\* only over the last: their cost is at most a full bucket and what the
\* bucket gained between the first and the last of them, plus the time by
\* which requests overtook each other between the clock and the bucket.
WithinBudget ==
    \A k \in Keys : \A j \in 1..Len(taken[k]) : \A i \in 1..j :
       Cost * (j - i + 1) <= Full + (taken[k][j] - taken[k][i]) + lag[k]

\* audit_log tells the truth: a request has at most one row, only if it
\* changes something under /api, passed the limiter and was answered, and the
\* row has the status it was answered with, whenever and in whatever order
\* the goroutines got to write.  (A row may be missing, see the README.)
AuditIsTruthful ==
    /\ \A i, j \in 1..Len(log) : log[i][1] = log[j][1] => i = j
    /\ \A i \in 1..Len(log) : LET r == log[i][1] IN
          /\ Audited(r) /\ stage[r] \in {"answered", "done"}
          /\ log[i][2] = answer[r] /\ answer[r] # 429
          /\ writer[r] \in {"stored", "lost"}

Counted == {r \in Requests : sample[r] # NULL}
Sampled(o) == {r \in Counted : <<set.ask[r].route, sample[r].routed>> = o}
Failed(S) == {r \in S : sample[r].status >= 400}
\* A sum of times is the number of milliseconds that there are in all of them.
Millis(S) == Cardinality(UNION {{r} \X (1..sample[r].ms) : r \in S})

\* What GET /op/appinfo reports is what happened: the totals are those of
\* the requests that went through, and so are each operation's; its maximum
\* is exact and its minimum is, unless a request took less than 1 ms; its
\* errors are counted under the status they were answered with.
CountersAddUp ==
    /\ stats.total = Cardinality(Counted) /\ stats.duration = Millis(Counted)
    /\ stats.api = Cardinality({r \in Counted : Op(r).api})
    /\ stats.errors = Cardinality(Failed(Counted))
    /\ \A r \in Counted : <<set.ask[r].route, sample[r].routed>> \in DOMAIN stats.ops
    /\ \A o \in DOMAIN stats.ops :
          LET op == stats.ops[o]
              times == {sample[r].ms : r \in Sampled(o)}
          IN  /\ op.total = Cardinality(Sampled(o)) /\ op.duration = Millis(Sampled(o))
              /\ op.max \in times /\ \A t \in times : t <= op.max
              /\ op.min \in times /\ (0 \notin times => \A t \in times : op.min <= t)
              /\ op.errors = [s \in {sample[r].status : r \in Failed(Sampled(o))} |->
                                 Cardinality({r \in Failed(Sampled(o)) : sample[r].status = s})]

\* "stopped cleanly" is true: no request was cut off, and the scheduler has
\* stopped, unless the budget ran out on it.  An end in an error after a
\* signal is an end after the whole budget.
CleanStopWaits ==
    /\ outcome = "clean" => /\ Idle
                            /\ sched \in {"off", "stopped"} \/ now >= deadline
    /\ outcome = "error" /\ deadline > 0 => now >= deadline

\* The process does end after a signal, or when it cannot serve, whatever
\* its clients do with their streams.
StopsAfterSignal == phase \notin {"booting", "migrating", "serving"} ~> phase = "exited"
=============================================================================
