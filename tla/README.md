# Verification of the STIG Manager server

TLA+ models of the Go server in `src/api`, TLC configurations that check them
on small instances, and TLAPS proofs about the core modules for every value of
the constants. Paths below are relative to `src/api/internal` unless they
start with `src/`.

`PROJECT.json` lists the components, the runs, the theorems, the hazards with
the line where each bites, and, for every definition, the lines it models.

    tlc -workers 2 -config JobRunner.cfg MCJobRunner.tla
    tlapm JobScheduler_proofs.tla

## 1. Inventory

The server is one Go process (`src/api/cmd/stigman/main.go`), or several over
the same Postgres database. Nothing but the database is shared between
processes. Inside a process every HTTP request is a goroutine, and so are the
scheduler, each job run and each open event stream.

| Component | State | Operations | Talks to |
|---|---|---|---|
| Job table and events (`store/jobs.go`, `server/jobs_handler.go`) | rows of `job`: type, start, end, interval, enabled, `last_event_fire` | POST, PATCH, DELETE of jobs | scheduler and runner, through the rows |
| Scheduler (`jobs/scheduler.go`) | none between cycles | `RunOnce`: list, compute, claim, create run | job table (conditional UPDATE), runner |
| Runner (`jobs/jobs.go`) | rows of `job_run`, `job_run_output`; one goroutine per run | `execute`: load, run tasks, finish, notify | job table, broker (as `Listener`) |
| State broker (`state/broker.go`, `server/op_handlers.go`) | cached snapshot, map of buffered channels | publish, subscribe, cancel; GET `/op/state`, SSE stream | runner, database probe |
| Reviews (`store/reviews.go`) | `review`, `review_history` | Put, Patch, Delete, DeleteHistory as transactions | handlers |
| Review handlers (`server/reviews_*.go`) | summaries read for a batch | single, list, batch, import | store, one transaction per pair |
| Users, groups and grants (`store/grants.go`, `users.go`, `users_admin.go`, `user_groups.go`) | `app_user`, `user_group`, memberships, roles per collection | sign-in (upsert by subject); create, edit, delete users and groups; grant, change, revoke | access checks |
| Assets and labels (`store/assets.go`, `labels.go`) | assets, labels, their benchmarks | create, update, move, soft delete, label from either side | collections |
| Collections and access (`store/collections.go`, `server/access.go`) | collections | create; role of a request | grants |
| STIG library (`store/stigs.go`, `xccdf`) | benchmarks, revisions, rules | import, clobber | assets, metrics |
| Collection STIGs (`server/collection_stigs_handler.go`) | – | read the benchmarks of a collection's assets | assets, library |
| Metrics (`store/metrics.go`, `server/metrics_handler.go`) | – | five aggregations of one universe of rules | assets, library, reviews |
| Checklists (`checklist`, `store/checklists.go`, `server/checklist_handler.go`) | – | export CKL, CKLB and XCCDF files and archives; import them | library, assets, reviews |
| POA&M (`poam`, `store/poam.go`) | – | findings by rule or group, as a workbook | the universe of the metrics |
| AppData, AppInfo (`store/appdata.go`, `appinfo.go`) | – | export, counts (an import answers 503) | all tables |
| Process (`src/api/cmd/stigman/main.go`) | pool, listener, scheduler's goroutine | start, migrate, serve, drain, stop | all |
| Audit log (`audit`, `store/audit.go`) | `audit_log` rows | asynchronous insert, list | every mutating request |
| Request counter, rate limiter (`server/request_counter.go`, `ratelimit`) | counters, token buckets under a mutex | count, allow | every request |
| Authentication (`auth`) | key set of the provider | verify a token, match a scope | OIDC library |
| Generated API (`api/server.gen.go`), router | the tree of templates | find the operation, bind parameters | handlers |
| Configuration, migrations, generated types | – | wiring | all |
| Web client, docs site, deployment | – | – | HTTP |

### Where it is hard

*Scheduler.* The list, the computation of the next fire, the claim and the
insert of the run are four statements on a connection pool. Another process, a
PATCH (which resets `last_event_fire`), a DELETE or the end of the process may
fall between any two. What must hold: no occurrence runs twice, none is
skipped or claimed early, a claim that loses its owner is not claimed again.

*Runner.* `execute` writes state, output and notification separately, mostly
ignoring errors, while clients delete the run or its job under it. What must
hold: state, output and notifications agree; a deleted run stays deleted; a
run that loses no statement ends.

*Broker.* Two locks, channels that are closed by whoever cancels first, and a
snapshot replayed to a channel that is already registered. What must hold: no
send on a closed channel, drops only on a full channel, order per publisher,
publishers that never wait for readers, and a view that ends up current.

*Reviews.* Each write copies the row it replaces, after `FOR UPDATE`, at READ
COMMITTED, and batches decide from summaries read before their first write.
What must hold: the copy is the version replaced; the history has each past
version once and no current one; nobody waits for ever; and nothing is
replaced without a copy.

*Users, groups and grants.* An edit of a user or group deletes its lists of
memberships and grants and inserts new ones, statement by statement; the same
row can be reached from the user, the group and the collection. The last-owner
guard counts and deletes in separate statements. What must hold: edits are
whole and, when they update the row, do not mix; no row refers to one that has
gone; a signed-in user stays; requests that wait for each other are answered.

*Assets and labels.* A label is given from the asset or from the label, and the
collection that both must share is read before the write, while assets move.
What must hold: labels come only from a collection the asset is or was in;
a deleted asset does not change.

*STIG library and checklist files.* An export reads the asset, the revision,
its header and its rules in separate statements; replacing a revision deletes
the row between any two of them and inserts it again under another id. Files
come back later: to assets found by names, addresses and an order of
preference, in formats that do not have every result. What must hold: a STIG
in a file is one revision's, whole or without rules; a file finds its asset
again; a result that a format has comes back as it was.

*Library pages, metrics, POA&M, review list.* Each decides by itself which
revision of a benchmark is the latest, over tables that imports replace, and
the reads of rules are two or three statements. What must hold: the five
metrics count the same things; the POA&M has every failing review, under what
each revision in force says of its rule, and nothing else; the review list and
the metrics mean the same revision where the dates
let them; an answer about rules is of one revision.

*Process, audit, limiter, counters.* A request passes a chain of middlewares
which record it before, after and beside the answer, while the process may be
told to stop. What must hold: no client exceeds its budget, the audit log and
the counters tell what happened, a clean exit has waited, and a signal ends
the process.

*API.* 151 operations have a wrapper and a handler each; handlers check scope,
pool, row and role in orders of their own, and while they do, other requests
change rows and roles, and the row of a path may lie in another collection than
the one it names. What must hold: the router finds the operation meant; nobody
changes what the token and the role do not allow; a refusal leaves no change
behind; who gets an answer has the scope that the API's document asks.

## 2. Modules

    JobEvents ── JobScheduler ─┬─ OccurrenceDelivery   (what JobScheduler implements)
                               └─ JobScheduler_proofs
    JobRunner ──┬─ RunLifecycle               (what JobRunner implements)
                └─ JobRunner_proofs
    ReviewStore ── ReviewStore_proofs
    LockWaits ──┬── LinkTables ──┬── AccessControl ── AccessControl_proofs
                │                └── AssetLabels ──── AssetLabels_proofs
                └── StigLibrary ──── ChecklistFiles ── ChecklistFiles_proofs
                         StateBroker ──┐
    TokenBucket ──┐                    ├── Server_proofs
    RequestStats ─┼── HttpServer ──────┘
    AccessToken ──┴───────────────┐
    ApiRoutes ──── ApiHandlers ───┴── Api
    Revisions ──┬── Metrics ──────┬── Reports ──── Reports_proofs
                └── LibraryReads ─┘

Each `MC…` module adds only the values that a configuration cannot write down
(request bodies, task lists). An operator whose comment begins with "Mutant
of" is not part of the model: it is the definition after it with a plausible
bug, and `PROJECT.json` ("mutants") pairs each with the property that fails
when it takes that definition's place.

**JobEvents** – the event columns of a `job` row, the event of a POST or PATCH
body as the store applies it to a row (`ApplyEvent`: fields the body omits keep
their old value, `last_event_fire` is reset), and the pure function
`ComputeNextFire`. Time is a tick count; an interval is the number of ticks it
adds, and 0 stands for every string that the parser refuses.

**JobScheduler** – `pc[i]` is the statement of `RunOnce` that process `i` is
about to issue: `ListJobs` (`ListEnabledScheduled` and the computation, which
depends only on the rows read), `ReadClock`, then per job `ClaimWon`,
`ClaimLost` or `ClaimError` (the conditional UPDATE on the row as it is by
then; an error may hide a claim that took effect), then `CreateRun` or
`CreateRunError`. `PostJob`, `PatchJob` and `DeleteJob` are the clients.
`Halt` ends a process at any point; a graceful stop cancels the context of
`RunOnce`, so the statements that remain fail, which is the same to the
database. `Restart` recovers nothing, as in the code. `epoch`, `claims` and
`runs` are history: how often an event was set, and every (epoch, time) claimed
or run. `jobs` are the rows of the table: an id is never given out again.

**JobRunner** – `Runner.execute` statement by statement (`LoadRow`,
`LoadTasks`, `TaskStarted`, `CallTask`, …, `Finish`, `Notify`), with a clients'
`PatchTasks`, `DeleteJob` and `DeleteRun` (the cascades included). A statement
for a run in `Faulty` may fail; `faulted` remembers where that happened, so
that a property can speak of the runs that lost nothing. One that fails while
the rows of the task list are read cuts the list short, and the run goes on
with what it has (`LoadTasksCut`). `Halt` ends the
process; no code looks for runs in progress afterwards, so they stay
`running`.

**StateBroker** – publishers (`Probe`, `CacheSame`/`CacheChanged` under
`publishMu`, then `RLock`, `Deliver` per channel, `RUnlock`) and SSE requests
(the same, then `Register`, `Replay`, `SendSnapshot`, `Receive`, `Leave`, or
`FailWrite` when a frame or a keep-alive cannot be written), with
the goroutine that watches the context (`Watch`). The read lock is
`pc = "fanout"`; the write lock is held for one map operation, so `Register`
and `Cancel` are single steps that wait for readers. `frames`, `due` and
`missed` are history. The specification is called `StreamSpec`, since one module
has the proofs about it and about `HttpServer`, the two parts of a process that
answer its clients.

**ReviewStore** – the transactions at READ COMMITTED. A statement sees what was
committed when it started; one that locks waits for the holder and then takes
the newest version of the row it saw, or none if that row has gone (two steps:
`Snapshot`/`SnapshotLock`, `SeeRow`/`Update` or `DeleteRow`). `ON CONFLICT`
takes whatever row it finds. `now()` is the time of BEGIN. Content is a status
label and a timestamp that differs between any two versions. The handlers
choose a pair at a time from the body and from the summaries (`Chosen`). The
history of a pair is the set of its recorded versions, each with the
transaction that recorded it; a record is visible when that commits. A cut-off
request ends (`Abort`); a pair of a batch, list or import that fails is noted
and the next one taken (`FailPair`). Authorisation and the check that the asset
is in the collection (they are in `Api`), parsing, dry runs and the counts in
responses are left out: none of them writes.

**LockWaits** – a cycle of requests that wait for each other's locks, of which
Postgres ends one (`Deadlocked`).

**LinkTables** – the engine under the next two: rows of a join table
(`links`), what each open transaction has deleted (`dead`) and inserted
(`added`), the rows its DELETE saw when it started (`snap`) and the rows of
other tables it has updated (`locked`) or is deleting (`dropping`). A DELETE
takes two steps, since a row committed between them survives it. An INSERT
waits for writers of the same key and for whoever deletes a row it refers to
(foreign keys); a cascade waits for whoever has deleted a row it would delete.

**AccessControl** – requests, one statement per step: `Upsert` and
`ResolveUserRole` (`authorizeCollection`), `CreateGrant` per entry of a body,
`UpdateRole`, `LookupGrant`/`CountOwners`/`RemoveGrant` (the last-owner guard),
`CreateCollection`, and the edits of users and groups (`BeginEdit`, then per
list `NextPart`, `ClearPart`, `InsertItem`, and `CommitEdit`); `DropRow` and
`CascadeDrop` delete a user or group. A link knows which request made it, so
that a pair deleted and inserted again is another row. `CreateCollection` is
one step: nobody else can know the id before it commits. Names (and so the
conflicts of group names), status, privileges and scopes are left out.

**AssetLabels** – the same for assets: `GetAsset`, `ResolveLabelNames`, the
transaction of create, update or assignment (`Begin` … `Commit`), with the
check of each label or asset (`CheckItem`) one statement snapshot before its
row is inserted. `was` is history: the collections an asset has been in. Names
are left out, so PATCH of a label changes nothing here; a batch of new assets
is one create after the other.

**StigLibrary** – the transaction that stores a batch of revisions:
`BeginImport`, `StoreRevision` per benchmark, `RefuseRevision` for one that is
there already (the batch is rolled back) unless it may be clobbered, then
`CommitImport`. The statements for one benchmark are one step: the first
updates the row of the stig and so keeps other imports of it out, and nobody
sees the others' results before the commit. Two batches in opposite order
deadlock. `book` has every revision ever inserted (an id is never given out
again), `live` the committed ones; `at` is `now()` of the transaction, its
BEGIN, which is what exports order by (`RevisionOf`). CCIs, severities and
texts are left out.

**ChecklistFiles** – the requests that use the library, statement by statement.
An export goes `GetAsset` or `NextSelection`, `LoadAsset`, then per STIG
`ReadRevision`, `ReadHeader`, `ReadRules`, then `WriteFile`, or `WriteEntries`
for each asset of an archive, which leaves out what it cannot read. An import
goes `ListAssets`, then per file `NextFile` (`Resolve`) and per review
`PutReview`, one transaction each (`ReviewStore` has its inside). `UpdateAsset`,
`DisableAsset` and a PUT of a review are the other clients. The formats are
functions between results and statuses (`Statuses`, `ResultOf`), read from the
writers and the parsers apart. The files that can be imported are those that
were exported; in a file, `id`, `was` and `from` are history. The entries of a file are its
cells, STIG by STIG and rule by rule (`Cells`, `InOrder`). Left out: the
syntax of the formats, dry runs, counts in responses, the status label of a
review, and the match by file name, which in an exported file repeats the
host name.

**TokenBucket**, **RequestStats**, **AccessToken** – pure parts of the chain. A
bucket is tokens and the time they were counted at, in integer ticks
(`golang.org/x/time/rate` keeps fractions; `Cost` tokens are one request), with
`Advance`, `Allows` and `Spend`; a clock reading that is older than the
bucket's gains nothing. The statistics are `RequestCounter.observe` with the
operation's totals, errors per status, and times in milliseconds, whose minimum
treats 0 as unset. A token is absent, rejected or verified with scopes;
`HasScope` lets a scope without `:read` stand for the one with it.

**HttpServer** – `run()` of `main.go` as phases (booting, migrating, serving,
draining, waiting for the scheduler, closing the pool, exited) and, for every
request, the stage of the chain it has reached: `Arrive` (counter, timeout,
token), `ReadClock` and `Grant` or `Refuse` (limiter: the clock is read before
the bucket's lock, so requests overtake each other), `Handle`, `Finish` or
`Panic`, `StreamEnds` for the SSE stream, `Count` when the counter's deferred
observation runs, and the audit goroutine's `StartRecord` and `Record`.
`Signal` may come at any point once the server listens. `taken`, `lag`, `sample`
and `answer` are history.

**Revisions**, **LibraryReads** – the committed library, with one step per
import, and the reads of rules, of one rule, of a rule by its id and of a CCI
statement by statement. `LastImported`, `LastReleased` and `LastDated` are the
three orders by which the statements choose "the latest" revision. A rule is a
row of its revision (`StigRule`): severity, group, version and CCIs may differ
between two revisions that list the same rule id, of one benchmark or of two.

**Metrics**, **Reports** – one definition per statement: the universe
(`TargetAssets`, `Checklists`, `Joined`), the five aggregations, the findings
and rows of the POA&M, the review list with its `rules` filter, the STIGs of a
collection. `Reports` changes reviews and the library under them; since every
report is one statement, its result in each reachable state is all that it can
be. `asset_stig.revision_id` is left out: nothing sets it, so no asset is
pinned. `PoamCovers` compares the POA&M with the failing reviews at each of
their places (`Fails`: a revision in force that lists the rule). By rule, a
review is on one row, whose severity may be another benchmark's, but never a
lower one than its own; by group, it is on the row of each group that some
benchmark puts its rule into, so possibly on two.

**ApiRoutes** – per path the wrappers of `server.gen.go`: method, published
scope, and the parameters over which binding can answer 400; and `FindRoute`,
chi's search. **ApiHandlers** – every handler as a sequence of steps (check the
scope, the pool, the input, the collection, the role, a row; store, change or
drop; answer), in the handler's order. **Api** runs the program of the
operation that a request is routed to, statement by statement, while another
request changes the user's role, or the row, once. What the statements do to
the tables is in the other modules; here a commit counts.

There are two collections in `Api`: the one that the path or the body names
(`Here`) and another (`There`), with the user's role in each (`role`). `row`
says where the row of the path lies: an asset or a review may be in either,
since assets are numbered across collections. Most statements look in the
collection of the path only; those made `Anywhere` take the row wherever it is.
`asked` is the collection whose role the handler asks for: that of the path, or
that of the asset for the operations that look it up first. `touched` is
history: the collections that the commits changed. A grant may be a group's
(`group`), which the UPDATE finds and the join with `app_user` does not. The
body of `UpdateAsset` may move the asset (`MoveRow`).

**OccurrenceDelivery** and **RunLifecycle** are the abstract specifications: an
occurrence goes open → claimed → run, or to lost, and never back; a run goes
running → completed or failed, and may be deleted.

## 3. Runs that pass

| Run | Instance | Shows |
|---|---|---|
| `JobScheduler_race` | 2 processes, 1 job, 7 bodies, 1 patch, clock 0..2, failures and restarts | `NoDoubleRun`, `FiresNextOccurrence`, refinement of `OccurrenceDelivery` (`DeliversAtMostOnce`) |
| `JobScheduler_single` | 1 fair process, 2 jobs, patches, no failures | a "once" event runs once, what is due is run |
| `JobRunner` | 2 runs of 1 job, 4 task lists, one run with failures, process end | `RecordsAgree`, `FinalWhenTold`, `RunEnds`, refinement of `RunLifecycle` (`FollowsLifecycle`) |
| `StateBroker` | 2 SSE requests, 1 job run, channel of 1 | `NoSendOnClosed`, `DeliveredUnlessFull`, `RunsInOrder`, `PublishersFinish` |
| `ReviewStore` | 2 requests of 7 kinds, 2 pairs, cut-offs and history deletes | `RecordsWhatItReplaces`, `HistoryIsPast`, `RequestsFinish` |
| `AccessControl` | 2 requests of 16 kinds, one with failing statements; 4 users, 2 groups, 2 collections | `TablesAgree` (types, one list at a time, nothing dangles), `EditsAreWhole`, `SignedInStay`, `RequestsFinish` |
| `AssetLabels` | 2 requests of 14 kinds, one with failing statements; 2 assets, 3 labels, 2 benchmarks | `TablesAgree` (types, one list at a time, labels of own collections), `DeletedStay`, `RequestsFinish` |
| `ChecklistFiles` | 3 requests of 13 kinds, one with failing statements; 2 assets, 2 benchmarks, 3 rules, 3 names; one file per import | `WholeRevision`, `OwnAsset`, `ResultsSurvive` |
| `HttpServer` | 5 settings of 2 or 3 requests, burst 2, timeout 2, shutdown budget 1, panics and failures; 239,693 states | `WithinBudget`, `AuditIsTruthful`, `CountersAddUp`, `CleanStopWaits`, `StopsAfterSignal` |
| `Reports` | 4 settings of 2 assets, 2 benchmarks that share a rule, 3 rules, up to 2 reviews and 2 imports, 1 reader; 17,713 states | `ReportsAgree`, `PoamCovers`, `ListedIsAssessed`, `ReadsAreWhole` |
| `Api` | 1 request of every route, every confusable path and 11 kinds of token, with and without a pool, 2 collections, 2 items, one act of another request; 1,234,661 states | `ReachesItsOperation`, `ChangesAreGranted`, `RefusedChangesNothing`, `AnsweredAsPublished` |

Why these bounds are enough to see the cases. *Race*: an interleaving of two
claims needs two processes; a third would do what one of them can do, since
they share nothing but the row. One patch is enough for a stale row, three
instants for a first, a next and a missed occurrence, and the bodies cover an
omitted field, a malformed interval, a switched-off event and an end. The
proofs remove all of these bounds. *Single*: two jobs, so that one can be in
the way of the other. *Runner*: the lists have no task, one task, a failure in
the middle, and a task that is not registered; two runs, since a run meets
another only through the deletion of their job and the end of the process.
*Broker*: the code's channels hold 32 events; with room for 1 both the full and
the free channel occur at every send. *Reviews*: two transactions give every
order of snapshot, lock and commit; two pairs give a batch something to hold
while it wants something else (it never does: a transaction per pair).
*Access and assets*: two requests meet in every order of statements, locks and
commits; the lists have up to two entries, so that two requests can want each
other's rows, and there is a start with and one without rows to delete (a
DELETE that sees nothing locks nothing).
*Checklist files*: an export, what happens during it or after it (an upload, a
change of the asset or review), and the import of the file are three requests;
one file per import, since files of an import meet only in the list of assets,
which is read once. Requests without failures are interchangeable (symmetry;
the run has no liveness property).

*HTTP server*: two requests of one client meet at the bucket, the counters and
the log in every order; a third exceeds the burst of two. The clock is bounded
per setting (`until`) past the timeout and the shutdown's budget. The settings
are the combinations in which something is shared: two writes, a stream and a
write, a read and a write, and a process without a database.
*Reports*: two assets (one with a label, one without or disabled), two
benchmarks that share a rule, and imports that bring a revision with a later,
an equal or no date, or replace one, make the three orders of "latest" differ;
the shared rule has another group and another severity in the second benchmark;
a third review adds no case, since each row is counted for itself. One reader
is enough for `ReadsAreWhole`: readers change nothing.
*Api*: requests meet only through rows and roles, so one request beside one
change of another has every order of a check and a change; two items give a
first and a later one. A handler asks for the role in one collection and writes
to one row, so a second collection is enough for these to differ; the one that
`UpdateAsset` moves an asset to is either of the two.

Deadlock checking is off where the system stops: in `JobRunner`, where every run
may have ended, in `HttpServer`, where the process exits, in `Api`, where the
request is answered, and in `Reports`, where imports are used up.

## 4. Fairness

- Scheduler: `WF_vars(RunOnce(i))`. `Scheduler.Run` loops on a ticker until its
  context ends; a process that is up takes its next statement. Nothing is
  assumed of clients, of the clock or of `Restart`.
- Runner: `WF_vars(Execute(r))`: the goroutine of a run takes its next
  statement. Task functions of this binary return.
- Broker: weak fairness of publishing, of subscribing and of the watcher, which
  the Go scheduler gives runnable goroutines. None for `Receive`, which waits
  for the network, nor for clients or the database.
- Access and assets: `WF_vars(Step(r))`, which includes the end of a deadlock by
  Postgres; no fairness for failures.
- Reviews: `WF_vars(Serve(q))`: a handler whose statement is not blocked by a
  row lock goes on.
- HTTP server: weak fairness of the main goroutine after a signal, of the
  scheduler's loop, of time, and of the goroutines of requests and of the audit
  log. None for clients (a stream may stay open for ever), for the start, for
  signals, nor for failures.
- Reports and Api state no liveness: their steps are bounded programs.

## 5. Where the code and its documentation differ

| Run | What the text says | What the run shows |
|---|---|---|
| `Api_crossing` | `server/reviews_handler.go:216-218`: "Verify the (asset, rule) pair belongs to this collection so a caller cannot write to another collection by manipulating the path."; `server/reviews_integration_test.go:224`: "The grant + asset path must agree." | Only PUT and the POST of several reviews look the asset's collection up. PATCH (`server/reviews_handler.go:292`) and DELETE (`:493`) take the review by its asset and rule: with a role in the collection of the path they change a review of another, where the user may have none (`GrantAndPathAgree`). |

Five more were found with these models and can be seen in them, though no run
is kept for them:

- `store/metrics.go:338`: "AggCollection returns the collection-wide rollup."
  The condition on the collection is in the ON of a RIGHT JOIN and there is no
  WHERE (`store/metrics.go:349`), so the statement has a row for every
  collection, of which `QueryRow` takes the first. With two collections the
  report may be the other's, without a review and with one assessment
  (`AggCollection` of `Metrics` has all of these rows).
- `jobs/scheduler.go:20-21`: two instances are safe, "the claim is idempotent".
  A PATCH resets `last_event_fire`; a process that still has the old row claims
  the old start, another the new one: two runs of one "once" event
  (`OnceRunsOnce` of `JobScheduler` with two processes).
- `state/broker.go:110-111`: the replay lets a subscriber render "the current
  dependency state". The snapshot is read and sent in two steps; a change
  published between them arrives first and the older snapshot stays on the
  screen. Two probes may also announce in the opposite order of their updates.
- `store/reviews.go:16-17`: "the previous content is appended to review_history
  on every change". Two PUTs find no review and so lock nothing; the second
  upsert replaces the first without a copy.
- `store/grants.go:137-138`: "The last owner-role grant on a collection may not
  be deleted". Two requests count two owners each and delete one each.

Seen while modelling, without a run of their own: a PATCH of a job from a
recurring to a "once" event keeps the old `event_ends`, and a start after it
never fires, while `migrations/0006_jobs.sql:26` says "fires once at
event_starts". `ResolveUserRole` asks for the user's own grant only
(`store/grants.go:182`), while the user guide (roles-and-access.mdx) lets grants
of groups count; `GrantRepo.Get` joins the user, so a PUT of a group's grant
changes it and answers 404 (`GroupsGrant`).
`Upsert` inserts a second row for a user created in
advance, while `migrations/0005_users_and_groups.sql:10-11` says it links the
subject by username. Two PATCHes of a user that set no column lock nothing, and
may leave the union of their lists, which `store/users_admin.go:64-66` says are
replaced in full (`OneListAtATime` is stated for those that set one). An asset
moved to another collection keeps its labels (`store/assets.go:273`), although
`migrations/0003_assets_labels.sql:72-73` says "application code enforces that
label and asset share a collection"; a move that names labels resolves them in
the old collection, and so removes them or fails. An update of lists alone does
not ask for an enabled asset: it may change a deleted one and then answer 404.
PUT of a label's assets with an id twice is a conflict in spite of its ON
CONFLICT DO NOTHING. `hydrateJob` (`store/jobs.go:474-482`) does not ask whether the rows ended with an error, so
a run may complete without its last tasks. `AppendOutput`
(`store/jobs.go:430`) does not bump `updated_at` of the run, as
`jobs/jobs.go:124-125` says; `since` of the snapshot never changes after the
start (`server/op_handlers.go:39`), while the operations guide calls it the
time of the last transition; the first SSE frame may be an event published
between the registration and the replay (`server/op_handlers.go:83` says it is
always the snapshot), and when 32 of them arrive in that gap `Subscribe` blocks
for good; a batch "insert" may replace a review created after the summaries
were read; `History` orders by `created_at`, the start of the transaction,
so two patches that lock in the opposite order are listed the wrong way round.
`updateFilters` (`server/reviews_batch_handler.go:31-32`) are applied to
summaries read before the batch, so a review that has changed status since is
patched.

Of the files: a round trip is promised by `checklist/writer_ckl.go:9-12` and
`writer_cklb.go:9-12`, but `error`, `unknown`, `fixed`, and in CKL files
`informational`, come back as `notchecked`, a rule without a review comes back
with one, and `auto_result` is lost (`ResultsSurvive` says what is kept).
`store/checklists.go:179-181` answers ErrNotFound for a STIG without rules,
while the code returns one with none, as a clobber between header and rules
produces. `checklist/checklist.go:37-40` puts MAC and IP before the host name;
the code puts them after it. The asset index never shows its caller an
ambiguous match, says its comment, but of two assets with one FQDN, MAC or IP
the later name replaces the earlier. The parser of XCCDF results strips
prefixes, so a rule with one comes back as another rule. "Latest" is the last
import in `store/checklists.go:116-127`, by the time of BEGIN, and the last id
in `store/stigs.go:260-262`: overlapping imports make them disagree. An import
writes to an asset that was moved or deleted after it was listed.

Of the process: the write timeout of 60 s (`src/api/cmd/stigman/main.go:104`)
ends an event stream at its first write after it, while
`server/server.go:87-89` says streams are left alone. Without a pool
`audit.Middleware` gets a typed nil, which is not nil as an interface, so every
mutating request starts a goroutine that fails, while `server/server.go:121-123`
calls it a no-op. Audit rows have no `user_id`, by which the list can be
filtered; the `bodyRaw` that the doc of `Record` names is not there. Panics,
requests cut off and inserts into a closed pool leave no row. The counter files
429s under the raw path, does not count panics, counts 504 when the time is up
though the handler answered, and treats a minimum of 0 ms as unset. Nothing
calls `Limiter.Sweep`.

Of the reports: the rollup of a collection with nothing to assess says one
assessment. Asset ids that are no numbers are dropped, and a filter of nothing
else reports the whole collection. Filters on labels by id, by name and by
`labelMatch=null` widen each other, while `store/metrics.go:59-61` says AND
across categories. A failing review under a revision without a benchmark date
makes the POA&M answer 500. The arrays of a finding are sorted and made
distinct each by itself, while `scanFindings` zips them by position. The
statements order revisions in different ways (`LastImported`, `LastReleased`,
`LastDated`, and those of exports). `rules=default-mapped` is the same as
`mapped`, and a rule without a version is never mapped. `ListRulesByRevision`
answers an empty list, or rules without CCIs, when the revision is replaced
between its statements. The list of a collection's STIGs counts disabled
assets. A read of one review does not ask either whether the asset is in the
collection of the path. A rule that two benchmarks put into different groups
makes a failing review appear on two rows of a POA&M by group; by rule it
appears once, under the worse of the two severities.

Of the API: `GetUser`, `GetChecklistByAsset` and `GetChecklistByAssetStig` ask
for less than the document publishes. The operations on an asset look it up
before they authenticate, and answer 404 or 503 to anybody. `UpdateAsset` and
`DeleteAsset` authorise on the collection that the asset was in when they read
it, and write by its id alone; the former moves the asset to the `collectionId`
of its body without asking for a role there (`server/assets_handler.go:522`,
`store/assets.go:273`). `PutAssetsByCollectionLabelId` authorises again
after its commit, and so may answer 403 to what it has done; several requests
read their row back after the commit and may answer 404 or 500. Of several
grants, assets or labels in one request those before the refused one stay.
The audit log and the import of reviews are not in the document, and 63
operations of it answer 501.

## 6. Proofs

For any values of the constants: any number of processes, jobs, runs,
subscribers, requests, pairs, imports and readers, any length of time, and with
failures where the specification has them.

| Module | Theorem | States |
|---|---|---|
| `JobScheduler_proofs` | `TypeCorrect` | `Spec => []TypeOK` |
| | `ClaimsStayApart` | `Spec => []ClaimsApart` |
| | `AtMostOneRun` | `Spec => []NoDoubleRun` |
| | `NeverClaimedEarly` | `Spec => []NeverEarly` |
| | `FiresInOrder` | `Spec => FiresNextOccurrence` |
| | `CandidatesStayFresh` | `Spec => []CandidatesFresh` |
| | `OnceRunsOnceAlone` | `Spec => []OnceRunsOnce` for a single process |
| | `DeliveryImplemented` | `Spec => DeliversAtMostOnce`, the refinement |
| `JobRunner_proofs` | `Invariance`, `TypeCorrect` | `Spec => []RunnerInv`, `Spec => []TypeOK` |
| | `RowBeforeNews` | `Spec => []ToldAfterRow`, a half of `RecordsAgree` |
| | `RecordsStayInAgreement` | `Spec => []RecordsAgree` |
| | `NewsIsFinal` | `Spec => FinalWhenTold` |
| | `LifecycleImplemented` | `Spec => FollowsLifecycle`, the refinement |
| `ReviewStore_proofs` | `Invariance`, `TypeCorrect` | `Spec => []Inv`, `Spec => []TypeOK` |
| | `CopyIsReplaced` | `Spec => RecordsWhatItReplaces` |
| | `HistoryStaysPast` | `Spec => []HistoryIsPast` |
| `AccessControl_proofs` | `TablesStayInAgreement` | `Spec => []TablesAgree` |
| | `EditsTakeEffectWhole` | `Spec => EditsAreWhole` |
| | `SignedInUsersStay` | `Spec => SignedInStay` |
| `AssetLabels_proofs` | `TablesStayInAgreement` | `Spec => []TablesAgree` |
| | `DeletedAssetsStay` | `Spec => DeletedStay` |
| `Server_proofs` | `Invariance`, `TypeCorrect` | `Spec => []Inv`, `Spec => []TypeOK` |
| | `BudgetKept` | `Spec => []WithinBudget` |
| | `AuditTruthful` | `Spec => []AuditIsTruthful` |
| | `CleanStop` | `Spec => []CleanStopWaits` |
| | `CountersCorrect` | `Spec => []CountersAddUp` |
| | `StreamInvariance`, `StreamTypeCorrect` | `StreamSpec => []BrokerInv`, `StreamSpec => []StreamTypeOK` |
| | `NeverSendsOnClosed` | `StreamSpec => []NoSendOnClosed` |
| | `DeliveryIsComplete` | `StreamSpec => []DeliveredUnlessFull` |
| | `OrderIsKept` | `StreamSpec => []RunsInOrder` |
| `Reports_proofs` | `Invariance`, `TypeCorrect` | `Spec => []Inv`, `Spec => []TypeOK` |
| | `ReadsWhole` | `Spec => []ReadsAreWhole` |
| | `ListedIsCounted` | `Spec => []ListedIsAssessed` |
| | `PoamIsComplete` | `Spec => []PoamCovers` |
| | `SummariesTellTheSame` | `Spec => []ReportsAgree` |
| `ChecklistFiles_proofs` | `Invariance`, `TypeCorrect` | `Spec => []FilesInv`, `Spec => []TypeOK` |
| | `FilesAreWhole` | `Spec => []WholeRevision` |
| | `FilesReturn` | `Spec => []OwnAsset` |
| | `JudgementsSurvive` | `Spec => ResultsSurvive` |

The type invariants proved here but that of `ChecklistFiles`, `NeverEarly`, `ClaimsApart` and
`CandidatesFresh` hold for every instance, so no run repeats them.

Assumptions are the named ones on the constants, which TLC evaluates on every
run: `EventsAssumption` (the clock is a natural number, intervals are natural
numbers, NULL is neither a number nor a Boolean), `SchedulerAssumption` (job
ids are natural numbers, bodies are event bodies, NULL is not a triple of
numbers), `RunnerAssumption`, `BrokerAssumption` (the sets of processes are
apart from each other, channels have room for one event at least),
`ReviewAssumption` (NULL is no label, number, request or review; pairs are
numbers), `AccessAssumption` and `AssetsAssumption` (each kind of request names
what its handler needs, an item of a body belongs to its list, the tables at
first keep the constraints of the schema, and the sets of ids are apart where
one column may hold both), `BucketAssumption` (a burst and a request cost something),
`ServerAssumption`, `RevisionsAssumption`, `AsksAssumption`,
`MetricsAssumption` and `ReportsAssumption` (the types of the settings, files,
questions and first tables; NULL is no sample of a request; the tables of
assets, benchmarks, rules and labels are finite), `LibraryAssumption` and
`FilesAssumption` (rules and names are numbers in their order; there are
finitely many assets and rules; NULL is none of the values that may be missing;
each kind of request has what its handler needs, `OpType`; the tables at first
keep the unique keys of the schema, `SeedType`).

*At most one run.* `NoDoubleRun` alone is not inductive: `CreateRun` would have
to know that nobody else holds the claim. `ClaimsApart` says so (a held claim
is recorded, has no run and has one holder) and, to keep it so, that all claims
under the present event lie at or before `last_event_fire`. `ClaimIsNew` is the
heart: the WHERE clause asks for a later time than `last_event_fire`, so what it
lets through was never claimed. A PATCH resets `last_event_fire`, but starts a
new epoch in which nothing has been claimed. `ReadClock` gives `NeverEarly` and
the type of the claimed time.

*In order.* `CandidatesFresh` relates what a process computed from an old row to
the row as it is: the candidate is the next occurrence, or it is at or before
`last_event_fire` and the claim will refuse it. A claim turns the equal
candidates of the others into refused ones (`ClaimFresh`). It holds only until
the first PATCH.

*Delivery.* `StatusTable` gives the status of an occurrence by its run count,
holder and claim; `OneMoves` reduces each step to the one occurrence it
touches; `ClaimMoves` and `ReleaseMoves` are the four arrows.

*Runs.* A notification can say the truth only if the row was written before it:
`RowIsVerdict` carries the verdict from the `finish` statement to the
notification, for runs that lost no statement, and `RowOfRun` says that until
then the row is running or gone. `ToldLast` puts the terminal notification at
the end of the goroutine, so that nothing can follow it. With these, each step
changes the state of one run by one arrow of `RunLifecycle`. For the output,
`OutputAt` counts: behind a goroutine that stands at task `n + 1` are three
lines for each of the `n` tasks before it, and of the task in hand the lines
that its place in the loop has written. A run without faults never fails to
load, since the job of a run exists as long as the run does (`JobOfRun`).

*Broker.* `NoSendOnClosed` is about two locks: a fan-out holds the read lock and
visits channels of the map only (`Visits`), cancelling takes the write lock,
removes a channel from the map and closes it, and nothing in the map is closed
(`Phases`). `Subscribe` sends its snapshot before it hands out the cancel
function. For `DeliveredUnlessFull`, what is due to a subscriber is split into
what it was sent, what publishers have in hand and what found a full channel;
every step moves an event between these, and before the registration all are
empty (`Untouched`). The order follows from where each publisher stands: what a
subscriber has of it came before what it still has to send, and the snapshot is
sent once, by the request's own goroutine.

*Reviews.* `Tx` says that from its copy to its commit a transaction holds the
row lock and the row is the copy; `Frame`, that no step of another touches a
row or lock that is held. Then the commit replaces the copy. For the history,
`Fresh` says that transactions started at different times, and that nothing
committed or recorded has the time of one still open: so the version that a
commit writes is in no history, and the copy, which was current until then, is
recorded by nobody else.

*One run of a "once" job.* `OnceInv` says that what a single process still has
to try was computed before the event was claimed, and that its present setting
has one claim at most. A second process breaks the first half (section 5).

*Users, groups, grants; assets and labels.* Both modules are about rows that
transactions delete and insert while others read them, and both invariants are
built the same way over the tables of `LinkTables`. `Stage` is what the program
counter says of a request's body, `Holds` what it holds: only a request in its
transaction has locks, deleted or inserted links, and an edit that updates a
row holds it. `LinksInv` says what the unique key and the row locks amount to:
what open transactions have deleted is apart, what they have inserted has keys
of its own, and whoever inserted a key that stands in the table has deleted the
one there; so `Commit` puts a key into the table once. For rows, `RowsInv`
(`AssetsInv`) says that what a link refers to is there, or is being created by
the link's own request, and that nobody is deleting it; the key locks of a
foreign key are taken and kept until the commit, and a delete waits for them.

`OneListAtATime` is not inductive: it speaks of two requests of which one has
committed. `ListsInv` adds that two rivals (edits that update the same row) are
never both in their transactions, and that one which has inserted into a list
has deleted what the other had committed there (`Replaces`). Here the order of
the code matters: the row is locked by the UPDATE before the DELETE's statement
takes its snapshot, so the snapshot has all that the rival committed.
`EditsAreWhole` rests on `ItemsInv`: every item of the body is inserted, in
hand, or in a list to come; at the commit only the first is left. `SignedInStay`
rests on `DeletesInv`: a user that is about to be deleted has not signed in,
since a sign-in finds its row by the subject and never gives one to another row.

For labels, the collection was read in one statement and the link is inserted
in another. `Made` says that the collection of a label never changes, `Homes`
which collections the asset is in or will be in when the request commits, and
`Chosen` that the one that the request has read is among them, from the read to
the insert, moves of the asset by others included. `was` makes this true of
assets that have moved on since. `DeletedStay` needs that an update still finds
the asset enabled at its UPDATE (`CanBegin`), and that its lock keeps it so.

*Limiter.* That the level of a bucket is within the burst says nothing about
what was granted. `Budget` bounds every window of grants, and what the bucket
still holds on top of each window that ends now; a reading older than the
bucket's adds to `lag`, since later readings gain that time a second time.

*Audit and stop.* `AuditInv` follows one goroutine per request from the answer
to its row; `StopInv` says what each phase of the shutdown has waited for.

*Reads.* `ReaderInv` says, stage by stage, what a reader has of the revision it
resolved; `ImportKeeps`, that an import leaves the rules of a revision as they
are or removes the revision with them, so each further statement finds all of
its rows or none.

*Counters.* `CountersAddUp` has the counters as functions of the requests that
are done: how many, the sum of their times, the largest and the smallest time,
the bag of their error statuses, for the process and for every operation. It is
inductive with two additions (`CountInv`): the requests that are done are
finitely many, and one that is not done has no sample. `Count` then adds one
request to one operation: `EntryOneMore` is the arithmetic of that operation's
entry, `SameSamples` says that the other entries tell of the same requests as
before. The minimum is the smallest time only while no request took 0 ms.

*Sums.* The provers have no induction over data, so a sum is written as what it
counts: the sum of `n[r]` over rows is the number of pairs of a row and a number
up to `n[r]` (`Millis`, `Total`, `Weighted`). TLC evaluates this, and proofs
about it need bijections only. `Pieces` is the lemma: if `n[r]` is the size of a
set `D[r]`, one may count pairs of a row and a member of `D[r]` instead.

*Library.* That a benchmark has a revision string once (`LibraryOK`) is kept by
a lock and a delete. `StigsLocked` says that no two transactions hold the row of
one stig, and that what a transaction adds is of a stig it holds; so what two of
them see differs in other benchmarks only, and a revision that one of them
stores is apart from all that it sees, once it has deleted the one it replaces.
`RevisionsApart` therefore speaks of what is committed and of what every open
transaction sees: a commit makes the one the other. `LibraryGrows` is what
readers need of all this: ids are never given out again, a revision keeps its
rules, and a revision that is committed or gone (`Settled`) does not come back.

*Checklist files.* `WholeRevision` speaks of the files of clients, but is decided
when the rules are read. `Sections` has it of what an export has read, with the
revision settled since `ReadRevision`; from then on it stays true however the
library changes (`WholeStays`): rules are never changed, and a revision that
was replaced during the read stays away. `SoundFiles` has the same of files, and
that each row of a file is what the writer of its format makes of some review
(`FileRows`). `InHand` says what a request has at each place: the files of an
import are files of clients, and what it has still to put are entries parsed
from sound files (`Parsed`). `FileParsed` is then a matter of the two tables of a
format alone: for each of the judgements the parser's undoes the writer's
(`JudgementUndone`), so `ResultsSurvive` holds for files of any length.
`OwnAsset` needs that a list has no two assets of one name: `NamesApart`, which
the unique index keeps in every update, moves to another collection included.
Of the five ways to find an asset the first two decide (`FirstOfFive`). The last
asset by name exists since the assets are finitely many (`GreatestNumber`).

*Reports.* Each report is a function of the tables, so these three theorems
follow from the types. `RowsOfJoined` says what the statements' common universe
is; `FiniteJoined`, that it is finite. `GroupedTotal`: the rows of any GROUP BY
add up to the counts of the whole, whatever the column. `LabelTotal` and
`WeightedTotal` bring the label rows and the weighted asset rows to the same
set, that of a counted rule and a label of its asset. `OneOfEach` splits what is
assessed by result and by status. The POA&M's failures are exactly the reviews
asked for, each at all of its places (`FailuresAreAsked`), with the severity and
group that the place's revision gives (`SaysTheSame`); a finding is known by its
key (`FindingsByKey`), and its severity is that of one of its failures and no
lower than any (`WorstIsWorst`). The failures are part of the universe and so
finitely many, hence the findings too: a workbook has as many rows
(`RowPerFinding`). `HighIsCounted` compares them with the metrics, since both go
by the row of `stig_rule`. For review lists, where
release dates and benchmark dates agree, so do the orders (`SameOrder`), and
with them the default revisions.

Only model-checked: liveness (`DueIsRun`, `RunEnds`, `PublishersFinish`,
`RequestsFinish`, `StopsAfterSignal`), which is beyond the prover; and the
properties of `Api`, which are about finite tables of routes and handlers, of
which TLC visits every entry.

## 7. Not modelled

- Calendar arithmetic of intervals (days, weeks, months, time zones): an
  interval is a number of ticks.
- `ClearEvent` of a job patch, which no handler sets, and `Limiter.Sweep`,
  which nothing calls.
- A third state of the broker's dependencies, and the keep-alive comments of
  the stream that reach the client (a failed one is a `FailWrite`).
- Serialisation failures of Postgres; deadlock detection is modelled where
  transactions hold more than one row (`LinkTables`).
- Columns and constraints of names: a conflict of names fails a statement, as
  `Fault` may.
- The conversion of parameters and of bodies: a value binds or does not.
- Fractions of tokens: the limiter counts whole ticks, `Cost` of which are one
  request.
- Names and timestamps in metrics, the layout of CSV files and workbooks, the
  syntax of XCCDF, CKL and CKLB files.
- The export of AppData, which reads one table after the other, each in a
  statement of its own, and so may show rows of different times; nothing in the
  code reads it back, since an import answers 503.
- The generated types of the API (`api/types.gen.go`), which are data without
  behaviour, and the web client, the docs site and the deployment, which are
  other programs: they are `not_modelled` in `PROJECT.json`.

## 8. Plan

1. Calendar arithmetic of intervals as functions, compared with a reference
   definition.
2. The inner side of an import: `ChecklistFiles` writes a review in one step;
   compose it with the transaction of `ReviewStore`.
3. An abstract specification of an edit (the lists of a user, group or asset
   change at once) that `AccessControl` and `AssetLabels` implement: the parts
   of their invariants are what a refinement needs.
