# A TLA+ model of qhook

qhook is a webhook gateway and queue written in Rust: it receives events over
HTTP, stores them with one job per interested party in a SQL database, and
delivers the jobs to handlers over HTTP, hands them to consumers that pull, or
drives workflows with them. These modules model the parts of `src/` that carry
its promises (at-least-once delivery, one effect per idempotency key, retries
within a budget, a circuit breaker that heals, workflows that walk their
definition), check them with TLC on small instances, and prove the main ones
with TLAPS for every value of the constants.

Line numbers below are of this commit. `PROJECT.json` maps every definition to
the lines it stands for. Most statements exist twice in the source, once for
sqlx (`db.rs`) and once for D1 (`d1_db.rs`), with the same text: where an
operator stands for the statement and an action for the function that executes
it, the map names the D1 form for the one and the sqlx form for the other.

## 1. Inventory

| Component | State it keeps | Operations | Status |
|---|---|---|---|
| Jobs table (`db.rs`) | `jobs`: status, attempt, max_attempts, scheduled_at, started_at, completed_at, created_at | insert, claim, complete, retry, bury, recover, purge, expire, reset | `JobTable` |
| Push delivery worker (`queue.rs`: `Worker::run`, `deliver_job`, `handle_failure`, `run_maintenance`) | semaphore permits, the fetched batch, one spawned task per delivery | poll, spawn, deliver, record, write the outcome, hourly maintenance, shutdown and drain | `Delivery`, abstract: `JobLifecycle` |
| Circuit breaker (`queue.rs:26-121`) | per process and handler: failure counter, opened_at, half_open_in_progress | allow_request, record_success, record_failure | `CircuitBreaker` |
| Pull queues (`api.rs:2857-3026`, `db.rs:1794-1993`) | the same rows under handler `queue/<name>` | receive, ack, nack, visibility recovery, queue retry, drain | `PullQueue` |
| Event ingest (`api.rs:530-1254`) and backpressure (`db_healthy`) | `events`, `jobs`, `workflow_runs`; a flag and the poll loop's error counter | store event and jobs in a transaction, fan out, start workflows, answer | `Ingest` |
| Workflow engine (`queue.rs:497-2440`) | `workflow_runs`, workflow columns of `jobs` | steps, choice, wait, catch, parallel, map, sub-workflows, callbacks, timeouts, redrive | `Workflow`, abstract: `WorkflowWalk` |
| Outbound endpoints (`api.rs:2290-2810`) | `outbound_endpoints`, `outbound_subscriptions` | create, verify, update, rotate, delete, subscribe, fan out, sign | `Endpoints` (the schedule of their deliveries is `Delivery`) |
| Cron (`cron.rs`) | last_fired, in memory | plan, sleep, pass, fire | `Cron` |
| Per-IP limiter (`api.rs:83-131`) | window counters, a bound on their number | check, cleanup | `RateLimiter` |
| SNS messages (`api.rs:771-919`, `verify.rs:400-512`) | the certificate cache | verify, process, confirm | `Sns` |
| Paged lists and `qhook tail` | the readers' cursors | next page, poll | `Listing` |
| Server life (`api.rs:481-528`) | the signal, the tasks of server, worker and scheduler | accept, refuse, stop, drain, exit | `Server` |
| Migrations (`db.rs:148-368`, `d1_db.rs:80-173`) | schema, `_migrations` | detect, adopt, apply, record | `Migration` |
| D1 driver (`d1.rs`, `d1_db.rs`) | none (HTTP calls) | the statements of `db.rs` without transactions | partly: `Ingest`, `Workflow`, claims as `AtomicFetch = FALSE` |
| Configuration (`config.rs`) | none | parse, validate | partly: what is accepted as a workflow is `Workflow!Accepted` |
| CLI (`cli.rs`) | none | the job commands, redrive and tail are actions | partly |
| Outbound rate limiting, alerts, metrics | a library's buckets; a channel; counters | wait; send; increment | not modelled: nothing of the above depends on their state |
| Filters and transforms, SDKs, MCP server, examples | none | pure functions of one request; clients | not modelled: what they decide is chosen |

**How the parts meet.** Everything durable goes through the database; there is
no other channel between processes. Ingest writes rows the worker polls; the
worker's tasks share the breaker and a semaphore in memory, write outcomes back
and move workflow runs; a callback moves a run from an API request; pull
consumers touch the same table over HTTP; maintenance and operators update rows
under everybody's feet. The one in-memory channel from worker to HTTP handlers
is the `db_healthy` flag.

**What is hard.** Every `await` is a point where other tasks, processes,
operators and the clock intervene. A process may die between any two
statements, and most sequences of statements have no transaction around them.
Claims are leases that expire (`stale_threshold_secs`, `visibility_timeout`)
while their holders live on. Outcome writes and moves of runs name a row by id
only. Rows are read, a request is awaited, and the row is written back. Senders
repeat events after lost answers. `PROJECT.json` lists these hazards at the
lines where they bite, with the properties that would catch them.

## 2. Modules

    JobTable ── the jobs table: columns, statements, time
      ├─ Delivery ── push delivery      ──implements──> JobLifecycle
      │    ├─ MCDelivery
      │    └─ Delivery_proofs ─ DeliveryTimely_proofs
      └─ PullQueue ── pull queues
           ├─ MCPullQueue
           └─ PullQueue_proofs
    Ingest ── from the webhook to the rows, and backpressure
      ├─ MCIngest
      └─ Ingest_proofs
    Workflow ── the workflow engine     ──implements──> WorkflowWalk
      ├─ MCWorkflow
      └─ Workflow_proofs
    CircuitBreaker ── one handler's breaker
      ├─ MCCircuitBreaker
      └─ CircuitBreaker_proofs
    Endpoints, Cron, RateLimiter, Listing, Server, Migration, Sns
      ├─ MCServices ── each of these and CircuitBreaker, one at a time
      └─ Endpoints_proofs, Services_proofs (RateLimiter, Cron, Migration, Listing, Sns)

**JobTable.** The statements shared by push and pull, each one atomic step of
its caller. Time is relative: a row's three timestamps become one counter,
`timer`, whose meaning follows its status (ticks until `scheduled_at` while
waiting, since `started_at` while running, since `completed_at` once settled),
because each status change sets exactly the timestamp that later statements
compare. `attempt` saturates at `MaxAttempts`: the code only compares the two.

**Delivery.** One variable per thing a process holds: `loop` (where
`Worker::run` stands), `batch` (fetched rows), `task` (what each permit's task
is doing). Actions follow the code statement by statement: `Fetch` (with
`.max(1)` at capacity), `Spawn`/`SpawnFails`/`AtCapacity` for the spawn loop,
`CircuitRejects`, `SendRequest`, `PayloadUnread`, `Respond`, `RecordAttempt`,
`PutCompleted`, `PutFailed` for `deliver_job`, the three maintenance
statements, `Start`, `Crash`, `Shutdown`, `DrainEnds`, and the operators'
`RetryJob`, `BulkRetry`, `RetryDead`. A task carries `seen`, the attempt count
its row was read with: `handle_failure` compares `seen + 1`, not the row.
`AtomicFetch` chooses between Postgres (`UPDATE ... RETURNING` claims in the
fetch) and SQLite/MySQL/D1 (select, then `mark_job_running` row by row).
History variables `answered`, `sent`, `granted` say what handlers have seen.

**JobLifecycle.** The promise, without workers, time or attempts: accepted jobs
are pending until done or given up; done only after a 2xx; only settled jobs
leave. `Delivery` implements it under a refinement mapping that computes the
phase of a row from its status.

**CircuitBreaker.** The three cells of the struct, and each access of a method
as an action of its own (`s1..s3`, `f1..f3`, `swap`), interleaved access by
access as on the multi-threaded runtime of `main.rs:4`. `crossed` is history:
a success and a failure were between the counter and the mutex at the same
time, and no success has been recorded since that met no failure. What
`record_failure` returns only decides on an alert and a metric and is left out.

**PullQueue.** Consumers that hold, ack and nack messages by id. `nacking` is a
nack between its SELECT and its UPDATE; `picked` a receive between its SELECT
and its claims. `Orderly = TRUE` restricts consumers to those that settle what
they hold within the visibility timeout and do not repeat calls.

**Ingest.** One `request` per concurrent handler, moving through `insert`,
`jobs` (D1's extra inserts), `rest` (outbound jobs, workflows) and `first` (a
run without its first job). Each can fail, be dropped when the sender hangs up
or be lost in a crash. Row counters count effects per event and cause, so that
a second job for the same handler shows.

**Workflow.** `run` and `job` are the two tables; a `thread` is whoever
executes SQL statements for a job (the delivery task, or the API request of a
callback), and thread 0 the ingest request that starts a run. A thread's `pc`
is its next statement, so that an error (`Abandon`), a `Crash`, a late branch
or an operator comes between any two. The four outcome writes whose errors the
code only logs may also be lost while the thread goes on (`OutcomeLost`).
Payloads decide by choice: which choice rule matches, how many items a map
finds, how a request ends. Claims and recovery of rows are Delivery's; here a
row is claimed in one step and put back only when its task is gone, so that no
result depends on overlapping deliveries. The definitions are a constant that
must be what `Config::validate` accepts (`Accepted`), which has no rule against
mutual recursion of sub-workflows. `dropped` and `loosened` are history: what
was cut off between two statements, and what went on although a write failed.

**WorkflowWalk.** The promise of a run without jobs or statements: it moves
along the edges of its definition, completes only at a final step, and stays
completed. `Workflow` implements it for every run that is not loose. A run
whose definition catches the errors of branches, or that of a descendant, is
loose from the moment it, or the descendant, begins.

**Endpoints.** A `request` is a handler between its statements: `challenge`
(a verification awaiting the endpoint's answer), `read` and `write` (an update,
whose UPDATE writes the columns it has read), `delete` (subscriptions, then the
row), `subscribe`, `fan` (an event that inserts a job per subscribed endpoint).
Secrets are numbered by rotation; `floor`, `newest`, `before` and `gone` are
history.

**Cron.** One scheduler task: it plans, sleeps until the earliest occurrence,
and goes through its sources; it wakes and works as late as it may, ticks fail
(the rest of the tick is lost, `fire_cron_event`), and restarts forget.

**RateLimiter.** `check` and `cleanup` on a map with a bound on its addresses;
windows start with an address's first request, at any tick.

**Listing.** A client that walks pages of the API and a `tail` that polls, over
a table whose rows are committed out of the order of their ids, change and are
purged meanwhile.

**Server.** The three tasks of `qhook start` and what stops which: the HTTP
server on the signal, the worker once the server is done, the scheduler when
its `select!` sees the channel; the drain and its timeout. Requests last as
long as they like: neither the router (`api.rs:362-413`) nor `axum::serve`
(`api.rs:485-490`) has a timeout.

**Migration.** The statements of four versions, executed by several starters,
with detection of databases that have tables but no recorded version. `misread`
is the `unwrap_or(0)` of the version query, `ignored` an ALTER whose error is
taken for "column exists".

**Sns.** Messages move from SNS through verification to an answer. SNS repeats
after a 5xx until it has tried `MaxTries` times, and gives up at once after a
4xx. `cached` holds a certificate or whatever else the certificate's server
answered; `calm` is the time since the last fault.

## 3. What the runs check

Seven runs pass, five show a disagreement between code and documentation. Every
property has a mutant of a mapped definition that breaks it under its own run
(`PROJECT.json`, "mutants"; the mutant operators stand before the definitions
they change).

| Run | Configuration | What it shows |
|---|---|---|
| `delivery_pg` | Postgres, two processes and one job, or one process with a permit for one of two jobs; two attempts, two disturbances, TTL | Deliveries never overlap, the attempt budget holds, nothing is buried early, no redelivery after a 2xx without a failure, and the lifecycle is implemented |
| `delivery_live` | untimely deliveries, row-by-row claims, one disturbance, fairness | Every accepted job is settled, whatever fails once; completed rows were answered; the conditional claim leaves no row running without a task |
| `pull_orderly` | SQLite, two orderly consumers, two messages, one disturbance, fairness | A consumer's ack or nack acts on its own delivery although there is no receipt; nothing is buried early; every message is settled |
| `pull_stale` | Postgres, consumers of any speed that repeat calls, TTL, fairness | Acks are final; deliveries are within attempts plus lapses; nothing stays in flight |
| `ingest_main` | a keyed event and a malformed unkeyed one, both drivers, two requests, two disturbances, fairness | Acknowledged means persisted; keys keep effects single; what is acknowledged gets done while nothing fails; backpressure ends |
| `workflow_main` | one run of each of five definitions, one fault, one operator call, timeouts, both kinds of database, fairness | A run is at one place; joins wait for all their branches; what stops a run is on record; runs settle; `WorkflowWalk` is implemented |
| `services` | the breaker and the seven services, each by itself, fairness | No orphan half-open flag, one timely test; openings are spent and failed tests re-open unless a success crosses a failure, and that heals; half-open circuits are tried; interrupted migrations; rotations stay, deleted endpoints get nothing; cron fires once and does not miss; at most two limits per window; pages are complete, the tail passes nothing it could have printed; a signal drains once no request is open; genuine SNS messages are never refused, and fail only within a page's hour of a fault |
| `breaker_stuck` (violation) | one task, one lost outcome | The half-open flag stays set: the handler is never tried again |
| `ingest_lost` (violation) | crashes only; one after the commit | The workflow of an acknowledged event never starts |
| `workflow_branches` (violation) | branches with a catch, nothing fails but requests | The catch moves the run to the next parallel step; the sibling is counted there, and outputs are merged while a branch is in flight |
| `workflow_d1` (violation) | two branches, D1 | Both read that they are the last, and both advance the run |
| `migration_race` (violation) | two starters, no fault | One adopts the other's half-made database; the schema stays incomplete |

**Bounds.** `MaxAttempts = 2` separates first, last and retried attempts;
`StaleAfter`, delays and retention of one or two ticks suffice because only
comparisons matter and counters saturate just past the compared value. Two
processes or consumers make every pairwise race; one or two jobs make batches
and independent rows. `MaxDisturbances` bounds crashes, errors, hang-ups and
operator calls together: two allow a failure during the recovery from another.
`HistoryCap` and `RowCap` saturate counters above the values the properties
compare them with. `delivery_live` has `HistoryCap = 0` because none of its
properties reads those counters. `delivery_pg` has two processes and two jobs
but, by its constraint `Scope`, never both at work: the races of two processes
for a row need one job, and a poll at capacity, which claims a row and drops
it, needs one process, there with one disturbance.

`workflow_main`: two runs (a parent and its child), six jobs (the longest walk
here takes five), one error, crash, expiry or race anywhere, and one operator
call, over five small definitions that have every kind of step between them:
`order` (retries, a catch, an `end`), `fork` (two branches), `route` (a choice
with a default, a wait, a callback), `gate` (a choice without a default) and
`nest` (a sub-workflow with a map of one or two items). A map without items is
left out (section 6). Walks that need more jobs stop at the bound, hence
`CHECK_DEADLOCK FALSE`; `RunsSettle` is checked all the same, and would show a
run that stops there.

`services`: the components share no state, so a behaviour picks one and leaves
the others alone. One endpoint suffices because every statement names one id;
two clients make each pair of handlers race, three secrets allow a rotation on
either side of a write. Cron has three schedules (hourly, minutely, every few
seconds) over two and a third minutes of three seconds each, with one outage.
The limiter has two addresses and room for one, a limit of two and windows of
two ticks over five. Listing has four rows, pages of two and one change. The
server has room for two of three requests and runs two deliveries. Migration
has two starters and one fault (`MySql = FALSE`; with `TRUE` a repeated
`CREATE INDEX` is ignored, which `ignored` covers). The breaker has two tasks,
a threshold and a cooldown of two, and one lost outcome. SNS has two messages,
delivered twice at most, and two faults: enough for an error page that replaces
a certificate, and for messages that are given up over it. The
clocks and counters stop at their bounds, hence `CHECK_DEADLOCK FALSE`. The
other passing runs check for deadlock. Symmetry is used without liveness only.

**Timely deliveries.** `SingleFlight`, `AttemptBudget`, `DeadIsSpent` and the
proofs about them assume `Timely`: no claim is held past `TaskDeadline <
StaleAfter`. The code supports this with reqwest's 30 s timeout against
`stale_threshold_secs` (300 s by default), not more: the wait for a rate
limiter (`queue.rs:352`) is unbounded, the threshold can be configured lower,
and a process can be suspended. Without `Timely`, TLC finds deliveries that
overlap and a `completed` row that a late task turns back (see section 6);
`delivery_live` runs without it.

**Fairness.** Weak fairness for what a running process or request goes on to
do; a supervisor restarts processes; databases come back. Strong fairness
where the code takes turns: `Fetch` and `MaintenanceDue` are branches of one
`tokio::select!`, which polls its branches in random order, so a branch that is
ready again and again is taken, and so is the scheduler's watch of the shutdown
channel; the sender's resend and a consumer's receive compete for permits, flags
and messages. That senders repeat until they have a 2xx, that consumers keep
receiving and answer each message, and that a handler's breaker sees jobs again
and again, are assumptions about the environment. Nothing is assumed of
crashes, operators, callbacks, circuit verdicts, successful answers, `/health`
being asked, retries of SNS, or of the requests and deliveries that a shutdown
finds open ever coming to an end.

**Exceptions that properties name.** `Loose` runs (`OnePosition`,
`JoinIsComplete`, `ImplementsWalk`) went on after a failed write, were counted
in a race of D1, or have a catch on a step with branches; the two violation
runs of the workflow engine show why the last two are excepted. `Lost` runs
(`StrandedIsExplained`, `RunsSettle`) had their only thread cut off between two
statements, their job expired, or a child that failed. A child passes its
state on to its parent, so both are least sets that contain the parents of
their members (`WithParents`).

## 4. What is proved

TLAPS checks these for every value of the constants that satisfies the
assumptions in the modules (`JobTableAssumption`, `DeliveryAssumption`,
`TimelyAssumption`, `PullQueueAssumption`, `CircuitBreakerAssumption`,
`IngestAssumption`, `DefinitionsAssumption`, `BoundsAssumption`,
`EndpointsAssumption`, `LimiterAssumption`, `CronAssumption`,
`MigrationAssumption`, `ListingAssumption`, `SnsAssumption`), that is, any
number of jobs, processes, permits, consumers, tasks, events, requests, runs,
endpoints, schedules, starters, rows and messages, and any workflow definitions
that are accepted.
None assumes a bound of the runs. Type invariants are proved and not run, since
the proofs cover every instance.

* **Delivery_proofs.** `TypeCorrect`. `CompletedCorrect`: a completed row was
  answered, timely or not. `CompletedWasAnswered` alone is not inductive;
  `AnsweredInv` adds that a task about to write a success has an answered job.
  `SingleFlightCorrect`: exclusion for both kinds of database. Its invariant
  `ClaimInv` says that the claims of live processes (tasks, and fetched rows on
  Postgres) are pairwise distinct, that their rows are running, and that these
  are fresh (`timer <= TaskDeadline`), which is why recovery, the only other
  writer of running rows, misses them. `NothingStranded`: while nothing has
  failed, a running row has a live task, timely or not; it assumes that the
  fetch only reads, and is false of Postgres (section 6).
* **DeliveryTimely_proofs.** What depends on timely deliveries.
  `LifecycleImplemented`: the refinement, step by step; `CompletedFinal` follows
  from it, since the abstract machine has no way back from `done`.
  `NothingRedelivered`: while nothing has failed, no request goes out after a
  2xx; its invariant follows the answered job through the writes of its one
  task to a row nobody fetches. `AttemptBudgetCorrect`, `DeadIsSpentCorrect`, from
  `BudgetInv`, which relates what was sent, the row's count, and the snapshot
  of the task that holds the row. These need the claim in the fetch
  (`AtomicFetch`): a row-by-row claim re-reads the status but not the attempt,
  so an operator's reset in between leaves a stale snapshot.
* **PullQueue_proofs.** `TypeCorrect`; `AckFinal` without any strengthening and
  for all consumers; `HolderOwnsCorrect` and `DeadSpentCorrect` for orderly
  consumers, from `OwnInv`: holders are alone, their rows are running (or
  drained) and younger than the timeout, and a nack's snapshot is the count
  still in the row. `BudgetKept`, for consumers of any speed and both kinds of
  database: its invariant `BudgetInv` holds while no operator has interfered
  and counts, for each message, what was delivered against the row's attempts,
  its lapses, and what nacks under way may still write back.
* **CircuitBreaker_proofs.** All of it for any number of tasks whose calls
  interleave at every access. `TypeCorrect`; `FlagOwned`; `OneTimelyProbe`: its
  invariant dates each test request against the opening it followed, so that a
  request whose outcome re-opens the circuit cannot be in flight when the next
  test is let through. `OpenSpent` and `FailureReopens` from `LedgerInv`: while
  no success and failure have crossed, only the one or the other are between
  the two cells, successes there have left a counter of zero, and failures
  there will write what the circuit still lacks. Both theorems except crossed
  calls, after which they are false (section 6); that the cells agree again is
  liveness, and model-checked.
* **Ingest_proofs.** `TypeCorrect`; `RefusalExplained`; `AckedPersisted` from
  `Persisted` (a stored event has its jobs, or it is D1); `KeysWork` from
  `Stations /\ KeysInv`: at most one request is past the insert of a keyed
  event, and rows already made plus what it still has to make never exceed one
  per cause.
* **Workflow_proofs.** `TypeCorrect` and `StepsAlwaysExist`, proved together
  from one inductive invariant: no statement names a run, a job or a step that
  is not there, so `steps[next_index]` and its like never panic. Types alone
  are not inductive: that a step index stays inside its definition needs that
  a thread's job belongs to its run, that a `goto` was accepted, and that a
  child's `parent_step_index` lies inside the definition of its parent. The
  proof has one step per statement, and a lemma for each way a row is written.
  `OnePlace` and `JoinsAreComplete`, together again, from `Placed`: a run that
  is not loose has one token at most (an open job, a thread that moves it, a
  callback or a child, or its set of branches); a thread that moves it has
  written its job's outcome, and knows whether that is a branch; and as long as branches are out, completed ones are
  the counted ones and those whose thread has yet to count, so that their
  number cannot reach `count` early. The set of loose runs only grows, which is
  what lets each step be argued for the runs that are not loose after it, and
  the parent of a loose child is loose, so that a sub-workflow's outcome can be
  trusted by a run that is not. `CompletedStays`, from the same: nobody holds
  a completed run but a thread that returns to its parent, so that no statement
  writes its row, though all of them name it by id alone. `StrandedExplained`,
  from `Whole`: each running run of which nothing is lost is held by somebody,
  a dead job has failed its run or has a thread that is about to, and every
  branch missing from `parallel_completed` is there to be counted or still to
  be inserted. It assumes `NoEmptyMap`, no map step with zero items, after
  which the code does stop (section 6). `WalkImplemented`, the refinement:
  every write of a run's row is a step of `WorkflowWalk` or a stutter. Its
  invariant `OnCourse` says that an open job, a child and every thread agree
  with the run's row about the step, that a thread about to move a run goes
  along an edge, and that one about to complete it stands at a final step. It
  assumes `EndsAreAsked`: a wait or sub-workflow step has `end: true` in the
  last place only, since the code does not ask for it there (section 6).
* **Endpoints_proofs.** `EndpointTypeCorrect`, `RotationCorrect`,
  `DeletionFinal`, from `Kept`: a row that is there has the secret handed out
  last, one that is not was never made or is gone for good (an insert takes a
  fresh id, an UPDATE of a missing row writes nothing), and a fan-out has in
  hand only endpoints that were not gone when its event arrived.

* **Services_proofs.** `BurstsAreBounded`: each address's window and count, the
  counts of the windows before, and what was let through at each instant, add
  up to twice the limit in any window's length, a cleanup forgetting only what
  is over. `FiringsAreSingle`, `NoneIsLeftOut`: a source's last firing and the
  plan before it bound what the next pass looks back on, across restarts and
  late passes. `SchemasAreExplained`: what a starter has read, and what it still
  has to execute, agree with the tables that are there and the versions on
  record, for any number of starters. `PagesAreWhole`, `TailIsWhole`: what a
  client has been given is what the cursor has passed, whatever is committed,
  changed or purged behind it. `SpoiltNotForLong`: a page in place of a
  certificate is as old as the last fault at least, so that it has expired
  once nothing has gone wrong for `SNS_CERT_CACHE_TTL`.

Only model-checked:

* every liveness property (the prover has no ENABLED and no fairness
  reasoning): `AckedIsCompleted`, `CellsAgreeAgain`, `EventuallyAcked`,
  `EventuallySettled`, `InvisibleIsTemporary`, `ProbedUnlessLost`, `RunsSettle`,
  `SignalDrains`;
* the properties of the five violation runs, which are false.

Every invariant, action property and refinement of the passing runs has a
theorem, under the assumptions named above.

Recursive definitions are avoided in what is proved about: `Loose` and `Lost`
are least sets, of which the proofs need that they are closed under parents and
contained in every set that is.

## 5. Limits of the model

* Accesses to the breaker's atomics are sequentially consistent in the model;
  the code uses Acquire/Release, which allows more.
* One statement is one atomic step on every database. Postgres' `FOR UPDATE
  SKIP LOCKED` inside one `UPDATE` and the others' single-row updates justify
  that; isolation levels are not modelled. The columns that one version of the
  schema adds to a table count as one statement.
* Which rows a limited fetch returns is nondeterministic (the code orders by
  `scheduled_at`); no property depends on the order.
* `insert_attempt` rows are modelled by the control they decide (an error ends
  the task), not as data. An ack's or nack's own database error leaves the row
  as it was and is covered by a step that does not happen.
* The bulk retry is modelled without its optional handler filter.
* MySQL's `INSERT IGNORE` counts as the same conflict rule as `ON CONFLICT`.
* `handle_event` and `handle_sns` reach `process_event` as `handle_webhook`
  does; their extra checks only refuse requests (those of SNS are `Sns`).
* Which of several handlers' idempotency keys applies, and the order in which
  workflows start, come from `HashMap` iteration; the model takes the key as
  given and any order.
* An unkeyed event whose payload a workflow's params reject is answered 500
  after its other jobs were committed; each retry creates them again. The
  properties leave this case out by name (`Malformed`), it is not an accident.
* Workflow rows are claimed and recovered without overlapping deliveries; an
  overlap would advance a run twice, as its late outcome write goes by id.
* The delay of a wait step and tokens of callbacks are left out: they decide
  when a job is due and which job a request finds.
* Several qhook instances each run their own cron scheduler; `Cron` is one.
* Panics are not modelled. A panic of the worker task would go unnoticed
  (`api.rs:249` awaits it only at shutdown).

**Not modelled.** Outbound rate limiting is a library's token bucket whose wait
appears as an untimely delivery; alerts are a bounded channel that drops what
exceeds it, metrics counters that nothing reads back; signatures of providers
other than SNS, filters, transforms and the rest of the configuration are pure
functions of one request or file; `events replay` inserts jobs as an ingest
does; SDKs, the MCP server and examples are clients of the API.

## 6. Known divergences

Five have a run (section 3). The others were seen while modelling, or with the
same modules and other constants, and have no run of their own.

Push and pull:

* With `Timely = FALSE`, `CompletedIsFinal` and `NoRedelivery` fail: outcome
  writes go by id alone (`db.rs:663-720`) and recovery takes rows whose
  delivery is still under way (`db.rs:1045`), while `docs/guides/scaling.md:163`
  says that no job is processed twice.
* On Postgres a poll at capacity still fetches a row, which the fetch has
  claimed, and drops it (`queue.rs:305`): `NoStrandedRow` fails with
  `AtomicFetch = TRUE` and two permits. The row keeps a
  `started_at`, "When delivery started" (`docs/guides/database-schema.md:43`),
  though nothing delivers it.
* With three consumers, a late nack makes a message visible to a third one
  within the timeout of the second (`db.rs:1939` names the message only;
  `docs/guides/pull-mode-queues.md:404`).
* A rejection by an open circuit spends the attempt counted by the claim
  (`queue.rs:345`), so a job can be dead-lettered after fewer requests than
  `max`, which `docs/configuration.md:211` calls "Max delivery attempts".
* A lapsed pull message is never dead-lettered by the lapse itself
  (`db.rs:1982`), against `docs/guides/pull-mode-queues.md:432` ("the next nack
  (or timeout expiry) moves it to the dead-letter queue"); a nacked one waits
  for a backoff (`db.rs:1931-1936`), against `:411` ("immediately re-queued").
* A success and a failure that are between the breaker's counter and its mutex
  at the same time leave the two disagreeing (`queue.rs:90-92`, `:102-106`): the
  circuit opens on one counted failure, stays closed above the threshold, or
  stays half-open after a failed test, until later calls heal it
  (`CellsAgreeAgain`). Of two failures that cross the threshold together the
  later one may reach the mutex first, and neither then returns TRUE, against
  `queue.rs:98` ("Returns true if the circuit was just opened"): no alert. With
  `Deadline >= Cooldown` a late failure lets a second test request through.
* `d1_db.rs:237-239` has D1's single-writer model "prevents partial writes from
  concurrent requests"; a failed call between the event and its jobs leaves
  a partial write all the same.
* On D1 `deliver_outbound` asks the sqlx pool (`queue.rs:2502`), which panics:
  an outbound job is never sent, and recovered without end.

Workflows:

* Nothing calls `expire_timed_out_callbacks` (`db.rs:1700`), and a run's
  timeout is only asked for when one of its jobs is delivered
  (`queue.rs:499`): a run that waits for a callback outlives both timeouts that
  `docs/guides/workflows.md:282`, `:317` and `:332` promise to enforce.
* A map step without items completes its job and stops (`queue.rs:1619`
  continues with an empty table of workflows): the run stays running. With
  `ItemCounts` including 0 `StrandedIsExplained` fails.
* A child run that fails does not resume or fail its parent (`queue.rs:2348`).
* `end: true` is not asked for by wait steps and by the step a child returns to
  (`queue.rs:1858`, `:2347`), against `docs/guides/workflows.md:128`.
* `jobs retry` of a workflow's dead job leaves its run "failed" while the run
  goes on; `workflow-runs redrive` retries the dead jobs it finds among the
  first hundred, where `docs/cli.md:195` says "from the beginning", and a run
  that failed without a dead job (a choice without a match) only gets the
  status "running" (`docs/guides/workflows.md:341`).
* `validate` refuses a sub-workflow that names itself, not two that name each
  other. `max_concurrency` of a map is read by nothing.

Services:

* `docs/guides/local-to-production.md:77` lets several instances share a new
  database; `migration_race` shows them racing. A version that cannot be read
  counts as 0 (`unwrap_or(0)`), and an ALTER's error is ignored whatever it is.
  `docs/guides/database-schema.md:144` lists a column `name` that `_migrations`
  does not have.
* The per-IP limit is a fixed window from the first request on, through which
  twice the limit can pass around its end (`BurstBounded` is that bound);
  `api.rs:83` and `docs/guides/security.md:73` call it a sliding window.
* A rotation, disable or delete between the SELECT and the UPDATE of an update
  or verification: the secret and the deletion survive (`RotationTakesEffect`,
  `DeletedGetsNothing`), a concurrent change of status can be undone. A pending
  job of a deleted endpoint is signed with an empty secret.
* Cron's `timezone` is ignored (`docs/configuration.md:236`), schedules with
  seconds fire at most once a minute (`:235`), and each of several instances
  fires every tick.
* The first poll of `qhook tail` is in descending order, so its cursor starts
  at the oldest row it has printed and the next poll prints rows again; rows
  that are committed late under smaller ids, and jobs that finish behind the
  cursor, are never shown. A page with `limit=0` is empty and says `has_more`.
* Whatever the certificate's server answers SNS's verification with is cached
  for an hour, an error page too (`verify.rs:441`): every message is then
  answered 500 until the entry expires, and those whose retries SNS exhausts
  meanwhile are lost for good (`docs/guides/sns.md:14`).
* A request without a timeout keeps `axum::serve` from returning, so that the
  worker is never told to drain: a client that stalls its body keeps the
  process alive after a SIGTERM, whatever `drain_timeout_secs` is
  (`docs/configuration.md:221`, `docs/cli.md:37`, `docs/guides/monitoring.md:201`).
* `order.*` also matches `orderly` (`api.rs:1945`), and filter operators are
  found inside quoted values (`api.rs:2014`).

## 7. Plan

Done: every component of the table above that keeps state, and the proofs of
section 4. What is left, in the order of its use:

1. Theorems about `Server`, whose safety is so far checked through its
   liveness only.
2. Overlapping deliveries of workflow jobs (`Workflow` on top of `Delivery`'s
   claims), which needs an abstraction of `Delivery` small enough for TLC.
3. `events replay`, filters as operators against a reference, and D1's
   ambiguous failures (a lost answer to a statement that took effect) in
   `Delivery` and `PullQueue`.
