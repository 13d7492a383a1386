------------------------------ MODULE Delivery ------------------------------
(***************************************************************************)
(* The life of a push-delivery job of qhook: rows of the `jobs` table,     *)
(* claimed by the poll loop of one or several worker processes (queue.rs,  *)
(* Worker::run), delivered over HTTP by spawned tasks (deliver_job), and   *)
(* touched meanwhile by hourly maintenance, by operators and by crashes.   *)
(*                                                                         *)
(* Every SQL statement is one atomic step; whatever the code does between  *)
(* two statements (an await) can be interleaved with anything.  Jobs of    *)
(* configured handlers and of outbound endpoints are modelled; workflow    *)
(* steps add their own bookkeeping after the same claim.                   *)
(***************************************************************************)
EXTENDS JobTable

CONSTANTS
  Workers,         (* the qhook processes sharing the database                *)
  Permits,         (* worker.max_concurrency: the semaphore of one process    *)
  BatchSize,       (* worker.batch_size                                       *)
  CircuitDelay,    (* the 10 s for which an open circuit postpones a job      *)
  RetryDelays,     (* the delays backoff and Retry-After can produce          *)
  TaskDeadline,    (* the longest a claim is held when deliveries are timely  *)
  Timely,          (* TRUE: every delivery ends by TaskDeadline               *)
  AtomicFetch,     (* TRUE: Postgres claims in the fetch; FALSE: SQLite/MySQL *)
  HasBreaker,      (* TRUE: configured handler; FALSE: outbound endpoint      *)
  MaxDisturbances, (* bound on crashes, shutdowns, DB errors, operator calls  *)
  HistoryCap       (* where the history counters saturate                     *)

ASSUME DeliveryAssumption ==
  /\ BatchSize \in Nat \ {0}
  /\ CircuitDelay \in Nat /\ RetryDelays \subseteq Nat
  /\ TaskDeadline \in Nat
  /\ Timely \in BOOLEAN /\ AtomicFetch \in BOOLEAN /\ HasBreaker \in BOOLEAN
  /\ MaxDisturbances \in Nat
  /\ HistoryCap \in Nat

(* reqwest's 30 s timeout against the 300 s threshold, in a timely system. *)
ASSUME TimelyAssumption == Timely => TaskDeadline < StaleAfter

VARIABLES
  loop,      (* where the process stands in Worker::run                         *)
  batch,     (* rows returned by fetch_available_jobs, not yet handed to a task *)
  task,      (* the delivery task that holds each permit                        *)
  disturbed, (* crashes, shutdowns, DB errors and operator calls so far         *)
  answered,  (* history: some delivery of the job got a 2xx answer              *)
  sent,      (* history: HTTP requests sent since the attempt counter was reset *)
  granted    (* history: times the row was put back without a spent attempt     *)

workerVars == <<loop, batch, task>>
historyVars == <<answered, sent, granted>>
vars == <<rowVars, workerVars, disturbed, historyVars>>

-----------------------------------------------------------------------------

(* The stations of Worker::run: the three statements of run_maintenance,   *)
(* the select! loop, and the drain that follows the shutdown signal.       *)
Station == {"down", "recover", "cleanup", "expire", "poll", "drain"}

(* A fetched row keeps the attempt count it was read with (JobRow.attempt: *)
(* the count before this claim); a task keeps it until it has ended.       *)
Row == [job : Jobs, seen : Nat]
TaskStep == {"check", "send", "ok", "refused", "put_ok", "put_fail"}
Claim == [job : Jobs, seen : Nat, pc : TaskStep]
Idle == [pc |-> "idle"]

FreePermits(w) == {p \in Permits : task[w][p] = Idle}
Polling(w) == loop[w] = "poll" /\ batch[w] = {}

(* A statement that works, and one that fails with a database error.       *)
Disturb == disturbed < MaxDisturbances /\ disturbed' = disturbed + 1
Undisturbed == UNCHANGED disturbed

EndTask(w, p) == task' = [task EXCEPT ![w][p] = Idle]
StepTask(w, p, pc) == task' = [task EXCEPT ![w][p].pc = pc]

-----------------------------------------------------------------------------
(* Ingest inserts the row together with its event (module Ingest).         *)

Insert(j) ==
  /\ InsertRow(j)
  /\ UNCHANGED <<workerVars, disturbed, historyVars>>

-----------------------------------------------------------------------------
(* The poll loop.                                                          *)

(* batch_size.min(available_permits).max(1): one row even at capacity.     *)
FetchLimit(w) ==
  LET n == Lower(BatchSize, Cardinality(FreePermits(w)))
  IN  IF n = 0 THEN 1 ELSE n

(* fetch_available_jobs: a plain SELECT, or on Postgres an UPDATE ...      *)
(* RETURNING under FOR UPDATE SKIP LOCKED that claims what it returns.     *)
Fetch(w) ==
  /\ Polling(w)
  /\ Due # {}
  /\ \E S \in SUBSET Due :
       /\ Cardinality(S) = Lower(FetchLimit(w), Cardinality(Due))
       /\ batch' = [batch EXCEPT ![w] = {[job |-> j, seen |-> attempt[j]] : j \in S}]
       /\ IF AtomicFetch THEN ClaimRows(S) ELSE UNCHANGED <<status, timer, attempt>>
  /\ UNCHANGED <<age, loop, task, disturbed, historyVars>>

(* try_acquire_owned, then mark_job_running unless the fetch has claimed;  *)
(* its WHERE clause re-reads the status, not scheduled_at or attempt.      *)
Spawn(w, r, p) ==
  /\ r \in batch[w]
  /\ p \in FreePermits(w)
  /\ batch' = [batch EXCEPT ![w] = @ \ {r}]
  /\ \/ /\ AtomicFetch
        /\ task' = [task EXCEPT ![w][p] = [job |-> r.job, seen |-> r.seen, pc |-> "check"]]
        /\ UNCHANGED <<status, timer, attempt>>
     \/ /\ ~AtomicFetch /\ status[r.job] \in Waiting
        /\ task' = [task EXCEPT ![w][p] = [job |-> r.job, seen |-> r.seen, pc |-> "check"]]
        /\ ClaimRows({r.job})
     \/ /\ ~AtomicFetch /\ status[r.job] \notin Waiting
        /\ UNCHANGED <<task, status, timer, attempt>>
  /\ UNCHANGED <<age, loop, disturbed, historyVars>>

(* mark_job_running returns an error: the row is skipped.                  *)
SpawnFails(w, r) ==
  /\ r \in batch[w]
  /\ ~AtomicFetch
  /\ FreePermits(w) # {}
  /\ batch' = [batch EXCEPT ![w] = @ \ {r}]
  /\ Disturb
  /\ UNCHANGED <<rowVars, loop, task, historyVars>>

(* `Err(_) => break, // at capacity`: the rest of the batch is dropped.    *)
AtCapacity(w) ==
  /\ batch[w] # {}
  /\ FreePermits(w) = {}
  /\ batch' = [batch EXCEPT ![w] = {}]
  /\ UNCHANGED <<rowVars, loop, task, disturbed, historyVars>>

-----------------------------------------------------------------------------
(* A delivery task, from the circuit check to the write of its outcome.    *)
(* Module CircuitBreaker says what the verdict of allow_request can be.    *)

At(w, p, pc) == task[w][p].pc = pc

(* allow_request is FALSE: the row is rescheduled, the attempt stays spent. *)
CircuitRejects(w, p) ==
  /\ At(w, p, "check") /\ HasBreaker
  /\ \/ WriteRow(task[w][p].job, "retryable", CircuitDelay) /\ Undisturbed
     \/ UNCHANGED <<status, timer>> /\ Disturb
  /\ EndTask(w, p)
  /\ UNCHANGED <<attempt, age, loop, batch, historyVars>>

(* The circuit lets the job through, the rate limiter's quota is ready,    *)
(* the payload is read and the request goes out.                           *)
SendRequest(w, p) ==
  /\ At(w, p, "check")
  /\ StepTask(w, p, "send")
  /\ sent' = [sent EXCEPT ![task[w][p].job] = Bump(@, HistoryCap)]
  /\ UNCHANGED <<rowVars, loop, batch, disturbed, answered, granted>>

(* get_event_data fails: deliver returns Err before any request is sent.   *)
PayloadUnread(w, p) ==
  /\ At(w, p, "check")
  /\ StepTask(w, p, "put_fail")
  /\ Disturb
  /\ UNCHANGED <<rowVars, loop, batch, historyVars>>

(* What the handler can answer: a 2xx, another HTTP status, or nothing (a  *)
(* timeout or a network error).                                            *)
Answers == {"2xx", "other", "nothing"}

(* Mutant of Succeeds: any HTTP status counts as a success. *)
SucceedsOnAnyStatus(a) == a # "nothing"

Succeeds(a) == a = "2xx"

(* The request ends.  A status code goes through insert_attempt before it  *)
(* is acted on; for an error the result of insert_attempt is ignored.      *)
Respond(w, p) ==
  /\ At(w, p, "send")
  /\ \E a \in Answers :
       /\ StepTask(w, p, IF Succeeds(a) THEN "ok"
                         ELSE IF a = "other" THEN "refused" ELSE "put_fail")
       /\ answered' = IF a = "2xx" THEN [answered EXCEPT ![task[w][p].job] = TRUE]
                                   ELSE answered
  /\ UNCHANGED <<rowVars, loop, batch, disturbed, sent, granted>>

(* insert_attempt: on an error the task returns and the row stays running. *)
RecordAttempt(w, p) ==
  /\ At(w, p, "ok") \/ At(w, p, "refused")
  /\ \/ StepTask(w, p, IF At(w, p, "ok") THEN "put_ok" ELSE "put_fail") /\ Undisturbed
     \/ EndTask(w, p) /\ Disturb
  /\ UNCHANGED <<rowVars, loop, batch, historyVars>>

(* mark_job_completed writes by id alone; its error is only logged.        *)
PutCompleted(w, p) ==
  /\ At(w, p, "put_ok")
  /\ \/ WriteRow(task[w][p].job, "completed", 0) /\ Undisturbed
     \/ UNCHANGED <<status, timer>> /\ Disturb
  /\ EndTask(w, p)
  /\ UNCHANGED <<attempt, age, loop, batch, historyVars>>

(* handle_failure compares with the count read before the claim.           *)

(* Mutants of Exhausted: one attempt too many, one too few. *)
ExhaustedLate(seen) == seen + 1 > MaxAttempts
ExhaustedEarly(seen) == seen + 2 >= MaxAttempts

Exhausted(seen) == seen + 1 >= MaxAttempts

PutFailed(w, p) ==
  /\ At(w, p, "put_fail")
  /\ \/ /\ Exhausted(task[w][p].seen)
        /\ WriteRow(task[w][p].job, "dead", 0) /\ Undisturbed
     \/ /\ ~Exhausted(task[w][p].seen)
        /\ \E d \in RetryDelays : WriteRow(task[w][p].job, "retryable", d)
        /\ Undisturbed
     \/ UNCHANGED <<status, timer>> /\ Disturb
  /\ EndTask(w, p)
  /\ UNCHANGED <<attempt, age, loop, batch, historyVars>>

-----------------------------------------------------------------------------
(* run_maintenance: at start-up and every hour, three statements in a row; *)
(* an error of one is logged and the next still runs.                      *)

Proceed(w, from, to) == loop[w] = from /\ loop' = [loop EXCEPT ![w] = to]

RecoverStale(w) ==
  /\ Proceed(w, "recover", "cleanup")
  /\ \/ /\ WriteRows(Stale, "retryable")
        /\ granted' = [j \in Jobs |-> IF j \in Stale THEN Bump(granted[j], HistoryCap)
                                                     ELSE granted[j]]
        /\ Undisturbed
     \/ UNCHANGED <<status, timer, granted>> /\ Disturb
  /\ UNCHANGED <<attempt, age, batch, task, answered, sent>>

CleanupOld(w) ==
  /\ Proceed(w, "cleanup", "expire")
  /\ \/ PurgeOldRows /\ Undisturbed
     \/ UNCHANGED <<status, timer>> /\ Disturb
  /\ UNCHANGED <<attempt, age, batch, task, historyVars>>

ExpireOld(w) ==
  /\ Proceed(w, "expire", "poll")
  /\ \/ ExpireRows /\ Undisturbed
     \/ UNCHANGED <<status, timer>> /\ Disturb
  /\ UNCHANGED <<attempt, age, batch, task, historyVars>>

MaintenanceDue(w) ==
  /\ Polling(w)
  /\ Proceed(w, "poll", "recover")
  /\ UNCHANGED <<rowVars, batch, task, disturbed, historyVars>>

-----------------------------------------------------------------------------
(* Process life: start, crash, graceful shutdown.                          *)

Start(w) ==
  /\ Proceed(w, "down", "recover")
  /\ UNCHANGED <<rowVars, batch, task, disturbed, historyVars>>

(* What a process held in memory is gone; its rows stay as they are.       *)
Lose(w) ==
  /\ loop' = [loop EXCEPT ![w] = "down"]
  /\ batch' = [batch EXCEPT ![w] = {}]
  /\ task' = [task EXCEPT ![w] = [p \in Permits |-> Idle]]

Crash(w) ==
  /\ loop[w] # "down"
  /\ Lose(w)
  /\ Disturb
  /\ UNCHANGED <<rowVars, historyVars>>

(* select! takes the shutdown signal between two polls, never inside one.  *)
Shutdown(w) ==
  /\ Polling(w)
  /\ Proceed(w, "poll", "drain")
  /\ Disturb
  /\ UNCHANGED <<rowVars, batch, task, historyVars>>

(* All tasks have been joined, or drain_timeout_secs passed and the rest   *)
(* is abandoned.                                                           *)
DrainEnds(w) ==
  /\ loop[w] = "drain"
  /\ Lose(w)
  /\ UNCHANGED <<rowVars, disturbed, historyVars>>

-----------------------------------------------------------------------------
(* Operators.  RetryJob is `qhook jobs retry <id>`, BulkRetry the bulk API *)
(* (and `queues retry`), RetryDead `qhook jobs retry` without an id, which *)
(* leaves the attempt counter where it was.                                *)

ResetAttempts(S) ==
  /\ ResetRows(S)
  /\ sent' = [j \in Jobs |-> IF j \in S THEN 0 ELSE sent[j]]
  /\ granted' = [j \in Jobs |-> IF j \in S THEN 0 ELSE granted[j]]

RetryJob(j) ==
  /\ status[j] \in Retriable
  /\ ResetAttempts({j})
  /\ Disturb
  /\ UNCHANGED <<age, workerVars, answered>>

BulkRetry(st) ==
  /\ \E j \in Jobs : status[j] = st
  /\ ResetAttempts({j \in Jobs : status[j] = st})
  /\ Disturb
  /\ UNCHANGED <<age, workerVars, answered>>

RetryDead ==
  LET dead == {j \in Jobs : status[j] = "dead"}
  IN  /\ dead # {}
      /\ WriteRows(dead, "available")
      /\ granted' = [j \in Jobs |-> IF j \in dead THEN Bump(granted[j], HistoryCap)
                                                  ELSE granted[j]]
      /\ Disturb
      /\ UNCHANGED <<attempt, age, workerVars, answered, sent>>

-----------------------------------------------------------------------------
(* Time.  In a timely system nobody holds a claim past TaskDeadline.       *)

(* The jobs a live process believes it holds.                              *)
Held(w) == {task[w][p].job : p \in Permits \ FreePermits(w)}
           \cup (IF AtomicFetch THEN {r.job : r \in batch[w]} ELSE {})

Overdue(j) == status[j] = "running" /\ timer[j] >= TaskDeadline

Tick ==
  /\ Timely => \A w \in Workers : \A j \in Held(w) : ~Overdue(j)
  /\ TableTick
  /\ UNCHANGED <<workerVars, disturbed, historyVars>>

-----------------------------------------------------------------------------

Init ==
  /\ TableInit
  /\ loop = [w \in Workers |-> "down"]
  /\ batch = [w \in Workers |-> {}]
  /\ task = [w \in Workers |-> [p \in Permits |-> Idle]]
  /\ disturbed = 0
  /\ answered = [j \in Jobs |-> FALSE]
  /\ sent = [j \in Jobs |-> 0]
  /\ granted = [j \in Jobs |-> 0]

TaskNext(w, p) ==
  \/ CircuitRejects(w, p)
  \/ SendRequest(w, p)
  \/ PayloadUnread(w, p)
  \/ Respond(w, p)
  \/ RecordAttempt(w, p)
  \/ PutCompleted(w, p)
  \/ PutFailed(w, p)

LoopNext(w) ==
  \/ Fetch(w)
  \/ \E r \in batch[w] : SpawnFails(w, r) \/ \E p \in Permits : Spawn(w, r, p)
  \/ AtCapacity(w)
  \/ RecoverStale(w)
  \/ CleanupOld(w)
  \/ ExpireOld(w)
  \/ MaintenanceDue(w)
  \/ Start(w)
  \/ Crash(w)
  \/ Shutdown(w)
  \/ DrainEnds(w)

Next ==
  \/ \E j \in Jobs : Insert(j) \/ RetryJob(j)
  \/ \E st \in Retriable : BulkRetry(st)
  \/ RetryDead
  \/ \E w \in Workers : LoopNext(w) \/ \E p \in Permits : TaskNext(w, p)
  \/ Tick

Spec == Init /\ [][Next]_vars

(* Fairness.  A started process keeps running its loop and its tasks, and a *)
(* supervisor restarts it.  Fetching and maintenance are branches of one    *)
(* tokio::select!, which polls its branches in random order: a branch that  *)
(* is ready again and again is taken, hence strong fairness.  Nothing is    *)
(* assumed of crashes, operators or the circuit.                            *)
Fairness ==
  /\ \A w \in Workers :
       /\ WF_vars(Start(w))
       /\ SF_vars(MaintenanceDue(w))
       /\ WF_vars(RecoverStale(w) \/ CleanupOld(w) \/ ExpireOld(w))
       /\ SF_vars(Fetch(w))
       /\ WF_vars(AtCapacity(w) \/ \E r \in batch[w], p \in Permits : Spawn(w, r, p))
       /\ WF_vars(DrainEnds(w))
       /\ \A p \in Permits :
            WF_vars(SendRequest(w, p) \/ Respond(w, p) \/ RecordAttempt(w, p)
                    \/ PutCompleted(w, p) \/ PutFailed(w, p))
  /\ WF_vars(Tick)

FairSpec == Spec /\ Fairness

-----------------------------------------------------------------------------
(* Properties.                                                             *)

(* Type invariant. *)
TypeOK ==
  /\ TableTypeOK
  /\ loop \in [Workers -> Station]
  /\ batch \in [Workers -> SUBSET Row]
  /\ task \in [Workers -> [Permits -> Claim \cup {Idle}]]
  /\ disturbed \in 0..MaxDisturbances
  /\ answered \in [Jobs -> BOOLEAN]
  /\ sent \in [Jobs -> 0..HistoryCap]
  /\ granted \in [Jobs -> 0..HistoryCap]

Holds(w, p, j) == task[w][p] # Idle /\ task[w][p].job = j
Fetched(w, j) == AtomicFetch /\ \E r \in batch[w] : r.job = j

(* No job is reported delivered that was not: a row is `completed` only if *)
(* its handler answered some delivery of it with a 2xx, whatever late      *)
(* tasks, recoveries and operators did in between.                         *)
CompletedWasAnswered ==
  \A j \in Jobs : status[j] = "completed" => answered[j]

(* Two deliveries of one job never overlap, and whoever holds a job finds  *)
(* its row still `running`: what the unconditional writes of               *)
(* mark_job_completed, _retryable and _dead rely on.  It takes deliveries  *)
(* that end before the stale threshold.                                    *)
SingleFlight ==
  Timely => \A j \in Jobs, w \in Workers, p \in Permits :
    Holds(w, p, j) => /\ status[j] = "running"
                      /\ \A v \in Workers : ~Fetched(v, j)
                      /\ \A v \in Workers, q \in Permits : Holds(v, q, j) => v = w /\ q = p

(* The attempt budget: the requests sent for a job exceed max_attempts by  *)
(* at most the times its row was put back by stale recovery or by          *)
(* `qhook jobs retry`.  Crashes between the claim and the write of the     *)
(* outcome are what makes this hard.                                       *)
AttemptBudget ==
  Timely /\ AtomicFetch => \A j \in Jobs : sent[j] <= MaxAttempts + granted[j]

(* Nothing is dead-lettered early: a dead row has spent its attempts or    *)
(* outlived the event TTL, even when operators reset counters under way.   *)
DeadIsSpent ==
  Timely /\ AtomicFetch =>
    \A j \in Jobs : status[j] = "dead" => attempt[j] = MaxAttempts \/ TtlExpired(j)

(* Without a crash, a database error or an operator, a `running` row is    *)
(* always in the hands of a task: none waits for the hourly recovery.      *)
NoStrandedRow ==
  disturbed = 0 => \A j \in Jobs : status[j] = "running" =>
    \E w \in Workers : Fetched(w, j) \/ \E p \in Permits : Holds(w, p, j)

(* `completed` is final but for the purge, as the lifecycle of             *)
(* docs/guides/database-schema.md draws it.                                *)
CompletedIsFinal ==
  [][\A j \in Jobs : status[j] = "completed" => status'[j] \in {"completed", "purged"}]_vars

(* No redelivery: as long as nothing failed, no request is sent for a job  *)
(* whose handler has already answered with a 2xx ("no job is processed     *)
(* twice", docs/guides/scaling.md).                                        *)
NoRedelivery ==
  [][\A w \in Workers, p \in Permits :
       /\ At(w, p, "check") /\ task'[w][p].pc = "send"
       /\ disturbed = 0
       => ~answered[task[w][p].job]]_vars

(* Every accepted job is settled: crashes, database errors, slow tasks and *)
(* failed recoveries only delay it.                                        *)
EventuallySettled ==
  \A j \in Jobs : status[j] \in Waiting \cup {"running"} ~> status[j] \in Settled \cup {"purged"}

(* The lifecycle a client of the API can rely on.                          *)
PhaseOf(st) == CASE st = "none" -> "none"
                 [] st \in Waiting \cup {"running"} -> "pending"
                 [] st = "completed" -> "done"
                 [] st = "dead" -> "dead"
                 [] st = "purged" -> "gone"

Lifecycle == INSTANCE JobLifecycle WITH phase <- [j \in Jobs |-> PhaseOf(status[j])]

(* Delivery implements that lifecycle.                                     *)
ImplementsLifecycle == Lifecycle!JobLifecycleSpec
=============================================================================
