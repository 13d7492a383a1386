------------------------------ MODULE JobTable ------------------------------
(***************************************************************************)
(* The `jobs` table of db.rs, which push deliveries (module Delivery) and  *)
(* pull queues (module PullQueue) both keep their state in: its columns    *)
(* and the statements that read and write them.  Each statement is one     *)
(* atomic step of whoever executes it.                                     *)
(*                                                                         *)
(* Time is relative.  The timestamp columns are replaced by one count of   *)
(* ticks per row, whose meaning follows the row's status: ticks until      *)
(* scheduled_at while the row waits, since started_at while it runs, since *)
(* completed_at once it is settled.  The code sets exactly that column on  *)
(* each change of status and reads no other.                               *)
(***************************************************************************)
EXTENDS Naturals, FiniteSets

CONSTANTS
  Jobs,         (* the rows that may be inserted                              *)
  MaxAttempts,  (* jobs.max_attempts                                          *)
  StaleAfter,   (* how long a row may run before it is put back: the worker's *)
                (* stale_threshold_secs, a queue's visibility_timeout         *)
  Retention,    (* worker.retention_hours                                     *)
  EventTtl      (* delivery.event_ttl, 0 = disabled                           *)

ASSUME JobTableAssumption ==
  /\ MaxAttempts \in Nat \ {0}
  /\ StaleAfter \in Nat \ {0}
  /\ Retention \in Nat /\ EventTtl \in Nat

VARIABLES
  status,   (* jobs.status; "none" before the insert, "purged" after deletion *)
  attempt,  (* jobs.attempt, saturating at MaxAttempts: only compared with it *)
  timer,    (* the relative timestamp described above                         *)
  age       (* ticks since jobs.created_at, saturating at EventTtl            *)

rowVars == <<status, attempt, timer, age>>

Waiting == {"available", "retryable"}
Settled == {"completed", "dead"}
Status == {"none", "purged", "running"} \cup Waiting \cup Settled

Lower(m, n) == IF m < n THEN m ELSE n
Bump(n, cap) == Lower(n + 1, cap)

TableTypeOK ==
  /\ status \in [Jobs -> Status]
  /\ attempt \in [Jobs -> 0..MaxAttempts]
  /\ timer \in [Jobs -> Nat]
  /\ age \in [Jobs -> 0..EventTtl]

TableInit ==
  /\ status = [j \in Jobs |-> "none"]
  /\ attempt = [j \in Jobs |-> 0]
  /\ timer = [j \in Jobs |-> 0]
  /\ age = [j \in Jobs |-> 0]

-----------------------------------------------------------------------------
(* Statements.                                                             *)

(* Mutant of WriteRow: the update also asks for a row that is not running.  *)
WriteRowUnlessRunning(j, st, t) ==
  IF status[j] \in {"none", "purged", "running"}
  THEN UNCHANGED <<status, timer>>
  ELSE /\ status' = [status EXCEPT ![j] = st]
       /\ timer' = [timer EXCEPT ![j] = t]

(* UPDATE jobs SET status = st ... WHERE id = j: no row, no effect.        *)
WriteRow(j, st, t) ==
  IF status[j] \in {"none", "purged"}
  THEN UNCHANGED <<status, timer>>
  ELSE /\ status' = [status EXCEPT ![j] = st]
       /\ timer' = [timer EXCEPT ![j] = t]

(* UPDATE jobs SET status = st, scheduled_at/completed_at = now WHERE ...  *)
WriteRows(S, st) ==
  /\ status' = [j \in Jobs |-> IF j \in S THEN st ELSE status[j]]
  /\ timer' = [j \in Jobs |-> IF j \in S THEN 0 ELSE timer[j]]

(* insert_event_and_jobs, for one row; module Ingest has the transaction.  *)
InsertRow(j) ==
  /\ status[j] = "none"
  /\ status' = [status EXCEPT ![j] = "available"]
  /\ UNCHANGED <<attempt, timer, age>>

(* status IN ('available', 'retryable') AND scheduled_at <= now            *)
Due == {j \in Jobs : status[j] \in Waiting /\ timer[j] = 0}

(* Mutant of ClaimRows: the claim counts the attempt and leaves the status. *)
ClaimRowsKeepingStatus(S) ==
  /\ UNCHANGED <<status, timer>>
  /\ attempt' = [j \in Jobs |-> IF j \in S THEN Bump(attempt[j], MaxAttempts)
                                           ELSE attempt[j]]

(* Mutant of ClaimRows: a claim is not counted. *)
ClaimRowsUncounted(S) == WriteRows(S, "running") /\ UNCHANGED attempt

(* What mark_job_running and the Postgres fetches do to the rows they claim. *)
ClaimRows(S) ==
  /\ WriteRows(S, "running")
  /\ attempt' = [j \in Jobs |-> IF j \in S THEN Bump(attempt[j], MaxAttempts)
                                           ELSE attempt[j]]

(* Mutants of IsStale: no age condition, and the comparison the other way. *)
IsStaleAtOnce(j) == status[j] = "running"
IsStaleReversed(j) == status[j] = "running" /\ timer[j] < StaleAfter

(* status = 'running' AND started_at <= now - threshold                    *)
IsStale(j) == status[j] = "running" /\ timer[j] >= StaleAfter

Stale == {j \in Jobs : IsStale(j)}

(* cleanup_old_records: the attempt rows go with their jobs.               *)
PurgeOldRows ==
  WriteRows({j \in Jobs : status[j] \in Settled /\ timer[j] > Retention}, "purged")

(* expire_old_jobs: of any handler, push or pull.                          *)
TtlExpired(j) == EventTtl > 0 /\ age[j] >= EventTtl

ExpireRows ==
  WriteRows({j \in Jobs : status[j] \in Waiting /\ TtlExpired(j)}, "dead")

(* retry_job, bulk_retry_jobs and retry_dead_jobs_by_handler.              *)
ResetRows(S) ==
  /\ WriteRows(S, "available")
  /\ attempt' = [j \in Jobs |-> IF j \in S THEN 0 ELSE attempt[j]]

(* Mutant of Retriable: completed jobs can be retried too. *)
RetriableWhenSettled == {"dead", "retryable", "completed"}

(* The statuses an operator's retry accepts.                               *)
Retriable == {"dead", "retryable"}

-----------------------------------------------------------------------------
(* Time.                                                                   *)

Elapse(j) ==
  IF status[j] \in Waiting THEN IF timer[j] = 0 THEN 0 ELSE timer[j] - 1
  ELSE IF status[j] = "running" THEN Bump(timer[j], StaleAfter)
  ELSE IF status[j] \in Settled THEN Bump(timer[j], Retention + 1)
  ELSE timer[j]

TableTick ==
  /\ timer' = [j \in Jobs |-> Elapse(j)]
  /\ age' = [j \in Jobs |-> IF status[j] = "none" THEN 0 ELSE Bump(age[j], EventTtl)]
  /\ UNCHANGED <<status, attempt>>
=============================================================================
