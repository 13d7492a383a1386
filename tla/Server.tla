------------------------------- MODULE Server -------------------------------
(***************************************************************************)
(* The life of `qhook start` (api.rs, serve): the HTTP server, the worker  *)
(* and the cron scheduler run side by side; a signal stops them one after  *)
(* the other.  The server lets its requests finish, then the worker is     *)
(* told and drains its deliveries for drain_timeout_secs, then the cron    *)
(* scheduler is waited for.                                                *)
(*                                                                         *)
(* axum's graceful shutdown and tokio's tasks are external; what requests, *)
(* deliveries and ticks do is left to the other modules.                   *)
(***************************************************************************)
EXTENDS Naturals, FiniteSets

CONSTANTS
  Inbound,         (* HTTP requests                                           *)
  MaxInbound,      (* server.max_inbound                                      *)
  Deliveries       (* delivery tasks                                          *)

ASSUME ServerAssumption == MaxInbound \in Nat \ {0}

VARIABLES
  main,        (* where serve stands                                          *)
  signalled,   (* SIGTERM or SIGINT was received                              *)
  inbound,     (* each request: none, open, over or refused                   *)
  worker,      (* the poll loop: runs, drains, is done                        *)
  inFlight,    (* the delivery tasks that the worker has spawned              *)
  spawned,     (* the delivery tasks that were spawned so far                 *)
  scheduler,   (* the cron task: sleeps, is in a pass, is done                *)
  shutdown,    (* shutdown_tx: what the worker and the scheduler watch        *)
  timedOut     (* history: drain_timeout_secs has passed                      *)

serverVars ==
  <<main, signalled, inbound, worker, inFlight, spawned, scheduler, shutdown, timedOut>>

Open == {r \in Inbound : inbound[r] = "open"}

-----------------------------------------------------------------------------
(* Requests.                                                               *)

(* The listener accepts until the signal; the semaphore of the middleware  *)
(* refuses what exceeds max_inbound.                                       *)
Accept(r) ==
  /\ main = "serving" /\ ~signalled /\ inbound[r] = "none"
  /\ inbound' = [inbound EXCEPT ![r] =
                   IF Cardinality(Open) < MaxInbound THEN "open" ELSE "refused"]
  /\ UNCHANGED <<main, signalled, worker, inFlight, spawned, scheduler, shutdown, timedOut>>

(* A request is answered, or its client hangs up.  No timeout bounds it:   *)
(* a client that stalls its body keeps its request open.                   *)
EndRequest(r) ==
  /\ inbound[r] = "open"
  /\ inbound' = [inbound EXCEPT ![r] = "over"]
  /\ UNCHANGED <<main, signalled, worker, inFlight, spawned, scheduler, shutdown, timedOut>>

-----------------------------------------------------------------------------
(* The worker: Worker::run.                                                *)

SpawnDelivery(d) ==
  /\ worker = "runs" /\ d \notin spawned
  /\ inFlight' = inFlight \cup {d}
  /\ spawned' = spawned \cup {d}
  /\ UNCHANGED <<main, signalled, inbound, worker, scheduler, shutdown, timedOut>>

EndDelivery(d) ==
  /\ d \in inFlight
  /\ inFlight' = inFlight \ {d}
  /\ UNCHANGED <<main, signalled, inbound, worker, spawned, scheduler, shutdown, timedOut>>

(* The select! loop sees the change, and is left for the drain.            *)
WorkerSignalled ==
  /\ worker = "runs" /\ shutdown
  /\ worker' = "drains"
  /\ UNCHANGED <<main, signalled, inbound, inFlight, spawned, scheduler, shutdown, timedOut>>

(* Mutant of WorkerDrained: it does not wait for the tasks.                *)
WorkerDrainedAtOnce ==
  /\ worker = "drains"
  /\ worker' = "done"
  /\ UNCHANGED <<main, signalled, inbound, inFlight, spawned, scheduler, shutdown, timedOut>>

(* Every task has been joined,                                             *)
WorkerDrained ==
  /\ worker = "drains" /\ inFlight = {}
  /\ worker' = "done"
  /\ UNCHANGED <<main, signalled, inbound, inFlight, spawned, scheduler, shutdown, timedOut>>

(* or the timeout has passed.                                              *)
DrainTimesOut ==
  /\ worker = "drains"
  /\ worker' = "done"
  /\ timedOut' = TRUE
  /\ UNCHANGED <<main, signalled, inbound, inFlight, spawned, scheduler, shutdown>>

-----------------------------------------------------------------------------
(* The cron scheduler.                                                     *)

SchedulerWakes ==
  /\ scheduler = "sleeps"
  /\ scheduler' = "passes"
  /\ UNCHANGED <<main, signalled, inbound, worker, inFlight, spawned, shutdown, timedOut>>

EndSchedulerPass ==
  /\ scheduler = "passes"
  /\ scheduler' = "sleeps"
  /\ UNCHANGED <<main, signalled, inbound, worker, inFlight, spawned, shutdown, timedOut>>

(* Only the sleep is interrupted.                                          *)
SchedulerSignalled ==
  /\ scheduler = "sleeps" /\ shutdown
  /\ scheduler' = "done"
  /\ UNCHANGED <<main, signalled, inbound, worker, inFlight, spawned, shutdown, timedOut>>

-----------------------------------------------------------------------------
(* serve.                                                                  *)

Signal ==
  /\ ~signalled
  /\ signalled' = TRUE
  /\ UNCHANGED <<main, inbound, worker, inFlight, spawned, scheduler, shutdown, timedOut>>

(* axum::serve returns once no request is open; shutdown_tx.send.          *)
StopServer ==
  /\ main = "serving" /\ signalled /\ Open = {}
  /\ main' = "joining worker"
  /\ shutdown' = TRUE
  /\ UNCHANGED <<signalled, inbound, worker, inFlight, spawned, scheduler, timedOut>>

JoinWorker ==
  /\ main = "joining worker" /\ worker = "done"
  /\ main' = "joining scheduler"
  /\ UNCHANGED <<signalled, inbound, worker, inFlight, spawned, scheduler, shutdown, timedOut>>

(* The process ends, and with it whatever is still going on.               *)
ExitProcess ==
  /\ main = "joining scheduler" /\ scheduler = "done"
  /\ main' = "exited"
  /\ UNCHANGED <<signalled, inbound, worker, inFlight, spawned, scheduler, shutdown, timedOut>>

ServerInit ==
  /\ main = "serving" /\ signalled = FALSE
  /\ inbound = [r \in Inbound |-> "none"]
  /\ worker = "runs" /\ inFlight = {} /\ spawned = {}
  /\ scheduler \in {"sleeps", "done"}     (* done: there are no cron sources  *)
  /\ shutdown = FALSE /\ timedOut = FALSE

Alive == main # "exited"
ServerNext ==
  /\ Alive
  /\ \/ \E r \in Inbound : Accept(r) \/ EndRequest(r)
     \/ \E d \in Deliveries : SpawnDelivery(d) \/ EndDelivery(d)
     \/ WorkerSignalled \/ WorkerDrained \/ DrainTimesOut
     \/ SchedulerWakes \/ EndSchedulerPass \/ SchedulerSignalled
     \/ Signal \/ StopServer \/ JoinWorker \/ ExitProcess

(* The drain has a timeout, and a pass of the scheduler is SQL statements  *)
(* only, which the database answers or fails.  A sleep that ends together  *)
(* with the signal may win select!, which picks at random, but not for     *)
(* ever.  Nothing is assumed of requests and of deliveries.                *)
ServerFairness ==
  /\ WF_serverVars(Alive /\ (WorkerSignalled \/ WorkerDrained \/ DrainTimesOut))
  /\ WF_serverVars(Alive /\ EndSchedulerPass) /\ SF_serverVars(Alive /\ SchedulerSignalled)
  /\ WF_serverVars(Alive /\ (StopServer \/ JoinWorker \/ ExitProcess))

ServerSpec == ServerInit /\ [][ServerNext]_serverVars /\ ServerFairness

-----------------------------------------------------------------------------
(* Properties.                                                             *)

(* From when the requests that the signal found open are over, the process *)
(* stops, and gracefully: no request is cut off, no tick of the scheduler, *)
(* and no delivery unless drain_timeout_secs passed, though deliveries     *)
(* themselves may last for ever (docs/cli.md: "stops accepting requests,   *)
(* drains in-flight deliveries").  Requests that stay open put that off    *)
(* for ever.                                                               *)
Graceful ==
  /\ main = "exited"
  /\ Open = {} /\ scheduler # "passes"
  /\ inFlight = {} \/ timedOut

SignalDrains == signalled /\ Open = {} ~> Graceful
=============================================================================
