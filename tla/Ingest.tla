-------------------------------- MODULE Ingest --------------------------------
(***************************************************************************)
(* How an event comes into qhook (api.rs, process_event_inner): a sender   *)
(* POSTs it until it gets a 2xx, and the handler of each request stores    *)
(* the event, the jobs of its handlers and queues, the jobs of subscribed  *)
(* outbound endpoints, and starts its workflows, statement by statement.   *)
(* Handlers of several requests interleave; a handler ends early when a    *)
(* statement fails, when the sender hangs up (its future is dropped), or   *)
(* when the process crashes.  Backpressure is the flag that the worker's   *)
(* poll loop and /health set from what they see of the database.           *)
(*                                                                         *)
(* What matches an event is fixed: its targets passed their filters.       *)
(***************************************************************************)
EXTENDS Naturals, FiniteSets

CONSTANTS
  Events,          (* what the sender has to deliver                             *)
  Keyed,           (* those for which an idempotency key is found                *)
  Malformed,       (* those whose payload lacks what workflow params ask for     *)
  Targets,         (* the handlers and queues an event matches                   *)
  Endpoints,       (* the outbound endpoints subscribed to it                    *)
  Workflows,       (* the workflows it matches                                   *)
  Strict,          (* those of them that declare params                          *)
  Requests,        (* server.max_inbound: requests handled at a time             *)
  Drivers,         (* "sqlx": Postgres, MySQL, SQLite, with a transaction; "d1"  *)
  MaxDisturbances, (* bound on crashes, outages, hang-ups and lost answers       *)
  RowCap           (* where the row counters saturate                            *)

ASSUME IngestAssumption ==
  /\ Keyed \subseteq Events /\ Malformed \subseteq Events
  /\ Strict \subseteq Workflows
  /\ Targets \cap Endpoints = {}
  /\ Workflows \cap (Targets \cup Endpoints) = {}
  /\ Drivers \subseteq {"sqlx", "d1"}
  /\ MaxDisturbances \in Nat
  /\ RowCap \in Nat \ {0, 1}

VARIABLES
  driver,    (* the database driver, chosen once                               *)
  stored,    (* rows of `events` per event: never deleted                      *)
  jobs,      (* rows of `jobs` per event and cause, a workflow's first included *)
  runs,      (* rows of `workflow_runs` per event and workflow                 *)
  request,   (* the request handlers                                           *)
  acked,     (* the sender has got a 2xx                                       *)
  dbUp,      (* the database answers                                           *)
  errs,      (* consecutive_db_errors of the poll loop, saturating at 3        *)
  healthy,   (* db_healthy                                                     *)
  ping,      (* /health: its query has worked, its store is still to come      *)
  disturbed  (* crashes, outages, hang-ups and lost answers so far             *)

rows == <<stored, jobs, runs>>
flagVars == <<errs, healthy, ping>>
vars == <<driver, rows, request, acked, dbUp, flagVars, disturbed>>

Causes == Targets \cup Endpoints \cup Workflows
Unhealthy == 3

Lower(m, n) == IF m < n THEN m ELSE n
Bump(n, cap) == Lower(n + 1, cap)

(* A handler has `todo` to insert at its station and `flows` to start.     *)
Free == [pc |-> "free"]
Handler == [pc : {"insert", "jobs", "rest", "first"}, event : Events,
            todo : SUBSET Causes, flows : SUBSET Workflows]

At(r, pc) == request[r] # Free /\ request[r].pc = pc
Goto(r, pc, todo, flows) ==
  request' = [request EXCEPT ![r] = [pc |-> pc, event |-> @.event, todo |-> todo, flows |-> flows]]
End(r) == request' = [request EXCEPT ![r] = Free]

Disturb == disturbed < MaxDisturbances /\ disturbed' = disturbed + 1
Undisturbed == UNCHANGED disturbed

AddJobs(e, S) ==
  jobs' = [jobs EXCEPT ![e] = [x \in Causes |-> IF x \in S THEN Bump(@[x], RowCap) ELSE @[x]]]

-----------------------------------------------------------------------------
(* A request.                                                              *)

(* The sender sends e (again); check_db_health and the semaphore let it in. *)
Send(r, e) ==
  /\ request[r] = Free /\ healthy
  /\ request' = [request EXCEPT ![r] = [pc |-> "insert", event |-> e,
                                        todo |-> {}, flows |-> {}]]
  /\ UNCHANGED <<driver, rows, acked, dbUp, flagVars, disturbed>>

(* Mutant of Duplicate: conflicts are not looked at. *)
DuplicateNever(e) == FALSE

(* INSERT INTO events ... ON CONFLICT (source, unique_key) DO NOTHING      *)
Duplicate(e) == e \in Keyed /\ stored[e] > 0

(* Mutant of Store: the event is committed and its jobs are still to come. *)
StoreEventFirst(e) ==
  /\ stored' = [stored EXCEPT ![e] = Bump(@, RowCap)]
  /\ UNCHANGED jobs

(* The transaction, or on D1 its first statement.                          *)
Store(e) ==
  /\ stored' = [stored EXCEPT ![e] = Bump(@, RowCap)]
  /\ IF driver = "d1" THEN UNCHANGED jobs ELSE AddJobs(e, Targets)

(* insert_event_and_jobs.  The last alternative: it took effect, and the   *)
(* connection failed before it could say so.                               *)
InsertEvent(r) ==
  /\ At(r, "insert") /\ dbUp
  /\ LET e == request[r].event
     IN  \/ /\ Duplicate(e)
            /\ Goto(r, "rest", {}, {})
            /\ UNCHANGED <<stored, jobs>> /\ Undisturbed
         \/ /\ ~Duplicate(e) /\ Store(e)
            /\ Goto(r, "jobs", IF driver = "d1" THEN Targets ELSE {}, Workflows)
            /\ Undisturbed
         \/ /\ ~Duplicate(e) /\ Store(e)
            /\ End(r)
            /\ Disturb
  /\ UNCHANGED <<driver, runs, acked, dbUp, flagVars>>

(* d1_insert_event_and_jobs: one job after the other.                      *)
InsertJob(r) ==
  /\ At(r, "jobs") /\ dbUp
  /\ \E t \in request[r].todo :
       /\ AddJobs(request[r].event, {t})
       /\ Goto(r, "jobs", request[r].todo \ {t}, Workflows)
  /\ UNCHANGED <<driver, stored, runs, acked, dbUp, flagVars, disturbed>>

(* Mutant of FindEndpoints: the source is not taken for an outbound one.    *)
FindEndpointsNone(r) ==
  /\ At(r, "jobs") /\ request[r].todo = {}
  /\ Goto(r, "rest", {}, Workflows)
  /\ UNCHANGED <<driver, rows, acked, dbUp, flagVars, disturbed>>

(* find_subscribed_endpoints: when it fails, none.                         *)
FindEndpoints(r) ==
  /\ At(r, "jobs") /\ request[r].todo = {}
  /\ Goto(r, "rest", IF dbUp THEN Endpoints ELSE {}, Workflows)
  /\ UNCHANGED <<driver, rows, acked, dbUp, flagVars, disturbed>>

(* insert_job for an endpoint: when it fails, on to the next.              *)
InsertOutbound(r) ==
  /\ At(r, "rest")
  /\ \E x \in request[r].todo :
       /\ IF dbUp THEN AddJobs(request[r].event, {x}) ELSE UNCHANGED jobs
       /\ Goto(r, "rest", request[r].todo \ {x}, request[r].flows)
  /\ UNCHANGED <<driver, stored, runs, acked, dbUp, flagVars, disturbed>>

Starting(r) == At(r, "rest") /\ request[r].todo = {}

(* start_workflow, for the workflows in any order (a HashMap).  Params are *)
(* checked first: a payload they reject ends the request with an error.    *)
Rejects(w, e) == w \in Strict /\ e \in Malformed

InsertRun(r) ==
  /\ Starting(r) /\ dbUp
  /\ \E w \in request[r].flows :
       /\ ~Rejects(w, request[r].event)
       /\ runs' = [runs EXCEPT ![request[r].event][w] = Bump(@, RowCap)]
       /\ Goto(r, "first", {w}, request[r].flows \ {w})
  /\ UNCHANGED <<driver, stored, jobs, acked, dbUp, flagVars, disturbed>>

RejectParams(r) ==
  /\ Starting(r)
  /\ \E w \in request[r].flows : Rejects(w, request[r].event)
  /\ End(r)
  /\ UNCHANGED <<driver, rows, acked, dbUp, flagVars, disturbed>>

(* create_step_job of its first step.                                      *)
InsertFirst(r) ==
  /\ At(r, "first") /\ dbUp
  /\ AddJobs(request[r].event, request[r].todo)
  /\ Goto(r, "rest", {}, request[r].flows)
  /\ UNCHANGED <<driver, stored, runs, acked, dbUp, flagVars, disturbed>>

(* 200, which may get lost.                                                *)
Answer(r) ==
  /\ Starting(r) /\ request[r].flows = {}
  /\ End(r)
  /\ \/ acked' = [acked EXCEPT ![request[r].event] = TRUE] /\ Undisturbed
     \/ UNCHANGED acked /\ Disturb
  /\ UNCHANGED <<driver, rows, dbUp, flagVars>>

(* A statement fails and `?` makes it a 500.                               *)
Fails(r) ==
  /\ ~dbUp
  /\ \/ At(r, "insert") \/ At(r, "first")
     \/ At(r, "jobs") /\ request[r].todo # {}
     \/ Starting(r) /\ request[r].flows # {}
  /\ End(r)
  /\ UNCHANGED <<driver, rows, acked, dbUp, flagVars, disturbed>>

(* The sender hangs up: the handler is dropped wherever it awaits.         *)
HangUp(r) ==
  /\ request[r] # Free
  /\ End(r)
  /\ Disturb
  /\ UNCHANGED <<driver, rows, acked, dbUp, flagVars>>

-----------------------------------------------------------------------------
(* The database and the flag.                                              *)

DbFails ==
  /\ dbUp /\ dbUp' = FALSE
  /\ Disturb
  /\ UNCHANGED <<driver, rows, request, acked, flagVars>>

DbRecovers ==
  /\ ~dbUp /\ dbUp' = TRUE
  /\ UNCHANGED <<driver, rows, request, acked, flagVars, disturbed>>

(* Mutant of PollWorks: only the counter is reset. *)
PollWorksSilently ==
  /\ dbUp /\ errs > 0
  /\ errs' = 0
  /\ UNCHANGED <<driver, rows, request, acked, dbUp, healthy, ping, disturbed>>

(* fetch_available_jobs works after errors ...                             *)
PollWorks ==
  /\ dbUp /\ errs > 0
  /\ errs' = 0 /\ healthy' = TRUE
  /\ UNCHANGED <<driver, rows, request, acked, dbUp, ping, disturbed>>

(* Mutant of PollFails: the cap of the model is missing.                   *)
PollFailsOn ==
  /\ ~dbUp
  /\ errs' = errs + 1
  /\ healthy' = (healthy /\ errs' < Unhealthy)
  /\ UNCHANGED <<driver, rows, request, acked, dbUp, ping, disturbed>>

(* ... or fails: at the third error in a row the flag goes down.           *)
PollFails ==
  /\ ~dbUp
  /\ errs' = Bump(errs, Unhealthy)
  /\ healthy' = (healthy /\ errs' < Unhealthy)
  /\ UNCHANGED <<driver, rows, request, acked, dbUp, ping, disturbed>>

(* handle_health: it reads the flag, queries, and then sets the flag.      *)
HealthQuery ==
  /\ ~healthy /\ dbUp /\ ~ping
  /\ ping' = TRUE
  /\ UNCHANGED <<driver, rows, request, acked, dbUp, errs, healthy, disturbed>>

HealthStore ==
  /\ ping /\ ping' = FALSE
  /\ healthy' = TRUE
  /\ UNCHANGED <<driver, rows, request, acked, dbUp, errs, disturbed>>

Crash ==
  /\ request' = [r \in Requests |-> Free]
  /\ errs' = 0 /\ healthy' = TRUE /\ ping' = FALSE
  /\ Disturb
  /\ UNCHANGED <<driver, rows, acked, dbUp>>

-----------------------------------------------------------------------------
Init ==
  /\ driver \in Drivers
  /\ stored = [e \in Events |-> 0]
  /\ jobs = [e \in Events |-> [x \in Causes |-> 0]]
  /\ runs = [e \in Events |-> [w \in Workflows |-> 0]]
  /\ request = [r \in Requests |-> Free]
  /\ acked = [e \in Events |-> FALSE]
  /\ dbUp = TRUE
  /\ errs = 0 /\ healthy = TRUE /\ ping = FALSE
  /\ disturbed = 0

Handle(r) ==
  \/ InsertEvent(r)
  \/ InsertJob(r)
  \/ FindEndpoints(r)
  \/ InsertOutbound(r)
  \/ InsertRun(r)
  \/ RejectParams(r)
  \/ InsertFirst(r)
  \/ Answer(r)
  \/ Fails(r)

Poll == PollWorks \/ PollFails

Next ==
  \/ \E r \in Requests : Handle(r) \/ HangUp(r) \/ \E e \in Events : Send(r, e)
  \/ DbFails
  \/ DbRecovers
  \/ Poll
  \/ HealthQuery
  \/ HealthStore
  \/ Crash

Spec == Init /\ [][Next]_vars

(* Fairness.  The runtime runs every handler and the poll loop, outages    *)
(* end, and the sender tries again until it has its 2xx (strong: a permit  *)
(* and the flag come and go).  Nobody need ask for /health.                *)
Resend(e) == ~acked[e] /\ \E r \in Requests : Send(r, e)

Fairness ==
  /\ \A r \in Requests : WF_vars(Handle(r))
  /\ WF_vars(DbRecovers) /\ WF_vars(Poll)
  /\ \A e \in Events : SF_vars(Resend(e))

FairSpec == Spec /\ Fairness

-----------------------------------------------------------------------------
(* Properties.                                                             *)

(* Type invariant. *)
TypeOK ==
  /\ driver \in Drivers
  /\ stored \in [Events -> 0..RowCap]
  /\ jobs \in [Events -> [Causes -> 0..RowCap]]
  /\ runs \in [Events -> [Workflows -> 0..RowCap]]
  /\ request \in [Requests -> Handler \cup {Free}]
  /\ acked \in [Events -> BOOLEAN]
  /\ dbUp \in BOOLEAN /\ healthy \in BOOLEAN /\ ping \in BOOLEAN
  /\ errs \in 0..Unhealthy
  /\ disturbed \in 0..MaxDisturbances

(* Persisted before the ACK: an acknowledged event has the jobs of all its *)
(* handlers and queues, also when another request than the acknowledged    *)
(* one had stored it and was cut off (README.md, at-least-once; the        *)
(* comment above insert_event_and_jobs).                                   *)
AckedIsPersisted ==
  driver = "sqlx" =>
    \A e \in Events : acked[e] => \A t \in Targets : jobs[e][t] > 0

(* An idempotency key makes every effect happen at most once: however      *)
(* often the event is sent, retried, cut off or answered twice, each       *)
(* handler, queue and endpoint gets one job and each workflow one run.     *)
AtMostOnce ==
  \A e \in Keyed : /\ \A x \in Causes : jobs[e][x] <= 1
                   /\ \A w \in Workflows : runs[e][w] <= 1

(* Requests are turned away only while the poll loop has an outage on its  *)
(* count: the flag is never down with the counter back at zero, which the  *)
(* poll loop would not mend (queue.rs, `if consecutive_db_errors > 0`).    *)
RefusalIsExplained == ~healthy => errs = Unhealthy

Complete(e) == \A x \in Causes : jobs[e][x] > 0

(* While nothing fails, what an acknowledgement leaves to be done gets     *)
(* done: a duplicate is acknowledged while the first request is still      *)
(* inserting outbound jobs and starting workflows.                         *)
AckedIsCompleted ==
  \A e \in Events \ Malformed : acked[e] ~> Complete(e) \/ disturbed > 0

(* Every event is acknowledged some day, through outages, backpressure and *)
(* crashes.  A payload that workflow params reject takes a key: its retry  *)
(* is a duplicate.                                                         *)
EventuallyAcked ==
  \A e \in Events : e \in Keyed \/ e \notin Malformed => <>acked[e]

(* Nothing is lost: what an acknowledged event matched is created, even if *)
(* qhook crashes (README.md, at-least-once; the comment in                 *)
(* process_event_inner).                                                   *)
NothingIsLost == \A e \in Events : acked[e] ~> \A w \in Workflows : jobs[e][w] > 0
=============================================================================
