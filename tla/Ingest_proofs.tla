---------------------------- MODULE Ingest_proofs ----------------------------
(***************************************************************************)
(* Proofs about Ingest, for any events, requests, targets, endpoints and   *)
(* workflows and any number of disturbances: type correctness, that an     *)
(* acknowledged event is persisted with its jobs, that an idempotency key  *)
(* makes every effect happen at most once, and that a refusal has a cause  *)
(* the poll loop will mend.                                                *)
(***************************************************************************)
EXTENDS Ingest, TLAPS

-----------------------------------------------------------------------------
(* Type correctness.                                                       *)

(* A saturating increment stays below its cap. *)
LEMMA BumpType == \A n, cap \in Nat : n \in 0..cap => Bump(n, cap) \in 0..cap
BY DEF Bump, Lower

(* A free slot is no handler. *)
LEMMA FreeIsNoHandler == \A h \in Handler : h # Free
<1> TAKE h \in Handler
<1>1. "event" \in DOMAIN h
  BY DEF Handler
<1>2. "event" \notin DOMAIN Free
  BY DEF Free
<1> QED BY <1>1, <1>2

(* A move of a handler to another station. *)
LEMMA GotoEffect ==
  ASSUME TypeOK, NEW r \in Requests, request[r] # Free,
         NEW pc \in {"insert", "jobs", "rest", "first"},
         NEW todo \in SUBSET Causes, NEW flows \in SUBSET Workflows,
         Goto(r, pc, todo, flows)
  PROVE  /\ request' \in [Requests -> Handler \cup {Free}]
         /\ request'[r] \in Handler
         /\ request'[r].pc = pc /\ request'[r].event = request[r].event
         /\ request'[r].todo = todo /\ request'[r].flows = flows
         /\ \A q \in Requests \ {r} : request'[q] = request[q]
<1>1. request[r] \in Handler
  BY DEF TypeOK
<1>2. [pc |-> pc, event |-> request[r].event, todo |-> todo, flows |-> flows] \in Handler
  BY <1>1 DEF Handler
<1> QED BY <1>2 DEF Goto, TypeOK

(* New job rows. *)
LEMMA AddEffect ==
  ASSUME TypeOK, NEW e \in Events, NEW S \in SUBSET Causes, AddJobs(e, S)
  PROVE  /\ jobs' \in [Events -> [Causes -> 0..RowCap]]
         /\ \A x \in Causes : jobs'[e][x] = IF x \in S THEN Bump(jobs[e][x], RowCap)
                                                      ELSE jobs[e][x]
         /\ \A d \in Events \ {e} : jobs'[d] = jobs[d]
<1>1. RowCap \in Nat
  BY IngestAssumption DEF IngestAssumption
<1>2. [x \in Causes |-> IF x \in S THEN Bump(jobs[e][x], RowCap) ELSE jobs[e][x]]
        \in [Causes -> 0..RowCap]
  BY <1>1, BumpType DEF TypeOK
<1> QED BY <1>2 DEF AddJobs, TypeOK

(* A new event row, with its jobs. *)
LEMMA StoreEffect ==
  ASSUME TypeOK, NEW e \in Events, Store(e)
  PROVE  /\ stored' \in [Events -> 0..RowCap]
         /\ jobs' \in [Events -> [Causes -> 0..RowCap]]
         /\ stored'[e] = Bump(stored[e], RowCap)
         /\ \A d \in Events \ {e} : stored'[d] = stored[d] /\ jobs'[d] = jobs[d]
         /\ \A x \in Causes : jobs'[e][x] = IF driver # "d1" /\ x \in Targets
                                            THEN Bump(jobs[e][x], RowCap)
                                            ELSE jobs[e][x]
<1>1. RowCap \in Nat
  BY IngestAssumption DEF IngestAssumption
<1>2. /\ stored' \in [Events -> 0..RowCap]
      /\ stored'[e] = Bump(stored[e], RowCap)
      /\ \A d \in Events \ {e} : stored'[d] = stored[d]
  BY <1>1, BumpType DEF Store, TypeOK
<1>3. CASE driver = "d1"
  BY <1>2, <1>3 DEF Store, TypeOK
<1>4. CASE driver # "d1"
  <2>1. Targets \in SUBSET Causes
    BY DEF Causes
  <2>2. AddJobs(e, Targets)
    BY <1>4 DEF Store
  <2> QED BY <1>2, <1>4, <2>1, <2>2, AddEffect
<1> QED BY <1>3, <1>4

(* A new run. *)
LEMMA RunEffect ==
  ASSUME TypeOK, NEW e \in Events, NEW w \in Workflows,
         runs' = [runs EXCEPT ![e][w] = Bump(@, RowCap)]
  PROVE  /\ runs' \in [Events -> [Workflows -> 0..RowCap]]
         /\ runs'[e][w] = Bump(runs[e][w], RowCap)
         /\ \A d \in Events, v \in Workflows : <<d, v>> # <<e, w>> => runs'[d][v] = runs[d][v]
<1>1. RowCap \in Nat
  BY IngestAssumption DEF IngestAssumption
<1>2. Bump(runs[e][w], RowCap) \in 0..RowCap
  BY <1>1, BumpType DEF TypeOK
<1>3. [runs[e] EXCEPT ![w] = Bump(@, RowCap)] \in [Workflows -> 0..RowCap]
  BY <1>2 DEF TypeOK
<1> QED BY <1>2, <1>3 DEF TypeOK

(* The end of a handler. *)
LEMMA EndEffect ==
  ASSUME TypeOK, NEW r \in Requests, End(r)
  PROVE  /\ request' \in [Requests -> Handler \cup {Free}]
         /\ request'[r] = Free
         /\ \A q \in Requests \ {r} : request'[q] = request[q]
BY DEF TypeOK, End

(* What a handler works on has its type. *)
LEMMA HandlerType ==
  ASSUME TypeOK, NEW r \in Requests, request[r] # Free
  PROVE  /\ request[r].event \in Events /\ request[r].todo \in SUBSET Causes
         /\ request[r].flows \in SUBSET Workflows
         /\ request[r].pc \in {"insert", "jobs", "rest", "first"}
BY DEF TypeOK, Handler

(* The initial state has the right types. *)
LEMMA InitType == Init => TypeOK
<1> SUFFICES ASSUME Init PROVE TypeOK
  OBVIOUS
<1>1. /\ stored \in [Events -> 0..RowCap]
      /\ jobs \in [Events -> [Causes -> 0..RowCap]]
      /\ runs \in [Events -> [Workflows -> 0..RowCap]]
      /\ errs \in 0..Unhealthy /\ disturbed \in 0..MaxDisturbances
  BY IngestAssumption DEF Init, IngestAssumption, Unhealthy
<1>2. acked \in [Events -> BOOLEAN] /\ request \in [Requests -> Handler \cup {Free}]
  BY DEF Init
<1> QED BY <1>1, <1>2 DEF Init, TypeOK

(* A handler's step preserves the types of the rows and of the handlers.   *)
LEMMA HandleType ==
  ASSUME TypeOK, NEW r \in Requests, Handle(r)
  PROVE  TypeOK'
<1> USE IngestAssumption DEF IngestAssumption
<1>0. request[r] # Free
  BY DEF Handle, InsertEvent, InsertJob, FindEndpoints, InsertOutbound, InsertRun, RejectParams,
         InsertFirst, Answer, Fails, Starting, At
<1>a. /\ request[r].event \in Events /\ request[r].todo \in SUBSET Causes
      /\ request[r].flows \in SUBSET Workflows
  BY <1>0, HandlerType
<1>b. Workflows \in SUBSET Workflows /\ {} \in SUBSET Workflows
      /\ Targets \in SUBSET Causes /\ Endpoints \in SUBSET Causes /\ {} \in SUBSET Causes
  BY DEF Causes
<1>1. CASE InsertEvent(r)
  <2> DEFINE e == request[r].event
  <2>1. CASE Duplicate(e) /\ Goto(r, "rest", {}, {}) /\ UNCHANGED <<stored, jobs>> /\ Undisturbed
    <3>1. request' \in [Requests -> Handler \cup {Free}]
      BY <1>0, <1>b, <2>1, GotoEffect
    <3> QED BY <1>1, <2>1, <3>1 DEF InsertEvent, Undisturbed, flagVars, TypeOK
  <2>2. CASE /\ ~Duplicate(e) /\ Store(e) /\ Undisturbed
             /\ Goto(r, "jobs", IF driver = "d1" THEN Targets ELSE {}, Workflows)
    <3>1. request' \in [Requests -> Handler \cup {Free}]
      <4>1. (IF driver = "d1" THEN Targets ELSE {}) \in SUBSET Causes
        BY <1>b
      <4> QED BY <1>0, <1>b, <2>2, <4>1, GotoEffect
    <3>2. stored' \in [Events -> 0..RowCap] /\ jobs' \in [Events -> [Causes -> 0..RowCap]]
      BY <1>a, <2>2, StoreEffect
    <3> QED BY <1>1, <2>2, <3>1, <3>2 DEF InsertEvent, Undisturbed, flagVars, TypeOK
  <2>3. CASE ~Duplicate(e) /\ Store(e) /\ End(r) /\ Disturb
    <3>1. request' \in [Requests -> Handler \cup {Free}]
      BY <2>3, EndEffect
    <3>2. stored' \in [Events -> 0..RowCap] /\ jobs' \in [Events -> [Causes -> 0..RowCap]]
      BY <1>a, <2>3, StoreEffect
    <3> QED BY <1>1, <2>3, <3>1, <3>2 DEF InsertEvent, Disturb, flagVars, TypeOK
  <2> QED BY <1>1, <2>1, <2>2, <2>3 DEF InsertEvent
<1>2. CASE InsertJob(r)
  <2>1. PICK t \in request[r].todo : /\ AddJobs(request[r].event, {t})
                                     /\ Goto(r, "jobs", request[r].todo \ {t}, Workflows)
    BY <1>2 DEF InsertJob
  <2>2. {t} \in SUBSET Causes /\ request[r].todo \ {t} \in SUBSET Causes
    BY <1>a
  <2>3. request' \in [Requests -> Handler \cup {Free}]
    BY <1>0, <1>b, <2>1, <2>2, GotoEffect
  <2>4. jobs' \in [Events -> [Causes -> 0..RowCap]]
    BY <1>a, <2>1, <2>2, AddEffect
  <2> QED BY <1>2, <2>3, <2>4 DEF InsertJob, flagVars, TypeOK
<1>3. CASE FindEndpoints(r)
  <2>1. (IF dbUp THEN Endpoints ELSE {}) \in SUBSET Causes
    BY <1>b
  <2>2. request' \in [Requests -> Handler \cup {Free}]
    BY <1>0, <1>3, <1>b, <2>1, GotoEffect DEF FindEndpoints
  <2> QED BY <1>3, <2>2 DEF FindEndpoints, rows, flagVars, TypeOK
<1>4. CASE InsertOutbound(r)
  <2>1. PICK x \in request[r].todo :
          /\ IF dbUp THEN AddJobs(request[r].event, {x}) ELSE UNCHANGED jobs
          /\ Goto(r, "rest", request[r].todo \ {x}, request[r].flows)
    BY <1>4 DEF InsertOutbound
  <2>2. {x} \in SUBSET Causes /\ request[r].todo \ {x} \in SUBSET Causes
    BY <1>a
  <2>3. request' \in [Requests -> Handler \cup {Free}]
    BY <1>0, <1>a, <2>1, <2>2, GotoEffect
  <2>4. jobs' \in [Events -> [Causes -> 0..RowCap]]
    <3>1. CASE dbUp
      BY <1>a, <2>1, <2>2, <3>1, AddEffect
    <3>2. CASE ~dbUp
      BY <2>1, <3>2 DEF TypeOK
    <3> QED BY <3>1, <3>2
  <2> QED BY <1>4, <2>3, <2>4 DEF InsertOutbound, flagVars, TypeOK
<1>5. CASE InsertRun(r)
  <2>1. PICK w \in request[r].flows :
          /\ runs' = [runs EXCEPT ![request[r].event][w] = Bump(@, RowCap)]
          /\ Goto(r, "first", {w}, request[r].flows \ {w})
    BY <1>5 DEF InsertRun
  <2>2. w \in Workflows /\ {w} \in SUBSET Causes /\ request[r].flows \ {w} \in SUBSET Workflows
    BY <1>a DEF Causes
  <2>3. request' \in [Requests -> Handler \cup {Free}]
    BY <1>0, <2>1, <2>2, GotoEffect
  <2>4. runs' \in [Events -> [Workflows -> 0..RowCap]]
    BY <1>a, <2>1, <2>2, RunEffect
  <2> QED BY <1>5, <2>3, <2>4 DEF InsertRun, flagVars, TypeOK
<1>6. CASE InsertFirst(r)
  <2>1. request' \in [Requests -> Handler \cup {Free}]
    BY <1>0, <1>6, <1>a, <1>b, GotoEffect DEF InsertFirst
  <2>2. jobs' \in [Events -> [Causes -> 0..RowCap]]
    BY <1>6, <1>a, AddEffect DEF InsertFirst
  <2> QED BY <1>6, <2>1, <2>2 DEF InsertFirst, flagVars, TypeOK
<1>7. CASE Answer(r)
  <2>1. request' \in [Requests -> Handler \cup {Free}]
    BY <1>7, EndEffect DEF Answer
  <2>2. acked' \in [Events -> BOOLEAN]
    BY <1>7 DEF Answer, TypeOK
  <2>3. disturbed' \in 0..MaxDisturbances
    BY <1>7 DEF Answer, Undisturbed, Disturb, TypeOK
  <2> QED BY <1>7, <2>1, <2>2, <2>3 DEF Answer, rows, flagVars, TypeOK
<1>8. CASE RejectParams(r) \/ Fails(r)
  <2>1. request' \in [Requests -> Handler \cup {Free}]
    BY <1>8, EndEffect DEF RejectParams, Fails
  <2> QED BY <1>8, <2>1 DEF RejectParams, Fails, rows, flagVars, TypeOK
<1> QED BY <1>1, <1>2, <1>3, <1>4, <1>5, <1>6, <1>7, <1>8 DEF Handle

(* Every step preserves the types. *)
LEMMA NextType == TypeOK /\ [Next]_vars => TypeOK'
<1> SUFFICES ASSUME TypeOK, [Next]_vars PROVE TypeOK'
  OBVIOUS
<1> USE IngestAssumption DEF IngestAssumption
<1>1. ASSUME NEW r \in Requests, Handle(r) PROVE TypeOK'
  BY <1>1, HandleType
<1>2. ASSUME NEW r \in Requests, HangUp(r) PROVE TypeOK'
  <2>1. request' \in [Requests -> Handler \cup {Free}]
    BY <1>2, EndEffect DEF HangUp
  <2> QED BY <1>2, <2>1 DEF HangUp, Disturb, rows, flagVars, TypeOK
<1>3. ASSUME NEW r \in Requests, NEW e \in Events, Send(r, e) PROVE TypeOK'
  <2>1. [pc |-> "insert", event |-> e, todo |-> {}, flows |-> {}] \in Handler
    BY DEF Handler
  <2> QED BY <1>3, <2>1 DEF Send, rows, flagVars, TypeOK
<1>4. CASE Crash
  <2>1. request' \in [Requests -> Handler \cup {Free}]
    BY <1>4 DEF Crash
  <2>2. errs' \in 0..Unhealthy /\ disturbed' \in 0..MaxDisturbances
    BY <1>4 DEF Crash, Disturb, TypeOK, Unhealthy
  <2> QED BY <1>4, <2>1, <2>2 DEF Crash, rows, TypeOK
<1>5. CASE DbFails \/ DbRecovers \/ Poll \/ HealthQuery \/ HealthStore
  <2>1. errs' \in 0..Unhealthy /\ disturbed' \in 0..MaxDisturbances
    BY <1>5 DEF DbFails, DbRecovers, Poll, PollWorks, PollFails, HealthQuery, HealthStore,
                Disturb, Bump, Lower, Unhealthy, flagVars, TypeOK
  <2>2. dbUp' \in BOOLEAN /\ healthy' \in BOOLEAN /\ ping' \in BOOLEAN
    BY <1>5, Zenon DEF DbFails, DbRecovers, Poll, PollWorks, PollFails, HealthQuery, HealthStore,
                flagVars, TypeOK
  <2>3. UNCHANGED <<driver, stored, jobs, runs, request, acked>>
    BY <1>5 DEF DbFails, DbRecovers, Poll, PollWorks, PollFails, HealthQuery, HealthStore, rows
  <2> QED BY <2>1, <2>2, <2>3 DEF TypeOK
<1>6. CASE UNCHANGED vars
  BY <1>6 DEF vars, rows, flagVars, TypeOK
<1> QED BY <1>1, <1>2, <1>3, <1>4, <1>5, <1>6 DEF Next

(* Type correctness, for every constant the assumption admits. *)
THEOREM TypeCorrect == Spec => []TypeOK
BY InitType, NextType, PTL DEF Spec

-----------------------------------------------------------------------------
(* Refusals.                                                               *)

(* The flag goes down at the third error and up whenever the count is      *)
(* reset, also by a restart; /health only raises it.                       *)
THEOREM RefusalExplained == Spec => []RefusalIsExplained
<1>1. Init => RefusalIsExplained
  BY DEF Init, RefusalIsExplained
<1>2. TypeOK /\ RefusalIsExplained /\ [Next]_vars => RefusalIsExplained'
  <2> SUFFICES ASSUME TypeOK, RefusalIsExplained, [Next]_vars PROVE RefusalIsExplained'
    OBVIOUS
  <2>1. CASE UNCHANGED flagVars
    BY <2>1 DEF flagVars, RefusalIsExplained
  <2>2. CASE Poll \/ HealthQuery \/ HealthStore \/ Crash
    BY <2>2 DEF Poll, PollWorks, PollFails, HealthQuery, HealthStore, Crash, Bump, Lower,
                Unhealthy, TypeOK, RefusalIsExplained
  <2>3. ASSUME NEW r \in Requests, Handle(r) \/ HangUp(r) \/ \E e \in Events : Send(r, e)
        PROVE  UNCHANGED flagVars
    BY <2>3 DEF Handle, InsertEvent, InsertJob, FindEndpoints, InsertOutbound, InsertRun,
                RejectParams, InsertFirst, Answer, Fails, HangUp, Send
  <2>4. CASE DbFails \/ DbRecovers \/ UNCHANGED vars
    BY <2>1, <2>4 DEF DbFails, DbRecovers, vars
  <2> QED BY <2>1, <2>2, <2>3, <2>4 DEF Next
<1> QED BY <1>1, <1>2, TypeCorrect, PTL DEF Spec

-----------------------------------------------------------------------------
(* Persistence.                                                            *)

(* A stored event has its jobs (but for D1), an acknowledged one is stored, *)
(* and so is the event of a handler that has passed its insert: what a     *)
(* duplicate's acknowledgement relies on.                                  *)
Persisted ==
  /\ driver = "sqlx" =>
       \A e \in Events : stored[e] > 0 => \A t \in Targets : jobs[e][t] > 0
  /\ \A e \in Events : acked[e] => stored[e] > 0
  /\ \A r \in Requests : request[r] # Free /\ request[r].pc # "insert" =>
       stored[request[r].event] > 0

(* Rows are only added. *)
LEMMA RowsGrow ==
  ASSUME TypeOK, NEW r \in Requests, Handle(r), NEW e \in Events
  PROVE  stored'[e] >= stored[e] /\ \A x \in Causes : jobs'[e][x] >= jobs[e][x]
<1>0. request[r] # Free
  BY DEF Handle, InsertEvent, InsertJob, FindEndpoints, InsertOutbound, InsertRun, RejectParams,
         InsertFirst, Answer, Fails, Starting, At
<1>a. request[r].event \in Events /\ request[r].todo \in SUBSET Causes
  BY <1>0, HandlerType
<1>b. RowCap \in Nat
  BY IngestAssumption DEF IngestAssumption
<1>c. stored[e] \in 0..RowCap /\ \A x \in Causes : jobs[e][x] \in 0..RowCap
  BY DEF TypeOK
<1>d. \A n \in 0..RowCap : Bump(n, RowCap) >= n
  BY <1>b DEF Bump, Lower
<1>1. CASE UNCHANGED <<stored, jobs>>
  BY <1>1, <1>c
<1>2. CASE Store(request[r].event)
  <2>1. CASE e = request[r].event
    BY <1>2, <1>c, <1>d, <2>1, StoreEffect
  <2>2. CASE e # request[r].event
    BY <1>2, <1>a, <1>c, <2>2, StoreEffect
  <2> QED BY <2>1, <2>2
<1>3. ASSUME NEW S \in SUBSET Causes, AddJobs(request[r].event, S), UNCHANGED stored
      PROVE  stored'[e] >= stored[e] /\ \A x \in Causes : jobs'[e][x] >= jobs[e][x]
  <2>1. CASE e = request[r].event
    BY <1>3, <1>c, <1>d, <2>1, AddEffect
  <2>2. CASE e # request[r].event
    BY <1>3, <1>a, <1>c, <2>2, AddEffect
  <2> QED BY <2>1, <2>2
<1>4. CASE InsertEvent(r)
  BY <1>1, <1>2, <1>4 DEF InsertEvent
<1>5. CASE InsertJob(r) \/ InsertOutbound(r)
  <2>1. PICK x \in request[r].todo : AddJobs(request[r].event, {x}) \/ UNCHANGED jobs
    BY <1>5 DEF InsertJob, InsertOutbound
  <2>2. {x} \in SUBSET Causes /\ UNCHANGED stored
    BY <1>5, <1>a DEF InsertJob, InsertOutbound
  <2> QED BY <1>1, <1>3, <2>1, <2>2
<1>6. CASE InsertFirst(r)
  BY <1>3, <1>6, <1>a DEF InsertFirst
<1>7. CASE FindEndpoints(r) \/ InsertRun(r) \/ RejectParams(r) \/ Answer(r) \/ Fails(r)
  BY <1>1, <1>7 DEF FindEndpoints, InsertRun, RejectParams, Answer, Fails, rows
<1> QED BY <1>4, <1>5, <1>6, <1>7 DEF Handle

(* A handler leaves the others alone and stays with its event. *)
LEMMA OthersStay ==
  ASSUME TypeOK, NEW r \in Requests, Handle(r) \/ HangUp(r)
  PROVE  /\ \A q \in Requests \ {r} : request'[q] = request[q]
         /\ request'[r] = Free \/ request'[r].event = request[r].event
<1>1. (\E pc, todo, flows : Goto(r, pc, todo, flows)) \/ End(r)
  BY DEF Handle, InsertEvent, InsertJob, FindEndpoints, InsertOutbound, InsertRun,
         RejectParams, InsertFirst, Answer, Fails, HangUp
<1>2. CASE End(r)
  BY <1>2 DEF End, TypeOK
<1>3. ASSUME NEW pc, NEW todo, NEW flows, Goto(r, pc, todo, flows)
      PROVE  /\ \A q \in Requests \ {r} : request'[q] = request[q]
             /\ request'[r].event = request[r].event
  BY <1>3 DEF Goto, TypeOK
<1> QED BY <1>1, <1>2, <1>3

(* Every step of a handler preserves Persisted. *)
LEMMA HandlePersisted ==
  ASSUME TypeOK, Persisted, NEW r \in Requests, Handle(r)
  PROVE  Persisted'
<1>0. request[r] # Free
  BY DEF Handle, InsertEvent, InsertJob, FindEndpoints, InsertOutbound, InsertRun, RejectParams,
         InsertFirst, Answer, Fails, Starting, At
<1> DEFINE e0 == request[r].event
<1>a. e0 \in Events /\ driver' = driver
  BY <1>0, HandlerType DEF Handle, InsertEvent, InsertJob, FindEndpoints, InsertOutbound,
     InsertRun, RejectParams, InsertFirst, Answer, Fails
<1>b. RowCap \in Nat /\ RowCap > 0
  BY IngestAssumption DEF IngestAssumption
<1>c. \A e \in Events : stored[e] > 0 => stored'[e] > 0
  <2> TAKE e \in Events
  <2>1. stored[e] \in Nat /\ stored'[e] \in Nat
    BY HandleType, <1>b DEF TypeOK
  <2>2. stored'[e] >= stored[e]
    BY RowsGrow
  <2> QED BY <2>1, <2>2
<1>1. ASSUME driver = "sqlx", NEW e \in Events, stored'[e] > 0, NEW t \in Targets
      PROVE  jobs'[e][t] > 0
  <2>0. t \in Causes /\ jobs'[e][t] >= jobs[e][t]
    BY RowsGrow DEF Causes
  <2>1. jobs[e][t] \in Nat /\ jobs'[e][t] \in Nat
    BY <2>0, <1>b, HandleType DEF TypeOK
  <2>2. CASE stored[e] > 0
    BY <1>1, <2>0, <2>1, <2>2 DEF Persisted
  <2>3. CASE stored'[e] # stored[e]
    <3>1. Store(e0)
      BY <2>3 DEF Handle, InsertEvent, InsertJob, FindEndpoints, InsertOutbound, InsertRun,
                  RejectParams, InsertFirst, Answer, Fails, rows
    <3>2. e = e0
      BY <1>a, <2>3, <3>1, StoreEffect
    <3>3. jobs'[e][t] = Bump(jobs[e][t], RowCap)
      BY <1>1, <1>a, <2>0, <3>1, <3>2, StoreEffect
    <3> QED BY <1>b, <2>1, <3>3 DEF Bump, Lower
  <2> QED BY <1>1, <2>2, <2>3
<1>2. ASSUME NEW e \in Events, acked'[e] PROVE stored'[e] > 0
  <2>1. CASE acked[e]
    BY <1>c, <2>1 DEF Persisted
  <2>2. CASE ~acked[e]
    <3>1. Answer(r) /\ e = e0
      BY <1>2, <1>a, <2>2 DEF Handle, InsertEvent, InsertJob, FindEndpoints, InsertOutbound,
         InsertRun, RejectParams, InsertFirst, Answer, Fails, TypeOK
    <3>2. request[r].pc # "insert"
      BY <3>1 DEF Answer, Starting, At
    <3> QED BY <1>0, <1>c, <3>1, <3>2 DEF Persisted
  <2> QED BY <2>1, <2>2
<1>3. ASSUME NEW q \in Requests, request'[q] # Free, request'[q].pc # "insert"
      PROVE  stored'[request'[q].event] > 0
  <2>1. CASE q # r
    <3>1. request'[q] = request[q]
      BY <2>1, OthersStay
    <3>2. request[q].event \in Events
      BY <1>3, <3>1, HandlerType
    <3> QED BY <1>3, <1>c, <3>1, <3>2 DEF Persisted
  <2>2. CASE q = r
    <3>1. request'[q].event = e0
      BY <1>3, <2>2, OthersStay
    <3>2. CASE request[r].pc # "insert"
      BY <1>0, <1>a, <1>c, <3>1, <3>2 DEF Persisted
    <3>3. CASE request[r].pc = "insert"
      <4>1. InsertEvent(r)
        BY <1>3, <2>2, <3>3 DEF Handle, InsertEvent, InsertJob, FindEndpoints, InsertOutbound,
           InsertRun, RejectParams, InsertFirst, Answer, Fails, Starting, At, End, TypeOK
      <4>2. CASE Duplicate(e0)
        BY <1>a, <1>c, <3>1, <4>2 DEF Duplicate
      <4>3. CASE Store(e0)
        <5>1. stored'[e0] = Bump(stored[e0], RowCap) /\ stored[e0] \in Nat
          BY <1>a, <4>3, StoreEffect DEF TypeOK
        <5> QED BY <1>b, <3>1, <5>1 DEF Bump, Lower
      <4> QED BY <4>1, <4>2, <4>3 DEF InsertEvent
    <3> QED BY <3>2, <3>3
  <2> QED BY <2>1, <2>2
<1> QED BY <1>1, <1>2, <1>3, <1>a DEF Persisted

(* Before the ACK: every acknowledged event has the jobs of its handlers   *)
(* and queues, on every database with transactions.                        *)
THEOREM AckedPersisted == Spec => []AckedIsPersisted
<1>1. Init => Persisted
  BY DEF Init, Persisted
<1>2. TypeOK /\ Persisted /\ [Next]_vars => Persisted'
  <2> SUFFICES ASSUME TypeOK, Persisted, [Next]_vars PROVE Persisted'
    OBVIOUS
  <2>1. ASSUME NEW r \in Requests, Handle(r) PROVE Persisted'
    BY <2>1, HandlePersisted
  <2>2. ASSUME NEW r \in Requests, HangUp(r) PROVE Persisted'
    BY <2>2 DEF HangUp, End, rows, TypeOK, Persisted
  <2>3. ASSUME NEW r \in Requests, NEW e \in Events, Send(r, e) PROVE Persisted'
    BY <2>3 DEF Send, rows, TypeOK, Persisted
  <2>4. CASE Crash
    BY <2>4 DEF Crash, rows, Persisted
  <2>5. CASE DbFails \/ DbRecovers \/ Poll \/ HealthQuery \/ HealthStore \/ UNCHANGED vars
    BY <2>5 DEF DbFails, DbRecovers, Poll, PollWorks, PollFails, HealthQuery, HealthStore, vars,
                rows, Persisted
  <2> QED BY <2>1, <2>2, <2>3, <2>4, <2>5 DEF Next
<1>3. Persisted => AckedIsPersisted
  BY DEF Persisted, AckedIsPersisted
<1> QED BY <1>1, <1>2, <1>3, TypeCorrect, PTL DEF Spec
-----------------------------------------------------------------------------
(* Idempotency keys.                                                       *)

(* What a handler's station says of the work it still has. *)
AtStation(h) ==
  /\ h.pc = "insert" => h.todo = {} /\ h.flows = {}
  /\ h.pc = "jobs" => h.todo \subseteq Targets /\ h.flows = Workflows
  /\ h.pc = "rest" => h.todo \subseteq Endpoints
  /\ h.pc = "first" => h.todo \subseteq Workflows /\ h.todo \cap h.flows = {}

Stations == \A r \in Requests : request[r] # Free => AtStation(request[r])

(* The handler that stored e, as long as it has work left; the handlers of *)
(* its duplicates have none.                                               *)
Working(r, e) ==
  /\ request[r] # Free /\ request[r].event = e
  /\ request[r].pc \in {"jobs", "first"} \/ request[r].todo # {} \/ request[r].flows # {}

(* Before e is stored, nothing was done for it.                            *)
Blank(e) ==
  stored[e] = 0 => /\ \A x \in Causes : jobs[e][x] = 0
                   /\ \A w \in Workflows : runs[e][w] = 0
                   /\ \A r \in Requests : ~Working(r, e)

(* What the handler at work has left to do was not done yet.               *)
Fresh(r, e) ==
  /\ \A x \in request[r].todo \cup request[r].flows : jobs[e][x] = 0
  /\ \A w \in request[r].flows : runs[e][w] = 0
  /\ request[r].pc = "jobs" => \A x \in Endpoints : jobs[e][x] = 0

Once(e) == /\ \A x \in Causes : jobs[e][x] <= 1
           /\ \A w \in Workflows : runs[e][w] <= 1

KeyInv(e) ==
  /\ Blank(e)
  /\ \A r, q \in Requests : Working(r, e) /\ Working(q, e) => r = q
  /\ \A r \in Requests : Working(r, e) => Fresh(r, e)
  /\ Once(e)

KeysInv == \A e \in Keyed : KeyInv(e)

(* A handler's step keeps its station in order. *)
LEMMA HandleStations ==
  ASSUME TypeOK, Stations, NEW r \in Requests, Handle(r)
  PROVE  Stations'
<1>0. request[r] # Free
  BY DEF Handle, InsertEvent, InsertJob, FindEndpoints, InsertOutbound, InsertRun, RejectParams,
         InsertFirst, Answer, Fails, Starting, At
<1>a. /\ request[r].todo \in SUBSET Causes /\ request[r].flows \in SUBSET Workflows
      /\ AtStation(request[r])
  BY <1>0, HandlerType DEF Stations
<1>b. Workflows \in SUBSET Workflows /\ {} \in SUBSET Workflows
      /\ Targets \in SUBSET Causes /\ Endpoints \in SUBSET Causes /\ {} \in SUBSET Causes
  BY DEF Causes
<1>c. \A q \in Requests \ {r} : request'[q] = request[q]
  BY OthersStay
<1>d. ASSUME request'[r] = Free \/ AtStation(request'[r]) PROVE Stations'
  BY <1>c, <1>d DEF Stations, AtStation
<1>1. CASE InsertEvent(r)
  <2> DEFINE S == IF driver = "d1" THEN Targets ELSE {}
  <2>0. S \in SUBSET Causes /\ S \subseteq Targets
    BY <1>b
  <2>1. CASE Goto(r, "rest", {}, {})
    <3>1. request'[r].pc = "rest" /\ request'[r].todo = {}
      BY <2>1 DEF Goto, TypeOK
    <3> QED BY <1>d, <3>1 DEF AtStation
  <2>2. CASE Goto(r, "jobs", S, Workflows)
    <3> HIDE DEF S
    <3>1. request'[r].pc = "jobs" /\ request'[r].todo = S /\ request'[r].flows = Workflows
      BY <2>2 DEF Goto, TypeOK
    <3> QED BY <1>d, <2>0, <3>1 DEF AtStation
  <2>3. CASE End(r)
    BY <1>d, <2>3, EndEffect
  <2> QED BY <1>1, <2>1, <2>2, <2>3 DEF InsertEvent
<1>2. CASE InsertJob(r)
  <2>1. PICK t \in request[r].todo : Goto(r, "jobs", request[r].todo \ {t}, Workflows)
    BY <1>2 DEF InsertJob
  <2>2. request[r].todo \ {t} \in SUBSET Causes /\ request[r].todo \subseteq Targets
    BY <1>2, <1>a DEF InsertJob, At, AtStation
  <2>3. /\ request'[r].pc = "jobs" /\ request'[r].todo = request[r].todo \ {t}
        /\ request'[r].flows = Workflows
    BY <2>1 DEF Goto, TypeOK
  <2> QED BY <1>d, <2>2, <2>3 DEF AtStation
<1>3. CASE FindEndpoints(r)
  <2> DEFINE S == IF dbUp THEN Endpoints ELSE {}
  <2>1. S \in SUBSET Causes /\ S \subseteq Endpoints /\ Goto(r, "rest", S, Workflows)
    BY <1>3, <1>b DEF FindEndpoints
  <2> HIDE DEF S
  <2>2. request'[r].pc = "rest" /\ request'[r].todo = S
    BY <2>1 DEF Goto, TypeOK
  <2> QED BY <1>d, <2>1, <2>2 DEF AtStation
<1>4. CASE InsertOutbound(r)
  <2>1. PICK x \in request[r].todo : Goto(r, "rest", request[r].todo \ {x}, request[r].flows)
    BY <1>4 DEF InsertOutbound
  <2>2. request[r].todo \ {x} \in SUBSET Causes /\ request[r].todo \subseteq Endpoints
    BY <1>4, <1>a DEF InsertOutbound, At, AtStation
  <2>3. request'[r].pc = "rest" /\ request'[r].todo = request[r].todo \ {x}
    BY <2>1 DEF Goto, TypeOK
  <2> QED BY <1>d, <2>2, <2>3 DEF AtStation
<1>5. CASE InsertRun(r)
  <2>1. PICK w \in request[r].flows : Goto(r, "first", {w}, request[r].flows \ {w})
    BY <1>5 DEF InsertRun
  <2>2. /\ {w} \in SUBSET Causes /\ {w} \subseteq Workflows
        /\ request[r].flows \ {w} \in SUBSET Workflows
    BY <1>a DEF Causes
  <2>3. /\ request'[r].pc = "first" /\ request'[r].todo = {w}
        /\ request'[r].flows = request[r].flows \ {w}
    BY <2>1 DEF Goto, TypeOK
  <2> QED BY <1>d, <2>2, <2>3 DEF AtStation
<1>6. CASE InsertFirst(r)
  <2>1. request'[r].pc = "rest" /\ request'[r].todo = {}
    BY <1>6 DEF InsertFirst, Goto, TypeOK
  <2> QED BY <1>d, <2>1 DEF AtStation
<1>7. CASE RejectParams(r) \/ Answer(r) \/ Fails(r)
  BY <1>7, <1>d, EndEffect DEF RejectParams, Answer, Fails
<1> QED BY <1>1, <1>2, <1>3, <1>4, <1>5, <1>6, <1>7 DEF Handle

(* A handler adds no row for another event than its own. *)
LEMMA OtherEvents ==
  ASSUME TypeOK, NEW r \in Requests, Handle(r), NEW e \in Events, e # request[r].event
  PROVE  stored'[e] = stored[e] /\ jobs'[e] = jobs[e] /\ runs'[e] = runs[e]
<1>0. request[r] # Free
  BY DEF Handle, InsertEvent, InsertJob, FindEndpoints, InsertOutbound, InsertRun, RejectParams,
         InsertFirst, Answer, Fails, Starting, At
<1>a. /\ request[r].event \in Events /\ request[r].todo \in SUBSET Causes
      /\ request[r].flows \in SUBSET Workflows
  BY <1>0, HandlerType
<1>1. CASE InsertEvent(r)
  BY <1>1, <1>a, StoreEffect DEF InsertEvent
<1>2. CASE InsertJob(r) \/ InsertOutbound(r) \/ InsertFirst(r)
  <2>1. /\ UNCHANGED <<stored, runs>>
        /\ UNCHANGED jobs \/ \E S \in SUBSET Causes : AddJobs(request[r].event, S)
    BY <1>2, <1>a DEF InsertJob, InsertOutbound, InsertFirst
  <2> QED BY <1>a, <2>1, AddEffect
<1>3. CASE InsertRun(r)
  <2>1. /\ UNCHANGED <<stored, jobs>>
        /\ \E w \in Workflows : runs' = [runs EXCEPT ![request[r].event][w] = Bump(@, RowCap)]
    BY <1>3, <1>a DEF InsertRun
  <2> QED BY <1>a, <2>1 DEF TypeOK
<1>4. CASE FindEndpoints(r) \/ RejectParams(r) \/ Answer(r) \/ Fails(r)
  BY <1>4 DEF FindEndpoints, RejectParams, Answer, Fails, rows
<1> QED BY <1>1, <1>2, <1>3, <1>4 DEF Handle

(* When rows stay and no handler takes up work, nothing changes for e. *)
LEMMA LessWork ==
  ASSUME NEW e, KeyInv(e), stored'[e] = stored[e], jobs'[e] = jobs[e], runs'[e] = runs[e],
         \A q \in Requests : Working(q, e)' => Working(q, e) /\ request'[q] = request[q]
  PROVE  KeyInv(e)'
BY DEF KeyInv, Blank, Fresh, Once

(* The handler at work is the only one that matters for its event. *)
LEMMA WorkerStep ==
  ASSUME TypeOK, NEW r \in Requests, Handle(r), NEW e \in Events, KeyInv(e), Working(r, e),
         stored'[e] = stored[e], Working(r, e)' => Fresh(r, e)', Once(e)'
  PROVE  KeyInv(e)'
<1>1. stored'[e] # 0
  BY DEF KeyInv, Blank
<1>2. \A q \in Requests \ {r} : ~Working(q, e)'
  <2> TAKE q \in Requests \ {r}
  <2>1. request'[q] = request[q] /\ ~Working(q, e)
    BY OthersStay DEF KeyInv
  <2> QED BY <2>1 DEF Working
<1> QED BY <1>1, <1>2 DEF KeyInv, Blank

(* The handler that stores a keyed event is the first at work on it.       *)
LEMMA FirstStored ==
  ASSUME TypeOK, NEW r \in Requests, Handle(r), NEW e \in Keyed, e \in Events, KeyInv(e),
         request[r] # Free, request[r].event = e, ~Duplicate(e), Store(e), UNCHANGED runs,
         \/ request'[r] = Free
         \/ /\ request'[r].flows = Workflows
            /\ request'[r].todo = IF driver = "d1" THEN Targets ELSE {}
  PROVE  KeyInv(e)'
<1>1. stored[e] = 0
  BY DEF Duplicate, TypeOK
<1>2. /\ \A x \in Causes : jobs[e][x] = 0
      /\ \A w \in Workflows : runs[e][w] = 0
      /\ \A q \in Requests : ~Working(q, e)
  BY <1>1 DEF KeyInv, Blank
<1>3. Bump(0, RowCap) = 1
  BY IngestAssumption DEF IngestAssumption, Bump, Lower
<1>4. /\ stored'[e] = 1
      /\ \A x \in Causes : jobs'[e][x] = IF driver # "d1" /\ x \in Targets THEN 1 ELSE 0
  BY <1>1, <1>2, <1>3, StoreEffect
<1>5. \A q \in Requests \ {r} : ~Working(q, e)'
  <2> TAKE q \in Requests \ {r}
  <2>1. request'[q] = request[q]
    BY OthersStay
  <2> QED BY <1>2, <2>1 DEF Working
<1>6. Once(e)'
  BY <1>2, <1>4 DEF Once
<1>7. Working(r, e)' => Fresh(r, e)'
  <2> SUFFICES ASSUME Working(r, e)' PROVE Fresh(r, e)'
    OBVIOUS
  <2>1. /\ request'[r].flows = Workflows
        /\ request'[r].todo = IF driver = "d1" THEN Targets ELSE {}
    BY DEF Working
  <2>2. \A x \in Endpoints \cup Workflows : x \in Causes /\ x \notin Targets
    BY IngestAssumption DEF IngestAssumption, Causes
  <2>3. \A x \in Endpoints \cup Workflows : jobs'[e][x] = 0
    BY <1>4, <2>2
  <2>4. driver = "d1" => \A x \in Targets : jobs'[e][x] = 0
    BY <1>4 DEF Causes
  <2> QED BY <1>2, <2>1, <2>3, <2>4 DEF Fresh
<1> QED BY <1>4, <1>5, <1>6, <1>7 DEF KeyInv, Blank

(* One step of a handler preserves the invariant of a keyed event.         *)
LEMMA HandleKey ==
  ASSUME TypeOK, Stations, NEW r \in Requests, Handle(r), NEW e \in Keyed, KeyInv(e)
  PROVE  KeyInv(e)'
<1>0. request[r] # Free
  BY DEF Handle, InsertEvent, InsertJob, FindEndpoints, InsertOutbound, InsertRun, RejectParams,
         InsertFirst, Answer, Fails, Starting, At
<1>a. /\ request[r].event \in Events /\ request[r].todo \in SUBSET Causes
      /\ request[r].flows \in SUBSET Workflows /\ AtStation(request[r])
  BY <1>0, HandlerType DEF Stations
<1>b. /\ Workflows \in SUBSET Workflows /\ {} \in SUBSET Workflows
      /\ Targets \in SUBSET Causes /\ Endpoints \in SUBSET Causes /\ {} \in SUBSET Causes
      /\ e \in Events
  BY IngestAssumption DEF Causes, IngestAssumption
<1>c. \A q \in Requests \ {r} : request'[q] = request[q]
  BY OthersStay
<1>d. Bump(0, RowCap) = 1
  BY IngestAssumption DEF IngestAssumption, Bump, Lower
<1>e. /\ \A x \in Endpoints \cup Workflows : x \notin Targets
      /\ \A x \in Workflows : x \notin Endpoints
  BY IngestAssumption DEF IngestAssumption
<1>1. CASE e # request[r].event
  <2>1. stored'[e] = stored[e] /\ jobs'[e] = jobs[e] /\ runs'[e] = runs[e]
    BY <1>1, <1>b, OtherEvents
  <2>2. ~Working(r, e)'
    BY <1>1, OthersStay DEF Working
  <2>3. \A q \in Requests \ {r} : Working(q, e)' => Working(q, e)
    BY <1>c DEF Working
  <2> QED BY <1>c, <2>1, <2>2, <2>3, LessWork
<1>2. ASSUME e = request[r].event, UNCHANGED rows, ~Working(r, e)' PROVE KeyInv(e)'
  <2>1. \A q \in Requests \ {r} : Working(q, e)' => Working(q, e)
    BY <1>c DEF Working
  <2> QED BY <1>2, <1>c, <2>1, LessWork DEF rows
<1>3. CASE e = request[r].event /\ InsertEvent(r)
  <2>1. CASE Goto(r, "rest", {}, {}) /\ UNCHANGED <<stored, jobs>>
    <3>1. ~Working(r, e)'
      BY <2>1 DEF Goto, TypeOK, Working
    <3> QED BY <1>2, <1>3, <2>1, <3>1 DEF InsertEvent, rows
  <2>2. CASE /\ ~Duplicate(e) /\ Store(e)
             /\ Goto(r, "jobs", IF driver = "d1" THEN Targets ELSE {}, Workflows)
    <3>1. (IF driver = "d1" THEN Targets ELSE {}) \in SUBSET Causes
      BY <1>b
    <3>2. /\ request'[r].flows = Workflows
          /\ request'[r].todo = IF driver = "d1" THEN Targets ELSE {}
      BY <2>2 DEF Goto, TypeOK
    <3> QED BY <1>0, <1>3, <1>b, <2>2, <3>2, FirstStored DEF InsertEvent
  <2>3. CASE ~Duplicate(e) /\ Store(e) /\ End(r)
    BY <1>0, <1>3, <1>b, <2>3, EndEffect, FirstStored DEF InsertEvent
  <2> QED BY <1>3, <2>1, <2>2, <2>3 DEF InsertEvent
<1>4. CASE e = request[r].event /\ InsertJob(r)
  <2>1. PICK t \in request[r].todo : /\ AddJobs(e, {t})
                                     /\ Goto(r, "jobs", request[r].todo \ {t}, Workflows)
    BY <1>4 DEF InsertJob
  <2>2. Working(r, e) /\ t \in Targets /\ t \in Causes /\ request[r].flows = Workflows
    BY <1>0, <1>4, <1>a DEF Working, InsertJob, At, AtStation
  <2>3. Fresh(r, e) /\ request[r].pc = "jobs"
    BY <1>4, <2>2 DEF KeyInv, InsertJob, At
  <2>4. /\ jobs'[e][t] = 1
        /\ \A x \in Causes \ {t} : jobs'[e][x] = jobs[e][x]
    BY <1>b, <1>d, <2>1, <2>2, <2>3, AddEffect DEF Fresh
  <2>5. /\ request'[r].todo = request[r].todo \ {t} /\ request'[r].flows = Workflows
    BY <2>1 DEF Goto, TypeOK
  <2>6. Fresh(r, e)'
    <3>1. \A x \in (request[r].todo \ {t}) \cup Workflows : x \in Causes /\ x # t
      BY <1>a, <1>e, <2>2 DEF Causes
    <3>2. \A x \in Endpoints : x \in Causes /\ x # t
      BY <1>e, <2>2 DEF Causes
    <3>3. UNCHANGED runs
      BY <1>4 DEF InsertJob
    <3> QED BY <2>2, <2>3, <2>4, <2>5, <3>1, <3>2, <3>3 DEF Fresh
  <2>7. Once(e)' /\ stored'[e] = stored[e]
    BY <1>4, <2>4 DEF KeyInv, Once, InsertJob
  <2> QED BY <1>b, <2>2, <2>6, <2>7, WorkerStep
<1>5. CASE e = request[r].event /\ FindEndpoints(r)
  <2> DEFINE S == IF dbUp THEN Endpoints ELSE {}
  <2>1. S \in SUBSET Causes /\ S \subseteq Endpoints /\ Goto(r, "rest", S, Workflows)
    BY <1>5, <1>b DEF FindEndpoints
  <2> HIDE DEF S
  <2>2. Working(r, e) /\ request[r].flows = Workflows /\ request[r].pc = "jobs"
    BY <1>0, <1>5, <1>a DEF Working, FindEndpoints, At, AtStation
  <2>3. Fresh(r, e)
    BY <2>2 DEF KeyInv
  <2>4. request'[r].todo = S /\ request'[r].flows = Workflows /\ request'[r].pc = "rest"
    BY <2>1 DEF Goto, TypeOK
  <2>5. UNCHANGED rows
    BY <1>5 DEF FindEndpoints
  <2>6. Fresh(r, e)'
    BY <2>1, <2>2, <2>3, <2>4, <2>5 DEF Fresh, rows
  <2>7. Once(e)' /\ stored'[e] = stored[e]
    BY <2>5 DEF KeyInv, Once, rows
  <2> QED BY <1>b, <2>2, <2>6, <2>7, WorkerStep
<1>6. CASE e = request[r].event /\ InsertOutbound(r)
  <2>1. PICK x \in request[r].todo :
          /\ IF dbUp THEN AddJobs(e, {x}) ELSE UNCHANGED jobs
          /\ Goto(r, "rest", request[r].todo \ {x}, request[r].flows)
    BY <1>6 DEF InsertOutbound
  <2>2. Working(r, e) /\ x \in Endpoints /\ x \in Causes
    BY <1>0, <1>6, <1>a DEF Working, InsertOutbound, At, AtStation
  <2>3. Fresh(r, e)
    BY <2>2 DEF KeyInv
  <2>4. /\ jobs'[e][x] \in {0, 1}
        /\ \A y \in Causes \ {x} : jobs'[e][y] = jobs[e][y]
    <3>1. CASE dbUp
      BY <1>b, <1>d, <2>1, <2>2, <2>3, <3>1, AddEffect DEF Fresh
    <3>2. CASE ~dbUp
      BY <2>1, <2>3, <3>2 DEF Fresh
    <3> QED BY <3>1, <3>2
  <2>5. /\ request'[r].todo = request[r].todo \ {x} /\ request'[r].flows = request[r].flows
        /\ request'[r].pc = "rest"
    BY <2>1 DEF Goto, TypeOK
  <2>6. Fresh(r, e)'
    <3>1. \A y \in (request[r].todo \ {x}) \cup request[r].flows : y \in Causes /\ y # x
      BY <1>a, <1>e, <2>2 DEF Causes
    <3>2. UNCHANGED runs
      BY <1>6 DEF InsertOutbound
    <3> QED BY <2>3, <2>4, <2>5, <3>1, <3>2 DEF Fresh
  <2>7. Once(e)' /\ stored'[e] = stored[e]
    BY <1>6, <2>4 DEF KeyInv, Once, InsertOutbound
  <2> QED BY <1>b, <2>2, <2>6, <2>7, WorkerStep
<1>7. CASE e = request[r].event /\ InsertRun(r)
  <2>1. PICK w \in request[r].flows : /\ runs' = [runs EXCEPT ![e][w] = Bump(@, RowCap)]
                                      /\ Goto(r, "first", {w}, request[r].flows \ {w})
    BY <1>7 DEF InsertRun
  <2>2. Working(r, e) /\ w \in Workflows /\ {w} \in SUBSET Causes
        /\ request[r].flows \ {w} \in SUBSET Workflows
    BY <1>0, <1>7, <1>a DEF Working, Causes
  <2>3. Fresh(r, e)
    BY <2>2 DEF KeyInv
  <2>4. /\ runs'[e][w] = 1
        /\ \A v \in Workflows \ {w} : runs'[e][v] = runs[e][v]
    <3>1. runs[e][w] = 0
      BY <2>3 DEF Fresh
    <3>2. /\ runs'[e][w] = Bump(runs[e][w], RowCap)
          /\ \A v \in Workflows \ {w} : runs'[e][v] = runs[e][v]
      BY <1>b, <2>1, <2>2 DEF TypeOK
    <3> QED BY <1>d, <3>1, <3>2
  <2>5. /\ request'[r].todo = {w} /\ request'[r].flows = request[r].flows \ {w}
        /\ request'[r].pc = "first"
    BY <2>1 DEF Goto, TypeOK
  <2>6. UNCHANGED <<stored, jobs>>
    BY <1>7 DEF InsertRun
  <2>7. Fresh(r, e)'
    BY <1>a, <2>3, <2>4, <2>5, <2>6 DEF Fresh
  <2>8. Once(e)' /\ stored'[e] = stored[e]
    BY <2>4, <2>6 DEF KeyInv, Once
  <2> QED BY <1>b, <2>2, <2>7, <2>8, WorkerStep
<1>8. CASE e = request[r].event /\ InsertFirst(r)
  <2>1. /\ AddJobs(e, request[r].todo)
        /\ Goto(r, "rest", {}, request[r].flows) /\ UNCHANGED <<stored, runs>>
    BY <1>8 DEF InsertFirst
  <2>2. Working(r, e) /\ request[r].todo \cap request[r].flows = {}
    BY <1>0, <1>8, <1>a DEF Working, InsertFirst, At, AtStation
  <2>3. Fresh(r, e)
    BY <2>2 DEF KeyInv
  <2>4. \A x \in Causes : jobs'[e][x] = IF x \in request[r].todo THEN 1 ELSE jobs[e][x]
    BY <1>a, <1>b, <1>d, <2>1, <2>3, AddEffect DEF Fresh
  <2>5. /\ request'[r].todo = {} /\ request'[r].flows = request[r].flows
        /\ request'[r].pc = "rest"
    BY <2>1 DEF Goto, TypeOK
  <2>6. Fresh(r, e)'
    <3>1. \A x \in request[r].flows : x \in Causes /\ x \notin request[r].todo
      BY <1>a, <2>2 DEF Causes
    <3> QED BY <2>1, <2>3, <2>4, <2>5, <3>1 DEF Fresh
  <2>7. Once(e)' /\ stored'[e] = stored[e]
    BY <2>1, <2>4 DEF KeyInv, Once
  <2> QED BY <1>b, <2>2, <2>6, <2>7, WorkerStep
<1>9. CASE e = request[r].event /\ (RejectParams(r) \/ Answer(r) \/ Fails(r))
  <2>1. End(r) /\ UNCHANGED rows
    BY <1>9 DEF RejectParams, Answer, Fails
  <2>2. ~Working(r, e)'
    BY <2>1, EndEffect DEF Working
  <2> QED BY <1>2, <1>9, <2>1, <2>2
<1> QED BY <1>1, <1>3, <1>4, <1>5, <1>6, <1>7, <1>8, <1>9 DEF Handle

(* Idempotency: whatever is sent again, cut off or answered twice, every   *)
(* effect of a keyed event happens at most once.                           *)
THEOREM KeysWork == Spec => []AtMostOnce
<1> DEFINE Inv == Stations /\ KeysInv
<1>1. Init => Inv
  BY IngestAssumption DEF Init, Stations, KeysInv, KeyInv, Blank, Working, Once, IngestAssumption
<1>2. TypeOK /\ Inv /\ [Next]_vars => Inv'
  <2> SUFFICES ASSUME TypeOK, Stations, KeysInv, [Next]_vars PROVE Inv'
    OBVIOUS
  <2>0. Keyed \subseteq Events
    BY IngestAssumption DEF IngestAssumption
  <2>1. ASSUME NEW r \in Requests, Handle(r) PROVE Inv'
    BY <2>1, HandleStations, HandleKey DEF KeysInv
  <2>2. ASSUME UNCHANGED rows,
               \A q \in Requests : \/ request'[q] = Free \/ request'[q] = request[q]
                                   \/ /\ request'[q].pc = "insert"
                                      /\ request'[q].todo = {} /\ request'[q].flows = {}
        PROVE  Inv'
    <3>1. Stations'
      BY <2>2 DEF Stations, AtStation
    <3>2. ASSUME NEW e \in Keyed, NEW q \in Requests, Working(q, e)'
          PROVE  Working(q, e) /\ request'[q] = request[q]
      BY <2>2, <3>2 DEF Working
    <3>3. \A e \in Keyed : KeyInv(e)'
      BY <2>2, <3>2, LessWork DEF KeysInv, rows
    <3> QED BY <3>1, <3>3 DEF KeysInv
  <2>3. ASSUME NEW r \in Requests, HangUp(r) PROVE Inv'
    BY <2>2, <2>3, EndEffect DEF HangUp
  <2>4. ASSUME NEW r \in Requests, NEW e \in Events, Send(r, e) PROVE Inv'
    BY <2>2, <2>4 DEF Send, TypeOK
  <2>5. CASE Crash
    BY <2>2, <2>5 DEF Crash
  <2>6. CASE DbFails \/ DbRecovers \/ Poll \/ HealthQuery \/ HealthStore \/ UNCHANGED vars
    BY <2>2, <2>6 DEF DbFails, DbRecovers, Poll, PollWorks, PollFails, HealthQuery, HealthStore,
                      vars
  <2> QED BY <2>1, <2>3, <2>4, <2>5, <2>6 DEF Next
<1>3. Inv => AtMostOnce
  BY DEF KeysInv, KeyInv, Once, AtMostOnce
<1> QED BY <1>1, <1>2, <1>3, TypeCorrect, PTL DEF Spec
=============================================================================
