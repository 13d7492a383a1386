-------------------------- MODULE Delivery_proofs ---------------------------
(***************************************************************************)
(* Theorems about Delivery, for any number of jobs, processes and permits  *)
(* and any configuration that DeliveryAssumption admits.                   *)
(***************************************************************************)
EXTENDS Delivery, TLAPS

-----------------------------------------------------------------------------
(* What the row and task updates preserve.                                 *)

LEMMA BumpInRange ==
  ASSUME NEW n \in Nat, NEW cap \in Nat
  PROVE  Bump(n, cap) \in 0..cap
BY DEF Bump, Lower

LEMMA WriteRowType ==
  ASSUME TypeOK, NEW j \in Jobs, NEW st \in Status, NEW t \in Nat, WriteRow(j, st, t)
  PROVE  status' \in [Jobs -> Status] /\ timer' \in [Jobs -> Nat]
BY DEF TypeOK, TableTypeOK, WriteRow

LEMMA WriteRowsType ==
  ASSUME TypeOK, NEW S, NEW st \in Status, WriteRows(S, st)
  PROVE  status' \in [Jobs -> Status] /\ timer' \in [Jobs -> Nat]
BY DEF TypeOK, TableTypeOK, WriteRows

LEMMA PutTaskType ==
  ASSUME TypeOK, NEW w \in Workers, NEW p \in Permits, NEW c \in Claim \cup {Idle},
         task' = [task EXCEPT ![w][p] = c]
  PROVE  task' \in [Workers -> [Permits -> Claim \cup {Idle}]]
BY DEF TypeOK, TableTypeOK

LEMMA EndTaskType ==
  ASSUME TypeOK, NEW w \in Workers, NEW p \in Permits, EndTask(w, p)
  PROVE  task' \in [Workers -> [Permits -> Claim \cup {Idle}]]
BY DEF TypeOK, TableTypeOK, EndTask

LEMMA BusyIsClaim ==
  ASSUME TypeOK, NEW w \in Workers, NEW p \in Permits, task[w][p].pc \in TaskStep
  PROVE  task[w][p] \in Claim
<1>1. task[w][p] \in Claim \cup {Idle}
  BY DEF TypeOK, TableTypeOK
<1>2. Idle.pc \notin TaskStep
  BY DEF Idle, TaskStep
<1> QED BY <1>1, <1>2

LEMMA StepTaskType ==
  ASSUME TypeOK, NEW w \in Workers, NEW p \in Permits, task[w][p].pc \in TaskStep,
         NEW pc \in TaskStep, StepTask(w, p, pc)
  PROVE  task' \in [Workers -> [Permits -> Claim \cup {Idle}]]
<1>1. task[w][p] \in Claim
  BY BusyIsClaim
<1>2. [task[w][p] EXCEPT !.pc = pc] \in Claim
  BY <1>1 DEF Claim
<1> QED BY <1>2 DEF TypeOK, TableTypeOK, StepTask

LEMMA DisturbType ==
  ASSUME TypeOK, Disturb \/ Undisturbed
  PROVE  disturbed' \in 0..MaxDisturbances
BY DeliveryAssumption, JobTableAssumption DEF TypeOK, TableTypeOK, Disturb, Undisturbed, DeliveryAssumption, JobTableAssumption

LEMMA ClaimRowsType ==
  ASSUME TypeOK, NEW S, ClaimRows(S)
  PROVE  /\ status' \in [Jobs -> Status]
         /\ timer' \in [Jobs -> Nat]
         /\ attempt' \in [Jobs -> 0..MaxAttempts]
<1>1. "running" \in Status
  BY DEF Status
<1>2. WriteRows(S, "running")
  BY DEF ClaimRows
<1>3. \A j \in Jobs : Bump(attempt[j], MaxAttempts) \in 0..MaxAttempts
  BY BumpInRange, DeliveryAssumption, JobTableAssumption DEF TypeOK, TableTypeOK, DeliveryAssumption, JobTableAssumption
<1> QED BY <1>1, <1>2, <1>3, WriteRowsType DEF TypeOK, TableTypeOK, ClaimRows

-----------------------------------------------------------------------------

(* Type correctness. *)
LEMMA TypeInit == Init => TypeOK
<1> SUFFICES ASSUME Init PROVE TypeOK
  OBVIOUS
<1>1. MaxAttempts \in Nat /\ EventTtl \in Nat /\ MaxDisturbances \in Nat /\ HistoryCap \in Nat
  BY DeliveryAssumption, JobTableAssumption DEF DeliveryAssumption, JobTableAssumption
<1>2. "none" \in Status /\ "down" \in Station
  BY DEF Status, Station
<1> QED BY <1>1, <1>2 DEF Init, TableInit, TypeOK, TableTypeOK

LEMMA TypeNext == TypeOK /\ [Next]_vars => TypeOK'
<1> SUFFICES ASSUME TypeOK, [Next]_vars PROVE TypeOK'
  OBVIOUS
<1> USE DeliveryAssumption, JobTableAssumption DEF DeliveryAssumption, JobTableAssumption
<1>s. /\ Waiting \subseteq Status /\ Settled \subseteq Status
      /\ {"none", "purged", "running", "available", "retryable", "completed", "dead"} \subseteq Status
  BY DEF Status, Waiting, Settled
<1>1. ASSUME NEW j \in Jobs, Insert(j) PROVE TypeOK'
  BY <1>1, <1>s DEF Insert, InsertRow, TypeOK, TableTypeOK, workerVars, historyVars
<1>2. ASSUME NEW S, ResetAttempts(S), Disturb, UNCHANGED <<age, workerVars, answered>>
      PROVE TypeOK'
  <2>1. status' \in [Jobs -> Status] /\ timer' \in [Jobs -> Nat]
    BY <1>2, <1>s, WriteRowsType DEF ResetAttempts, ResetRows
  <2>2. disturbed' \in 0..MaxDisturbances
    BY <1>2, DisturbType
  <2> QED BY <1>2, <2>1, <2>2 DEF ResetAttempts, ResetRows, TypeOK, TableTypeOK, workerVars
<1>3. ASSUME RetryDead PROVE TypeOK'
  <2>1. status' \in [Jobs -> Status] /\ timer' \in [Jobs -> Nat]
    BY <1>3, <1>s, WriteRowsType DEF RetryDead
  <2>2. disturbed' \in 0..MaxDisturbances
    BY <1>3, DisturbType DEF RetryDead
  <2>3. granted' \in [Jobs -> 0..HistoryCap]
    BY <1>3 DEF RetryDead, Bump, Lower, TypeOK, TableTypeOK
  <2> QED BY <1>3, <2>1, <2>2, <2>3 DEF RetryDead, TypeOK, TableTypeOK, workerVars
<1>4. ASSUME NEW w \in Workers, LoopNext(w) PROVE TypeOK'
  <2>1. ASSUME Fetch(w) PROVE TypeOK'
    <3>1. PICK S \in SUBSET Due :
            /\ batch' = [batch EXCEPT ![w] = {[job |-> j, seen |-> attempt[j]] : j \in S}]
            /\ IF AtomicFetch THEN ClaimRows(S) ELSE UNCHANGED <<status, timer, attempt>>
      BY <2>1 DEF Fetch
    <3>2. S \subseteq Jobs
      BY DEF Due
    <3>3. {[job |-> j, seen |-> attempt[j]] : j \in S} \subseteq Row
      BY <3>2 DEF Row, TypeOK, TableTypeOK
    <3>4. batch' \in [Workers -> SUBSET Row]
      BY <3>1, <3>3 DEF TypeOK, TableTypeOK
    <3>5. /\ status' \in [Jobs -> Status] /\ timer' \in [Jobs -> Nat]
          /\ attempt' \in [Jobs -> 0..MaxAttempts]
      BY <3>1, ClaimRowsType DEF TypeOK, TableTypeOK
    <3> QED BY <2>1, <3>4, <3>5 DEF Fetch, TypeOK, TableTypeOK, historyVars
  <2>2. ASSUME NEW r \in batch[w], SpawnFails(w, r) PROVE TypeOK'
    <3>1. disturbed' \in 0..MaxDisturbances
      BY <2>2, DisturbType DEF SpawnFails
    <3> QED BY <2>2, <3>1 DEF SpawnFails, TypeOK, TableTypeOK, rowVars, historyVars
  <2>3. ASSUME NEW r \in batch[w], NEW p \in Permits, Spawn(w, r, p) PROVE TypeOK'
    <3>1. r \in Row
      BY DEF TypeOK, TableTypeOK
    <3>2. [job |-> r.job, seen |-> r.seen, pc |-> "check"] \in Claim
      BY <3>1 DEF Row, Claim, TaskStep
    <3>3. task' \in [Workers -> [Permits -> Claim \cup {Idle}]]
      <4>1. \/ task' = [task EXCEPT ![w][p] = [job |-> r.job, seen |-> r.seen, pc |-> "check"]]
            \/ task' = task
        BY <2>3 DEF Spawn
      <4> QED BY <4>1, <3>2, PutTaskType DEF TypeOK, TableTypeOK
    <3>4. /\ status' \in [Jobs -> Status] /\ timer' \in [Jobs -> Nat]
          /\ attempt' \in [Jobs -> 0..MaxAttempts]
      BY <2>3, ClaimRowsType DEF Spawn, TypeOK, TableTypeOK
    <3> QED BY <2>3, <3>3, <3>4 DEF Spawn, TypeOK, TableTypeOK, historyVars
  <2>4. ASSUME AtCapacity(w) PROVE TypeOK'
    BY <2>4 DEF AtCapacity, TypeOK, TableTypeOK, rowVars, historyVars
  <2>5. ASSUME RecoverStale(w) PROVE TypeOK'
    <3>1. status' \in [Jobs -> Status] /\ timer' \in [Jobs -> Nat]
      <4>1. \/ WriteRows({i \in Jobs : IsStale(i)}, "retryable")
            \/ UNCHANGED <<status, timer>>
        BY <2>5 DEF RecoverStale, Stale
      <4> QED BY <4>1, <1>s, WriteRowsType DEF TypeOK, TableTypeOK
    <3>2. granted' \in [Jobs -> 0..HistoryCap]
      BY <2>5 DEF RecoverStale, Stale, Bump, Lower, TypeOK, TableTypeOK
    <3>3. disturbed' \in 0..MaxDisturbances
      BY <2>5, DisturbType DEF RecoverStale, Stale
    <3>4. loop' \in [Workers -> Station]
      BY <2>5 DEF RecoverStale, Stale, Proceed, TypeOK, TableTypeOK, Station
    <3> QED BY <2>5, <3>1, <3>2, <3>3, <3>4 DEF RecoverStale, Stale, TypeOK, TableTypeOK
  <2>6. ASSUME CleanupOld(w) PROVE TypeOK'
    <3>1. status' \in [Jobs -> Status] /\ timer' \in [Jobs -> Nat]
      BY <2>6, <1>s, WriteRowsType DEF CleanupOld, PurgeOldRows, TypeOK, TableTypeOK
    <3>3. disturbed' \in 0..MaxDisturbances
      BY <2>6, DisturbType DEF CleanupOld, PurgeOldRows
    <3>4. loop' \in [Workers -> Station]
      BY <2>6 DEF CleanupOld, PurgeOldRows, Proceed, TypeOK, TableTypeOK, Station
    <3> QED BY <2>6, <3>1, <3>3, <3>4 DEF CleanupOld, PurgeOldRows, TypeOK, TableTypeOK, historyVars
  <2>7. ASSUME ExpireOld(w) PROVE TypeOK'
    <3>1. status' \in [Jobs -> Status] /\ timer' \in [Jobs -> Nat]
      BY <2>7, <1>s, WriteRowsType DEF ExpireOld, ExpireRows, TypeOK, TableTypeOK
    <3>3. disturbed' \in 0..MaxDisturbances
      BY <2>7, DisturbType DEF ExpireOld, ExpireRows
    <3>4. loop' \in [Workers -> Station]
      BY <2>7 DEF ExpireOld, ExpireRows, Proceed, TypeOK, TableTypeOK, Station
    <3> QED BY <2>7, <3>1, <3>3, <3>4 DEF ExpireOld, ExpireRows, TypeOK, TableTypeOK, historyVars
  <2>8. ASSUME MaintenanceDue(w) \/ Start(w) PROVE TypeOK'
    BY <2>8 DEF MaintenanceDue, Start, Proceed, Station, TypeOK, TableTypeOK, rowVars, historyVars
  <2>9. ASSUME Lose(w), Disturb \/ Undisturbed, UNCHANGED <<rowVars, historyVars>>
        PROVE TypeOK'
    <3>1. disturbed' \in 0..MaxDisturbances
      BY <2>9, DisturbType
    <3> QED BY <2>9, <3>1 DEF Lose, Station, TypeOK, TableTypeOK, rowVars, historyVars
  <2>10. ASSUME Shutdown(w) PROVE TypeOK'
    <3>1. disturbed' \in 0..MaxDisturbances
      BY <2>10, DisturbType DEF Shutdown
    <3> QED BY <2>10, <3>1 DEF Shutdown, Proceed, Station, TypeOK, TableTypeOK, rowVars, historyVars
  <2> QED BY <1>4, <2>1, <2>2, <2>3, <2>4, <2>5, <2>6, <2>7, <2>8, <2>9, <2>10
          DEF LoopNext, Crash, DrainEnds, Undisturbed
<1>5. ASSUME NEW w \in Workers, NEW p \in Permits, TaskNext(w, p) PROVE TypeOK'
  <2> DEFINE j == task[w][p].job
  <2>0. task[w][p].pc \in TaskStep /\ j \in Jobs
    <3>1. task[w][p].pc \in TaskStep
      BY <1>5 DEF TaskNext, CircuitRejects, SendRequest, PayloadUnread, Respond,
                  RecordAttempt, PutCompleted, PutFailed, At, TaskStep
    <3> QED BY <3>1, BusyIsClaim DEF Claim
  <2>1. ASSUME NEW st \in Status, NEW t \in Nat, EndTask(w, p), Disturb \/ Undisturbed,
               WriteRow(j, st, t) \/ UNCHANGED <<status, timer>>,
               UNCHANGED <<attempt, age, loop, batch, historyVars>>
        PROVE TypeOK'
    <3>1. status' \in [Jobs -> Status] /\ timer' \in [Jobs -> Nat]
      BY <2>0, <2>1, WriteRowType DEF TypeOK, TableTypeOK
    <3>2. task' \in [Workers -> [Permits -> Claim \cup {Idle}]]
      BY <2>1, EndTaskType
    <3>3. disturbed' \in 0..MaxDisturbances
      BY <2>1, DisturbType
    <3> QED BY <2>1, <3>1, <3>2, <3>3 DEF TypeOK, TableTypeOK, historyVars
  <2>2. ASSUME CircuitRejects(w, p) PROVE TypeOK'
    BY <2>1, <2>2, <1>s DEF CircuitRejects
  <2>3. ASSUME SendRequest(w, p) PROVE TypeOK'
    <3>1. task' \in [Workers -> [Permits -> Claim \cup {Idle}]]
      BY <2>0, <2>3, StepTaskType DEF SendRequest, TaskStep
    <3>2. sent' \in [Jobs -> 0..HistoryCap]
      BY <2>0, <2>3 DEF SendRequest, Bump, Lower, TypeOK, TableTypeOK
    <3> QED BY <2>3, <3>1, <3>2 DEF SendRequest, TypeOK, TableTypeOK, rowVars
  <2>4. ASSUME PayloadUnread(w, p) PROVE TypeOK'
    <3>1. task' \in [Workers -> [Permits -> Claim \cup {Idle}]]
      BY <2>0, <2>4, StepTaskType DEF PayloadUnread, TaskStep
    <3>2. disturbed' \in 0..MaxDisturbances
      BY <2>4, DisturbType DEF PayloadUnread
    <3> QED BY <2>4, <3>1, <3>2 DEF PayloadUnread, TypeOK, TableTypeOK, rowVars, historyVars
  <2>5. ASSUME Respond(w, p) PROVE TypeOK'
    <3>1. PICK a \in Answers :
            /\ StepTask(w, p, IF Succeeds(a) THEN "ok"
                              ELSE IF a = "other" THEN "refused" ELSE "put_fail")
            /\ answered' = IF a = "2xx" THEN [answered EXCEPT ![j] = TRUE] ELSE answered
      BY <2>5 DEF Respond
    <3>2. task' \in [Workers -> [Permits -> Claim \cup {Idle}]]
      BY <2>0, <3>1, StepTaskType DEF TaskStep
    <3>3. answered' \in [Jobs -> BOOLEAN]
      BY <2>0, <3>1 DEF TypeOK, TableTypeOK
    <3> QED BY <2>5, <3>2, <3>3 DEF Respond, TypeOK, TableTypeOK, rowVars
  <2>6. ASSUME RecordAttempt(w, p) PROVE TypeOK'
    <3>1. task' \in [Workers -> [Permits -> Claim \cup {Idle}]]
      BY <2>0, <2>6, StepTaskType, EndTaskType DEF RecordAttempt, TaskStep
    <3>2. disturbed' \in 0..MaxDisturbances
      BY <2>6, DisturbType DEF RecordAttempt
    <3> QED BY <2>6, <3>1, <3>2 DEF RecordAttempt, TypeOK, TableTypeOK, rowVars, historyVars
  <2>7. ASSUME PutCompleted(w, p) PROVE TypeOK'
    BY <2>1, <2>7, <1>s DEF PutCompleted
  <2>8. ASSUME PutFailed(w, p) PROVE TypeOK'
    BY <2>1, <2>8, <1>s DEF PutFailed
  <2> QED BY <1>5, <2>2, <2>3, <2>4, <2>5, <2>6, <2>7, <2>8 DEF TaskNext
<1>6. ASSUME Tick PROVE TypeOK'
  <2>1. \A j \in Jobs : Elapse(j) \in Nat
    BY DEF Elapse, Bump, Lower, TypeOK, TableTypeOK
  <2>2. \A j \in Jobs : Bump(age[j], EventTtl) \in 0..EventTtl
    BY BumpInRange DEF TypeOK, TableTypeOK
  <2> QED BY <1>6, <2>1, <2>2 DEF Tick, TableTick, TypeOK, TableTypeOK, workerVars, historyVars
<1>7. ASSUME UNCHANGED vars PROVE TypeOK'
  BY <1>7 DEF vars, rowVars, workerVars, historyVars, TypeOK, TableTypeOK
<1> QED BY <1>1, <1>2, <1>3, <1>4, <1>5, <1>6, <1>7 DEF Next, RetryJob, BulkRetry

THEOREM TypeCorrect == Spec => []TypeOK
<1> QED BY TypeInit, TypeNext, PTL DEF Spec

-----------------------------------------------------------------------------
(* How a step changes the tasks: one permit at a time, or a whole process. *)

LEMMA StepTaskAt ==
  ASSUME TypeOK, NEW w \in Workers, NEW p \in Permits, task[w][p].pc \in TaskStep,
         NEW pc, StepTask(w, p, pc)
  PROVE  /\ task'[w][p].pc = pc
         /\ task'[w][p].job = task[w][p].job
         /\ task'[w][p].seen = task[w][p].seen
         /\ \A v \in Workers, q \in Permits : v # w \/ q # p => task'[v][q] = task[v][q]
<1>1. task[w][p] \in Claim
  BY BusyIsClaim
<1>2. /\ task'[w][p] = [task[w][p] EXCEPT !.pc = pc]
      /\ \A v \in Workers, q \in Permits : v # w \/ q # p => task'[v][q] = task[v][q]
  BY DEF TypeOK, TableTypeOK, StepTask
<1> QED BY <1>1, <1>2 DEF Claim

LEMMA EndTaskAt ==
  ASSUME TypeOK, NEW w \in Workers, NEW p \in Permits, EndTask(w, p)
  PROVE  /\ task'[w][p] = Idle
         /\ \A v \in Workers, q \in Permits : v # w \/ q # p => task'[v][q] = task[v][q]
BY DEF TypeOK, TableTypeOK, EndTask

LEMMA NewTaskAt ==
  ASSUME TypeOK, NEW w \in Workers, NEW p \in Permits, NEW c,
         task' = [task EXCEPT ![w][p] = c]
  PROVE  /\ task'[w][p] = c
         /\ \A v \in Workers, q \in Permits : v # w \/ q # p => task'[v][q] = task[v][q]
BY DEF TypeOK, TableTypeOK

LEMMA LoseAt ==
  ASSUME TypeOK, NEW w \in Workers, Lose(w)
  PROVE  \A v \in Workers, q \in Permits : task'[v][q] = IF v = w THEN Idle ELSE task[v][q]
BY DEF TypeOK, TableTypeOK, Lose

LEMMA ActiveTask ==
  ASSUME TypeOK, NEW w \in Workers, NEW p \in Permits, TaskNext(w, p)
  PROVE  /\ task[w][p].pc \in TaskStep
         /\ task[w][p] \in Claim
         /\ task[w][p].job \in Jobs
<1>1. task[w][p].pc \in TaskStep
  BY DEF TaskNext, CircuitRejects, SendRequest, PayloadUnread, Respond,
         RecordAttempt, PutCompleted, PutFailed, At, TaskStep
<1> QED BY <1>1, BusyIsClaim DEF Claim

-----------------------------------------------------------------------------
(* CompletedWasAnswered, strengthened by what a task that is about to write *)
(* `completed` knows.                                                       *)

SuccessKnown ==
  \A w \in Workers, p \in Permits :
    task[w][p].pc \in {"ok", "put_ok"} => answered[task[w][p].job]

AnsweredInv == CompletedWasAnswered /\ SuccessKnown

LEMMA AnsweredInit == Init => AnsweredInv
BY DEF Init, TableInit, AnsweredInv, CompletedWasAnswered, SuccessKnown, Idle

LEMMA RowsKeepCompletedAnswered ==
  ASSUME CompletedWasAnswered, TypeOK, NEW S, NEW st, st # "completed",
         WriteRows(S, st), UNCHANGED answered
  PROVE  CompletedWasAnswered'
BY DEF CompletedWasAnswered, WriteRows, TypeOK, TableTypeOK

LEMMA RowKeepsCompletedAnswered ==
  ASSUME CompletedWasAnswered, TypeOK, NEW j \in Jobs, NEW st, NEW t,
         st = "completed" => answered[j],
         WriteRow(j, st, t), UNCHANGED answered
  PROVE  CompletedWasAnswered'
BY DEF CompletedWasAnswered, WriteRow, TypeOK, TableTypeOK

LEMMA AnsweredNext == TypeOK /\ AnsweredInv /\ [Next]_vars => AnsweredInv'
<1> SUFFICES ASSUME TypeOK, AnsweredInv, [Next]_vars PROVE AnsweredInv'
  OBVIOUS
<1> USE DEF AnsweredInv
<1>1. ASSUME NEW j \in Jobs, Insert(j) PROVE AnsweredInv'
  BY <1>1 DEF Insert, InsertRow, workerVars, historyVars, TypeOK, TableTypeOK, CompletedWasAnswered, SuccessKnown
<1>2. ASSUME NEW S, ResetAttempts(S) \/ WriteRows(S, "available"), UNCHANGED <<task, answered>>
      PROVE  AnsweredInv'
  <2>1. CompletedWasAnswered'
    BY <1>2, RowsKeepCompletedAnswered DEF ResetAttempts, ResetRows
  <2> QED BY <1>2, <2>1 DEF SuccessKnown
<1>3. ASSUME NEW w \in Workers, LoopNext(w) PROVE AnsweredInv'
  <2>1. ASSUME NEW S, NEW st \in Status \ {"completed"},
               WriteRows(S, st) \/ UNCHANGED status, UNCHANGED <<task, answered>>
        PROVE  AnsweredInv'
    <3>1. CompletedWasAnswered'
      <4>1. CASE WriteRows(S, st)
        BY <2>1, <4>1, RowsKeepCompletedAnswered
      <4>2. CASE UNCHANGED status
        BY <2>1, <4>2 DEF CompletedWasAnswered
      <4> QED BY <2>1, <4>1, <4>2
    <3> QED BY <2>1, <3>1 DEF SuccessKnown
  <2>2. ASSUME Fetch(w) PROVE AnsweredInv'
    <3>1. PICK S \in SUBSET Due : IF AtomicFetch THEN ClaimRows(S) ELSE UNCHANGED <<status, timer, attempt>>
      BY <2>2 DEF Fetch
    <3>2. WriteRows(S, "running") \/ UNCHANGED status
      BY <3>1 DEF ClaimRows
    <3> QED BY <2>1, <2>2, <3>2 DEF Fetch, historyVars, Status
  <2>3. ASSUME NEW r \in batch[w], NEW p \in Permits, Spawn(w, r, p) PROVE AnsweredInv'
    <3>1. CompletedWasAnswered'
      <4>1. CASE ClaimRows({r.job})
        BY <2>3, <4>1, RowsKeepCompletedAnswered DEF ClaimRows, Spawn, historyVars
      <4>2. CASE UNCHANGED status
        BY <2>3, <4>2 DEF CompletedWasAnswered, Spawn, historyVars
      <4> QED BY <2>3, <4>1, <4>2 DEF Spawn
    <3>2. SuccessKnown'
      <4>1. CASE UNCHANGED task
        BY <2>3, <4>1 DEF Spawn, SuccessKnown, historyVars
      <4>2. CASE task' = [task EXCEPT ![w][p] = [job |-> r.job, seen |-> r.seen, pc |-> "check"]]
        BY <2>3, <4>2, NewTaskAt DEF Spawn, SuccessKnown, historyVars
      <4> QED BY <2>3, <4>1, <4>2 DEF Spawn
    <3> QED BY <3>1, <3>2
  <2>4. ASSUME Lose(w), UNCHANGED <<rowVars, historyVars>> PROVE AnsweredInv'
    BY <2>4, LoseAt DEF rowVars, historyVars, CompletedWasAnswered, SuccessKnown, Idle
  <2>5. CASE RecoverStale(w)
    <3>1. PICK S : WriteRows(S, "retryable") \/ UNCHANGED status
      BY <2>5 DEF RecoverStale, Stale
    <3> QED BY <2>1, <2>5, <3>1 DEF RecoverStale, Stale, Status, Waiting
  <2>6. CASE CleanupOld(w)
    <3>1. PICK S : WriteRows(S, "purged") \/ UNCHANGED status
      BY <2>6 DEF CleanupOld, PurgeOldRows
    <3> QED BY <2>1, <2>6, <3>1 DEF CleanupOld, PurgeOldRows, Status, historyVars
  <2>7. CASE ExpireOld(w)
    <3>1. PICK S : WriteRows(S, "dead") \/ UNCHANGED status
      BY <2>7 DEF ExpireOld, ExpireRows
    <3> QED BY <2>1, <2>7, <3>1 DEF ExpireOld, ExpireRows, Status, Settled, historyVars
  <2>8. ASSUME UNCHANGED <<rowVars, task, historyVars>> PROVE AnsweredInv'
    BY <2>8 DEF rowVars, historyVars, CompletedWasAnswered, SuccessKnown
  <2> QED BY <1>3, <2>2, <2>3, <2>4, <2>5, <2>6, <2>7, <2>8
          DEF LoopNext, SpawnFails, AtCapacity, MaintenanceDue, Start, Crash, Shutdown, DrainEnds
<1>4. ASSUME NEW w \in Workers, NEW p \in Permits, TaskNext(w, p) PROVE AnsweredInv'
  <2> DEFINE j == task[w][p].job
  <2>0. task[w][p].pc \in TaskStep /\ j \in Jobs
    BY <1>4, ActiveTask
  <2>1. ASSUME NEW st, NEW t, st = "completed" => answered[j], EndTask(w, p),
               WriteRow(j, st, t) \/ UNCHANGED status, UNCHANGED answered
        PROVE  AnsweredInv'
    <3>1. CompletedWasAnswered'
      <4>1. CASE WriteRow(j, st, t)
        BY <2>0, <2>1, <4>1, RowKeepsCompletedAnswered
      <4>2. CASE UNCHANGED status
        BY <2>1, <4>2 DEF CompletedWasAnswered
      <4> QED BY <2>1, <4>1, <4>2
    <3>2. SuccessKnown'
      BY <2>1, EndTaskAt DEF SuccessKnown, Idle
    <3> QED BY <3>1, <3>2
  <2>2. CASE CircuitRejects(w, p)
    BY <2>1, <2>2 DEF CircuitRejects, historyVars
  <2>3. ASSUME NEW pc \in TaskStep \ {"ok", "put_ok"}, StepTask(w, p, pc),
               UNCHANGED <<rowVars, answered>>
        PROVE  AnsweredInv'
    <3>1. CompletedWasAnswered'
      BY <2>3 DEF CompletedWasAnswered, rowVars
    <3>2. SuccessKnown'
      BY <2>0, <2>3, StepTaskAt DEF SuccessKnown
    <3> QED BY <3>1, <3>2
  <2>4. CASE SendRequest(w, p)
    BY <2>3, <2>4 DEF SendRequest, TaskStep
  <2>5. CASE PayloadUnread(w, p)
    BY <2>3, <2>5 DEF PayloadUnread, TaskStep, historyVars
  <2>6. CASE Respond(w, p)
    <3>1. PICK a \in Answers :
            /\ StepTask(w, p, IF Succeeds(a) THEN "ok"
                              ELSE IF a = "other" THEN "refused" ELSE "put_fail")
            /\ answered' = IF a = "2xx" THEN [answered EXCEPT ![j] = TRUE] ELSE answered
            /\ UNCHANGED status
      BY <2>6 DEF Respond, rowVars
    <3>2. \A i \in Jobs : answered[i] => answered'[i]
      BY <3>1 DEF TypeOK, TableTypeOK
    <3>3. CompletedWasAnswered'
      BY <3>1, <3>2 DEF CompletedWasAnswered
    <3>4. SuccessKnown'
      <4> SUFFICES ASSUME NEW v \in Workers, NEW q \in Permits,
                          task'[v][q].pc \in {"ok", "put_ok"}
                   PROVE  answered'[task'[v][q].job]
        BY DEF SuccessKnown
      <4>1. CASE v = w /\ q = p
        <5>1. a = "2xx"
          BY <2>0, <3>1, <4>1, StepTaskAt DEF Succeeds
        <5> QED BY <2>0, <3>1, <4>1, <5>1, StepTaskAt DEF TypeOK, TableTypeOK
      <4>2. CASE v # w \/ q # p
        <5>1. task'[v][q] = task[v][q]
          BY <2>0, <3>1, <4>2, StepTaskAt
        <5>2. task[v][q] \in Claim
          BY <5>1, BusyIsClaim DEF TaskStep
        <5> QED BY <3>2, <5>1, <5>2 DEF SuccessKnown, Claim
      <4> QED BY <4>1, <4>2
    <3> QED BY <3>3, <3>4
  <2>7. CASE RecordAttempt(w, p)
    <3>1. CASE EndTask(w, p)
      BY <2>7, <3>1, EndTaskAt
         DEF RecordAttempt, SuccessKnown, CompletedWasAnswered, Idle, rowVars, historyVars
    <3>2. CASE StepTask(w, p, IF At(w, p, "ok") THEN "put_ok" ELSE "put_fail")
      <4>1. CompletedWasAnswered'
        BY <2>7 DEF RecordAttempt, CompletedWasAnswered, rowVars, historyVars
      <4>2. SuccessKnown'
        BY <2>0, <2>7, <3>2, StepTaskAt DEF RecordAttempt, SuccessKnown, At, historyVars
      <4> QED BY <4>1, <4>2
    <3> QED BY <2>7, <3>1, <3>2 DEF RecordAttempt
  <2>8. CASE PutCompleted(w, p)
    <3>1. answered[j]
      BY <2>8 DEF PutCompleted, At, SuccessKnown
    <3> QED BY <2>1, <2>8, <3>1 DEF PutCompleted, historyVars
  <2>9. CASE PutFailed(w, p)
    BY <2>1, <2>9 DEF PutFailed, historyVars
  <2> QED BY <1>4, <2>2, <2>4, <2>5, <2>6, <2>7, <2>8, <2>9 DEF TaskNext
<1>5. CASE Tick
  BY <1>5 DEF Tick, TableTick, CompletedWasAnswered, SuccessKnown, workerVars, historyVars
<1>6. CASE UNCHANGED vars
  BY <1>6 DEF vars, rowVars, workerVars, historyVars, CompletedWasAnswered, SuccessKnown
<1> QED BY <1>1, <1>2, <1>3, <1>4, <1>5, <1>6
        DEF Next, RetryJob, BulkRetry, RetryDead, workerVars, historyVars

(* Whatever the configuration, a `completed` row has been answered by a 2xx. *)
THEOREM CompletedCorrect == Spec => []CompletedWasAnswered
<1>1. Init => AnsweredInv
  BY AnsweredInit
<1>2. TypeOK /\ AnsweredInv /\ [Next]_vars => AnsweredInv'
  BY AnsweredNext
<1>3. AnsweredInv => CompletedWasAnswered
  BY DEF AnsweredInv
<1> QED BY <1>1, <1>2, <1>3, TypeCorrect, PTL DEF Spec

-----------------------------------------------------------------------------
(* Single flight.  A claim is a task, or on Postgres a fetched row that is  *)
(* not yet a task.  While deliveries are timely the row of a claim is       *)
(* `running` and too young for RecoverStale, so nobody else can claim it.   *)

Fresh(j) == status[j] = "running" /\ timer[j] <= TaskDeadline

HoldersFresh ==
  \A w \in Workers, p \in Permits : task[w][p] # Idle => Fresh(task[w][p].job)

FetchedFresh ==
  AtomicFetch => \A w \in Workers : \A r \in batch[w] : Fresh(r.job)

HoldersUnique ==
  \A w, v \in Workers, p, q \in Permits :
    /\ task[w][p] # Idle /\ task[v][q] # Idle
    /\ task[w][p].job = task[v][q].job
    => v = w /\ q = p

FetchedUnique ==
  AtomicFetch => \A w, v \in Workers : \A r \in batch[w], s \in batch[v] :
                   r.job = s.job => v = w /\ r = s

FetchedNotHeld ==
  AtomicFetch => \A w, v \in Workers, p \in Permits : \A r \in batch[v] :
                   task[w][p] # Idle => task[w][p].job # r.job

ClaimInv == HoldersFresh /\ FetchedFresh /\ HoldersUnique /\ FetchedUnique /\ FetchedNotHeld

(* In an untimely system the invariant promises nothing. *)
ClaimsExclusive == Timely => ClaimInv

LEMMA ClaimInit == Init => ClaimInv
BY DEF Init, TableInit, ClaimInv, HoldersFresh, FetchedFresh, HoldersUnique, FetchedUnique,
       FetchedNotHeld

(* A step that takes no claim keeps the invariant if it leaves the rows of *)
(* the remaining claims fresh.                                             *)
LEMMA NoNewClaim ==
  ASSUME ClaimInv,
         \A w \in Workers, p \in Permits : task'[w][p] # Idle =>
           /\ task[w][p] # Idle /\ task'[w][p].job = task[w][p].job
           /\ Fresh(task[w][p].job)',
         \A w \in Workers : batch'[w] \subseteq batch[w],
         AtomicFetch => \A w \in Workers : \A r \in batch'[w] : Fresh(r.job)'
  PROVE  ClaimInv'
<1> USE DEF ClaimInv
<1>1. HoldersFresh'
  BY DEF HoldersFresh, Fresh
<1>2. FetchedFresh'
  BY DEF FetchedFresh, Fresh
<1>3. HoldersUnique'
  BY DEF HoldersUnique
<1>4. FetchedUnique'
  BY DEF FetchedUnique
<1>5. FetchedNotHeld'
  BY DEF FetchedNotHeld
<1> QED BY <1>1, <1>2, <1>3, <1>4, <1>5

TasksKept ==
  \A w \in Workers, p \in Permits : task'[w][p] # Idle =>
    task[w][p] # Idle /\ task'[w][p].job = task[w][p].job

BatchesShrink == \A w \in Workers : batch'[w] \subseteq batch[w]

FreshKept == \A j \in Jobs : Fresh(j) => status'[j] = "running" /\ timer'[j] = timer[j]

LEMMA HeldIsJob ==
  ASSUME TypeOK, NEW w \in Workers
  PROVE  /\ \A p \in Permits : task[w][p] # Idle => task[w][p].job \in Jobs /\ task[w][p] \in Claim
         /\ \A r \in batch[w] : r.job \in Jobs
BY DEF TypeOK, TableTypeOK, Claim, Row

LEMMA FreshRowsKept ==
  ASSUME TypeOK, ClaimInv, TasksKept, BatchesShrink, FreshKept
  PROVE  ClaimInv'
<1>1. \A w \in Workers, p \in Permits : task'[w][p] # Idle =>
        /\ task[w][p] # Idle /\ task'[w][p].job = task[w][p].job
        /\ Fresh(task[w][p].job)'
  BY HeldIsJob DEF TasksKept, FreshKept, ClaimInv, HoldersFresh, Fresh
<1>2. AtomicFetch => \A w \in Workers : \A r \in batch'[w] : Fresh(r.job)'
  BY HeldIsJob DEF BatchesShrink, FreshKept, ClaimInv, FetchedFresh, Fresh
<1>3. \A w \in Workers : batch'[w] \subseteq batch[w]
  BY DEF BatchesShrink
<1> QED BY <1>1, <1>2, <1>3, NoNewClaim

(* The rows a bulk update selects are never the fresh ones. *)
LEMMA RowsSpareFresh ==
  ASSUME TypeOK, NEW S, NEW st, \A j \in S \cap Jobs : ~Fresh(j), WriteRows(S, st)
  PROVE  FreshKept
BY DEF WriteRows, FreshKept, Fresh, TypeOK, TableTypeOK

(* Ending the only task of a row: what it writes concerns nobody else. *)
LEMMA ReleaseKeepsClaims ==
  ASSUME TypeOK, ClaimInv, NEW w \in Workers, NEW p \in Permits, task[w][p] # Idle,
         EndTask(w, p), NEW st, NEW t,
         WriteRow(task[w][p].job, st, t) \/ UNCHANGED <<status, timer>>,
         UNCHANGED batch
  PROVE  ClaimInv'
<1> DEFINE j == task[w][p].job
<1>1. \A i \in Jobs \ {j} : status'[i] = status[i] /\ timer'[i] = timer[i]
  BY HeldIsJob DEF WriteRow, TypeOK, TableTypeOK
<1>2. \A v \in Workers, q \in Permits : task'[v][q] # Idle =>
        /\ task[v][q] # Idle /\ task'[v][q] = task[v][q] /\ (v # w \/ q # p)
  BY EndTaskAt
<1>3. \A v \in Workers, q \in Permits : task'[v][q] # Idle => task[v][q].job \in Jobs \ {j}
  BY <1>2, HeldIsJob DEF ClaimInv, HoldersUnique
<1>4. \A v \in Workers, q \in Permits : task'[v][q] # Idle =>
        /\ task[v][q] # Idle /\ task'[v][q].job = task[v][q].job
        /\ Fresh(task[v][q].job)'
  BY <1>1, <1>2, <1>3 DEF ClaimInv, HoldersFresh, Fresh
<1>5. AtomicFetch => \A v \in Workers : \A r \in batch'[v] : Fresh(r.job)'
  <2> SUFFICES ASSUME AtomicFetch, NEW v \in Workers, NEW r \in batch[v]
               PROVE  Fresh(r.job)'
    OBVIOUS
  <2>1. r.job \in Jobs \ {j}
    BY HeldIsJob DEF ClaimInv, FetchedNotHeld
  <2> QED BY <1>1, <2>1 DEF ClaimInv, FetchedFresh, Fresh
<1> QED BY <1>4, <1>5, NoNewClaim

LEMMA ClaimNextLoop ==
  ASSUME TypeOK, ClaimInv, Timely, NEW w \in Workers, LoopNext(w)
  PROVE  ClaimInv'
<1> USE DeliveryAssumption, JobTableAssumption DEF DeliveryAssumption, JobTableAssumption
<1>1. CASE Fetch(w)
  <2>1. PICK S \in SUBSET Due :
          /\ batch' = [batch EXCEPT ![w] = {[job |-> j, seen |-> attempt[j]] : j \in S}]
          /\ IF AtomicFetch THEN ClaimRows(S) ELSE UNCHANGED <<status, timer, attempt>>
    BY <1>1 DEF Fetch
  <2>2. UNCHANGED task /\ batch[w] = {}
    BY <1>1 DEF Fetch, Polling
  <2>3. CASE ~AtomicFetch
    BY <2>1, <2>2, <2>3
       DEF ClaimInv, HoldersFresh, FetchedFresh, HoldersUnique, FetchedUnique,
           FetchedNotHeld, Fresh
  <2>4. CASE AtomicFetch
    <3>1. S \subseteq Jobs /\ \A j \in S : ~Fresh(j)
      BY DEF Due, Fresh, Waiting
    <3>2. /\ \A j \in S : status'[j] = "running" /\ timer'[j] = 0
          /\ \A j \in Jobs \ S : status'[j] = status[j] /\ timer'[j] = timer[j]
      BY <2>1, <2>4, <3>1 DEF ClaimRows, WriteRows
    <3>3. \A j \in S : Fresh(j)'
      BY <3>2 DEF Fresh
    <3>4. \A j \in Jobs : Fresh(j) => j \notin S /\ Fresh(j)'
      BY <3>1, <3>2 DEF Fresh
    <3>5. /\ \A r \in batch'[w] : r.job \in S /\ r = [job |-> r.job, seen |-> attempt[r.job]]
          /\ \A v \in Workers : v # w => batch'[v] = batch[v]
      BY <2>1 DEF TypeOK, TableTypeOK
    <3>6. HoldersFresh'
      BY <2>2, <3>4, HeldIsJob DEF ClaimInv, HoldersFresh
    <3>7. FetchedFresh'
      BY <3>3, <3>4, <3>5, HeldIsJob DEF ClaimInv, FetchedFresh
    <3>8. HoldersUnique'
      BY <2>2 DEF ClaimInv, HoldersUnique
    <3>9. FetchedUnique'
      <4> SUFFICES ASSUME NEW u \in Workers, NEW v \in Workers,
                          NEW r \in batch'[u], NEW s \in batch'[v], r.job = s.job
                   PROVE  v = u /\ r = s
        BY DEF FetchedUnique
      <4>1. CASE u = w /\ v = w
        BY <3>5, <4>1
      <4>2. CASE u # w /\ v # w
        BY <2>4, <3>5, <4>2 DEF ClaimInv, FetchedUnique
      <4>3. CASE u = w /\ v # w
        <5>1. Fresh(s.job) /\ s.job \in Jobs
          BY <2>4, <3>5, <4>3, HeldIsJob DEF ClaimInv, FetchedFresh
        <5> QED BY <3>4, <3>5, <4>3, <5>1
      <4>4. CASE u # w /\ v = w
        <5>1. Fresh(r.job) /\ r.job \in Jobs
          BY <2>4, <3>5, <4>4, HeldIsJob DEF ClaimInv, FetchedFresh
        <5> QED BY <3>4, <3>5, <4>4, <5>1
      <4> QED BY <4>1, <4>2, <4>3, <4>4
    <3>10. FetchedNotHeld'
      <4> SUFFICES ASSUME NEW u \in Workers, NEW v \in Workers, NEW p \in Permits,
                          NEW r \in batch'[v], task[u][p] # Idle
                   PROVE  task[u][p].job # r.job
        BY <2>2 DEF FetchedNotHeld
      <4>1. Fresh(task[u][p].job) /\ task[u][p].job \in Jobs
        BY HeldIsJob DEF ClaimInv, HoldersFresh
      <4>2. CASE v = w
        BY <3>4, <3>5, <4>1, <4>2
      <4>3. CASE v # w
        BY <2>4, <3>5, <4>3 DEF ClaimInv, FetchedNotHeld
      <4> QED BY <4>2, <4>3
    <3> QED BY <3>6, <3>7, <3>8, <3>9, <3>10 DEF ClaimInv
  <2> QED BY <2>3, <2>4
<1>2. ASSUME NEW r \in batch[w], NEW p \in Permits, Spawn(w, r, p) PROVE ClaimInv'
  <2>0. /\ task[w][p] = Idle
        /\ r.job \in Jobs
        /\ \A v \in Workers : batch'[v] = IF v = w THEN batch[w] \ {r} ELSE batch[v]
    BY <1>2, HeldIsJob DEF Spawn, FreePermits, TypeOK, TableTypeOK
  <2>1. CASE UNCHANGED <<task, status, timer, attempt>>
    BY <2>0, <2>1, FreshRowsKept DEF TasksKept, BatchesShrink, FreshKept, Fresh
  <2>2. CASE task' = [task EXCEPT ![w][p] = [job |-> r.job, seen |-> r.seen, pc |-> "check"]]
             /\ \/ AtomicFetch /\ UNCHANGED <<status, timer, attempt>>
                \/ ~AtomicFetch /\ status[r.job] \in Waiting /\ ClaimRows({r.job})
    <3>1. /\ task'[w][p].job = r.job
          /\ \A v \in Workers, q \in Permits : v # w \/ q # p => task'[v][q] = task[v][q]
      <4>1. task' = [task EXCEPT ![w][p] = [job |-> r.job, seen |-> r.seen, pc |-> "check"]]
        BY <2>2
      <4>2. /\ task'[w][p] = [job |-> r.job, seen |-> r.seen, pc |-> "check"]
            /\ \A v \in Workers, q \in Permits : v # w \/ q # p => task'[v][q] = task[v][q]
        BY <4>1 DEF TypeOK, TableTypeOK
      <4> QED BY <4>2
    <3>2. /\ Fresh(r.job)'
          /\ \A j \in Jobs : Fresh(j) => Fresh(j)'
      <4>1. CASE AtomicFetch
        BY <2>2, <4>1 DEF ClaimInv, FetchedFresh, Fresh
      <4>2. CASE ~AtomicFetch
        BY <2>0, <2>2, <4>2 DEF ClaimRows, WriteRows, Fresh, Waiting
      <4> QED BY <4>1, <4>2
    <3>3. \A v \in Workers, q \in Permits : task[v][q] # Idle => task[v][q].job # r.job
      <4>1. CASE AtomicFetch
        BY <4>1 DEF ClaimInv, FetchedNotHeld
      <4>2. CASE ~AtomicFetch
        BY <2>2, <4>2 DEF ClaimInv, HoldersFresh, Fresh, Waiting
      <4> QED BY <4>1, <4>2
    <3>4. HoldersFresh'
      <4> SUFFICES ASSUME NEW v \in Workers, NEW q \in Permits, task'[v][q] # Idle
                   PROVE  Fresh(task[v][q].job)'
        BY DEF HoldersFresh, Fresh
      <4>1. CASE v = w /\ q = p
        BY <3>1, <3>2, <4>1 DEF Fresh
      <4>2. CASE v # w \/ q # p
        BY <3>1, <3>2, <4>2, HeldIsJob DEF ClaimInv, HoldersFresh, Fresh
      <4> QED BY <4>1, <4>2
    <3>5. FetchedFresh'
      BY <2>0, <3>2, HeldIsJob DEF ClaimInv, FetchedFresh, Fresh
    <3>6. HoldersUnique'
      BY <3>1, <3>3 DEF ClaimInv, HoldersUnique
    <3>7. FetchedUnique'
      BY <2>0 DEF ClaimInv, FetchedUnique
    <3>8. FetchedNotHeld'
      <4> SUFFICES ASSUME AtomicFetch, NEW u \in Workers, NEW v \in Workers, NEW q \in Permits,
                          NEW s \in batch'[v], task'[u][q] # Idle
                   PROVE  task'[u][q].job # s.job
        BY DEF FetchedNotHeld
      <4>0. s \in batch[v] /\ (v = w => s # r)
        BY <2>0
      <4>1. CASE u = w /\ q = p
        BY <3>1, <4>0, <4>1 DEF ClaimInv, FetchedUnique
      <4>2. CASE u # w \/ q # p
        BY <3>1, <4>0, <4>2 DEF ClaimInv, FetchedNotHeld
      <4> QED BY <4>1, <4>2
    <3> QED BY <3>4, <3>5, <3>6, <3>7, <3>8 DEF ClaimInv
  <2> QED BY <1>2, <2>1, <2>2 DEF Spawn
<1>3. ASSUME UNCHANGED <<status, timer, task>>, BatchesShrink PROVE ClaimInv'
  BY <1>3, FreshRowsKept DEF TasksKept, FreshKept, Fresh
<1>4. CASE AtCapacity(w)
  BY <1>3, <1>4 DEF AtCapacity, BatchesShrink, rowVars, TypeOK, TableTypeOK
<1>5. ASSUME NEW r \in batch[w], SpawnFails(w, r) PROVE ClaimInv'
  BY <1>3, <1>5 DEF SpawnFails, BatchesShrink, rowVars, TypeOK, TableTypeOK
<1>6. ASSUME NEW S, NEW st, \A j \in S \cap Jobs : ~Fresh(j),
             WriteRows(S, st) \/ UNCHANGED <<status, timer>>, UNCHANGED <<task, batch>>
      PROVE  ClaimInv'
  <2>1. FreshKept
    BY <1>6, RowsSpareFresh DEF FreshKept, Fresh
  <2> QED BY <1>6, <2>1, FreshRowsKept DEF TasksKept, BatchesShrink
<1>7. CASE RecoverStale(w)
  <2>1. \A j \in Jobs : IsStale(j) => ~Fresh(j)
    BY TimelyAssumption DEF IsStale, Fresh, TypeOK, TableTypeOK
  <2> QED BY <1>6, <1>7, <2>1 DEF RecoverStale, Stale
<1>8. CASE CleanupOld(w)
  BY <1>6, <1>8 DEF CleanupOld, PurgeOldRows, Fresh, Settled
<1>9. CASE ExpireOld(w)
  BY <1>6, <1>9 DEF ExpireOld, ExpireRows, Fresh, Waiting
<1>10. CASE MaintenanceDue(w) \/ Start(w) \/ Shutdown(w)
  BY <1>3, <1>10 DEF MaintenanceDue, Start, Shutdown, BatchesShrink, rowVars
<1>11. CASE Lose(w) /\ UNCHANGED rowVars
  <2>1. TasksKept
    BY <1>11, LoseAt DEF TasksKept
  <2>2. BatchesShrink
    BY <1>11 DEF Lose, BatchesShrink, TypeOK, TableTypeOK
  <2> QED BY <1>11, <2>1, <2>2, FreshRowsKept DEF FreshKept, Fresh, rowVars
<1> QED BY <1>1, <1>2, <1>4, <1>5, <1>7, <1>8, <1>9, <1>10, <1>11
        DEF LoopNext, Crash, DrainEnds

LEMMA ClaimNext == TypeOK /\ ClaimsExclusive /\ [Next]_vars => ClaimsExclusive'
<1> SUFFICES ASSUME TypeOK, ClaimInv, Timely, [Next]_vars PROVE ClaimInv'
  BY DEF ClaimsExclusive
<1>1. ASSUME UNCHANGED <<task, batch>>, FreshKept PROVE ClaimInv'
  BY <1>1, FreshRowsKept DEF TasksKept, BatchesShrink
<1>2. ASSUME NEW j \in Jobs, Insert(j) PROVE ClaimInv'
  BY <1>1, <1>2 DEF Insert, InsertRow, FreshKept, Fresh, workerVars, TypeOK, TableTypeOK
<1>3. ASSUME NEW S, \A j \in S \cap Jobs : ~Fresh(j), WriteRows(S, "available"),
             UNCHANGED workerVars
      PROVE  ClaimInv'
  BY <1>1, <1>3, RowsSpareFresh DEF workerVars
<1>4. ASSUME NEW j \in Jobs, RetryJob(j) PROVE ClaimInv'
  BY <1>3, <1>4 DEF RetryJob, ResetAttempts, ResetRows, Retriable, Fresh
<1>5. ASSUME NEW st \in Retriable, BulkRetry(st) PROVE ClaimInv'
  BY <1>3, <1>5 DEF BulkRetry, ResetAttempts, ResetRows, Retriable, Fresh
<1>6. CASE RetryDead
  BY <1>3, <1>6 DEF RetryDead, Fresh
<1>7. ASSUME NEW w \in Workers, LoopNext(w) PROVE ClaimInv'
  BY <1>7, ClaimNextLoop
<1>8. ASSUME NEW w \in Workers, NEW p \in Permits, TaskNext(w, p) PROVE ClaimInv'
  <2>0. task[w][p].pc \in TaskStep /\ task[w][p] # Idle
    BY <1>8, ActiveTask DEF TaskStep, Idle
  <2>1. ASSUME NEW pc \in TaskStep, StepTask(w, p, pc), UNCHANGED <<rowVars, batch>>
        PROVE  ClaimInv'
    <3>1. TasksKept
      BY <2>0, <2>1, StepTaskAt DEF TasksKept
    <3> QED BY <2>1, <3>1, FreshRowsKept DEF BatchesShrink, FreshKept, Fresh, rowVars
  <2>2. ASSUME NEW st, NEW t, EndTask(w, p),
               WriteRow(task[w][p].job, st, t) \/ UNCHANGED <<status, timer>>,
               UNCHANGED batch
        PROVE  ClaimInv'
    BY <2>0, <2>2, ReleaseKeepsClaims
  <2>3. CASE CircuitRejects(w, p)
    BY <2>2, <2>3 DEF CircuitRejects
  <2>4. CASE SendRequest(w, p) \/ PayloadUnread(w, p)
    BY <2>1, <2>4 DEF SendRequest, PayloadUnread, TaskStep
  <2>5. CASE Respond(w, p)
    BY <2>1, <2>5 DEF Respond, TaskStep
  <2>6. CASE RecordAttempt(w, p)
    BY <2>1, <2>2, <2>6 DEF RecordAttempt, TaskStep, rowVars
  <2>7. CASE PutCompleted(w, p)
    BY <2>2, <2>7 DEF PutCompleted
  <2>8. CASE PutFailed(w, p)
    BY <2>2, <2>8 DEF PutFailed
  <2> QED BY <1>8, <2>3, <2>4, <2>5, <2>6, <2>7, <2>8 DEF TaskNext
<1>9. CASE Tick
  <2>1. UNCHANGED <<task, batch, status>> /\ timer' = [j \in Jobs |-> Elapse(j)]
    BY <1>9 DEF Tick, TableTick, workerVars
  <2>2. ASSUME NEW j \in Jobs, NEW w \in Workers, j \in Held(w), Fresh(j) PROVE Fresh(j)'
    <3>1. timer[j] < TaskDeadline
      BY <1>9, <2>2, DeliveryAssumption, JobTableAssumption DEF Tick, TableTick, Overdue, Fresh, TypeOK, TableTypeOK, DeliveryAssumption, JobTableAssumption
    <3>2. Elapse(j) <= TaskDeadline
      BY <2>2, <3>1, DeliveryAssumption, JobTableAssumption
         DEF Elapse, Bump, Lower, Fresh, Waiting, TypeOK, TableTypeOK, DeliveryAssumption, JobTableAssumption
    <3> QED BY <2>1, <2>2, <3>2 DEF Fresh
  <2>3. \A w \in Workers, p \in Permits : task'[w][p] # Idle =>
          /\ task[w][p] # Idle /\ task'[w][p].job = task[w][p].job
          /\ Fresh(task[w][p].job)'
    <3> SUFFICES ASSUME NEW w \in Workers, NEW p \in Permits, task[w][p] # Idle
                 PROVE  Fresh(task[w][p].job)'
      BY <2>1
    <3>1. task[w][p].job \in Held(w)
      BY DEF Held, FreePermits
    <3> QED BY <2>1, <2>2, <3>1, HeldIsJob DEF ClaimInv, HoldersFresh, Fresh
  <2>4. AtomicFetch => \A w \in Workers : \A r \in batch'[w] : Fresh(r.job)'
    <3> SUFFICES ASSUME AtomicFetch, NEW w \in Workers, NEW r \in batch[w]
                 PROVE  Fresh(r.job)'
      BY <2>1
    <3>1. r.job \in Held(w)
      BY DEF Held
    <3> QED BY <2>2, <3>1, HeldIsJob DEF ClaimInv, FetchedFresh
  <2> QED BY <2>1, <2>3, <2>4, NoNewClaim
<1>10. CASE UNCHANGED vars
  BY <1>1, <1>10 DEF vars, rowVars, workerVars, FreshKept, Fresh
<1> QED BY <1>2, <1>4, <1>5, <1>6, <1>7, <1>8, <1>9, <1>10 DEF Next

LEMMA ClaimsAlwaysExclusive == Spec => []ClaimsExclusive
<1>1. Init => ClaimsExclusive
  BY ClaimInit DEF ClaimsExclusive
<1> QED BY <1>1, ClaimNext, TypeCorrect, PTL DEF Spec

(* When deliveries end before the stale threshold, two deliveries of one   *)
(* job never overlap and each finds its row still `running`.               *)
THEOREM SingleFlightCorrect == Spec => []SingleFlight
<1>1. ClaimsExclusive => SingleFlight
  BY DEF ClaimsExclusive, ClaimInv, HoldersFresh, HoldersUnique, FetchedNotHeld, Fresh,
         SingleFlight, Holds, Fetched
<1> QED BY <1>1, ClaimsAlwaysExclusive, PTL

-----------------------------------------------------------------------------
(* NoStrandedRow, where the fetch does not claim: a row becomes `running`  *)
(* together with the task that holds it, and a task that ends without an   *)
(* error has given its row another status.                                 *)

InHands(j) == \E w \in Workers, p \in Permits : Holds(w, p, j)

Tended ==
  disturbed = 0 =>
    /\ \A w \in Workers : loop[w] # "drain"
    /\ \A j \in Jobs : status[j] = "running" => InHands(j)

LEMMA TendedInit == Init => Tended
BY DEF Init, TableInit, Tended

(* Whoever holds a row goes on to hold it.                                 *)
LEMMA HoldersStay ==
  ASSUME NEW j, InHands(j),
         \A w \in Workers, p \in Permits : Holds(w, p, j) =>
           task'[w][p] # Idle /\ task'[w][p].job = task[w][p].job
  PROVE  InHands(j)'
BY DEF InHands, Holds

LEMMA TendedNext ==
  ASSUME TypeOK, Tended, ~AtomicFetch, [Next]_vars
  PROVE  Tended'
<1> SUFFICES ASSUME disturbed' = 0 PROVE Tended'
  BY DEF Tended
<1>0. ~Disturb
  BY DEF Disturb, TypeOK
<1>1. ASSUME disturbed' = disturbed, \A w \in Workers : loop'[w] = "drain" => loop[w] = "drain",
             \A j \in Jobs : status'[j] = "running" => status[j] = "running",
             \A w \in Workers, p \in Permits : task[w][p] # Idle =>
               task'[w][p] # Idle /\ task'[w][p].job = task[w][p].job
      PROVE  Tended'
  <2>1. \A j \in Jobs : InHands(j) => InHands(j)'
    BY <1>1, HoldersStay DEF Holds
  <2> QED BY <1>1, <2>1 DEF Tended
<1>2. ASSUME UNCHANGED <<disturbed, loop, task>>,
             \A j \in Jobs : status'[j] = "running" => status[j] = "running"
      PROVE  Tended'
  BY <1>1, <1>2
<1>3. ASSUME NEW j \in Jobs, Insert(j) PROVE Tended'
  BY <1>2, <1>3 DEF Insert, InsertRow, workerVars, TypeOK, TableTypeOK
<1>4. ASSUME NEW w \in Workers, LoopNext(w) PROVE Tended'
  <2>1. ASSUME NEW S, NEW st, st # "running", WriteRows(S, st) \/ UNCHANGED status,
               UNCHANGED <<disturbed, task>>,
               \A v \in Workers : loop'[v] = "drain" => loop[v] = "drain"
        PROVE  Tended'
    BY <1>1, <2>1 DEF WriteRows, TypeOK, TableTypeOK
  <2>2. CASE Fetch(w)
    BY <1>2, <2>2 DEF Fetch
  <2>3. ASSUME NEW r \in batch[w], NEW p \in Permits, Spawn(w, r, p) PROVE Tended'
    <3>1. /\ task[w][p] = Idle /\ r.job \in Jobs /\ UNCHANGED <<disturbed, loop>>
      BY <2>3, HeldIsJob DEF Spawn, FreePermits
    <3>2. CASE UNCHANGED <<task, status>>
      BY <1>2, <3>1, <3>2
    <3>3. CASE /\ task' = [task EXCEPT ![w][p] = [job |-> r.job, seen |-> r.seen, pc |-> "check"]]
               /\ ClaimRows({r.job})
      <4> DEFINE c == [job |-> r.job, seen |-> r.seen, pc |-> "check"]
      <4>1. c # Idle /\ c.job = r.job
        <5>1. c.pc # Idle.pc
          BY DEF Idle
        <5> QED BY <5>1
      <4>c. task' = [task EXCEPT ![w][p] = c]
        BY <3>3
      <4> HIDE DEF c
      <4>2. /\ task'[w][p] = c
            /\ \A v \in Workers, q \in Permits : v # w \/ q # p => task'[v][q] = task[v][q]
        BY <4>c DEF TypeOK, TableTypeOK
      <4>3. \A j \in Jobs : j = r.job \/ status'[j] = status[j]
        BY <3>3 DEF ClaimRows, WriteRows
      <4>4. \A j \in Jobs : InHands(j) => InHands(j)'
        BY <3>1, <4>2, HoldersStay DEF Holds
      <4>5. InHands(r.job)'
        BY <4>1, <4>2 DEF InHands, Holds
      <4> QED BY <3>1, <4>3, <4>4, <4>5 DEF Tended
    <3> QED BY <2>3, <3>2, <3>3 DEF Spawn
  <2>4. ASSUME NEW r \in batch[w], SpawnFails(w, r) PROVE FALSE
    BY <1>0, <2>4 DEF SpawnFails
  <2>5. CASE AtCapacity(w)
    BY <1>2, <2>5 DEF AtCapacity, rowVars
  <2>6. CASE RecoverStale(w)
    BY <1>0, <2>1, <2>6 DEF RecoverStale, Proceed, Undisturbed, TypeOK
  <2>7. CASE CleanupOld(w)
    BY <1>0, <2>1, <2>7 DEF CleanupOld, PurgeOldRows, Proceed, Undisturbed, TypeOK
  <2>8. CASE ExpireOld(w)
    BY <1>0, <2>1, <2>8 DEF ExpireOld, ExpireRows, Proceed, Undisturbed, TypeOK
  <2>9. CASE MaintenanceDue(w) \/ Start(w)
    BY <1>1, <2>9 DEF MaintenanceDue, Start, Proceed, rowVars, TypeOK
  <2>10. CASE Crash(w) \/ Shutdown(w)
    BY <1>0, <2>10 DEF Crash, Shutdown
  <2>11. CASE DrainEnds(w)
    BY <2>11 DEF DrainEnds, Tended
  <2> QED BY <1>4, <2>2, <2>3, <2>4, <2>5, <2>6, <2>7, <2>8, <2>9, <2>10, <2>11 DEF LoopNext
<1>5. ASSUME NEW w \in Workers, NEW p \in Permits, TaskNext(w, p) PROVE Tended'
  <2>0. /\ task[w][p].pc \in TaskStep /\ task[w][p] # Idle /\ task[w][p].job \in Jobs
        /\ UNCHANGED loop
    BY <1>5, ActiveTask
    DEF TaskStep, Idle, TaskNext, CircuitRejects, SendRequest, PayloadUnread, Respond,
        RecordAttempt, PutCompleted, PutFailed
  <2>1. ASSUME NEW pc \in TaskStep, StepTask(w, p, pc), UNCHANGED <<status, disturbed>>
        PROVE  Tended'
    <3>1. task'[w][p] # Idle
      BY <2>0, <2>1, StepTaskAt DEF TaskStep, Idle
    <3>2. \A v \in Workers, q \in Permits : task[v][q] # Idle =>
            task'[v][q] # Idle /\ task'[v][q].job = task[v][q].job
      BY <2>0, <2>1, <3>1, StepTaskAt
    <3> QED BY <1>1, <2>0, <2>1, <3>2
  <2>2. ASSUME NEW st, NEW t, st # "running", EndTask(w, p),
               WriteRow(task[w][p].job, st, t), UNCHANGED disturbed
        PROVE  Tended'
    <3> DEFINE j == task[w][p].job
    <3>1. /\ status'[j] # "running"
          /\ \A i \in Jobs : status'[i] = "running" => status[i] = "running" /\ i # j
      BY <2>0, <2>2 DEF WriteRow, TypeOK, TableTypeOK
    <3>2. \A v \in Workers, q \in Permits : v # w \/ q # p => task'[v][q] = task[v][q]
      BY <2>2, EndTaskAt
    <3>3. ASSUME NEW i \in Jobs, status'[i] = "running" PROVE InHands(i)'
      <4>1. InHands(i) /\ i # j
        BY <2>2, <3>1, <3>3 DEF Tended
      <4>2. PICK v \in Workers, q \in Permits : Holds(v, q, i)
        BY <4>1 DEF InHands
      <4>3. v # w \/ q # p
        BY <4>1, <4>2 DEF Holds
      <4> QED BY <3>2, <4>2, <4>3 DEF InHands, Holds
    <3> QED BY <2>0, <2>2, <3>3 DEF Tended
  <2>3. CASE CircuitRejects(w, p)
    BY <1>0, <2>2, <2>3 DEF CircuitRejects, Undisturbed
  <2>4. CASE SendRequest(w, p)
    BY <2>1, <2>4 DEF SendRequest, TaskStep, rowVars
  <2>5. CASE PayloadUnread(w, p)
    BY <1>0, <2>5 DEF PayloadUnread
  <2>6. CASE Respond(w, p)
    BY <2>1, <2>6 DEF Respond, TaskStep, rowVars
  <2>7. CASE RecordAttempt(w, p)
    BY <1>0, <2>1, <2>7 DEF RecordAttempt, Undisturbed, TaskStep, rowVars
  <2>8. CASE PutCompleted(w, p)
    BY <1>0, <2>2, <2>8 DEF PutCompleted, Undisturbed
  <2>9. CASE PutFailed(w, p)
    BY <1>0, <2>2, <2>9 DEF PutFailed, Undisturbed
  <2> QED BY <1>5, <2>3, <2>4, <2>5, <2>6, <2>7, <2>8, <2>9 DEF TaskNext
<1>6. ASSUME NEW j \in Jobs, RetryJob(j) PROVE FALSE
  BY <1>0, <1>6 DEF RetryJob
<1>7. ASSUME NEW st \in Retriable, BulkRetry(st) PROVE FALSE
  BY <1>0, <1>7 DEF BulkRetry
<1>8. CASE RetryDead
  BY <1>0, <1>8 DEF RetryDead
<1>9. CASE Tick
  BY <1>2, <1>9 DEF Tick, TableTick, workerVars
<1>10. CASE UNCHANGED vars
  BY <1>2, <1>10 DEF vars, rowVars, workerVars
<1> QED BY <1>3, <1>4, <1>5, <1>6, <1>7, <1>8, <1>9, <1>10 DEF Next

(* Without a crash, a database error or an operator, no row is stranded    *)
(* `running`, for any number of workers, permits and rows, if the fetch    *)
(* only reads (SQLite, MySQL): on Postgres a poll at capacity drops a row  *)
(* that its fetch has claimed (queue.rs, Worker::run, `.max(1)`).          *)
THEOREM NothingStranded == ASSUME ~AtomicFetch PROVE Spec => []NoStrandedRow
<1>1. Tended => NoStrandedRow
  BY DEF Tended, NoStrandedRow, InHands
<1>2. TypeOK /\ Tended /\ [Next]_vars => Tended'
  BY TendedNext
<1> QED BY <1>1, <1>2, TendedInit, TypeCorrect, PTL DEF Spec
=============================================================================
