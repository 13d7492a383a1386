----------------------- MODULE DeliveryTimely_proofs -----------------------
(***************************************************************************)
(* Proofs about deliveries that end before the stale threshold: they       *)
(* implement JobLifecycle, keep to the attempt budget, and repeat no       *)
(* delivery that succeeded.                                                *)
(***************************************************************************)
EXTENDS Delivery_proofs

-----------------------------------------------------------------------------
(* Every step of the workers, of maintenance and of the operators is one   *)
(* abstract move or none.  That `completed` is final is a corollary.       *)


PhaseMap == [j \in Jobs |-> PhaseOf(status[j])]

LEMMA PhaseValues ==
  /\ PhaseOf("none") = "none"
  /\ \A st \in {"available", "retryable", "running"} : PhaseOf(st) = "pending"
  /\ PhaseOf("completed") = "done"
  /\ PhaseOf("dead") = "dead"
  /\ PhaseOf("purged") = "gone"
BY DEF PhaseOf, Waiting

(* The step is invisible to a client. *)
Invisible == UNCHANGED <<PhaseMap, answered>>

AbstractStep == [Lifecycle!JobLifecycleNext]_(Lifecycle!abstractVars)

LEMMA InvisibleIsAbstract == Invisible => AbstractStep
BY DEF Invisible, AbstractStep, Lifecycle!abstractVars, PhaseMap

(* A bulk update that moves the rows of S from one phase to another. *)
LEMMA RowsMove ==
  ASSUME TypeOK, NEW S \in SUBSET Jobs, NEW From, NEW st \in Status,
         \A j \in S : PhaseOf(status[j]) \in From,
         WriteRows(S, st), UNCHANGED answered
  PROVE  Lifecycle!Move(S, From, PhaseOf(st))
BY DEF TypeOK, TableTypeOK, WriteRows, Lifecycle!Move

LEMMA RowsStay ==
  ASSUME TypeOK, NEW S \in SUBSET Jobs, NEW st \in Status,
         \A j \in S : PhaseOf(status[j]) = PhaseOf(st),
         WriteRows(S, st), UNCHANGED answered
  PROVE  Invisible
<1>1. \A j \in Jobs : PhaseOf(status'[j]) = PhaseOf(status[j])
  BY DEF TypeOK, TableTypeOK, WriteRows
<1> QED BY <1>1 DEF Invisible, PhaseMap

LEMMA SameRows ==
  ASSUME UNCHANGED <<status, answered>>
  PROVE  Invisible
BY DEF Invisible, PhaseMap

(* Write by id: the row exists, so it is a bulk update of one row. *)
LEMMA RowMoves ==
  ASSUME TypeOK, NEW j \in Jobs, NEW From, NEW st \in Status, NEW t,
         status[j] \notin {"none", "purged"}, PhaseOf(status[j]) \in From,
         WriteRow(j, st, t), UNCHANGED answered
  PROVE  Lifecycle!Move({j}, From, PhaseOf(st))
<1>1. status' = [status EXCEPT ![j] = st]
  BY DEF WriteRow
<1>2. \A i \in Jobs : PhaseOf(status'[i]) = IF i \in {j} THEN PhaseOf(st) ELSE PhaseOf(status[i])
  BY <1>1 DEF TypeOK, TableTypeOK
<1> QED BY <1>2 DEF Lifecycle!Move

LEMMA RowStays ==
  ASSUME TypeOK, NEW j \in Jobs, NEW st, NEW t,
         status[j] = "running", PhaseOf(st) = "pending",
         WriteRow(j, st, t), UNCHANGED answered
  PROVE  Invisible
<1>1. \A i \in Jobs : PhaseOf(status'[i]) = PhaseOf(status[i])
  BY PhaseValues DEF WriteRow, TypeOK, TableTypeOK
<1> QED BY <1>1 DEF Invisible, PhaseMap

-----------------------------------------------------------------------------

LEMMA LoopImplements ==
  ASSUME TypeOK, NEW w \in Workers, LoopNext(w)
  PROVE  AbstractStep
<1>s. {"running", "retryable", "purged", "dead", "completed", "available"} \subseteq Status
  BY DEF Status, Waiting, Settled
<1>1. CASE Fetch(w)
  <2>1. PICK S \in SUBSET Due : IF AtomicFetch THEN ClaimRows(S) ELSE UNCHANGED <<status, timer, attempt>>
    BY <1>1 DEF Fetch
  <2>2. UNCHANGED answered
    BY <1>1 DEF Fetch, historyVars
  <2>3. CASE AtomicFetch
    <3>1. S \in SUBSET Jobs /\ \A j \in S : status[j] \in Waiting
      BY DEF Due
    <3>2. \A j \in S : PhaseOf(status[j]) = PhaseOf("running")
      BY <3>1, PhaseValues DEF Waiting
    <3>3. WriteRows(S, "running")
      BY <2>1, <2>3 DEF ClaimRows
    <3> QED BY <1>s, <2>2, <3>1, <3>2, <3>3, RowsStay, InvisibleIsAbstract
  <2>4. CASE ~AtomicFetch
    BY <2>1, <2>2, <2>4, SameRows, InvisibleIsAbstract
  <2> QED BY <2>3, <2>4
<1>2. ASSUME NEW r \in batch[w], NEW p \in Permits, Spawn(w, r, p) PROVE AbstractStep
  <2>1. UNCHANGED answered /\ r.job \in Jobs
    BY <1>2, HeldIsJob DEF Spawn, historyVars
  <2>2. CASE status[r.job] \in Waiting /\ ClaimRows({r.job})
    <3>1. PhaseOf(status[r.job]) = PhaseOf("running")
      BY <2>2, PhaseValues DEF Waiting
    <3> QED BY <1>s, <2>1, <2>2, <3>1, RowsStay, InvisibleIsAbstract DEF ClaimRows
  <2>3. CASE UNCHANGED status
    BY <2>1, <2>3, SameRows, InvisibleIsAbstract
  <2> QED BY <1>2, <2>2, <2>3 DEF Spawn
<1>3. CASE UNCHANGED <<status, answered>>
  BY <1>3, SameRows, InvisibleIsAbstract
<1>4. CASE RecoverStale(w)
  <2> DEFINE S == {j \in Jobs : IsStale(j)}
  <2>1. \A j \in S : PhaseOf(status[j]) = PhaseOf("retryable")
    BY PhaseValues DEF IsStale
  <2>2. CASE WriteRows(S, "retryable")
    BY <1>s, <1>4, <2>1, <2>2, RowsStay, InvisibleIsAbstract DEF RecoverStale, Stale
  <2> QED BY <1>3, <1>4, <2>2 DEF RecoverStale, Stale
<1>5. CASE CleanupOld(w)
  <2> DEFINE S == {j \in Jobs : status[j] \in Settled /\ timer[j] > Retention}
  <2>1. \A j \in S : PhaseOf(status[j]) \in {"done", "dead"}
    BY PhaseValues DEF Settled
  <2>2. CASE WriteRows(S, "purged")
    <3>1. Lifecycle!Purge(S)
      BY <1>s, <1>5, <2>1, <2>2, RowsMove, PhaseValues DEF CleanupOld, PurgeOldRows, historyVars, Lifecycle!Purge
    <3> QED BY <3>1 DEF AbstractStep, Lifecycle!JobLifecycleNext
  <2> QED BY <1>3, <1>5, <2>2 DEF CleanupOld, PurgeOldRows, historyVars
<1>6. CASE ExpireOld(w)
  <2> DEFINE S == {j \in Jobs : status[j] \in Waiting /\ TtlExpired(j)}
  <2>1. \A j \in S : PhaseOf(status[j]) \in {"pending"}
    BY PhaseValues DEF Waiting
  <2>2. CASE WriteRows(S, "dead")
    <3>1. Lifecycle!GiveUp(S)
      BY <1>s, <1>6, <2>1, <2>2, RowsMove, PhaseValues DEF ExpireOld, ExpireRows, historyVars, Lifecycle!GiveUp
    <3> QED BY <3>1 DEF AbstractStep, Lifecycle!JobLifecycleNext
  <2> QED BY <1>3, <1>6, <2>2 DEF ExpireOld, ExpireRows, historyVars
<1> QED BY <1>1, <1>2, <1>3, <1>4, <1>5, <1>6
        DEF LoopNext, SpawnFails, AtCapacity, MaintenanceDue, Start, Crash, Shutdown,
            DrainEnds, rowVars, historyVars

LEMMA TaskImplements ==
  ASSUME TypeOK, AnsweredInv, ClaimInv, NEW w \in Workers, NEW p \in Permits, TaskNext(w, p)
  PROVE  AbstractStep
<1> DEFINE j == task[w][p].job
<1>s. {"running", "retryable", "purged", "dead", "completed", "available"} \subseteq Status
  BY DEF Status, Waiting, Settled
<1>0. j \in Jobs /\ status[j] = "running" /\ PhaseOf(status[j]) = "pending"
  BY ActiveTask, PhaseValues DEF TaskStep, Idle, ClaimInv, HoldersFresh, Fresh
<1>1. CASE UNCHANGED <<status, answered>>
  BY <1>1, SameRows, InvisibleIsAbstract
<1>2. CASE CircuitRejects(w, p)
  <2>1. CASE WriteRow(j, "retryable", CircuitDelay)
    BY <1>0, <1>2, <2>1, PhaseValues, RowStays, InvisibleIsAbstract DEF CircuitRejects, historyVars
  <2> QED BY <1>1, <1>2, <2>1 DEF CircuitRejects, historyVars
<1>3. CASE Respond(w, p)
  <2>1. UNCHANGED status
    BY <1>3 DEF Respond, rowVars
  <2>2. CASE answered' = [answered EXCEPT ![j] = TRUE]
    <3>1. Lifecycle!Answer(j)
      BY <1>0, <2>1, <2>2 DEF Lifecycle!Answer
    <3> QED BY <1>0, <3>1 DEF AbstractStep, Lifecycle!JobLifecycleNext
  <2> QED BY <1>1, <1>3, <2>1, <2>2 DEF Respond
<1>4. CASE PutCompleted(w, p)
  <2>1. answered[j]
    BY <1>4 DEF PutCompleted, At, AnsweredInv, SuccessKnown
  <2>2. CASE WriteRow(j, "completed", 0)
    <3>1. Lifecycle!Move({j}, {"pending"}, "done")
      BY <1>s, <1>0, <1>4, <2>2, RowMoves, PhaseValues DEF PutCompleted, historyVars
    <3>2. Lifecycle!Complete(j)
      BY <2>1, <3>1 DEF Lifecycle!Complete
    <3> QED BY <1>0, <3>2 DEF AbstractStep, Lifecycle!JobLifecycleNext
  <2> QED BY <1>1, <1>4, <2>2 DEF PutCompleted, historyVars
<1>5. CASE PutFailed(w, p)
  <2>1. CASE WriteRow(j, "dead", 0)
    <3>1. Lifecycle!Move({j}, {"pending"}, "dead")
      BY <1>s, <1>0, <1>5, <2>1, RowMoves, PhaseValues DEF PutFailed, historyVars
    <3>2. Lifecycle!GiveUp({j})
      BY <3>1 DEF Lifecycle!GiveUp
    <3> QED BY <1>0, <3>2 DEF AbstractStep, Lifecycle!JobLifecycleNext
  <2>2. ASSUME NEW d \in RetryDelays, WriteRow(j, "retryable", d) PROVE AbstractStep
    BY <1>0, <1>5, <2>2, PhaseValues, RowStays, InvisibleIsAbstract DEF PutFailed, historyVars
  <2> QED BY <1>1, <1>5, <2>1, <2>2 DEF PutFailed, historyVars
<1> QED BY <1>1, <1>2, <1>3, <1>4, <1>5
        DEF TaskNext, SendRequest, PayloadUnread, RecordAttempt, rowVars, historyVars

LEMMA NextImplements ==
  ASSUME TypeOK, AnsweredInv, ClaimInv, [Next]_vars
  PROVE  AbstractStep
<1>s. {"running", "retryable", "purged", "dead", "completed", "available"} \subseteq Status
  BY DEF Status, Waiting, Settled
<1>1. ASSUME NEW j \in Jobs, Insert(j) PROVE AbstractStep
  <2>1. \A i \in Jobs : PhaseOf(status'[i]) = IF i \in {j} THEN "pending" ELSE PhaseOf(status[i])
    BY <1>1, PhaseValues DEF Insert, InsertRow, TypeOK, TableTypeOK
  <2>2. Lifecycle!Accept(j)
    BY <1>1, <2>1, PhaseValues DEF Insert, InsertRow, historyVars, Lifecycle!Accept, Lifecycle!Move
  <2> QED BY <2>2 DEF AbstractStep, Lifecycle!JobLifecycleNext
<1>2. ASSUME NEW S \in SUBSET Jobs, \A j \in S : status[j] \in Retriable,
             WriteRows(S, "available"), UNCHANGED answered
      PROVE  AbstractStep
  <2> DEFINE D == {j \in S : status[j] = "dead"}
  <2>1. \A j \in Jobs : PhaseOf(status'[j]) = IF j \in D THEN "pending" ELSE PhaseOf(status[j])
    BY <1>2, PhaseValues DEF WriteRows, Retriable, TypeOK, TableTypeOK
  <2>2. Lifecycle!Revive(D)
    BY <1>2, <2>1, PhaseValues DEF Lifecycle!Revive, Lifecycle!Move
  <2> QED BY <2>2 DEF AbstractStep, Lifecycle!JobLifecycleNext
<1>3. ASSUME NEW j \in Jobs, RetryJob(j) PROVE AbstractStep
  BY <1>2, <1>3 DEF RetryJob, ResetAttempts, ResetRows
<1>4. ASSUME NEW st \in Retriable, BulkRetry(st) PROVE AbstractStep
  BY <1>2, <1>4 DEF BulkRetry, ResetAttempts, ResetRows
<1>5. CASE RetryDead
  BY <1>2, <1>5 DEF RetryDead, Retriable
<1>6. CASE UNCHANGED <<status, answered>>
  BY <1>6, SameRows, InvisibleIsAbstract
<1> QED BY <1>1, <1>3, <1>4, <1>5, <1>6, LoopImplements, TaskImplements
        DEF Next, Tick, TableTick, vars, rowVars, historyVars

(* Delivery implements the lifecycle of docs/guides/database-schema.md, as *)
(* long as deliveries end before the stale threshold.                      *)
THEOREM LifecycleImplemented == ASSUME Timely PROVE Spec => ImplementsLifecycle
<1>1. Init => Lifecycle!JobLifecycleInit
  BY PhaseValues DEF Init, TableInit, Lifecycle!JobLifecycleInit
<1>2. TypeOK /\ AnsweredInv /\ ClaimInv /\ [Next]_vars
      => [Lifecycle!JobLifecycleNext]_(Lifecycle!abstractVars)
  BY NextImplements DEF AbstractStep
<1>3. Spec => []ClaimInv
  <2>1. ClaimsExclusive => ClaimInv
    BY DEF ClaimsExclusive
  <2> QED BY <2>1, ClaimsAlwaysExclusive, PTL
<1>4. Spec => []AnsweredInv
  BY AnsweredInit, AnsweredNext, TypeCorrect, PTL DEF Spec
<1> QED BY <1>1, <1>2, <1>3, <1>4, TypeCorrect, PTL
        DEF Spec, ImplementsLifecycle, Lifecycle!JobLifecycleSpec

(* A completed job stays completed until the purge, as long as deliveries  *)
(* end before the stale threshold.                                         *)
THEOREM CompletedFinal == ASSUME Timely PROVE Spec => CompletedIsFinal
<1> DEFINE Final == \A j \in Jobs : status[j] = "completed" => status'[j] \in {"completed", "purged"}
<1>1. TypeOK /\ TypeOK' /\ AbstractStep => Final
  <2> SUFFICES ASSUME TypeOK, TypeOK', AbstractStep, NEW j \in Jobs, status[j] = "completed"
               PROVE  status'[j] \in {"completed", "purged"}
    OBVIOUS
  <2>1. PhaseOf(status[j]) = "done" /\ status'[j] \in Status
    BY PhaseValues DEF TypeOK, TableTypeOK
  <2>2. PhaseOf(status'[j]) \in {"done", "gone"}
    BY <2>1 DEF AbstractStep, Lifecycle!abstractVars, Lifecycle!JobLifecycleNext,
                Lifecycle!Accept, Lifecycle!Answer, Lifecycle!Complete, Lifecycle!GiveUp,
                Lifecycle!Revive, Lifecycle!Purge, Lifecycle!Move
  <2> QED BY <2>1, <2>2, PhaseValues DEF Status, Waiting, Settled
<1>2. TypeOK /\ AnsweredInv /\ ClaimInv /\ [Next]_vars => [Final]_vars
  BY <1>1, NextImplements, TypeNext
<1>3. Spec => []ClaimInv
  <2>1. ClaimsExclusive => ClaimInv
    BY DEF ClaimsExclusive
  <2> QED BY <2>1, ClaimsAlwaysExclusive, PTL
<1>4. Spec => []AnsweredInv
  BY AnsweredInit, AnsweredNext, TypeCorrect, PTL DEF Spec
<1> QED BY <1>2, <1>3, <1>4, TypeCorrect, PTL DEF Spec, CompletedIsFinal

-----------------------------------------------------------------------------
(* The attempt budget on Postgres.  Every request belongs to a claim,      *)
(* every claim counts one attempt, and a row that has spent its attempts   *)
(* is claimed again only after a grant: stale recovery, or an operator's   *)
(* retry.                                                                  *)


(* Room for one more request. *)
Room(j) == sent[j] < MaxAttempts + granted[j]

(* What a claim with the count `seen` knows of its row. *)
Counted(j, seen) == attempt[j] = Bump(seen, MaxAttempts)

(* ... and while its request has not been sent. *)
Unsent(j, seen) == Room(j) /\ (seen < MaxAttempts => sent[j] <= seen)

(* Rows that may still be claimed without another grant. *)
Claimable == Waiting \cup {"none"}

RowBudget ==
  \A j \in Jobs :
    /\ sent[j] <= MaxAttempts + granted[j]
    /\ status[j] \in Claimable => Room(j)
    /\ attempt[j] < MaxAttempts => sent[j] <= attempt[j]

TaskBudget ==
  \A w \in Workers, p \in Permits : task[w][p] # Idle =>
    /\ Counted(task[w][p].job, task[w][p].seen)
    /\ task[w][p].pc = "check" => Unsent(task[w][p].job, task[w][p].seen)

BatchBudget ==
  \A w \in Workers : \A r \in batch[w] : Counted(r.job, r.seen) /\ Unsent(r.job, r.seen)

DeadBudget == \A j \in Jobs : status[j] = "dead" => attempt[j] = MaxAttempts \/ TtlExpired(j)

BudgetInv == RowBudget /\ TaskBudget /\ BatchBudget /\ DeadBudget

LEMMA BudgetInit == Init => BudgetInv
BY DeliveryAssumption, JobTableAssumption
   DEF DeliveryAssumption, JobTableAssumption, Init, TableInit, BudgetInv, RowBudget, TaskBudget, BatchBudget, DeadBudget,
       Room

-----------------------------------------------------------------------------
(* The counters of the rows that are claimed do not move under the claim.  *)

CountersKept ==
  \A j \in Jobs : Fresh(j) => /\ attempt'[j] = attempt[j]
                              /\ sent'[j] = sent[j]
                              /\ granted'[j] = granted[j]

ClaimsKept ==
  /\ \A w \in Workers, p \in Permits : task'[w][p] # Idle =>
       /\ task[w][p] # Idle
       /\ task'[w][p].job = task[w][p].job /\ task'[w][p].seen = task[w][p].seen
       /\ task'[w][p].pc = "check" => task[w][p].pc = "check"
  /\ \A w \in Workers : batch'[w] \subseteq batch[w]

LEMMA ClaimBudgetKept ==
  ASSUME TypeOK, ClaimInv, AtomicFetch, TaskBudget, BatchBudget, CountersKept, ClaimsKept
  PROVE  TaskBudget' /\ BatchBudget'
<1>1. TaskBudget'
  <2> SUFFICES ASSUME NEW w \in Workers, NEW p \in Permits, task'[w][p] # Idle
               PROVE  /\ Counted(task[w][p].job, task[w][p].seen)'
                      /\ task'[w][p].pc = "check" => Unsent(task[w][p].job, task[w][p].seen)'
    BY DEF TaskBudget
  <2> DEFINE j == task[w][p].job
  <2>1. /\ task[w][p] # Idle
        /\ task'[w][p].job = j /\ task'[w][p].seen = task[w][p].seen
        /\ task'[w][p].pc = "check" => task[w][p].pc = "check"
    BY DEF ClaimsKept
  <2>2. j \in Jobs /\ Fresh(j)
    BY <2>1, HeldIsJob DEF ClaimInv, HoldersFresh
  <2>3. attempt'[j] = attempt[j] /\ sent'[j] = sent[j] /\ granted'[j] = granted[j]
    BY <2>2 DEF CountersKept
  <2> QED BY <2>1, <2>3 DEF TaskBudget, Counted, Unsent, Room
<1>2. BatchBudget'
  <2> SUFFICES ASSUME NEW w \in Workers, NEW r \in batch'[w]
               PROVE  Counted(r.job, r.seen)' /\ Unsent(r.job, r.seen)'
    BY DEF BatchBudget
  <2>1. r \in batch[w]
    BY DEF ClaimsKept
  <2>2. r.job \in Jobs /\ Fresh(r.job)
    BY <2>1, HeldIsJob DEF ClaimInv, FetchedFresh
  <2>3. attempt'[r.job] = attempt[r.job] /\ sent'[r.job] = sent[r.job] /\ granted'[r.job] = granted[r.job]
    BY <2>2 DEF CountersKept
  <2> QED BY <2>1, <2>3 DEF BatchBudget, Counted, Unsent, Room
<1> QED BY <1>1, <1>2

LEMMA SameClaims ==
  ASSUME UNCHANGED <<task, batch>>
  PROVE  ClaimsKept
BY DEF ClaimsKept

LEMMA SameCounters ==
  ASSUME UNCHANGED <<attempt, sent, granted>>
  PROVE  CountersKept
BY DEF CountersKept

(* A row update that leaves the counters alone. *)
LEMMA RowsKeepBudget ==
  ASSUME TypeOK, RowBudget, DeadBudget, UNCHANGED <<attempt, age, sent, granted>>,
         \A j \in Jobs : status'[j] \in Claimable => status[j] \in Claimable \/ Room(j),
         \A j \in Jobs : status'[j] = "dead" =>
           status[j] = "dead" \/ attempt[j] = MaxAttempts \/ TtlExpired(j)
  PROVE  RowBudget' /\ DeadBudget'
BY DEF RowBudget, DeadBudget, Room, TtlExpired

LEMMA BudgetLoop ==
  ASSUME TypeOK, ClaimInv, Timely, AtomicFetch, BudgetInv, NEW w \in Workers, LoopNext(w)
  PROVE  BudgetInv'
<1> USE DeliveryAssumption, JobTableAssumption DEF DeliveryAssumption, JobTableAssumption, BudgetInv
<1>1. CASE Fetch(w)
  <2>1. PICK S \in SUBSET Due :
          /\ batch' = [batch EXCEPT ![w] = {[job |-> j, seen |-> attempt[j]] : j \in S}]
          /\ ClaimRows(S)
    BY <1>1 DEF Fetch
  <2>2. UNCHANGED <<task, age, sent, granted>>
    BY <1>1 DEF Fetch, historyVars
  <2>3. S \subseteq Jobs /\ \A j \in S : status[j] \in Waiting /\ ~Fresh(j)
    BY DEF Due, Fresh, Waiting
  <2>4. /\ \A j \in S : status'[j] = "running" /\ attempt'[j] = Bump(attempt[j], MaxAttempts)
        /\ \A j \in Jobs \ S : status'[j] = status[j] /\ attempt'[j] = attempt[j]
    BY <2>1, <2>3 DEF ClaimRows, WriteRows
  <2>5. RowBudget'
    BY <2>2, <2>4 DEF RowBudget, Room, Waiting, Claimable, Bump, Lower, TypeOK, TableTypeOK
  <2>6. DeadBudget'
    BY <2>2, <2>4 DEF DeadBudget, TtlExpired
  <2>7. TaskBudget'
    <3> SUFFICES ASSUME NEW v \in Workers, NEW q \in Permits, task[v][q] # Idle
                 PROVE  /\ Counted(task[v][q].job, task[v][q].seen)'
                        /\ task[v][q].pc = "check" => Unsent(task[v][q].job, task[v][q].seen)'
      BY <2>2 DEF TaskBudget
    <3>1. task[v][q].job \in Jobs \ S
      BY <2>3, HeldIsJob DEF ClaimInv, HoldersFresh
    <3> QED BY <2>2, <2>4, <3>1 DEF TaskBudget, Counted, Unsent, Room
  <2>8. BatchBudget'
    <3> SUFFICES ASSUME NEW v \in Workers, NEW r \in batch'[v]
                 PROVE  Counted(r.job, r.seen)' /\ Unsent(r.job, r.seen)'
      BY DEF BatchBudget
    <3>1. CASE v = w
      <4>1. PICK j \in S : r = [job |-> j, seen |-> attempt[j]]
        BY <2>1, <3>1 DEF TypeOK, TableTypeOK
      <4>2. r.job = j /\ r.seen = attempt[j]
        BY <4>1
      <4>3. Room(j) /\ (attempt[j] < MaxAttempts => sent[j] <= attempt[j])
        BY <2>3 DEF RowBudget, Claimable
      <4> QED BY <2>2, <2>4, <4>2, <4>3 DEF Counted, Unsent, Room
    <3>2. CASE v # w
      <4>1. r \in batch[v]
        BY <2>1, <3>2 DEF TypeOK, TableTypeOK
      <4>2. r.job \in Jobs \ S
        BY <2>3, <4>1, HeldIsJob DEF ClaimInv, FetchedFresh
      <4> QED BY <2>2, <2>4, <4>1, <4>2 DEF BatchBudget, Counted, Unsent, Room
    <3> QED BY <3>1, <3>2
  <2> QED BY <2>5, <2>6, <2>7, <2>8
<1>2. ASSUME NEW r \in batch[w], NEW p \in Permits, Spawn(w, r, p) PROVE BudgetInv'
  <2>1. /\ UNCHANGED <<status, attempt, age, sent, granted>>
        /\ task' = [task EXCEPT ![w][p] = [job |-> r.job, seen |-> r.seen, pc |-> "check"]]
        /\ \A v \in Workers : batch'[v] \subseteq batch[v]
    BY <1>2 DEF Spawn, historyVars, TypeOK, TableTypeOK
  <2>2. RowBudget' /\ DeadBudget'
    BY <2>1, RowsKeepBudget
  <2>3. BatchBudget'
    BY <2>1 DEF BatchBudget, Counted, Unsent, Room
  <2>4. TaskBudget'
    <3> SUFFICES ASSUME NEW v \in Workers, NEW q \in Permits, task'[v][q] # Idle
                 PROVE  /\ Counted(task'[v][q].job, task'[v][q].seen)
                        /\ task'[v][q].pc = "check" => Unsent(task'[v][q].job, task'[v][q].seen)
      BY <2>1 DEF TaskBudget, Counted, Unsent, Room
    <3>1. CASE v = w /\ q = p
      <4>1. task'[v][q] = [job |-> r.job, seen |-> r.seen, pc |-> "check"]
        BY <2>1, <3>1 DEF TypeOK, TableTypeOK
      <4>2. task'[v][q].job = r.job /\ task'[v][q].seen = r.seen
        BY <4>1
      <4> QED BY <4>2 DEF BatchBudget
    <3>2. CASE v # w \/ q # p
      <4>1. task'[v][q] = task[v][q]
        BY <2>1, <3>2 DEF TypeOK, TableTypeOK
      <4> QED BY <4>1 DEF TaskBudget
    <3> QED BY <3>1, <3>2
  <2> QED BY <2>2, <2>3, <2>4
<1>3. ASSUME ClaimsKept, UNCHANGED <<status, attempt, age, sent, granted>> PROVE BudgetInv'
  <2>1. RowBudget' /\ DeadBudget'
    BY <1>3, RowsKeepBudget
  <2> QED BY <1>3, <2>1, SameCounters, ClaimBudgetKept
<1>4. CASE AtCapacity(w)
  <2>1. ClaimsKept
    BY <1>4 DEF AtCapacity, ClaimsKept, TypeOK, TableTypeOK
  <2> QED BY <1>3, <1>4, <2>1 DEF AtCapacity, rowVars, historyVars
<1>5. CASE Lose(w) /\ UNCHANGED <<rowVars, historyVars>>
  <2>1. ClaimsKept
    BY <1>5, LoseAt DEF Lose, ClaimsKept, TypeOK, TableTypeOK
  <2> QED BY <1>3, <1>5, <2>1 DEF rowVars, historyVars
<1>6. CASE RecoverStale(w)
  <2>1. CASE UNCHANGED <<status, granted>>
    BY <1>3, <1>6, <2>1, SameClaims DEF RecoverStale, Stale
  <2>2. CASE /\ WriteRows({j \in Jobs : IsStale(j)}, "retryable")
             /\ granted' = [j \in Jobs |-> IF IsStale(j) THEN Bump(granted[j], HistoryCap)
                                           ELSE granted[j]]
    <3>1. UNCHANGED <<attempt, age, sent, task, batch>>
      BY <1>6 DEF RecoverStale, Stale
    <3>2. \A j \in Jobs : IsStale(j) => ~Fresh(j)
      BY TimelyAssumption DEF IsStale, Fresh, TypeOK, TableTypeOK
    <3>3. CountersKept
      BY <2>2, <3>1, <3>2 DEF CountersKept
    <3>4. RowBudget'
      <4> SUFFICES ASSUME NEW j \in Jobs
                   PROVE  /\ sent[j] <= MaxAttempts + granted'[j]
                          /\ status'[j] \in Claimable => sent[j] < MaxAttempts + granted'[j]
                          /\ attempt[j] < MaxAttempts => sent[j] <= attempt[j]
        BY <3>1 DEF RowBudget, Room
      <4>1. CASE IsStale(j)
        BY <2>2, <4>1 DEF RowBudget, Bump, Lower, TypeOK, TableTypeOK
      <4>2. CASE ~IsStale(j)
        BY <2>2, <4>2 DEF RowBudget, Room, WriteRows
      <4> QED BY <4>1, <4>2
    <3>5. DeadBudget'
      BY <2>2, <3>1 DEF DeadBudget, WriteRows, TtlExpired
    <3> QED BY <3>1, <3>3, <3>4, <3>5, SameClaims, ClaimBudgetKept
  <2> QED BY <1>6, <2>1, <2>2 DEF RecoverStale, Stale
<1>7. CASE CleanupOld(w)
  <2>1. UNCHANGED <<attempt, age, sent, granted, task, batch>>
    BY <1>7 DEF CleanupOld, PurgeOldRows, historyVars
  <2>2. \A j \in Jobs : status'[j] = status[j] \/ status'[j] = "purged"
    BY <1>7 DEF CleanupOld, PurgeOldRows, WriteRows
  <2>3. RowBudget' /\ DeadBudget'
    BY <2>1, <2>2, RowsKeepBudget DEF Waiting, Claimable
  <2> QED BY <2>1, <2>3, SameClaims, SameCounters, ClaimBudgetKept
<1>8. CASE ExpireOld(w)
  <2>1. UNCHANGED <<attempt, age, sent, granted, task, batch>>
    BY <1>8 DEF ExpireOld, ExpireRows, historyVars
  <2>2. \A j \in Jobs : status'[j] = status[j] \/ (status'[j] = "dead" /\ TtlExpired(j))
    BY <1>8 DEF ExpireOld, ExpireRows, WriteRows
  <2>3. RowBudget' /\ DeadBudget'
    BY <2>1, <2>2, RowsKeepBudget DEF Waiting, Claimable
  <2> QED BY <2>1, <2>3, SameClaims, SameCounters, ClaimBudgetKept
<1>9. CASE MaintenanceDue(w) \/ Start(w) \/ Shutdown(w)
  BY <1>3, <1>9, SameClaims DEF MaintenanceDue, Start, Shutdown, rowVars, historyVars
<1>10. ASSUME NEW r \in batch[w], SpawnFails(w, r) PROVE BudgetInv'
  BY <1>10 DEF SpawnFails
<1> QED BY <1>1, <1>2, <1>4, <1>5, <1>6, <1>7, <1>8, <1>9, <1>10
        DEF LoopNext, Crash, DrainEnds

LEMMA BudgetTask ==
  ASSUME TypeOK, ClaimInv, AtomicFetch, BudgetInv,
         NEW w \in Workers, NEW p \in Permits, TaskNext(w, p)
  PROVE  BudgetInv'
<1> USE DeliveryAssumption, JobTableAssumption DEF DeliveryAssumption, JobTableAssumption, BudgetInv
<1> DEFINE j == task[w][p].job
           seen == task[w][p].seen
<1>0. /\ task[w][p].pc \in TaskStep /\ task[w][p] # Idle
      /\ j \in Jobs /\ seen \in Nat
      /\ status[j] = "running"
  BY ActiveTask DEF TaskStep, Idle, Claim, ClaimInv, HoldersFresh, Fresh
<1>1. Counted(j, seen) /\ (task[w][p].pc = "check" => Unsent(j, seen))
  BY <1>0 DEF TaskBudget
<1>2. ASSUME EndTask(w, p), UNCHANGED batch PROVE ClaimsKept
  BY <1>2, EndTaskAt DEF ClaimsKept
<1>3. ASSUME NEW pc \in TaskStep \ {"check"}, StepTask(w, p, pc), UNCHANGED batch
      PROVE  ClaimsKept
  BY <1>0, <1>3, StepTaskAt DEF ClaimsKept
<1>4. ASSUME ClaimsKept, UNCHANGED <<status, attempt, age, sent, granted>> PROVE BudgetInv'
  <2>1. RowBudget' /\ DeadBudget'
    BY <1>4, RowsKeepBudget
  <2> QED BY <1>4, <2>1, SameCounters, ClaimBudgetKept
<1>5. ASSUME NEW st, NEW t, WriteRow(j, st, t),
             st \in Claimable => Room(j),
             st = "dead" => attempt[j] = MaxAttempts,
             EndTask(w, p), UNCHANGED <<batch, attempt, age, sent, granted>>
      PROVE  BudgetInv'
  <2>1. \A i \in Jobs : status'[i] = IF i = j THEN st ELSE status[i]
    BY <1>0, <1>5 DEF WriteRow, TypeOK, TableTypeOK
  <2>2. RowBudget' /\ DeadBudget'
    BY <1>5, <2>1, RowsKeepBudget
  <2> QED BY <1>2, <1>5, <2>2, SameCounters, ClaimBudgetKept
<1>6. CASE CircuitRejects(w, p)
  <2>1. Room(j)
    BY <1>1, <1>6 DEF CircuitRejects, At, Unsent
  <2>2. CASE WriteRow(j, "retryable", CircuitDelay)
    BY <1>5, <1>6, <2>1, <2>2 DEF CircuitRejects, historyVars, Waiting, Claimable
  <2> QED BY <1>2, <1>4, <1>6, <2>2 DEF CircuitRejects, historyVars
<1>7. CASE SendRequest(w, p)
  <2>1. /\ Unsent(j, seen)
        /\ StepTask(w, p, "send")
        /\ sent' = [sent EXCEPT ![j] = Bump(@, HistoryCap)]
        /\ UNCHANGED <<status, attempt, age, granted, batch>>
    BY <1>1, <1>7 DEF SendRequest, At, rowVars
  <2>2. /\ sent'[j] <= sent[j] + 1 /\ sent'[j] \in Nat
        /\ \A i \in Jobs : i # j => sent'[i] = sent[i]
    BY <1>0, <2>1 DEF Bump, Lower, TypeOK, TableTypeOK
  <2>3. RowBudget'
    <3> SUFFICES ASSUME NEW i \in Jobs
                 PROVE  /\ sent'[i] <= MaxAttempts + granted[i]
                        /\ status[i] \in Claimable => sent'[i] < MaxAttempts + granted[i]
                        /\ attempt[i] < MaxAttempts => sent'[i] <= attempt[i]
      BY <2>1 DEF RowBudget, Room
    <3>1. CASE i = j
      <4>1. sent'[j] <= MaxAttempts + granted[j]
        BY <1>0, <2>1, <2>2 DEF Unsent, Room, TypeOK, TableTypeOK
      <4>2. attempt[j] < MaxAttempts => sent'[j] <= attempt[j]
        BY <1>0, <1>1, <2>1, <2>2 DEF Unsent, Counted, Bump, Lower, TypeOK, TableTypeOK
      <4> QED BY <1>0, <3>1, <4>1, <4>2 DEF Waiting, Claimable
    <3>2. CASE i # j
      BY <2>2, <3>2 DEF RowBudget, Room
    <3> QED BY <3>1, <3>2
  <2>4. DeadBudget'
    BY <2>1 DEF DeadBudget, TtlExpired
  <2>5. TaskBudget'
    <3> SUFFICES ASSUME NEW v \in Workers, NEW q \in Permits, task'[v][q] # Idle
                 PROVE  /\ Counted(task'[v][q].job, task'[v][q].seen)
                        /\ task'[v][q].pc = "check" =>
                             /\ sent'[task'[v][q].job] < MaxAttempts + granted[task'[v][q].job]
                             /\ task'[v][q].seen < MaxAttempts =>
                                  sent'[task'[v][q].job] <= task'[v][q].seen
      BY <2>1 DEF TaskBudget, Counted, Unsent, Room
    <3>1. CASE v = w /\ q = p
      BY <1>0, <1>1, <2>1, <3>1, StepTaskAt
    <3>2. CASE v # w \/ q # p
      <4>1. task'[v][q] = task[v][q]
        BY <1>0, <2>1, <3>2, StepTaskAt
      <4>2. task[v][q].job \in Jobs \ {j}
        BY <1>0, <3>2, <4>1, HeldIsJob DEF ClaimInv, HoldersUnique
      <4> QED BY <2>2, <4>1, <4>2 DEF TaskBudget, Unsent, Room
    <3> QED BY <3>1, <3>2
  <2>6. BatchBudget'
    <3> SUFFICES ASSUME NEW v \in Workers, NEW r \in batch[v]
                 PROVE  /\ Counted(r.job, r.seen)
                        /\ sent'[r.job] < MaxAttempts + granted[r.job]
                        /\ r.seen < MaxAttempts => sent'[r.job] <= r.seen
      BY <2>1 DEF BatchBudget, Counted, Unsent, Room
    <3>1. r.job \in Jobs \ {j}
      BY <1>0, HeldIsJob DEF ClaimInv, FetchedNotHeld
    <3> QED BY <2>2, <3>1 DEF BatchBudget, Unsent, Room
  <2> QED BY <2>3, <2>4, <2>5, <2>6
<1>8. CASE PayloadUnread(w, p)
  BY <1>3, <1>4, <1>8 DEF PayloadUnread, TaskStep, rowVars, historyVars
<1>9. CASE Respond(w, p)
  <2>1. ClaimsKept
    BY <1>3, <1>9 DEF Respond, TaskStep
  <2> QED BY <1>4, <1>9, <2>1 DEF Respond, rowVars
<1>10. CASE RecordAttempt(w, p)
  <2>1. ClaimsKept
    BY <1>2, <1>3, <1>10 DEF RecordAttempt, TaskStep
  <2> QED BY <1>4, <1>10, <2>1 DEF RecordAttempt, rowVars, historyVars
<1>11. CASE PutCompleted(w, p)
  <2>1. CASE WriteRow(j, "completed", 0)
    BY <1>5, <1>11, <2>1 DEF PutCompleted, historyVars, Waiting, Claimable
  <2> QED BY <1>2, <1>4, <1>11, <2>1 DEF PutCompleted, historyVars
<1>12. CASE PutFailed(w, p)
  <2>1. CASE Exhausted(seen) /\ WriteRow(j, "dead", 0)
    <3>1. attempt[j] = MaxAttempts
      BY <1>0, <1>1, <2>1 DEF Exhausted, Counted, Bump, Lower
    <3> QED BY <1>5, <1>12, <2>1, <3>1 DEF PutFailed, historyVars, Waiting, Claimable
  <2>2. ASSUME ~Exhausted(seen), NEW d \in RetryDelays, WriteRow(j, "retryable", d)
        PROVE  BudgetInv'
    <3>1. attempt[j] = seen + 1 /\ attempt[j] < MaxAttempts
      BY <1>0, <1>1, <2>2 DEF Exhausted, Counted, Bump, Lower
    <3>2. Room(j)
      BY <1>0, <3>1 DEF RowBudget, Room, TypeOK, TableTypeOK
    <3> QED BY <1>5, <1>12, <2>2, <3>2 DEF PutFailed, historyVars, Waiting, Claimable
  <2> QED BY <1>2, <1>4, <1>12, <2>1, <2>2 DEF PutFailed, historyVars
<1> QED BY <1>6, <1>7, <1>8, <1>9, <1>10, <1>11, <1>12 DEF TaskNext

LEMMA BudgetNext ==
  ASSUME TypeOK, ClaimInv, Timely, AtomicFetch, BudgetInv, [Next]_vars
  PROVE  BudgetInv'
<1> USE DeliveryAssumption, JobTableAssumption DEF DeliveryAssumption, JobTableAssumption, BudgetInv
<1>1. ASSUME NEW j \in Jobs, Insert(j) PROVE BudgetInv'
  <2>1. UNCHANGED <<attempt, age, sent, granted, task, batch>>
    BY <1>1 DEF Insert, InsertRow, workerVars, historyVars
  <2>2. \A i \in Jobs : status'[i] = IF i = j THEN "available" ELSE status[i]
    BY <1>1 DEF Insert, InsertRow, TypeOK, TableTypeOK
  <2>3. status[j] = "none"
    BY <1>1 DEF Insert, InsertRow
  <2>4. RowBudget' /\ DeadBudget'
    BY <2>1, <2>2, <2>3, RowsKeepBudget DEF Claimable
  <2> QED BY <2>1, <2>4, SameClaims, SameCounters, ClaimBudgetKept
<1>2. ASSUME NEW S \in SUBSET Jobs, \A j \in S : status[j] \in Retriable,
             ResetAttempts(S), UNCHANGED <<age, workerVars>>
      PROVE  BudgetInv'
  <2>1. CountersKept /\ ClaimsKept
    BY <1>2 DEF ResetAttempts, ResetRows, CountersKept, ClaimsKept, Fresh, Retriable, workerVars
  <2>2. RowBudget'
    <3> SUFFICES ASSUME NEW j \in Jobs
                 PROVE  /\ sent'[j] <= MaxAttempts + granted'[j]
                        /\ status'[j] \in Claimable => sent'[j] < MaxAttempts + granted'[j]
                        /\ attempt'[j] < MaxAttempts => sent'[j] <= attempt'[j]
      BY DEF RowBudget, Room
    <3>1. CASE j \in S
      BY <1>2, <3>1 DEF ResetAttempts, ResetRows
    <3>2. CASE j \notin S
      BY <1>2, <3>2 DEF ResetAttempts, ResetRows, WriteRows, RowBudget, Room
    <3> QED BY <3>1, <3>2
  <2>3. DeadBudget'
    BY <1>2 DEF ResetAttempts, ResetRows, WriteRows, DeadBudget, TtlExpired
  <2> QED BY <2>1, <2>2, <2>3, ClaimBudgetKept
<1>3. ASSUME NEW j \in Jobs, RetryJob(j) PROVE BudgetInv'
  BY <1>2, <1>3 DEF RetryJob
<1>4. ASSUME NEW st \in Retriable, BulkRetry(st) PROVE BudgetInv'
  BY <1>2, <1>4 DEF BulkRetry
<1>5. CASE RetryDead
  <2> DEFINE dead == {j \in Jobs : status[j] = "dead"}
  <2>1. /\ UNCHANGED <<attempt, age, sent, task, batch>>
        /\ WriteRows(dead, "available")
        /\ granted' = [j \in Jobs |-> IF j \in dead THEN Bump(granted[j], HistoryCap)
                                                    ELSE granted[j]]
    BY <1>5 DEF RetryDead, workerVars
  <2>2. CountersKept
    BY <2>1 DEF CountersKept, Fresh
  <2>3. RowBudget'
    <3> SUFFICES ASSUME NEW j \in Jobs
                 PROVE  /\ sent[j] <= MaxAttempts + granted'[j]
                        /\ status'[j] \in Claimable => sent[j] < MaxAttempts + granted'[j]
                        /\ attempt[j] < MaxAttempts => sent[j] <= attempt[j]
      BY <2>1 DEF RowBudget, Room
    <3>1. CASE j \in dead
      BY <2>1, <3>1 DEF RowBudget, Bump, Lower, TypeOK, TableTypeOK
    <3>2. CASE j \notin dead
      BY <2>1, <3>2 DEF RowBudget, Room, WriteRows
    <3> QED BY <3>1, <3>2
  <2>4. DeadBudget'
    BY <2>1 DEF DeadBudget, WriteRows, TtlExpired
  <2> QED BY <2>1, <2>2, <2>3, <2>4, SameClaims, ClaimBudgetKept
<1>6. CASE Tick
  <2>1. UNCHANGED <<status, attempt, sent, granted, task, batch>>
    BY <1>6 DEF Tick, TableTick, workerVars, historyVars
  <2>2. DeadBudget'
    <3> SUFFICES ASSUME NEW j \in Jobs, status[j] = "dead", TtlExpired(j) PROVE TtlExpired(j)'
      BY <2>1 DEF DeadBudget
    <3> QED BY <1>6 DEF Tick, TableTick, TtlExpired, Bump, Lower, TypeOK, TableTypeOK
  <2>3. RowBudget'
    BY <2>1 DEF RowBudget, Room
  <2> QED BY <2>1, <2>2, <2>3, SameClaims, SameCounters, ClaimBudgetKept
<1>7. CASE UNCHANGED vars
  <2>1. RowBudget' /\ DeadBudget'
    BY <1>7, RowsKeepBudget DEF vars, rowVars, historyVars
  <2> QED BY <1>7, <2>1, SameClaims, SameCounters, ClaimBudgetKept
          DEF vars, rowVars, workerVars, historyVars
<1> QED BY <1>1, <1>3, <1>4, <1>5, <1>6, <1>7, BudgetLoop, BudgetTask DEF Next

BudgetIfTimely == Timely /\ AtomicFetch => BudgetInv

LEMMA BudgetAlways == Spec => []BudgetIfTimely
<1>1. Init => BudgetIfTimely
  BY BudgetInit DEF BudgetIfTimely
<1>2. TypeOK /\ ClaimsExclusive /\ BudgetIfTimely /\ [Next]_vars => BudgetIfTimely'
  BY BudgetNext DEF BudgetIfTimely, ClaimsExclusive
<1> QED BY <1>1, <1>2, TypeCorrect, ClaimsAlwaysExclusive, PTL DEF Spec

(* A timely Postgres system sends at most max_attempts requests for a job, *)
(* plus one for each time its row was put back without a spent attempt.    *)
THEOREM AttemptBudgetCorrect == Spec => []AttemptBudget
<1>1. TypeOK /\ BudgetIfTimely => AttemptBudget
  BY DEF BudgetIfTimely, BudgetInv, RowBudget, AttemptBudget
<1> QED BY <1>1, BudgetAlways, TypeCorrect, PTL

(* ... and dead-letters a job only when its attempts are spent or its      *)
(* event's TTL is over.                                                    *)
THEOREM DeadIsSpentCorrect == Spec => []DeadIsSpent
<1>1. BudgetIfTimely => DeadIsSpent
  BY DEF BudgetIfTimely, BudgetInv, DeadBudget, DeadIsSpent
<1> QED BY <1>1, BudgetAlways, PTL

-----------------------------------------------------------------------------
(* No redelivery.  As long as nothing has failed, a job that its handler   *)
(* answered with a 2xx stays in the hands of that delivery until it is     *)
(* `completed`: nobody else claims it, fetches it or puts it back.         *)

Done == {"ok", "put_ok"}

ServedOnce(j) ==
  /\ status[j] \in {"running", "completed", "purged"}
  /\ \A w \in Workers, p \in Permits : Holds(w, p, j) => task[w][p].pc \in Done
  /\ AtomicFetch => \A w \in Workers : \A r \in batch[w] : r.job # j
  /\ status[j] = "running" => InHands(j)

Served ==
  disturbed = 0 =>
    /\ \A w \in Workers : loop[w] # "drain"
    /\ \A j \in Jobs : answered[j] => ServedOnce(j)

LEMMA ServedInit == Init => Served
BY DEF Init, TableInit, Served

(* Tasks that go on, without another job and without falling back.         *)
TasksGoOn ==
  \A w \in Workers, p \in Permits :
    /\ task'[w][p] # Idle <=> task[w][p] # Idle
    /\ task[w][p] # Idle =>
         /\ task'[w][p].job = task[w][p].job
         /\ task[w][p].pc \in Done => task'[w][p].pc \in Done

LEMMA ServedStays ==
  ASSUME NEW j, ServedOnce(j), TasksGoOn, BatchesShrink,
         status'[j] \in {"running", "completed", "purged"},
         status'[j] = "running" => status[j] = "running"
  PROVE  ServedOnce(j)'
<1>1. InHands(j) => InHands(j)'
  BY HoldersStay DEF TasksGoOn, Holds
<1> QED BY <1>1 DEF ServedOnce, TasksGoOn, BatchesShrink, Holds

LEMMA ServedKept ==
  ASSUME Served, disturbed = 0, UNCHANGED answered, TasksGoOn, BatchesShrink,
         \A w \in Workers : loop'[w] = "drain" => loop[w] = "drain",
         \A j \in Jobs : answered[j] =>
           /\ status'[j] \in {"running", "completed", "purged"}
           /\ status'[j] = "running" => status[j] = "running"
  PROVE  Served'
BY ServedStays DEF Served

(* A bulk update that spares the rows in question.                         *)
LEMMA ServedRows ==
  ASSUME TypeOK, Served, disturbed = 0, UNCHANGED <<answered, task, batch>>,
         \A w \in Workers : loop'[w] = "drain" => loop[w] = "drain",
         NEW S, NEW st, st # "running",
         \A j \in S \cap Jobs : answered[j] => st = "purged",
         WriteRows(S, st) \/ UNCHANGED status
  PROVE  Served'
<1>1. TasksGoOn /\ BatchesShrink
  BY DEF TasksGoOn, BatchesShrink
<1>2. ASSUME NEW j \in Jobs, answered[j]
      PROVE  /\ status'[j] \in {"running", "completed", "purged"}
             /\ status'[j] = "running" => status[j] = "running"
  <2>1. status[j] \in {"running", "completed", "purged"}
    BY <1>2 DEF Served, ServedOnce
  <2>2. status'[j] = status[j] \/ (j \in S /\ status'[j] = st)
    BY DEF WriteRows
  <2> QED BY <1>2, <2>1, <2>2
<1> QED BY <1>1, <1>2, ServedKept

LEMMA ServedLoop ==
  ASSUME TypeOK, ClaimInv, Timely, Served, disturbed' = 0, NEW w \in Workers, LoopNext(w)
  PROVE  Served'
<1>0. ~Disturb
  BY DEF Disturb, TypeOK
<1>1. CASE Fetch(w)
  <2>1. PICK S \in SUBSET Due :
          /\ batch' = [batch EXCEPT ![w] = {[job |-> j, seen |-> attempt[j]] : j \in S}]
          /\ IF AtomicFetch THEN ClaimRows(S) ELSE UNCHANGED <<status, timer, attempt>>
    BY <1>1 DEF Fetch
  <2>2. disturbed = 0 /\ UNCHANGED <<task, loop, answered>>
    BY <1>1 DEF Fetch, historyVars
  <2>3. \A j \in Jobs : answered[j] => j \notin S
    BY <2>2 DEF Served, ServedOnce, Due, Waiting
  <2>4. ASSUME NEW j \in Jobs, answered[j] PROVE ServedOnce(j)'
    <3>1. status'[j] = status[j]
      BY <2>1, <2>3, <2>4 DEF ClaimRows, WriteRows
    <3>2. ASSUME NEW v \in Workers, NEW r \in batch'[v], AtomicFetch PROVE r.job # j
      <4>1. CASE v = w
        BY <2>1, <2>3, <2>4, <3>2, <4>1 DEF TypeOK
      <4>2. CASE v # w
        BY <2>1, <2>2, <2>4, <3>2, <4>2 DEF TypeOK, Served, ServedOnce
      <4> QED BY <4>1, <4>2
    <3> QED BY <2>2, <2>4, <3>1, <3>2 DEF Served, ServedOnce, Holds, InHands
  <2> QED BY <2>2, <2>4 DEF Served
<1>2. ASSUME NEW r \in batch[w], NEW p \in Permits, Spawn(w, r, p) PROVE Served'
  <2>1. /\ task[w][p] = Idle /\ r.job \in Jobs /\ disturbed = 0 /\ UNCHANGED <<loop, answered>>
        /\ BatchesShrink
    BY <1>2, HeldIsJob DEF Spawn, FreePermits, historyVars, BatchesShrink, TypeOK
  <2>2. CASE UNCHANGED <<task, status>>
    BY <2>1, <2>2, ServedKept DEF TasksGoOn, Served, ServedOnce
  <2>3. CASE /\ task' = [task EXCEPT ![w][p] = [job |-> r.job, seen |-> r.seen, pc |-> "check"]]
             /\ \/ AtomicFetch /\ UNCHANGED status
                \/ status[r.job] \in Waiting /\ ClaimRows({r.job})
    <3> DEFINE c == [job |-> r.job, seen |-> r.seen, pc |-> "check"]
    <3>1. task' = [task EXCEPT ![w][p] = c]
      BY <2>3
    <3>2. c.job = r.job
      OBVIOUS
    <3> HIDE DEF c
    <3>3. /\ task'[w][p] = c
          /\ \A v \in Workers, q \in Permits : v # w \/ q # p => task'[v][q] = task[v][q]
      BY <3>1 DEF TypeOK, TableTypeOK
    <3>4. ~answered[r.job]
      BY <2>1, <2>3 DEF Served, ServedOnce, Waiting
    <3>5. ASSUME NEW j \in Jobs, answered[j] PROVE ServedOnce(j)'
      <4>1. ServedOnce(j) /\ j # r.job /\ status'[j] = status[j]
        BY <2>1, <2>3, <3>4, <3>5 DEF Served, ClaimRows, WriteRows
      <4>2. \A v \in Workers, q \in Permits : Holds(v, q, j)' => Holds(v, q, j) /\ task'[v][q] = task[v][q]
        BY <3>2, <3>3, <4>1 DEF Holds
      <4>3. InHands(j) => InHands(j)'
        BY <2>1, <3>3, HoldersStay DEF Holds
      <4> QED BY <2>1, <4>1, <4>2, <4>3 DEF ServedOnce, BatchesShrink
    <3> QED BY <2>1, <3>5 DEF Served
  <2> QED BY <1>2, <2>2, <2>3 DEF Spawn
<1>3. ASSUME NEW r \in batch[w], SpawnFails(w, r) PROVE FALSE
  BY <1>0, <1>3 DEF SpawnFails
<1>4. CASE AtCapacity(w)
  <2>1. TasksGoOn /\ BatchesShrink
    BY <1>4 DEF AtCapacity, TasksGoOn, BatchesShrink, TypeOK
  <2> QED BY <1>4, <2>1, ServedKept DEF AtCapacity, rowVars, historyVars, Served, ServedOnce
<1>5. CASE RecoverStale(w)
  <2>0. /\ disturbed = 0 /\ UNCHANGED <<answered, task, batch>>
        /\ \A v \in Workers : loop'[v] = "drain" => loop[v] = "drain"
        /\ WriteRows(Stale, "retryable")
    BY <1>0, <1>5 DEF RecoverStale, Undisturbed, Proceed, TypeOK
  <2>1. ASSUME NEW j \in Stale, answered[j] PROVE FALSE
    <3>1. status[j] = "running" /\ j \in Jobs /\ timer[j] >= StaleAfter
      BY DEF Stale, IsStale
    <3>2. PICK v \in Workers, q \in Permits : Holds(v, q, j)
      BY <2>0, <2>1, <3>1 DEF Served, ServedOnce, InHands
    <3>3. timer[j] <= TaskDeadline
      BY <3>2 DEF Holds, ClaimInv, HoldersFresh, Fresh
    <3> QED BY <3>1, <3>3, TimelyAssumption, DeliveryAssumption, JobTableAssumption
      DEF TypeOK, TableTypeOK
  <2> QED BY <2>0, <2>1, ServedRows
<1>6. CASE CleanupOld(w)
  <2>0. /\ disturbed = 0 /\ UNCHANGED <<answered, task, batch>>
        /\ \A v \in Workers : loop'[v] = "drain" => loop[v] = "drain"
    BY <1>0, <1>6 DEF CleanupOld, Undisturbed, Proceed, TypeOK, historyVars
  <2> QED BY <1>0, <1>6, <2>0, ServedRows DEF CleanupOld, PurgeOldRows
<1>7. CASE ExpireOld(w)
  <2>0. /\ disturbed = 0 /\ UNCHANGED <<answered, task, batch>>
        /\ \A v \in Workers : loop'[v] = "drain" => loop[v] = "drain"
    BY <1>0, <1>7 DEF ExpireOld, Undisturbed, Proceed, TypeOK, historyVars
  <2>1. \A j \in Jobs : answered[j] => status[j] \notin Waiting
    BY <2>0 DEF Served, ServedOnce, Waiting
  <2> QED BY <1>0, <1>7, <2>0, <2>1, ServedRows DEF ExpireOld, ExpireRows
<1>8. CASE MaintenanceDue(w) \/ Start(w)
  <2>1. TasksGoOn /\ BatchesShrink /\ UNCHANGED <<status, answered>> /\ disturbed = 0
    BY <1>8 DEF MaintenanceDue, Start, TasksGoOn, BatchesShrink, rowVars, historyVars
  <2>2. \A v \in Workers : loop'[v] = "drain" => loop[v] = "drain"
    BY <1>8 DEF MaintenanceDue, Start, Proceed, TypeOK
  <2> QED BY <2>1, <2>2, ServedKept DEF Served, ServedOnce
<1>9. CASE Crash(w) \/ Shutdown(w)
  BY <1>0, <1>9 DEF Crash, Shutdown
<1>10. CASE DrainEnds(w)
  BY <1>10 DEF DrainEnds, Served
<1> QED BY <1>1, <1>2, <1>3, <1>4, <1>5, <1>6, <1>7, <1>8, <1>9, <1>10 DEF LoopNext

LEMMA ServedTask ==
  ASSUME TypeOK, ClaimInv, Served, disturbed' = 0,
         NEW w \in Workers, NEW p \in Permits, TaskNext(w, p)
  PROVE  Served'
<1> DEFINE j == task[w][p].job
<1>0. /\ task[w][p].pc \in TaskStep /\ task[w][p] # Idle /\ j \in Jobs /\ ~Disturb
      /\ Holds(w, p, j) /\ status[j] = "running" /\ UNCHANGED <<loop, batch>>
      /\ disturbed = 0
  BY ActiveTask
  DEF TaskStep, Idle, Holds, ClaimInv, HoldersFresh, Fresh, Disturb, TypeOK, TaskNext,
      CircuitRejects, SendRequest, PayloadUnread, Respond, RecordAttempt, PutCompleted,
      PutFailed, Undisturbed
<1>1. ASSUME NEW pc \in TaskStep, StepTask(w, p, pc), UNCHANGED status,
             task[w][p].pc \in Done => pc \in Done
      PROVE  TasksGoOn /\ (UNCHANGED answered => Served')
  <2>1. TasksGoOn
    <3>1. task'[w][p] # Idle
      BY <1>0, <1>1, StepTaskAt DEF TaskStep, Idle
    <3> QED BY <1>0, <1>1, <3>1, StepTaskAt DEF TasksGoOn
  <2> QED BY <1>0, <1>1, <2>1, ServedKept DEF BatchesShrink, Served, ServedOnce
<1>2. ASSUME NEW st, NEW t, st # "running", EndTask(w, p), WriteRow(j, st, t),
             UNCHANGED answered, answered[j] => st = "completed"
      PROVE  Served'
  <2>1. /\ status'[j] = st
        /\ \A i \in Jobs \ {j} : status'[i] = status[i]
    BY <1>0, <1>2 DEF WriteRow, TypeOK, TableTypeOK
  <2>2. /\ task'[w][p] = Idle
        /\ \A v \in Workers, q \in Permits : v # w \/ q # p => task'[v][q] = task[v][q]
    BY <1>2, EndTaskAt
  <2>3. ASSUME NEW i \in Jobs, answered[i] PROVE ServedOnce(i)'
    <3>1. ServedOnce(i)
      BY <1>0, <2>3 DEF Served
    <3>2. status'[i] \in {"running", "completed", "purged"}
      BY <1>2, <2>1, <2>3, <3>1 DEF ServedOnce
    <3>3. \A v \in Workers, q \in Permits : Holds(v, q, i)' => Holds(v, q, i) /\ task'[v][q] = task[v][q]
      BY <2>2 DEF Holds
    <3>4. status'[i] = "running" => InHands(i)'
      <4> SUFFICES ASSUME status'[i] = "running" PROVE InHands(i)'
        OBVIOUS
      <4>1. i # j /\ status[i] = "running"
        BY <1>2, <2>1
      <4>2. PICK v \in Workers, q \in Permits : Holds(v, q, i)
        BY <3>1, <4>1 DEF ServedOnce, InHands
      <4>3. v # w \/ q # p
        BY <4>1, <4>2 DEF Holds
      <4> QED BY <2>2, <4>2, <4>3 DEF InHands, Holds
    <3> QED BY <1>0, <3>1, <3>2, <3>3, <3>4 DEF ServedOnce
  <2> QED BY <1>0, <1>2, <2>3 DEF Served
<1>3. answered[j] => task[w][p].pc \in Done
  BY <1>0 DEF Served, ServedOnce
<1>4. CASE CircuitRejects(w, p)
  BY <1>0, <1>2, <1>3, <1>4 DEF CircuitRejects, At, Done, historyVars
<1>5. CASE SendRequest(w, p)
  BY <1>1, <1>5 DEF SendRequest, TaskStep, At, Done, rowVars
<1>6. CASE PayloadUnread(w, p)
  BY <1>0, <1>6 DEF PayloadUnread
<1>7. CASE Respond(w, p)
  <2>1. PICK a \in Answers :
          /\ StepTask(w, p, IF Succeeds(a) THEN "ok"
                            ELSE IF a = "other" THEN "refused" ELSE "put_fail")
          /\ answered' = IF a = "2xx" THEN [answered EXCEPT ![j] = TRUE] ELSE answered
    BY <1>7 DEF Respond
  <2>2. UNCHANGED <<status, loop>> /\ task[w][p].pc = "send"
    BY <1>7 DEF Respond, rowVars, At
  <2>3. CASE a # "2xx"
    BY <1>1, <2>1, <2>2, <2>3 DEF TaskStep, Done, Succeeds
  <2>4. CASE a = "2xx"
    <3>1. StepTask(w, p, "ok")
      BY <2>1, <2>4 DEF Succeeds
    <3>2. TasksGoOn
      BY <1>1, <2>2, <3>1 DEF TaskStep, Done
    <3>3. /\ task'[w][p].pc = "ok" /\ task'[w][p].job = j /\ task'[w][p] # Idle
          /\ \A v \in Workers, q \in Permits : v # w \/ q # p => task'[v][q] = task[v][q]
      BY <1>0, <3>1, StepTaskAt DEF Idle
    <3>4. ASSUME NEW i \in Jobs, i = j PROVE ServedOnce(i)'
      <4>1. \A v \in Workers, q \in Permits : Holds(v, q, i)' => v = w /\ q = p
        BY <1>0, <3>3, <3>4 DEF Holds, ClaimInv, HoldersUnique
      <4>2. InHands(i)'
        BY <3>3, <3>4 DEF InHands, Holds
      <4>3. AtomicFetch => \A v \in Workers : \A r \in batch[v] : r.job # i
        BY <1>0, <3>4 DEF ClaimInv, FetchedNotHeld
      <4> QED BY <1>0, <2>2, <3>3, <3>4, <4>1, <4>2, <4>3 DEF ServedOnce, Done
    <3>5. ASSUME NEW i \in Jobs, i # j, answered'[i] PROVE ServedOnce(i)'
      <4>1. answered[i]
        BY <2>1, <2>4, <3>5 DEF TypeOK
      <4> QED BY <1>0, <2>2, <3>2, <4>1, ServedStays DEF Served, ServedOnce, BatchesShrink
    <3>6. ASSUME NEW i \in Jobs, answered'[i] PROVE ServedOnce(i)'
      BY <3>4, <3>5, <3>6
    <3>7. \A v \in Workers : loop'[v] # "drain"
      BY <1>0, <2>2 DEF Served
    <3> QED BY <3>6, <3>7 DEF Served
  <2> QED BY <2>3, <2>4
<1>8. CASE RecordAttempt(w, p)
  <2>1. UNCHANGED <<status, answered>>
    BY <1>8 DEF RecordAttempt, rowVars, historyVars
  <2>2. CASE At(w, p, "ok")
    <3>1. StepTask(w, p, "put_ok")
      BY <1>0, <1>8, <2>2 DEF RecordAttempt
    <3> QED BY <1>1, <2>1, <2>2, <3>1 DEF TaskStep, At, Done
  <2>3. CASE At(w, p, "refused")
    <3>1. StepTask(w, p, "put_fail")
      BY <1>0, <1>8, <2>3 DEF RecordAttempt, At
    <3> QED BY <1>1, <2>1, <2>3, <3>1 DEF TaskStep, At, Done
  <2> QED BY <1>8, <2>2, <2>3 DEF RecordAttempt
<1>9. CASE PutCompleted(w, p)
  BY <1>0, <1>2, <1>9 DEF PutCompleted, historyVars
<1>10. CASE PutFailed(w, p)
  BY <1>0, <1>2, <1>3, <1>10 DEF PutFailed, At, Done, historyVars
<1> QED BY <1>4, <1>5, <1>6, <1>7, <1>8, <1>9, <1>10 DEF TaskNext

LEMMA ServedNext == TypeOK /\ ClaimInv /\ Timely /\ Served /\ [Next]_vars => Served'
<1> SUFFICES ASSUME TypeOK, ClaimInv, Timely, Served, [Next]_vars, disturbed' = 0
             PROVE  Served'
  BY DEF Served
<1>0. ~Disturb
  BY DEF Disturb, TypeOK
<1>1. ASSUME UNCHANGED <<disturbed, loop, task, batch, answered>>,
             \A j \in Jobs : answered[j] => status'[j] = status[j]
      PROVE  Served'
  BY <1>1, ServedKept DEF TasksGoOn, BatchesShrink, Served, ServedOnce
<1>2. ASSUME NEW j \in Jobs, Insert(j) PROVE Served'
  <2>1. UNCHANGED <<disturbed, loop, task, batch, answered>>
    BY <1>2 DEF Insert, workerVars, historyVars
  <2>2. ~answered[j] /\ \A i \in Jobs \ {j} : status'[i] = status[i]
    BY <1>2, <2>1 DEF Insert, InsertRow, Served, ServedOnce, TypeOK, TableTypeOK
  <2> QED BY <1>1, <2>1, <2>2
<1>3. ASSUME NEW j \in Jobs, RetryJob(j) PROVE FALSE
  BY <1>0, <1>3 DEF RetryJob
<1>4. ASSUME NEW st \in Retriable, BulkRetry(st) PROVE FALSE
  BY <1>0, <1>4 DEF BulkRetry
<1>5. CASE RetryDead
  BY <1>0, <1>5 DEF RetryDead
<1>6. CASE Tick
  BY <1>1, <1>6 DEF Tick, TableTick, workerVars, historyVars
<1>7. CASE UNCHANGED vars
  BY <1>1, <1>7 DEF vars, rowVars, workerVars, historyVars
<1> QED BY <1>2, <1>3, <1>4, <1>5, <1>6, <1>7, ServedLoop, ServedTask DEF Next

(* As long as nothing failed, no request goes out for a job whose handler  *)
(* has answered one with a 2xx (docs/guides/scaling.md, "no job is         *)
(* processed twice"), if deliveries end before the stale threshold.        *)
THEOREM NothingRedelivered == ASSUME Timely PROVE Spec => NoRedelivery
<1> DEFINE Once ==
      \A w \in Workers, p \in Permits :
        /\ At(w, p, "check") /\ task'[w][p].pc = "send"
        /\ disturbed = 0
        => ~answered[task[w][p].job]
<1>1. TypeOK /\ Served => Once
  <2> SUFFICES ASSUME TypeOK, Served, NEW w \in Workers, NEW p \in Permits,
                      At(w, p, "check"), disturbed = 0
               PROVE  ~answered[task[w][p].job]
    OBVIOUS
  <2>1. task[w][p] # Idle /\ task[w][p].job \in Jobs
    BY HeldIsJob DEF At, Idle
  <2> QED BY <2>1 DEF Served, ServedOnce, Holds, At, Done
<1>2. TypeOK /\ Served /\ [Next]_vars => [Once]_vars
  BY <1>1
<1>3. Spec => []ClaimInv
  <2>1. ClaimsExclusive => ClaimInv
    BY DEF ClaimsExclusive
  <2> QED BY <2>1, ClaimsAlwaysExclusive, PTL
<1>4. TypeOK /\ ClaimInv /\ Served /\ [Next]_vars => Served'
  BY ServedNext
<1> QED BY <1>2, <1>3, <1>4, ServedInit, TypeCorrect, PTL DEF Spec, NoRedelivery
=============================================================================
