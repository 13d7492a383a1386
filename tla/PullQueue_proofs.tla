--------------------------- MODULE PullQueue_proofs ---------------------------
(***************************************************************************)
(* Proofs about PullQueue, for any messages, consumers and configuration:  *)
(* type correctness, that an ack is final and the delivery budget is kept  *)
(* whatever the consumers do, and that orderly consumers own what they     *)
(* hold.                                                                   *)
(***************************************************************************)
EXTENDS PullQueue, FiniteSetTheorems, TLAPS

-----------------------------------------------------------------------------
(* What the statements of the table do to its types.                       *)

LEMMA BumpInRange == ASSUME NEW cap \in Nat, NEW n \in 0..cap PROVE Bump(n, cap) \in 0..cap
BY DEF Bump, Lower

LEMMA WriteRowsType ==
  ASSUME TypeOK, NEW S, NEW st \in Status, WriteRows(S, st)
  PROVE  status' \in [Jobs -> Status] /\ timer' \in [Jobs -> Nat]
BY DEF WriteRows, TypeOK, TableTypeOK

LEMMA WriteRowType ==
  ASSUME TypeOK, NEW m \in Jobs, NEW st \in Status, NEW t \in Nat, WriteRow(m, st, t)
  PROVE  status' \in [Jobs -> Status] /\ timer' \in [Jobs -> Nat]
BY DEF WriteRow, TypeOK, TableTypeOK

LEMMA ClaimRowsType ==
  ASSUME TypeOK, NEW S, ClaimRows(S)
  PROVE  /\ status' \in [Jobs -> Status] /\ timer' \in [Jobs -> Nat]
         /\ attempt' \in [Jobs -> 0..MaxAttempts]
<1>1. "running" \in Status
  BY DEF Status
<1>2. status' \in [Jobs -> Status] /\ timer' \in [Jobs -> Nat]
  BY <1>1, WriteRowsType DEF ClaimRows
<1>3. attempt' \in [Jobs -> 0..MaxAttempts]
  BY JobTableAssumption DEF JobTableAssumption, ClaimRows, Bump, Lower, TypeOK, TableTypeOK
<1> QED BY <1>2, <1>3

LEMMA DeliverType ==
  ASSUME TypeOK, NEW c \in Consumers, NEW S \in SUBSET Jobs, Deliver(c, S)
  PROVE  /\ status' \in [Jobs -> Status] /\ timer' \in [Jobs -> Nat]
         /\ attempt' \in [Jobs -> 0..MaxAttempts]
         /\ held' \in [Consumers -> SUBSET Jobs]
         /\ since' \in [Consumers -> [Jobs -> 0..StaleAfter]]
         /\ delivered' \in [Jobs -> 0..HistoryCap]
<1>1. /\ status' \in [Jobs -> Status] /\ timer' \in [Jobs -> Nat]
      /\ attempt' \in [Jobs -> 0..MaxAttempts]
  BY ClaimRowsType DEF Deliver
<1>2. held' \in [Consumers -> SUBSET Jobs]
  BY DEF Deliver, TypeOK
<1>3. since' \in [Consumers -> [Jobs -> 0..StaleAfter]]
  <2>1. [m \in Jobs |-> IF m \in S THEN 0 ELSE since[c][m]] \in [Jobs -> 0..StaleAfter]
    BY JobTableAssumption DEF JobTableAssumption, TypeOK
  <2> QED BY <2>1 DEF Deliver, TypeOK
<1>4. delivered' \in [Jobs -> 0..HistoryCap]
  BY PullQueueAssumption DEF PullQueueAssumption, Deliver, Bump, Lower, TypeOK
<1> QED BY <1>1, <1>2, <1>3, <1>4

LEMMA DisturbType ==
  ASSUME TypeOK, Disturb \/ Undisturbed
  PROVE  disturbed' \in 0..MaxDisturbances
BY PullQueueAssumption DEF PullQueueAssumption, Disturb, Undisturbed, TypeOK

LEMMA GrantType ==
  ASSUME TypeOK, NEW S, Grant(S)
  PROVE  granted' \in [Jobs -> 0..HistoryCap]
BY PullQueueAssumption DEF PullQueueAssumption, Grant, Bump, Lower, TypeOK

LEMMA SettleType ==
  ASSUME TypeOK, NEW c \in Consumers, NEW m \in Jobs, Settle(c, m)
  PROVE  held' \in [Consumers -> SUBSET Jobs] /\ disturbed' \in 0..MaxDisturbances
<1>1. disturbed' \in 0..MaxDisturbances
  BY DisturbType DEF Settle
<1> QED BY <1>1 DEF Settle, TypeOK

-----------------------------------------------------------------------------
(* Type correctness.                                                       *)

LEMMA InitType == Init => TypeOK
<1> SUFFICES ASSUME Init PROVE TypeOK
  OBVIOUS
<1>1. /\ MaxAttempts \in Nat /\ EventTtl \in Nat /\ StaleAfter \in Nat
      /\ MaxDisturbances \in Nat /\ HistoryCap \in Nat
  BY PullQueueAssumption, JobTableAssumption DEF PullQueueAssumption, JobTableAssumption
<1>2. "none" \in Status
  BY DEF Status
<1>3. nacking \in [Consumers -> Nack \cup {NoNack}]
  BY DEF Init
<1>4. since \in [Consumers -> [Jobs -> 0..StaleAfter]]
  BY <1>1 DEF Init
<1> QED BY <1>1, <1>2, <1>3, <1>4 DEF Init, TableInit, TypeOK, TableTypeOK

LEMMA ConsumerType ==
  ASSUME TypeOK, NEW c \in Consumers, ConsumerNext(c)
  PROVE  TypeOK'
<1>s. {"completed", "dead", "retryable"} \subseteq Status
  BY DEF Status, Waiting, Settled
<1>1. CASE Receive(c)
  <2>1. PICK S \in SUBSET Due :
          IF AtomicFetch THEN Deliver(c, S) /\ UNCHANGED picked
          ELSE /\ picked' = [picked EXCEPT ![c] = S]
               /\ UNCHANGED <<status, attempt, timer, held, since, delivered>>
    BY <1>1 DEF Receive
  <2>2. S \in SUBSET Jobs
    BY DEF Due
  <2>3. CASE AtomicFetch
    <3>1. Deliver(c, S) /\ UNCHANGED picked
      BY <2>1, <2>3
    <3> QED BY <1>1, <2>2, <3>1, DeliverType DEF Receive, TypeOK, TableTypeOK
  <2>4. CASE ~AtomicFetch
    BY <1>1, <2>1, <2>2, <2>4 DEF Receive, TypeOK, TableTypeOK
  <2> QED BY <2>3, <2>4
<1>2. ASSUME NEW m \in Jobs, ClaimPicked(c, m) PROVE TypeOK'
  <2>1. picked' \in [Consumers -> SUBSET Jobs]
    BY <1>2 DEF ClaimPicked, TypeOK
  <2>2. CASE status[m] \in Waiting
    <3>1. Deliver(c, {m})
      BY <1>2, <2>2 DEF ClaimPicked
    <3> QED BY <1>2, <2>1, <3>1, DeliverType DEF ClaimPicked, TypeOK, TableTypeOK
  <2>3. CASE status[m] \notin Waiting
    BY <1>2, <2>1, <2>3 DEF ClaimPicked, TypeOK, TableTypeOK
  <2> QED BY <2>2, <2>3
<1>3. ASSUME NEW m \in Jobs, Ack(c, m) PROVE TypeOK'
  <2>1. status' \in [Jobs -> Status] /\ timer' \in [Jobs -> Nat]
    <3>1. CASE status[m] = "running"
      BY <1>3, <1>s, <3>1, WriteRowType DEF Ack
    <3>2. CASE status[m] # "running"
      BY <1>3, <3>2 DEF Ack, TypeOK, TableTypeOK
    <3> QED BY <3>1, <3>2
  <2>2. held' \in [Consumers -> SUBSET Jobs] /\ disturbed' \in 0..MaxDisturbances
    BY <1>3, SettleType DEF Ack
  <2> QED BY <1>3, <2>1, <2>2 DEF Ack, TypeOK, TableTypeOK, historyVars
<1>4. ASSUME NEW m \in Jobs, NackRead(c, m) PROVE TypeOK'
  <2>1. [msg |-> m, seen |-> attempt[m]] \in Nack
    BY JobTableAssumption DEF JobTableAssumption, Nack, TypeOK, TableTypeOK
  <2>2. nacking' \in [Consumers -> Nack \cup {NoNack}]
    BY <1>4, <2>1 DEF NackRead, TypeOK
  <2>3. held' \in [Consumers -> SUBSET Jobs] /\ disturbed' \in 0..MaxDisturbances
    BY <1>4, SettleType DEF NackRead
  <2> QED BY <1>4, <2>2, <2>3 DEF NackRead, TypeOK, TableTypeOK, historyVars, rowVars
<1>5. CASE NackWrite(c)
  <2>1. nacking[c].msg \in Jobs
    BY <1>5 DEF NackWrite, TypeOK, Nack
  <2>2. status' \in [Jobs -> Status] /\ timer' \in [Jobs -> Nat]
    <3> DEFINE m == nacking[c].msg
    <3>1. CASE WriteRow(m, "dead", 0)
      BY <1>s, <2>1, <3>1, WriteRowType
    <3>2. ASSUME NEW d \in RetryDelays, WriteRow(m, "retryable", d)
          PROVE  status' \in [Jobs -> Status] /\ timer' \in [Jobs -> Nat]
      <4>1. d \in Nat
        BY PullQueueAssumption DEF PullQueueAssumption
      <4> QED BY <1>s, <2>1, <3>2, <4>1, WriteRowType
    <3>3. CASE UNCHANGED <<status, timer>>
      BY <3>3 DEF TypeOK, TableTypeOK
    <3> QED BY <1>5, <3>1, <3>2, <3>3 DEF NackWrite
  <2> QED BY <1>5, <2>2 DEF NackWrite, TypeOK, TableTypeOK, historyVars
<1>6. CASE NackFails(c)
  <2>1. disturbed' \in 0..MaxDisturbances
    BY <1>6, DisturbType DEF NackFails
  <2> QED BY <1>6, <2>1 DEF NackFails, TypeOK, TableTypeOK, historyVars, rowVars
<1>7. CASE Forget(c)
  <2>1. disturbed' \in 0..MaxDisturbances
    BY <1>7, DisturbType DEF Forget
  <2> QED BY <1>7, <2>1 DEF Forget, TypeOK, TableTypeOK, historyVars, rowVars
<1> QED BY <1>1, <1>2, <1>3, <1>4, <1>5, <1>6, <1>7 DEF ConsumerNext

LEMMA NextType == TypeOK /\ [Next]_vars => TypeOK'
<1> SUFFICES ASSUME TypeOK, [Next]_vars PROVE TypeOK'
  OBVIOUS
<1>s. {"completed", "dead", "retryable", "available", "purged"} \subseteq Status
  BY DEF Status, Waiting, Settled
<1>1. ASSUME NEW c \in Consumers, ConsumerNext(c) PROVE TypeOK'
  BY <1>1, ConsumerType
<1>2. ASSUME NEW m \in Jobs, Insert(m) PROVE TypeOK'
  BY <1>2, <1>s DEF Insert, InsertRow, TypeOK, TableTypeOK, consumerVars, historyVars
<1>3. ASSUME NEW S, ResetMessages(S) PROVE TypeOK'
  <2>1. status' \in [Jobs -> Status] /\ timer' \in [Jobs -> Nat]
    BY <1>3, <1>s, WriteRowsType DEF ResetMessages, ResetRows
  <2>2. attempt' \in [Jobs -> 0..MaxAttempts]
    BY <1>3, JobTableAssumption DEF JobTableAssumption, ResetMessages, ResetRows, TypeOK, TableTypeOK
  <2>3. delivered' \in [Jobs -> 0..HistoryCap] /\ granted' \in [Jobs -> 0..HistoryCap]
    BY <1>3, PullQueueAssumption DEF PullQueueAssumption, ResetMessages, TypeOK
  <2>4. disturbed' \in 0..MaxDisturbances
    BY <1>3, DisturbType DEF ResetMessages
  <2> QED BY <1>3, <2>1, <2>2, <2>3, <2>4 DEF ResetMessages, TypeOK, TableTypeOK, consumerVars
<1>4. CASE RecoverExpired
  <2>1. status' \in [Jobs -> Status] /\ timer' \in [Jobs -> Nat]
    BY <1>4, <1>s, WriteRowsType DEF RecoverExpired
  <2>2. granted' \in [Jobs -> 0..HistoryCap]
    BY <1>4, GrantType DEF RecoverExpired
  <2> QED BY <1>4, <2>1, <2>2 DEF RecoverExpired, TypeOK, TableTypeOK, consumerVars
<1>5. CASE CleanupOld
  <2>1. status' \in [Jobs -> Status] /\ timer' \in [Jobs -> Nat]
    BY <1>5, <1>s, WriteRowsType DEF CleanupOld, PurgeOldRows
  <2> QED BY <1>5, <2>1 DEF CleanupOld, TypeOK, TableTypeOK, consumerVars, historyVars
<1>6. CASE ExpireOld
  <2>1. status' \in [Jobs -> Status] /\ timer' \in [Jobs -> Nat]
    BY <1>6, <1>s, WriteRowsType DEF ExpireOld, ExpireRows
  <2> QED BY <1>6, <2>1 DEF ExpireOld, TypeOK, TableTypeOK, consumerVars, historyVars
<1>7. CASE RetryDead
  <2>1. status' \in [Jobs -> Status] /\ timer' \in [Jobs -> Nat]
    BY <1>7, <1>s, WriteRowsType DEF RetryDead
  <2>2. granted' \in [Jobs -> 0..HistoryCap] /\ disturbed' \in 0..MaxDisturbances
    BY <1>7, GrantType, DisturbType DEF RetryDead
  <2> QED BY <1>7, <2>1, <2>2 DEF RetryDead, TypeOK, TableTypeOK, consumerVars
<1>8. CASE Drain
  <2>1. status' \in [Jobs -> Status] /\ timer' \in [Jobs -> Nat]
    BY <1>8, <1>s, WriteRowsType DEF Drain
  <2>2. disturbed' \in 0..MaxDisturbances
    BY <1>8, DisturbType DEF Drain
  <2> QED BY <1>8, <2>1, <2>2 DEF Drain, TypeOK, TableTypeOK, consumerVars, historyVars
<1>9. CASE Tick
  <2>1. timer' \in [Jobs -> Nat] /\ age' \in [Jobs -> 0..EventTtl]
    BY <1>9, JobTableAssumption
       DEF JobTableAssumption, Tick, TableTick, Elapse, Bump, Lower, TypeOK, TableTypeOK
  <2>2. since' \in [Consumers -> [Jobs -> 0..StaleAfter]]
    <3>1. ASSUME NEW c \in Consumers, NEW m \in Jobs
          PROVE  Bump(since[c][m], StaleAfter) \in 0..StaleAfter /\ since[c][m] \in 0..StaleAfter
      BY JobTableAssumption DEF JobTableAssumption, Bump, Lower, TypeOK
    <3> QED BY <1>9, <3>1 DEF Tick
  <2> QED BY <1>9, <2>1, <2>2 DEF Tick, TableTick, TypeOK, TableTypeOK, historyVars
<1>10. CASE UNCHANGED vars
  BY <1>10 DEF vars, rowVars, consumerVars, historyVars, TypeOK, TableTypeOK
<1> QED BY <1>1, <1>2, <1>3, <1>4, <1>5, <1>6, <1>7, <1>8, <1>9, <1>10
        DEF Next, RetryMessage, RetryAll

(* Type correctness, for every constant the assumptions admit. *)
THEOREM TypeCorrect == Spec => []TypeOK
BY InitType, NextType, PTL DEF Spec

-----------------------------------------------------------------------------
(* An ack is final.                                                        *)

(* A statement that spares completed rows, or deletes them, keeps acks.    *)
Spares(S) == \A m \in S : status[m] # "completed"

LEMMA WriteRowsSpares ==
  ASSUME TypeOK, NEW S, NEW st, WriteRows(S, st), Spares(S) \/ st = "purged", NEW m \in Jobs,
         status[m] = "completed"
  PROVE  status'[m] \in {"completed", "purged"}
BY DEF WriteRows, Spares, TypeOK, TableTypeOK

(* No step of the queue undoes an ack: a stale nack, a recovery that comes *)
(* late or an operator's retry all ask for another status.                 *)
LEMMA AckKept ==
  ASSUME TypeOK, [Next]_vars, NEW m \in Jobs, status[m] = "completed"
  PROVE  status'[m] \in {"completed", "purged"}
<1> USE DEF TypeOK, TableTypeOK
<1>1. ASSUME NEW c \in Consumers, ConsumerNext(c) PROVE status'[m] \in {"completed", "purged"}
  <2>1. ASSUME NEW S \in SUBSET Jobs, Deliver(c, S), \A k \in S : status[k] \in Waiting
        PROVE  status'[m] \in {"completed", "purged"}
    BY <2>1, WriteRowsSpares DEF Deliver, ClaimRows, Spares, Waiting
  <2>2. CASE Receive(c)
    <3>1. CASE AtomicFetch
      <4>1. PICK S \in SUBSET Due : Deliver(c, S)
        BY <2>2, <3>1 DEF Receive
      <4> QED BY <2>1, <4>1 DEF Due
    <3>2. CASE ~AtomicFetch
      BY <2>2, <3>2 DEF Receive
    <3> QED BY <3>1, <3>2
  <2>3. ASSUME NEW k \in Jobs, ClaimPicked(c, k) PROVE status'[m] \in {"completed", "purged"}
    <3>1. CASE status[k] \in Waiting
      BY <2>1, <2>3, <3>1 DEF ClaimPicked
    <3>2. CASE status[k] \notin Waiting
      BY <2>3, <3>2 DEF ClaimPicked
    <3> QED BY <3>1, <3>2
  <2>4. ASSUME NEW k \in Jobs, Ack(c, k) PROVE status'[m] \in {"completed", "purged"}
    BY <2>4 DEF Ack, WriteRow
  <2>5. ASSUME NEW k \in Jobs, NackRead(c, k) PROVE status'[m] \in {"completed", "purged"}
    BY <2>5 DEF NackRead, rowVars
  <2>6. CASE NackWrite(c)
    <3>1. nacking[c].msg \in Jobs
      BY <2>6 DEF NackWrite, Nack
    <3> QED BY <2>6, <3>1 DEF NackWrite, NackApplies, WriteRow
  <2>7. CASE NackFails(c) \/ Forget(c)
    BY <2>7 DEF NackFails, Forget, rowVars
  <2> QED BY <1>1, <2>2, <2>3, <2>4, <2>5, <2>6, <2>7 DEF ConsumerNext
<1>2. ASSUME NEW k \in Jobs, Insert(k) PROVE status'[m] \in {"completed", "purged"}
  BY <1>2 DEF Insert, InsertRow
<1>3. ASSUME NEW S, ResetMessages(S), Spares(S) PROVE status'[m] \in {"completed", "purged"}
  BY <1>3, WriteRowsSpares DEF ResetMessages, ResetRows
<1>4. CASE RecoverExpired
  BY <1>4, WriteRowsSpares DEF RecoverExpired, Stale, IsStale, Spares
<1>5. CASE CleanupOld
  BY <1>5, WriteRowsSpares DEF CleanupOld, PurgeOldRows
<1>6. CASE ExpireOld
  BY <1>6, WriteRowsSpares DEF ExpireOld, ExpireRows, Spares, Waiting
<1>7. CASE RetryDead
  BY <1>7, WriteRowsSpares DEF RetryDead, DeadMessages, Spares
<1>8. CASE Drain
  BY <1>8, WriteRowsSpares DEF Drain
<1>9. CASE Tick \/ UNCHANGED vars
  BY <1>9 DEF Tick, TableTick, vars, rowVars
<1>10. ASSUME NEW k \in Jobs, RetryMessage(k) PROVE status'[m] \in {"completed", "purged"}
  BY <1>3, <1>10 DEF RetryMessage, Retriable, Spares
<1>11. CASE RetryAll
  BY <1>3, <1>11 DEF RetryAll, DeadMessages, Spares
<1> QED BY <1>1, <1>2, <1>4, <1>5, <1>6, <1>7, <1>8, <1>9, <1>10, <1>11 DEF Next

(* An acked message never comes back, whatever the consumers do. *)
THEOREM AckFinal == Spec => AckedIsFinal
<1>1. TypeOK /\ [Next]_vars
      => [\A m \in Jobs : status[m] = "completed" => status'[m] \in {"completed", "purged"}]_vars
  BY AckKept
<1> QED BY <1>1, TypeCorrect, PTL DEF Spec, AckedIsFinal

-----------------------------------------------------------------------------
(* Orderly consumers own what they have.                                   *)

(* What makes HolderOwns inductive: the message's row has been running for *)
(* as long as its consumer has had it, which is less than the timeout, so  *)
(* that no recovery can touch it; and the count a nack has read is still   *)
(* the row's, so that it decides for this delivery and no other.           *)
Owned(c, m) ==
  /\ status[m] \in {"running", "purged"}
  /\ status[m] = "running" => timer[m] = since[c][m] /\ timer[m] < StaleAfter
  /\ status[m] = "running" /\ Nacking(c, m) => nacking[c].seen = attempt[m]
  /\ ~(m \in held[c] /\ Nacking(c, m))
  /\ \A d \in Consumers : Has(d, m) => d = c

OwnInv == \A c \in Consumers, m \in Jobs : Has(c, m) => Owned(c, m)

(* A row stays as it is, or is deleted. *)
RowKept(m) ==
  \/ status'[m] = "purged"
  \/ status'[m] = status[m] /\ timer'[m] = timer[m] /\ attempt'[m] = attempt[m]

(* A step preserves ownership when it gives nobody a message and keeps the *)
(* rows of those that are still in someone's hands.                        *)
LEMMA OwnKept ==
  ASSUME TypeOK, OwnInv, since' = since,
         \A c \in Consumers, m \in Jobs : Has(c, m)' =>
           /\ Has(c, m) /\ RowKept(m)
           /\ (m \in held[c])' => m \in held[c]
           /\ Nacking(c, m)' => Nacking(c, m) /\ nacking'[c] = nacking[c]
  PROVE  OwnInv'
<1> SUFFICES ASSUME NEW c \in Consumers, NEW m \in Jobs, Has(c, m)' PROVE Owned(c, m)'
  BY DEF OwnInv
<1>1. Has(c, m) /\ RowKept(m) /\ Owned(c, m)
  BY DEF OwnInv
<1>2. ~(m \in held[c] /\ Nacking(c, m))'
  BY <1>1 DEF Owned
<1>3. \A d \in Consumers : Has(d, m)' => d = c
  BY <1>1 DEF Owned
<1> QED BY <1>1, <1>2, <1>3 DEF Owned, RowKept

(* A waiting message is in nobody's hands. *)
LEMMA WaitingIsFree ==
  ASSUME OwnInv, NEW c \in Consumers, NEW m \in Jobs, status[m] \in Waiting
  PROVE  ~Has(c, m)
BY DEF OwnInv, Owned, Waiting

(* A delivery of waiting messages gives them to one consumer alone. *)
LEMMA OwnDeliver ==
  ASSUME TypeOK, OwnInv, NEW c \in Consumers, NEW S \in SUBSET Jobs, Deliver(c, S),
         \A m \in S : status[m] \in Waiting, UNCHANGED nacking
  PROVE  OwnInv'
<1> SUFFICES ASSUME NEW d \in Consumers, NEW m \in Jobs, Has(d, m)' PROVE Owned(d, m)'
  BY DEF OwnInv
<1>1. \A e \in Consumers : Nacking(e, m)' <=> Nacking(e, m)
  BY DEF Nacking
<1>2. \A e \in Consumers : (m \in held[e])' <=> m \in held[e] \/ (e = c /\ m \in S)
  BY DEF Deliver, TypeOK
<1>3. \A e \in Consumers : Has(e, m)' <=> Has(e, m) \/ (e = c /\ m \in S)
  BY <1>1, <1>2 DEF Has
<1>4. CASE m \in S
  <2>1. d = c /\ \A e \in Consumers : ~Has(e, m)
    BY <1>3, <1>4, WaitingIsFree
  <2>2. status'[m] = "running" /\ timer'[m] = 0 /\ since'[c][m] = 0 /\ 0 < StaleAfter
    BY <1>4, JobTableAssumption
       DEF JobTableAssumption, Deliver, ClaimRows, WriteRows, TypeOK, TableTypeOK
  <2>3. ~Nacking(c, m)' /\ \A e \in Consumers : Has(e, m)' => e = c
    BY <1>1, <1>3, <2>1 DEF Has
  <2> QED BY <2>1, <2>2, <2>3 DEF Owned
<1>5. CASE m \notin S
  <2>1. Has(d, m) /\ Owned(d, m)
    BY <1>3, <1>5 DEF OwnInv
  <2>2. /\ status'[m] = status[m] /\ timer'[m] = timer[m] /\ attempt'[m] = attempt[m]
        /\ since'[d][m] = since[d][m]
    BY <1>5 DEF Deliver, ClaimRows, WriteRows, TypeOK, TableTypeOK
  <2> QED BY <1>1, <1>2, <1>3, <1>5, <2>1, <2>2 DEF Owned
<1> QED BY <1>4, <1>5

(* The steps of a consumer. *)
LEMMA OwnConsumer ==
  ASSUME TypeOK, OwnInv, Orderly, NEW c \in Consumers, ConsumerNext(c)
  PROVE  OwnInv'
<1>1. CASE Receive(c)
  <2>1. CASE AtomicFetch
    <3>1. PICK S \in SUBSET Due : Deliver(c, S)
      BY <1>1, <2>1 DEF Receive
    <3> QED BY <1>1, <3>1, OwnDeliver DEF Receive, Due
  <2>2. CASE ~AtomicFetch
    BY <1>1, <2>2, OwnKept DEF Receive, Has, Nacking, RowKept
  <2> QED BY <2>1, <2>2
<1>2. ASSUME NEW m \in Jobs, ClaimPicked(c, m) PROVE OwnInv'
  <2>1. CASE status[m] \in Waiting
    BY <1>2, <2>1, OwnDeliver DEF ClaimPicked
  <2>2. CASE status[m] \notin Waiting
    BY <1>2, <2>2, OwnKept DEF ClaimPicked, Has, Nacking, RowKept
  <2> QED BY <2>1, <2>2
<1>3. ASSUME NEW m \in Jobs, Ack(c, m) PROVE OwnInv'
  <2>1. /\ m \in held[c] /\ held' = [held EXCEPT ![c] = @ \ {m}]
        /\ UNCHANGED <<attempt, since, nacking>>
    BY <1>3 DEF Ack, Settle
  <2>2. Owned(c, m)
    BY <2>1 DEF OwnInv, Has
  <2>3. \A k \in Jobs : k # m => status'[k] = status[k] /\ timer'[k] = timer[k]
    BY <1>3 DEF Ack, WriteRow, TypeOK, TableTypeOK
  <2>4. \A d \in Consumers : ~Has(d, m)'
    BY <2>1, <2>2 DEF Owned, Has, Nacking, TypeOK
  <2>5. \A d \in Consumers, k \in Jobs : (k \in held[d])' => k \in held[d]
    BY <2>1 DEF TypeOK
  <2> QED BY <2>1, <2>3, <2>4, <2>5, OwnKept DEF RowKept, Has, Nacking
<1>4. ASSUME NEW m \in Jobs, NackRead(c, m) PROVE OwnInv'
  <2>1. /\ m \in held[c] /\ held' = [held EXCEPT ![c] = @ \ {m}]
        /\ UNCHANGED <<status, attempt, timer, since>>
        /\ nacking[c] = NoNack
    BY <1>4 DEF NackRead, Settle, rowVars
  <2>2. \A d \in Consumers, k \in Jobs : (k \in held[d])' => k \in held[d] /\ (d # c \/ k # m)
    BY <2>1 DEF TypeOK
  <2>3. CASE status[m] # "running"
    <3>1. UNCHANGED nacking
      BY <1>4, <2>3 DEF NackRead
    <3> QED BY <2>1, <2>2, <3>1, OwnKept DEF RowKept, Has, Nacking
  <2>4. CASE status[m] = "running"
    <3>1. nacking' = [nacking EXCEPT ![c] = [msg |-> m, seen |-> attempt[m]]]
      BY <1>4, <2>4 DEF NackRead
    <3>2. \A d \in Consumers, k \in Jobs :
            Nacking(d, k)' <=> Nacking(d, k) \/ (d = c /\ k = m)
      BY <2>1, <3>1 DEF Nacking, TypeOK, NoNack
    <3>3. nacking'[c].seen = attempt[m] /\ \A d \in Consumers \ {c} : nacking'[d] = nacking[d]
      BY <3>1 DEF TypeOK
    <3>4. \A d \in Consumers, k \in Jobs : Has(d, k)' => Has(d, k)
      BY <2>1, <2>2, <3>2 DEF Has
    <3>5. ASSUME NEW d \in Consumers, NEW k \in Jobs, Has(d, k)' PROVE Owned(d, k)'
      <4>1. Owned(d, k)
        BY <3>4, <3>5 DEF OwnInv
      <4>2. Nacking(d, k)' => nacking'[d].seen = attempt[k] \/ status[k] # "running"
        BY <2>1, <3>2, <3>3, <4>1 DEF Owned, Nacking
      <4>3. ~((k \in held[d])' /\ Nacking(d, k)')
        BY <2>2, <3>2, <4>1 DEF Owned
      <4> QED BY <2>1, <3>4, <4>1, <4>2, <4>3 DEF Owned
    <3> QED BY <3>5 DEF OwnInv
  <2> QED BY <2>3, <2>4
<1>5. CASE NackWrite(c)
  <2>1. /\ nacking[c] # NoNack /\ nacking' = [nacking EXCEPT ![c] = NoNack]
        /\ UNCHANGED <<attempt, held, since>>
    BY <1>5 DEF NackWrite
  <2>2. PICK m \in Jobs : m = nacking[c].msg /\ Nacking(c, m)
    BY <2>1 DEF Nacking, TypeOK, Nack
  <2>3. Owned(c, m)
    BY <2>2 DEF OwnInv, Has
  <2>4. \A k \in Jobs : k # m => status'[k] = status[k] /\ timer'[k] = timer[k]
    BY <1>5, <2>2 DEF NackWrite, WriteRow, TypeOK, TableTypeOK
  <2>5. \A d \in Consumers, k \in Jobs : Nacking(d, k)' => /\ Nacking(d, k) /\ d # c
                                                         /\ nacking'[d] = nacking[d]
    BY <2>1 DEF Nacking, TypeOK
  <2>6. \A d \in Consumers : ~Has(d, m)'
    BY <2>1, <2>2, <2>3, <2>5 DEF Owned, Has
  <2> QED BY <2>1, <2>4, <2>5, <2>6, OwnKept DEF RowKept, Has
<1>6. CASE NackFails(c) \/ Forget(c)
  <2>1. UNCHANGED <<status, attempt, timer, since>>
    BY <1>6 DEF NackFails, Forget, rowVars
  <2>2. \A d \in Consumers, k \in Jobs : (k \in held[d])' => k \in held[d]
    BY <1>6 DEF NackFails, Forget, TypeOK
  <2>3. \A d \in Consumers, k \in Jobs :
          Nacking(d, k)' => Nacking(d, k) /\ nacking'[d] = nacking[d]
    BY <1>6 DEF NackFails, Forget, Nacking, TypeOK
  <2> QED BY <2>1, <2>2, <2>3, OwnKept DEF RowKept, Has
<1> QED BY <1>1, <1>2, <1>3, <1>4, <1>5, <1>6 DEF ConsumerNext

(* The steps of the server, of operators and of time. *)
LEMMA OwnServer ==
  ASSUME TypeOK, OwnInv, Orderly, [Next]_vars, ~\E c \in Consumers : ConsumerNext(c)
  PROVE  OwnInv'
<1>1. ASSUME NEW S, NEW st, WriteRows(S, st), UNCHANGED consumerVars,
             \A m \in S \cap Jobs : attempt'[m] = attempt[m] \/ status[m] # "running",
             \A m \in Jobs \ S : attempt'[m] = attempt[m],
             st = "purged" \/ \A m \in S \cap Jobs, c \in Consumers : ~Has(c, m)
      PROVE  OwnInv'
  <2>1. \A c \in Consumers, m \in Jobs : Has(c, m) => RowKept(m)
    BY <1>1 DEF RowKept, WriteRows, TypeOK, TableTypeOK
  <2> QED BY <1>1, <2>1, OwnKept DEF consumerVars, Has, Nacking
<1>2. ASSUME NEW m \in Jobs, status[m] \notin {"running", "purged"}, NEW c \in Consumers
      PROVE  ~Has(c, m)
  BY <1>2 DEF OwnInv, Owned
<1>3. ASSUME NEW m \in Jobs, Insert(m) PROVE OwnInv'
  <2>1. \A c \in Consumers, k \in Jobs : Has(c, k) => RowKept(k)
    BY <1>2, <1>3 DEF Insert, InsertRow, consumerVars, RowKept, TypeOK, TableTypeOK
  <2> QED BY <1>3, <2>1, OwnKept DEF Insert, consumerVars, Has, Nacking
<1>4. ASSUME NEW S \in SUBSET Jobs, ResetMessages(S),
             \A m \in S : status[m] \notin {"running", "purged"}
      PROVE  OwnInv'
  <2>1. \A m \in Jobs \ S : attempt'[m] = attempt[m]
    BY <1>4 DEF ResetMessages, ResetRows, TypeOK, TableTypeOK
  <2> QED BY <1>1, <1>2, <1>4, <2>1 DEF ResetMessages, ResetRows, consumerVars
<1>5. ASSUME NEW m \in Jobs, RetryMessage(m) PROVE OwnInv'
  BY <1>4, <1>5 DEF RetryMessage, Retriable
<1>6. CASE RetryAll
  BY <1>4, <1>6 DEF RetryAll, DeadMessages
<1>7. CASE RetryDead
  BY <1>1, <1>2, <1>7 DEF RetryDead, DeadMessages, consumerVars
<1>8. CASE RecoverExpired
  <2>1. \A m \in Stale, c \in Consumers : ~Has(c, m)
    BY JobTableAssumption DEF JobTableAssumption, Stale, IsStale, OwnInv, Owned, TypeOK, TableTypeOK
  <2> QED BY <1>1, <1>8, <2>1 DEF RecoverExpired, Stale
<1>9. CASE CleanupOld
  BY <1>1, <1>9 DEF CleanupOld, PurgeOldRows
<1>10. CASE ExpireOld
  BY <1>1, <1>2, <1>10 DEF ExpireOld, ExpireRows, Waiting
<1>11. CASE Drain
  BY <1>1, <1>11 DEF Drain
<1>12. CASE UNCHANGED vars
  BY <1>12, OwnKept DEF vars, rowVars, consumerVars, Has, Nacking, RowKept
<1>13. CASE Tick
  <2>1. \A c \in Consumers, m \in Jobs :
          /\ Has(c, m)' <=> Has(c, m)
          /\ Nacking(c, m)' <=> Nacking(c, m)
    BY <1>13 DEF Tick, Has, Nacking
  <2>2. ASSUME NEW c \in Consumers, NEW m \in Jobs, Has(c, m), status[m] = "running"
        PROVE  timer'[m] = since'[c][m] /\ timer'[m] < StaleAfter
    <3>1. since[c][m] + 1 < StaleAfter /\ timer[m] = since[c][m] /\ since[c][m] \in Nat
      BY <1>13, <2>2, JobTableAssumption DEF JobTableAssumption, Tick, OwnInv, Owned, TypeOK
    <3>2. since'[c][m] = since[c][m] + 1
      BY <1>13, <2>2, <3>1, JobTableAssumption DEF JobTableAssumption, Tick, Bump, Lower
    <3>3. timer'[m] = timer[m] + 1
      BY <1>13, <2>2, <3>1, JobTableAssumption
         DEF JobTableAssumption, Tick, TableTick, Elapse, Bump, Lower, Waiting
    <3> QED BY <3>1, <3>2, <3>3
  <2>3. UNCHANGED <<status, attempt, held, nacking>>
    BY <1>13 DEF Tick, TableTick
  <2> QED BY <2>1, <2>2, <2>3 DEF OwnInv, Owned
<1> QED BY <1>3, <1>5, <1>6, <1>7, <1>8, <1>9, <1>10, <1>11, <1>12, <1>13 DEF Next

(* With orderly consumers whoever has a message has it alone, and its row  *)
(* is running (or drained): the promise of the visibility timeout.         *)
LEMMA OwnCorrect == ASSUME Orderly PROVE Spec => []OwnInv
<1>1. Init => OwnInv
  BY DEF Init, OwnInv, Has, Nacking
<1>2. TypeOK /\ OwnInv /\ [Next]_vars => OwnInv'
  BY OwnConsumer, OwnServer
<1> QED BY <1>1, <1>2, TypeCorrect, PTL DEF Spec

THEOREM HolderOwnsCorrect == Spec => []HolderOwns
<1>1. CASE Orderly
  <2>1. OwnInv => HolderOwns
    BY DEF OwnInv, Owned, HolderOwns
  <2> QED BY <1>1, <2>1, OwnCorrect, PTL
<1>2. CASE ~Orderly
  <2>1. HolderOwns
    BY <1>2 DEF HolderOwns
  <2> QED BY <2>1, PTL
<1> QED BY <1>1, <1>2

-----------------------------------------------------------------------------
(* Nothing is dead-lettered early.                                         *)

SpentOrExpired(m) == attempt[m] = MaxAttempts \/ TtlExpired(m)

(* A step that keeps the counters and the clocks of dead rows, and makes   *)
(* rows dead only when they are spent, preserves DeadIsSpent.              *)
LEMMA DeadKept ==
  ASSUME Orderly, DeadIsSpent,
         \A m \in Jobs : status'[m] = "dead" =>
           SpentOrExpired(m)' \/ (status[m] = "dead" /\ attempt'[m] = attempt[m] /\ age'[m] = age[m])
  PROVE  DeadIsSpent'
BY DEF DeadIsSpent, SpentOrExpired, TtlExpired

LEMMA DeadStep ==
  ASSUME Orderly, TypeOK, OwnInv, DeadIsSpent, [Next]_vars
  PROVE  DeadIsSpent'
<1> USE DEF TypeOK, TableTypeOK
<1>1. ASSUME NEW c \in Consumers, ConsumerNext(c) PROVE DeadIsSpent'
  <2>1. ASSUME NEW S \in SUBSET Jobs, Deliver(c, S), UNCHANGED age PROVE DeadIsSpent'
    BY <2>1, DeadKept DEF Deliver, ClaimRows, WriteRows
  <2>2. CASE Receive(c)
    <3>1. CASE AtomicFetch
      <4>1. PICK S \in SUBSET Due : Deliver(c, S)
        BY <2>2, <3>1 DEF Receive
      <4> QED BY <2>1, <2>2, <4>1 DEF Due, Receive
    <3>2. CASE ~AtomicFetch
      BY <2>2, <3>2, DeadKept DEF Receive
    <3> QED BY <3>1, <3>2
  <2>3. ASSUME NEW k \in Jobs, ClaimPicked(c, k) PROVE DeadIsSpent'
    <3>1. CASE status[k] \in Waiting
      BY <2>1, <2>3, <3>1 DEF ClaimPicked
    <3>2. CASE status[k] \notin Waiting
      BY <2>3, <3>2, DeadKept DEF ClaimPicked
    <3> QED BY <3>1, <3>2
  <2>4. ASSUME NEW k \in Jobs, Ack(c, k) PROVE DeadIsSpent'
    BY <2>4, DeadKept DEF Ack, WriteRow
  <2>5. ASSUME NEW k \in Jobs, NackRead(c, k) PROVE DeadIsSpent'
    BY <2>5, DeadKept DEF NackRead, rowVars
  <2>6. CASE NackWrite(c)
    <3>1. PICK k \in Jobs : k = nacking[c].msg /\ Nacking(c, k)
      BY <2>6 DEF NackWrite, Nacking, Nack
    <3>2. Owned(c, k)
      BY <3>1 DEF OwnInv, Has
    <3>3. UNCHANGED <<attempt, age>> /\ nacking[c].seen \in Nat
      BY <2>6 DEF NackWrite, Nack
    <3>4. ASSUME NEW m \in Jobs, status'[m] = "dead", status[m] # "dead" PROVE attempt'[m] = MaxAttempts
      <4>1. m = k /\ status[k] = "running" /\ nacking[c].seen >= MaxAttempts
        BY <2>6, <3>1, <3>4 DEF NackWrite, NackApplies, Spent, WriteRow
      <4>2. nacking[c].seen = attempt[m]
        BY <3>1, <3>2, <4>1 DEF Owned
      <4>3. attempt[m] \in 0..MaxAttempts /\ MaxAttempts \in Nat
        BY JobTableAssumption DEF JobTableAssumption
      <4>4. attempt[m] = MaxAttempts
        <5>1. attempt[m] >= MaxAttempts
          BY <4>1, <4>2
        <5> HIDE DEF TypeOK, TableTypeOK
        <5> QED BY <4>3, <5>1
      <4>5. attempt'[m] = attempt[m]
        BY <3>3
      <4> QED BY <4>4, <4>5
    <3> QED BY <3>3, <3>4, DeadKept DEF SpentOrExpired
  <2>7. CASE NackFails(c) \/ Forget(c)
    BY <2>7, DeadKept DEF NackFails, Forget, rowVars
  <2> QED BY <1>1, <2>2, <2>3, <2>4, <2>5, <2>6, <2>7 DEF ConsumerNext
<1>2. ASSUME NEW k \in Jobs, Insert(k) PROVE DeadIsSpent'
  BY <1>2, DeadKept DEF Insert, InsertRow
<1>3. ASSUME NEW S, ResetMessages(S) PROVE DeadIsSpent'
  BY <1>3, DeadKept DEF ResetMessages, ResetRows, WriteRows
<1>4. CASE RecoverExpired
  BY <1>4, DeadKept DEF RecoverExpired, WriteRows
<1>5. CASE CleanupOld
  BY <1>5, DeadKept DEF CleanupOld, PurgeOldRows, WriteRows
<1>6. CASE ExpireOld
  <2>1. \A m \in Jobs : status'[m] = "dead" /\ status[m] # "dead" => TtlExpired(m)'
    BY <1>6 DEF ExpireOld, ExpireRows, WriteRows, TtlExpired
  <2> QED BY <1>6, <2>1, DeadKept DEF ExpireOld, SpentOrExpired
<1>7. CASE RetryDead
  BY <1>7, DeadKept DEF RetryDead, WriteRows
<1>8. CASE Drain
  BY <1>8, DeadKept DEF Drain, WriteRows
<1>9. CASE Tick
  <2>1. \A m \in Jobs : status'[m] = "dead" => status[m] = "dead" /\ attempt'[m] = attempt[m]
    BY <1>9 DEF Tick, TableTick
  <2>2. \A m \in Jobs : status[m] = "dead" /\ TtlExpired(m) => TtlExpired(m)'
    BY <1>9, JobTableAssumption DEF JobTableAssumption, Tick, TableTick, TtlExpired, Bump, Lower
  <2> QED BY <2>1, <2>2, DeadKept DEF SpentOrExpired, DeadIsSpent
<1>10. CASE UNCHANGED vars
  BY <1>10, DeadKept DEF vars, rowVars
<1> QED BY <1>1, <1>2, <1>3, <1>4, <1>5, <1>6, <1>7, <1>8, <1>9, <1>10
        DEF Next, RetryMessage, RetryAll

(* Orderly consumers lose no message to the dead-letter queue before its   *)
(* attempts are spent or its TTL is over.                                  *)
THEOREM DeadSpentCorrect == Spec => []DeadIsSpent
<1>1. CASE Orderly
  <2>1. Init => DeadIsSpent
    BY DEF Init, TableInit, DeadIsSpent
  <2>2. TypeOK /\ OwnInv /\ DeadIsSpent /\ [Next]_vars => DeadIsSpent'
    BY <1>1, DeadStep
  <2> QED BY <1>1, <2>1, <2>2, OwnCorrect, TypeCorrect, PTL DEF Spec
<1>2. CASE ~Orderly
  <2>1. DeadIsSpent
    BY <1>2 DEF DeadIsSpent
  <2> QED BY <2>1, PTL
<1> QED BY <1>1, <1>2

-----------------------------------------------------------------------------
(* The delivery budget.  A nack counts against it by the attempts it has   *)
(* read, and it may read them long after the delivery it belongs to; but   *)
(* every delivery is nacked once at most, so that as long as attempts are  *)
(* left, the nacks under way and those still to come are paid by the       *)
(* lapses and the delivery in flight; after that only the nacks that had   *)
(* read a smaller count can still return the message.                      *)
Holders(m) == {c \in Consumers : m \in held[c]}
Returning(m) == {c \in Consumers : Nacking(c, m) /\ nacking[c].seen < MaxAttempts}

Flight(m) == IF status[m] = "running" THEN 1 ELSE 0
Live == Waiting \cup {"none", "running"}

WithinBudget(m) == delivered[m] <= MaxAttempts + granted[m]

Early(m) ==
  /\ delivered[m] <= attempt[m]
  /\ Cardinality(Holders(m)) + Cardinality(Returning(m)) <= granted[m] + Flight(m)

Late(m) ==
  delivered[m] + Cardinality(Returning(m)) + 1 <= MaxAttempts + granted[m] + Flight(m)

FewHold(m) == IsFiniteSet(Holders(m)) /\ IsFiniteSet(Returning(m))

Paid(m) ==
  \/ granted[m] = HistoryCap
  \/ status[m] \notin Live /\ WithinBudget(m)
  \/ /\ status[m] \in Live
     /\ attempt[m] < MaxAttempts => Early(m)
     /\ attempt[m] >= MaxAttempts => Late(m)

BudgetInv == disturbed = 0 => \A m \in Jobs : FewHold(m) /\ Paid(m)

(* The numbers of one message, and what they say of its budget.            *)
LEMMA Numbers ==
  ASSUME TypeOK, NEW m \in Jobs
  PROVE  /\ attempt[m] \in Nat /\ attempt[m] <= MaxAttempts
         /\ delivered[m] \in Nat /\ delivered[m] <= HistoryCap
         /\ granted[m] \in Nat /\ granted[m] <= HistoryCap
         /\ Flight(m) \in {0, 1}
         /\ MaxAttempts \in Nat /\ MaxAttempts > 0 /\ HistoryCap \in Nat
BY JobTableAssumption, PullQueueAssumption
   DEF JobTableAssumption, PullQueueAssumption, TypeOK, TableTypeOK, Flight

LEMMA PaidWithin ==
  ASSUME TypeOK, NEW m \in Jobs, FewHold(m), Paid(m)
  PROVE  WithinBudget(m)
<1> DEFINE h == Cardinality(Holders(m))
           r == Cardinality(Returning(m))
<1>1. h \in Nat /\ r \in Nat
  BY FS_CardinalityType DEF FewHold
<1>2. /\ attempt[m] < MaxAttempts \/ attempt[m] >= MaxAttempts
      /\ Early(m) => delivered[m] <= attempt[m]
      /\ Late(m) => delivered[m] + r + 1 <= MaxAttempts + granted[m] + Flight(m)
  BY Numbers DEF Early, Late
<1> HIDE DEF h, r
<1> QED BY <1>1, <1>2, Numbers DEF Paid, WithinBudget

(* A message whose count and lapses stay as they are, which nobody comes   *)
(* to have and no consumer starts to nack, and which stays where it is or  *)
(* leaves the queue.                                                       *)
LEMMA PaidStill ==
  ASSUME TypeOK, NEW m \in Jobs, FewHold(m), Paid(m),
         attempt'[m] = attempt[m], delivered'[m] = delivered[m], granted'[m] = granted[m],
         Holders(m)' \subseteq Holders(m), Returning(m)' \subseteq Returning(m),
         status'[m] \in Live => status[m] \in Live /\ Flight(m)' = Flight(m)
  PROVE  FewHold(m)' /\ Paid(m)'
<1>1. /\ IsFiniteSet(Holders(m)') /\ Cardinality(Holders(m)') <= Cardinality(Holders(m))
      /\ Cardinality(Holders(m)) \in Nat /\ Cardinality(Holders(m)') \in Nat
  BY FS_Subset, FS_CardinalityType DEF FewHold
<1>2. /\ IsFiniteSet(Returning(m)') /\ Cardinality(Returning(m)') <= Cardinality(Returning(m))
      /\ Cardinality(Returning(m)) \in Nat /\ Cardinality(Returning(m)') \in Nat
  BY FS_Subset, FS_CardinalityType DEF FewHold
<1>3. WithinBudget(m)
  BY PaidWithin
<1>4. Paid(m)'
  BY <1>1, <1>2, <1>3, Numbers DEF Paid, Early, Late, WithinBudget
<1> QED BY <1>1, <1>2, <1>4 DEF FewHold

(* A delivery is paid by the return before it.                             *)
LEMMA PaidDelivery ==
  ASSUME TypeOK, NEW m \in Jobs, NEW c \in Consumers, FewHold(m), Paid(m),
         status[m] \in Waiting, status'[m] = "running",
         attempt'[m] = Bump(attempt[m], MaxAttempts),
         delivered'[m] = Bump(delivered[m], HistoryCap), granted'[m] = granted[m],
         Holders(m)' = Holders(m) \cup {c}, Returning(m)' = Returning(m)
  PROVE  FewHold(m)' /\ Paid(m)'
<1>1. /\ IsFiniteSet(Holders(m)') /\ Cardinality(Holders(m)') <= Cardinality(Holders(m)) + 1
      /\ Cardinality(Holders(m)) \in Nat /\ Cardinality(Holders(m)') \in Nat
      /\ IsFiniteSet(Returning(m)') /\ Cardinality(Returning(m)) \in Nat
  <2>1. /\ IsFiniteSet(Holders(m) \cup {c})
        /\ Cardinality(Holders(m) \cup {c}) =
             IF c \in Holders(m) THEN Cardinality(Holders(m)) ELSE Cardinality(Holders(m)) + 1
    BY FS_AddElement DEF FewHold
  <2>2. Cardinality(Holders(m)) \in Nat /\ Cardinality(Returning(m)) \in Nat
    BY FS_CardinalityType DEF FewHold
  <2> QED BY <2>1, <2>2 DEF FewHold
<1>2. Flight(m) = 0 /\ Flight(m)' = 1 /\ status[m] \in Live /\ status'[m] \in Live
  BY DEF Flight, Live, Waiting
<1>3. /\ attempt[m] < MaxAttempts => attempt'[m] = attempt[m] + 1
      /\ attempt[m] >= MaxAttempts => attempt'[m] = attempt[m]
      /\ delivered'[m] <= delivered[m] + 1 /\ delivered'[m] \in Nat
  BY Numbers DEF Bump, Lower
<1>4. CASE granted[m] = HistoryCap
  BY <1>1, <1>4 DEF Paid, FewHold
<1>5. CASE attempt[m] < MaxAttempts /\ Early(m)
  BY <1>1, <1>2, <1>3, <1>5, Numbers DEF Paid, Early, Late, FewHold
<1>6. CASE attempt[m] >= MaxAttempts /\ Late(m)
  BY <1>1, <1>2, <1>3, <1>6, Numbers DEF Paid, Late, FewHold
<1> QED BY <1>2, <1>4, <1>5, <1>6, Numbers DEF Paid

(* A nack that puts the message back is one less under way.                *)
LEMMA PaidReturn ==
  ASSUME TypeOK, NEW m \in Jobs, NEW c \in Returning(m), FewHold(m), Paid(m),
         status[m] = "running", status'[m] \in Waiting,
         attempt'[m] = attempt[m], delivered'[m] = delivered[m], granted'[m] = granted[m],
         Holders(m)' = Holders(m), Returning(m)' = Returning(m) \ {c}
  PROVE  FewHold(m)' /\ Paid(m)'
<1>1. /\ Cardinality(Holders(m)) \in Nat /\ Cardinality(Returning(m)) \in Nat
      /\ IsFiniteSet(Holders(m)') /\ IsFiniteSet(Returning(m)')
      /\ Cardinality(Returning(m)') = Cardinality(Returning(m)) - 1
  <2>1. /\ IsFiniteSet(Returning(m) \ {c})
        /\ Cardinality(Returning(m) \ {c}) = Cardinality(Returning(m)) - 1
    BY FS_RemoveElement DEF FewHold
  <2>2. Cardinality(Holders(m)) \in Nat /\ Cardinality(Returning(m)) \in Nat
    BY FS_CardinalityType DEF FewHold
  <2> QED BY <2>1, <2>2 DEF FewHold
<1>2. Flight(m) = 1 /\ Flight(m)' = 0 /\ status[m] \in Live /\ status'[m] \in Live
  BY DEF Flight, Live, Waiting
<1>3. Paid(m)'
  BY <1>1, <1>2, Numbers DEF Paid, Early, Late
<1> QED BY <1>1, <1>3 DEF FewHold

(* A lapse is granted.                                                     *)
LEMMA PaidLapse ==
  ASSUME TypeOK, NEW m \in Jobs, FewHold(m), Paid(m),
         status[m] = "running", status'[m] \in Waiting,
         attempt'[m] = attempt[m], delivered'[m] = delivered[m],
         granted'[m] = Bump(granted[m], HistoryCap),
         Holders(m)' = Holders(m), Returning(m)' = Returning(m)
  PROVE  FewHold(m)' /\ Paid(m)'
<1>1. Cardinality(Holders(m)) \in Nat /\ Cardinality(Returning(m)) \in Nat
  BY FS_CardinalityType DEF FewHold
<1>2. Flight(m) = 1 /\ Flight(m)' = 0 /\ status[m] \in Live /\ status'[m] \in Live
  BY DEF Flight, Live, Waiting
<1>3. granted'[m] = HistoryCap \/ (granted[m] # HistoryCap /\ granted'[m] = granted[m] + 1)
  BY Numbers DEF Bump, Lower
<1>4. Paid(m)'
  BY <1>1, <1>2, <1>3, Numbers DEF Paid, Early, Late
<1> QED BY <1>4 DEF FewHold

(* A nack that has read the count is no longer to come, but under way.     *)
LEMMA PaidRead ==
  ASSUME TypeOK, NEW m \in Jobs, NEW c \in Holders(m), FewHold(m), Paid(m),
         status[m] = "running", status'[m] = status[m],
         attempt'[m] = attempt[m], delivered'[m] = delivered[m], granted'[m] = granted[m],
         Holders(m)' = Holders(m) \ {c},
         Returning(m)' = IF attempt[m] < MaxAttempts THEN Returning(m) \cup {c} ELSE Returning(m)
  PROVE  FewHold(m)' /\ Paid(m)'
<1>1. /\ Cardinality(Holders(m)) \in Nat /\ Cardinality(Returning(m)) \in Nat
      /\ IsFiniteSet(Holders(m)') /\ IsFiniteSet(Returning(m)')
      /\ Cardinality(Holders(m)') = Cardinality(Holders(m)) - 1
      /\ Cardinality(Returning(m)') \in Nat
      /\ Cardinality(Returning(m)') <= Cardinality(Returning(m)) + 1
      /\ attempt[m] >= MaxAttempts => Cardinality(Returning(m)') = Cardinality(Returning(m))
  <2>1. /\ IsFiniteSet(Holders(m) \ {c})
        /\ Cardinality(Holders(m) \ {c}) = Cardinality(Holders(m)) - 1
    BY FS_RemoveElement DEF FewHold
  <2>2. /\ IsFiniteSet(Returning(m) \cup {c})
        /\ Cardinality(Returning(m) \cup {c}) =
             IF c \in Returning(m) THEN Cardinality(Returning(m)) ELSE Cardinality(Returning(m)) + 1
    BY FS_AddElement DEF FewHold
  <2>3. Cardinality(Holders(m)) \in Nat /\ Cardinality(Returning(m)) \in Nat
    BY FS_CardinalityType DEF FewHold
  <2>4. CASE attempt[m] < MaxAttempts
    BY <2>1, <2>2, <2>3, <2>4, Numbers
  <2>5. CASE ~(attempt[m] < MaxAttempts)
    BY <2>1, <2>3, <2>5, Numbers DEF FewHold
  <2> QED BY <2>4, <2>5
<1>2. Flight(m)' = Flight(m)
  BY DEF Flight
<1>3. Paid(m)'
  BY <1>1, <1>2, Numbers DEF Paid, Early, Late, WithinBudget
<1> QED BY <1>1, <1>3 DEF FewHold

(* The consumers' side, while nothing is lost.                             *)
LEMMA BudgetDeliver ==
  ASSUME TypeOK, NEW c \in Consumers, NEW S \in SUBSET Jobs, Deliver(c, S),
         \A k \in S : status[k] \in Waiting,
         UNCHANGED <<nacking, granted>>,
         NEW m \in Jobs, FewHold(m), Paid(m)
  PROVE  FewHold(m)' /\ Paid(m)'
<1>1. Returning(m)' = Returning(m)
  BY DEF Returning, Nacking
<1>2. CASE m \in S
  <2>1. Holders(m)' = Holders(m) \cup {c}
    BY <1>2 DEF Holders, Deliver, TypeOK
  <2>2. /\ status'[m] = "running" /\ attempt'[m] = Bump(attempt[m], MaxAttempts)
        /\ delivered'[m] = Bump(delivered[m], HistoryCap)
    BY <1>2 DEF Deliver, ClaimRows, WriteRows
  <2> QED BY <1>1, <1>2, <2>1, <2>2, PaidDelivery
<1>3. CASE m \notin S
  <2>1. Holders(m)' = Holders(m)
    BY <1>3 DEF Holders, Deliver, TypeOK
  <2>2. status'[m] = status[m] /\ attempt'[m] = attempt[m] /\ delivered'[m] = delivered[m]
    BY <1>3 DEF Deliver, ClaimRows, WriteRows
  <2> QED BY <1>1, <2>1, <2>2, PaidStill DEF Flight
<1> QED BY <1>2, <1>3

LEMMA BudgetNack ==
  ASSUME TypeOK, NEW c \in Consumers, NackWrite(c), NEW m \in Jobs, FewHold(m), Paid(m)
  PROVE  FewHold(m)' /\ Paid(m)'
<1>0. PICK k \in Jobs : k = nacking[c].msg /\ Nacking(c, k)
  BY DEF NackWrite, Nacking, Nack, TypeOK
<1>1. /\ UNCHANGED <<attempt, held, historyVars>>
      /\ nacking' = [nacking EXCEPT ![c] = NoNack]
      /\ nacking[c].seen \in Nat
  BY DEF NackWrite, Nack, TypeOK
<1>2. Holders(m)' = Holders(m) /\ Returning(m)' = Returning(m) \ {c}
  BY <1>1 DEF Holders, Returning, Nacking, TypeOK
<1>3. CASE status'[m] \notin Live \/ status'[m] = status[m]
  BY <1>1, <1>2, <1>3, PaidStill DEF Flight, historyVars
<1>4. CASE status'[m] \in Live /\ status'[m] # status[m]
  <2>1. m = k /\ ~Spent(nacking[c].seen) /\ status[k] = "running" /\ status'[k] = "retryable"
    BY <1>0, <1>4 DEF NackWrite, NackApplies, WriteRow, TypeOK, TableTypeOK, Live, Waiting
  <2>2. c \in Returning(m)
    BY <1>0, <1>1, <2>1, JobTableAssumption DEF JobTableAssumption, Returning, Spent
  <2> QED BY <1>1, <1>2, <2>1, <2>2, PaidReturn DEF Waiting, historyVars
<1> QED BY <1>3, <1>4

LEMMA BudgetRead ==
  ASSUME TypeOK, NEW c \in Consumers, NEW k \in Jobs, NackRead(c, k), ~Disturb,
         NEW m \in Jobs, FewHold(m), Paid(m)
  PROVE  FewHold(m)' /\ Paid(m)'
<1>1. /\ k \in held[c] /\ nacking[c] = NoNack
      /\ held' = [held EXCEPT ![c] = @ \ {k}]
      /\ UNCHANGED <<rowVars, historyVars>>
  BY DEF NackRead, Settle
<1>2. /\ status[k] = "running" => nacking' = [nacking EXCEPT ![c] = [msg |-> k, seen |-> attempt[k]]]
      /\ status[k] # "running" => nacking' = nacking
  BY DEF NackRead
<1>3. CASE m = k /\ status[k] = "running"
  <2>1. c \in Holders(m) /\ Holders(m)' = Holders(m) \ {c}
    BY <1>1, <1>3 DEF Holders, TypeOK
  <2>2. nacking'[c] = [msg |-> k, seen |-> attempt[k]]
        /\ \A d \in Consumers \ {c} : nacking'[d] = nacking[d]
    BY <1>2, <1>3 DEF TypeOK
  <2>3. nacking'[c] # NoNack /\ nacking'[c].msg = m /\ nacking'[c].seen = attempt[m]
    BY <1>3, <2>2 DEF NoNack
  <2>4. Returning(m)' = IF attempt[m] < MaxAttempts THEN Returning(m) \cup {c} ELSE Returning(m)
    <3>1. c \notin Returning(m)
      BY <1>1 DEF Returning, Nacking
    <3> QED BY <2>2, <2>3, <3>1 DEF Returning, Nacking
  <2> QED BY <1>1, <1>3, <2>1, <2>4, PaidRead DEF rowVars, historyVars
<1>4. CASE ~(m = k /\ status[k] = "running")
  <2>1. Holders(m)' \subseteq Holders(m)
    BY <1>1 DEF Holders, TypeOK
  <2>2. Returning(m)' \subseteq Returning(m)
    <3>1. CASE status[k] = "running"
      <4>1. nacking'[c] = [msg |-> k, seen |-> attempt[k]]
            /\ \A d \in Consumers \ {c} : nacking'[d] = nacking[d]
        BY <1>2, <3>1 DEF TypeOK
      <4>2. nacking'[c].msg # m
        BY <1>4, <3>1, <4>1
      <4> QED BY <4>1, <4>2 DEF Returning, Nacking
    <3>2. CASE status[k] # "running"
      BY <1>2, <3>2 DEF Returning, Nacking
    <3> QED BY <3>1, <3>2
  <2> QED BY <1>1, <2>1, <2>2, PaidStill DEF Flight, rowVars, historyVars
<1> QED BY <1>3, <1>4

LEMMA BudgetConsumer ==
  ASSUME TypeOK, NEW c \in Consumers, ConsumerNext(c), ~Disturb,
         NEW m \in Jobs, FewHold(m), Paid(m)
  PROVE  FewHold(m)' /\ Paid(m)'
<1>1. CASE Receive(c)
  <2>1. CASE AtomicFetch
    <3>1. PICK S \in SUBSET Due : Deliver(c, S)
      BY <1>1, <2>1 DEF Receive
    <3> QED BY <1>1, <3>1, BudgetDeliver DEF Receive, Due
  <2>2. CASE ~AtomicFetch
    <3>1. UNCHANGED <<status, attempt, held, nacking, delivered, granted>>
      BY <1>1, <2>2 DEF Receive
    <3> QED BY <3>1, PaidStill DEF Flight, Holders, Returning, Nacking
  <2> QED BY <2>1, <2>2
<1>2. ASSUME NEW k \in Jobs, ClaimPicked(c, k) PROVE FewHold(m)' /\ Paid(m)'
  <2>1. CASE status[k] \in Waiting
    BY <1>2, <2>1, BudgetDeliver DEF ClaimPicked
  <2>2. CASE status[k] \notin Waiting
    <3>1. UNCHANGED <<status, attempt, held, nacking, delivered, granted>>
      BY <1>2, <2>2 DEF ClaimPicked
    <3> QED BY <3>1, PaidStill DEF Flight, Holders, Returning, Nacking
  <2> QED BY <2>1, <2>2
<1>3. ASSUME NEW k \in Jobs, Ack(c, k) PROVE FewHold(m)' /\ Paid(m)'
  <2>1. /\ held' = [held EXCEPT ![c] = @ \ {k}]
        /\ UNCHANGED <<attempt, nacking, historyVars>>
    BY <1>3 DEF Ack, Settle
  <2>2. Holders(m)' \subseteq Holders(m) /\ Returning(m)' = Returning(m)
    BY <2>1 DEF Holders, Returning, Nacking, TypeOK
  <2>3. status'[m] \notin Live \/ status'[m] = status[m]
    BY <1>3 DEF Ack, WriteRow, TypeOK, TableTypeOK, Live, Waiting
  <2> QED BY <2>1, <2>2, <2>3, PaidStill DEF Flight, historyVars
<1> QED BY <1>1, <1>2, <1>3, BudgetNack, BudgetRead DEF ConsumerNext, NackFails, Forget

(* The worker's side, and what only a disturbance can do.                  *)
LEMMA BudgetNext == TypeOK /\ BudgetInv /\ [Next]_vars => BudgetInv'
<1> SUFFICES ASSUME TypeOK, BudgetInv, [Next]_vars, disturbed' = 0, NEW m \in Jobs
             PROVE  FewHold(m)' /\ Paid(m)'
  BY DEF BudgetInv
<1>0. ~Disturb
  BY DEF Disturb, TypeOK
<1>1. FewHold(m) /\ Paid(m)
  BY <1>0 DEF BudgetInv, Next, ConsumerNext, Receive, ClaimPicked, Ack, NackRead, Settle,
              NackWrite, NackFails, Forget, Insert, RetryMessage, RetryAll, ResetMessages,
              RecoverExpired, CleanupOld, ExpireOld, RetryDead, Drain, Tick, vars, Undisturbed
<1>2. ASSUME UNCHANGED <<held, nacking, historyVars>>, attempt'[m] = attempt[m],
             status'[m] \in Live => status[m] \in Live /\ Flight(m)' = Flight(m)
      PROVE  FewHold(m)' /\ Paid(m)'
  <2>1. Holders(m)' = Holders(m) /\ Returning(m)' = Returning(m)
    BY <1>2 DEF Holders, Returning, Nacking
  <2> QED BY <1>1, <1>2, <2>1, PaidStill DEF historyVars
<1>3. ASSUME NEW k \in Jobs, Insert(k) PROVE FewHold(m)' /\ Paid(m)'
  BY <1>2, <1>3 DEF Insert, InsertRow, consumerVars, TypeOK, TableTypeOK, Flight, Live, Waiting
<1>4. CASE RecoverExpired
  <2>1. Holders(m)' = Holders(m) /\ Returning(m)' = Returning(m)
    BY <1>4 DEF RecoverExpired, consumerVars, Holders, Returning, Nacking
  <2>2. CASE m \in Stale
    BY <1>1, <1>4, <2>1, <2>2, PaidLapse
       DEF RecoverExpired, WriteRows, Grant, Stale, IsStale, Waiting
  <2>3. CASE m \notin Stale
    BY <1>1, <1>4, <2>1, <2>3, PaidStill DEF RecoverExpired, WriteRows, Grant, Flight
  <2> QED BY <2>2, <2>3
<1>5. CASE CleanupOld
  BY <1>2, <1>5 DEF CleanupOld, consumerVars, PurgeOldRows, WriteRows, Flight, Live, Waiting
<1>6. CASE ExpireOld
  BY <1>2, <1>6 DEF ExpireOld, consumerVars, ExpireRows, WriteRows, Flight, Live, Waiting
<1>7. CASE Tick
  BY <1>2, <1>7 DEF Tick, TableTick, Flight
<1>8. CASE UNCHANGED vars
  BY <1>2, <1>8 DEF vars, rowVars, consumerVars, Flight
<1> QED BY <1>0, <1>1, <1>3, <1>4, <1>5, <1>6, <1>7, <1>8, BudgetConsumer
        DEF Next, RetryMessage, RetryAll, ResetMessages, RetryDead, Drain

(* Deliveries exceed max_attempts only by the times a message lapsed,      *)
(* however many consumers there are and however stale their nacks.         *)
THEOREM BudgetKept == Spec => []DeliveryBudget
<1>1. Init => BudgetInv
  <2> SUFFICES ASSUME Init, NEW m \in Jobs PROVE FewHold(m) /\ Paid(m)
    BY DEF BudgetInv
  <2>1. Holders(m) = {} /\ Returning(m) = {}
    BY DEF Init, Holders, Returning, Nacking
  <2>2. /\ status[m] = "none" /\ attempt[m] = 0 /\ delivered[m] = 0 /\ granted[m] = 0
        /\ MaxAttempts > 0 /\ MaxAttempts \in Nat
    BY JobTableAssumption DEF JobTableAssumption, Init, TableInit
  <2> QED BY <2>1, <2>2, FS_EmptySet DEF FewHold, Paid, Early, Flight, Live
<1>2. TypeOK /\ BudgetInv => DeliveryBudget
  BY PaidWithin DEF BudgetInv, DeliveryBudget, WithinBudget
<1> QED BY <1>1, <1>2, BudgetNext, TypeCorrect, PTL DEF Spec
=============================================================================
