------------------------ MODULE CircuitBreaker_proofs ------------------------
(***************************************************************************)
(* Proofs about CircuitBreaker, for any number of tasks, any threshold and *)
(* any cooldown, with every interleaving of the calls: type correctness,   *)
(* that a set flag has an owner, one test at a time, and that counter and  *)
(* circuit agree.                                                          *)
(***************************************************************************)
EXTENDS CircuitBreaker, TLAPS

-----------------------------------------------------------------------------
(* Type correctness.                                                       *)

(* The initial state has the right types. *)
LEMMA InitType == Init => TypeOK
<1> SUFFICES ASSUME Init PROVE TypeOK
  OBVIOUS
<1>1. probe \in [Tasks -> BOOLEAN] /\ pc \in [Tasks -> Step]
  BY DEF Init, Step
<1>2. /\ failures \in 0..Threshold + 1 /\ since \in 0..Cooldown
      /\ count \in [Tasks -> 0..Threshold + 1] /\ lasting \in [Tasks -> 0..Deadline]
      /\ disturbed \in 0..MaxDisturbances
  BY CircuitBreakerAssumption DEF CircuitBreakerAssumption, Init
<1> QED BY <1>1, <1>2 DEF Init, TypeOK

(* Every access preserves the types. *)
LEMMA NextType == TypeOK /\ [Next]_vars => TypeOK'
<1> SUFFICES ASSUME TypeOK, [Next]_vars PROVE TypeOK'
  OBVIOUS
<1> USE CircuitBreakerAssumption DEF CircuitBreakerAssumption
<1>1. CASE Tick
  BY <1>1 DEF Tick, TypeOK
<1>2. ASSUME NEW t \in Tasks, TaskNext(t) PROVE TypeOK'
  <2> USE DEF TypeOK, Access, Goto, Step, cells, locals
  <2>1. CASE ReadState(t)
    <3>1. probe' \in [Tasks -> BOOLEAN]
      BY <2>1 DEF ReadState, LetThrough
    <3> QED BY <2>1, <3>1 DEF ReadState, LetThrough
  <2>2. CASE SwapProbing(t)
    <3>1. probe' \in [Tasks -> BOOLEAN]
      BY <2>2 DEF SwapProbing, LetThrough
    <3> QED BY <2>2, <3>1 DEF SwapProbing, LetThrough
  <2>3. CASE Answer(t)
    <3>1. probe' \in [Tasks -> BOOLEAN]
      BY <2>3 DEF Answer
    <3> QED BY <2>3, <3>1 DEF Answer
  <2>4. CASE ResetFailures(t)
    BY <2>4 DEF ResetFailures
  <2>5. CASE Close(t)
    <3>1. probe' \in [Tasks -> BOOLEAN]
      BY <2>5 DEF Close
    <3>2. opened' \in BOOLEAN /\ crossed' \in BOOLEAN
      BY <2>5 DEF Close
    <3>3. since' \in 0..Cooldown
      BY <2>5 DEF Close
    <3> QED BY <2>5, <3>1, <3>2, <3>3 DEF Close
  <2>6. CASE ClearAfterSuccess(t)
    BY <2>6 DEF ClearAfterSuccess
  <2>7. CASE ClearAfterFailure(t)
    BY <2>7 DEF ClearAfterFailure
  <2>8. CASE CountFailure(t)
    BY <2>8 DEF CountFailure
  <2>9. CASE Trip(t)
    <3>1. probe' \in [Tasks -> BOOLEAN]
      BY <2>9 DEF Trip
    <3>2. opened' \in BOOLEAN
      BY <2>9 DEF Trip
    <3>3. since' \in 0..Cooldown
      BY <2>9 DEF Trip
    <3> QED BY <2>9, <3>1, <3>2, <3>3 DEF Trip
  <2> QED BY <1>2, <2>1, <2>2, <2>3, <2>4, <2>5, <2>6, <2>7, <2>8, <2>9 DEF TaskNext
<1>3. CASE UNCHANGED vars
  BY <1>3 DEF vars, cells, locals, TypeOK
<1> QED BY <1>1, <1>2, <1>3 DEF Next

(* Type correctness, for every constant the assumption admits. *)
THEOREM TypeCorrect == Spec => []TypeOK
BY InitType, NextType, PTL DEF Spec

-----------------------------------------------------------------------------
(* The flag of half_open_in_progress.                                      *)

(* t is a test request whose outcome has not cleared the flag yet.         *)
Owner(t) == probe[t] /\ pc[t] \in {"flight", "s1", "s2", "s3", "f1"}

(* A task that owns the flag keeps it through every step but the ones that *)
(* clear the flag, or lose the outcome.                                    *)
LEMMA OwnerStep ==
  ASSUME TypeOK, NEW t \in Tasks, NEW u \in Tasks, TaskNext(t), Owner(u)
  PROVE  Owner(u)' \/ ~probing' \/ disturbed' # 0
<1> USE DEF TypeOK, Access, Goto, Owner, cells, locals, LetThrough
<1>1. CASE ReadState(t)
  BY <1>1 DEF ReadState
<1>2. CASE SwapProbing(t)
  BY <1>2 DEF SwapProbing
<1>3. CASE Answer(t)
  BY <1>3 DEF Answer
<1>4. CASE ResetFailures(t)
  BY <1>4 DEF ResetFailures
<1>5. CASE Close(t)
  BY <1>5 DEF Close
<1>6. CASE ClearAfterSuccess(t)
  BY <1>6 DEF ClearAfterSuccess
<1>7. CASE ClearAfterFailure(t)
  BY <1>7 DEF ClearAfterFailure
<1>8. CASE CountFailure(t)
  BY <1>8 DEF CountFailure
<1>9. CASE Trip(t)
  BY <1>9 DEF Trip
<1> QED BY <1>1, <1>2, <1>3, <1>4, <1>5, <1>6, <1>7, <1>8, <1>9 DEF TaskNext

(* Only swap(true) sets the flag, and then its task is the owner.          *)
LEMMA FlagSet ==
  ASSUME TypeOK, NEW t \in Tasks, TaskNext(t), ~probing, probing'
  PROVE  Owner(t)'
BY DEF TypeOK, Access, Goto, Owner, cells, locals, LetThrough, TaskNext, ReadState, SwapProbing,
       Answer, ResetFailures, Close, ClearAfterSuccess, ClearAfterFailure, CountFailure, Trip

(* Failed insert_attempts are never forgotten. *)
LEMMA DisturbedGrows ==
  ASSUME TypeOK, NEW t \in Tasks, TaskNext(t), disturbed' = 0
  PROVE  disturbed = 0
<1>1. CASE Answer(t)
  BY <1>1, CircuitBreakerAssumption DEF CircuitBreakerAssumption, Answer, TypeOK
<1>2. CASE ~Answer(t)
  BY <1>2 DEF TaskNext, ReadState, SwapProbing, ResetFailures, Close, ClearAfterSuccess,
              ClearAfterFailure, CountFailure, Trip
<1> QED BY <1>1, <1>2

(* A set flag belongs to a test request under way: on any runtime, as long *)
(* as every outcome is recorded, no handler is locked out for ever.        *)
THEOREM FlagOwned == Spec => []FlagHasOwner
<1>1. Init => FlagHasOwner
  BY DEF Init, FlagHasOwner
<1>2. TypeOK /\ FlagHasOwner /\ [Next]_vars => FlagHasOwner'
  <2> SUFFICES ASSUME TypeOK, FlagHasOwner, [Next]_vars PROVE FlagHasOwner'
    OBVIOUS
  <2>1. FlagHasOwner <=> (disturbed = 0 /\ probing => \E u \in Tasks : Owner(u))
    BY DEF FlagHasOwner, Owner
  <2>2. FlagHasOwner' <=> (disturbed' = 0 /\ probing' => \E u \in Tasks : Owner(u)')
    BY DEF FlagHasOwner, Owner
  <2>3. CASE Tick \/ UNCHANGED vars
    BY <2>1, <2>2, <2>3 DEF Tick, vars, cells, locals, Owner
  <2>4. ASSUME NEW t \in Tasks, TaskNext(t) PROVE FlagHasOwner'
    <3>1. ASSUME disturbed' = 0, probing' PROVE \E u \in Tasks : Owner(u)'
      <4>1. CASE ~probing
        BY <2>4, <3>1, <4>1, FlagSet
      <4>2. CASE probing
        <5>1. PICK u \in Tasks : Owner(u)
          BY <2>1, <2>4, <3>1, <4>2, DisturbedGrows
        <5> QED BY <2>4, <3>1, <5>1, OwnerStep
      <4> QED BY <4>1, <4>2
    <3> QED BY <2>2, <3>1
  <2> QED BY <2>3, <2>4 DEF Next
<1> QED BY <1>1, <1>2, TypeCorrect, PTL DEF Spec

-----------------------------------------------------------------------------
(* One test at a time.                                                     *)

(* A task between its admission and its next poll.                         *)
Admitted == {"flight", "s1", "s2", "s3", "f1", "f2", "f3"}

(* Deliveries shorter than the cooldown: whoever was admitted before the   *)
(* circuit opened is gone when it is half-open, so only tests remain.      *)
Aged ==
  opened => \A t \in Tasks :
    pc[t] \in Admitted => lasting[t] >= since \/ (HalfOpen /\ probe[t])

(* Of these one at most has still to clear the flag, and it is set.        *)
OneOwner ==
  HalfOpen => /\ \A t, u \in Tasks : Owner(t) /\ Owner(u) => t = u
              /\ (\E t \in Tasks : Owner(t)) => probing

(* No tick passes between state() and the swap: a circuit that another     *)
(* task opened meanwhile is as new as the test request.                    *)
SwapsAtOnce == opened => \A t \in Tasks : pc[t] = "swap" => since = 0 \/ HalfOpen

TimelyInv == Deadline < Cooldown => Aged /\ OneOwner /\ SwapsAtOnce

(* While the circuit is half-open and timely, every admitted task is a test. *)
LEMMA OnlyTests ==
  ASSUME TypeOK, Aged, HalfOpen, Deadline < Cooldown, NEW t \in Tasks, pc[t] \in Admitted
  PROVE  probe[t]
BY CircuitBreakerAssumption DEF CircuitBreakerAssumption, TypeOK, Aged, HalfOpen

(* A tick makes a circuit half-open only when no task is admitted.         *)
LEMMA TickTimely ==
  ASSUME TypeOK, TimelyInv, Tick
  PROVE  TimelyInv'
<1> SUFFICES ASSUME Deadline < Cooldown PROVE Aged' /\ OneOwner' /\ SwapsAtOnce'
  BY DEF TimelyInv
<1> USE CircuitBreakerAssumption DEF CircuitBreakerAssumption, TypeOK, TimelyInv
<1>1. /\ UNCHANGED <<opened, probing, pc, probe>>
      /\ since' = IF opened /\ since < Cooldown THEN since + 1 ELSE since
      /\ \A t \in Tasks : pc[t] # "idle" => lasting[t] < Deadline /\ lasting'[t] = lasting[t] + 1
  BY DEF Tick
<1>n. since \in Nat /\ \A t \in Tasks : lasting[t] \in Nat
  OBVIOUS
<1>2. Aged'
  <2> SUFFICES ASSUME opened', NEW t \in Tasks, pc'[t] \in Admitted
               PROVE  lasting'[t] >= since' \/ (HalfOpen' /\ probe'[t])
    BY DEF Aged
  <2>1. lasting[t] >= since \/ (HalfOpen /\ probe[t])
    BY <1>1 DEF Aged
  <2>2. lasting'[t] = lasting[t] + 1
    BY <1>1 DEF Admitted
  <2>3. since' = since \/ (since' = since + 1 /\ since < Cooldown)
    BY <1>1
  <2>4. CASE lasting[t] >= since
    BY <1>n, <2>2, <2>3, <2>4
  <2>5. CASE HalfOpen /\ probe[t]
    BY <1>1, <1>n, <2>3, <2>5 DEF HalfOpen
  <2> QED BY <2>1, <2>4, <2>5
<1>s. SwapsAtOnce'
  BY DEF Tick, Quiet, MidCall, SwapsAtOnce
<1>o. \A t \in Tasks : Owner(t)' <=> Owner(t)
  BY <1>1 DEF Owner
<1>3. CASE HalfOpen
  <2>1. (\A t, u \in Tasks : Owner(t) /\ Owner(u) => t = u)
        /\ ((\E t \in Tasks : Owner(t)) => probing)
    BY <1>3 DEF OneOwner
  <2> QED BY <1>1, <1>2, <1>o, <1>s, <2>1 DEF OneOwner
<1>4. CASE ~HalfOpen
  <2>1. ASSUME HalfOpen', NEW t \in Tasks, pc[t] \in Admitted PROVE FALSE
    <3>1. opened /\ since < Cooldown /\ since + 1 >= Cooldown
      <4>1. opened /\ since < Cooldown
        BY <1>1, <1>4, <1>n, <2>1 DEF HalfOpen
      <4> QED BY <1>1, <2>1, <4>1 DEF HalfOpen
    <3>2. lasting[t] >= since /\ lasting[t] < Deadline
      BY <1>1, <1>4, <2>1, <3>1 DEF Aged, Admitted
    <3> QED BY <1>n, <3>1, <3>2
  <2>2. HalfOpen' => \A t \in Tasks : ~Owner(t)'
    BY <1>o, <2>1 DEF Owner, Admitted
  <2> QED BY <1>2, <1>s, <2>2 DEF OneOwner
<1> QED BY <1>3, <1>4

LEMMA TaskTimely ==
  ASSUME TypeOK, TimelyInv, NEW t \in Tasks, TaskNext(t)
  PROVE  TimelyInv'
<1> SUFFICES ASSUME Deadline < Cooldown PROVE Aged' /\ OneOwner' /\ SwapsAtOnce'
  BY DEF TimelyInv
<1> USE CircuitBreakerAssumption DEF CircuitBreakerAssumption
<1>0. Aged /\ OneOwner /\ SwapsAtOnce
  BY DEF TimelyInv
<1>a. HalfOpen => \A u \in Tasks : pc[u] \in Admitted => probe[u]
  BY <1>0, OnlyTests
<1> USE DEF TypeOK, Access, Goto, LetThrough, cells, locals, Aged, OneOwner, SwapsAtOnce,
            Owner, Admitted, HalfOpen
<1>1. CASE ReadState(t)
  BY <1>0, <1>1 DEF ReadState
<1>2. CASE SwapProbing(t)
  BY <1>0, <1>2 DEF SwapProbing
<1>3. CASE Answer(t)
  BY <1>0, <1>3 DEF Answer
<1>4. CASE ResetFailures(t)
  BY <1>0, <1>4 DEF ResetFailures
<1>5. CASE Close(t)
  BY <1>0, <1>5 DEF Close
<1>6. CASE ClearAfterSuccess(t)
  BY <1>0, <1>a, <1>6 DEF ClearAfterSuccess
<1>7. CASE ClearAfterFailure(t)
  BY <1>0, <1>a, <1>7 DEF ClearAfterFailure
<1>8. CASE CountFailure(t)
  BY <1>0, <1>8 DEF CountFailure
<1>9. CASE Trip(t)
  BY <1>0, <1>9 DEF Trip
<1> QED BY <1>1, <1>2, <1>3, <1>4, <1>5, <1>6, <1>7, <1>8, <1>9 DEF TaskNext

(* On any runtime, for any number of tasks: a half-open circuit lets one   *)
(* test request through at a time, if deliveries end within a cooldown.    *)
THEOREM OneTimelyProbe == Spec => []SingleTimelyProbe
<1>1. Init => TimelyInv
  BY DEF Init, TimelyInv, Aged, OneOwner, SwapsAtOnce, HalfOpen
<1>2. TypeOK /\ TimelyInv /\ [Next]_vars => TimelyInv'
  <2> SUFFICES ASSUME TypeOK, TimelyInv, [Next]_vars PROVE TimelyInv'
    OBVIOUS
  <2>1. CASE UNCHANGED vars
    BY <2>1 DEF vars, cells, locals, TimelyInv, Aged, OneOwner, SwapsAtOnce, HalfOpen, Owner
  <2> QED BY <2>1, TickTimely, TaskTimely DEF Next
<1>3. TimelyInv => SingleTimelyProbe
  BY DEF TimelyInv, OneOwner, Owner, SingleTimelyProbe, SingleProbe
<1> QED BY <1>1, <1>2, <1>3, TypeCorrect, PTL DEF Spec

-----------------------------------------------------------------------------
(* The counter and the circuit.                                            *)

(* Successes that have reset the counter will close the circuit; failures  *)
(* have counted to no more than the counter shows, and a full counter has  *)
(* opened the circuit or has a failure that will.                          *)
Ledger ==
  /\ Resetting = {} \/ Counting = {}
  /\ Resetting # {} => failures = 0
  /\ opened /\ Resetting = {} => failures >= Threshold
  /\ failures >= Threshold => opened \/ \E t \in Counting : count[t] >= Threshold
  /\ \A t \in Counting : count[t] <= failures /\ (HalfOpen => count[t] >= Threshold)

LedgerInv == ~crossed => Ledger

(* One access, whoever else is inside a call.                              *)
LEMMA LedgerStep ==
  ASSUME TypeOK, LedgerInv, NEW t \in Tasks, TaskNext(t)
  PROVE  LedgerInv'
<1> SUFFICES ASSUME ~crossed' PROVE Ledger'
  BY DEF LedgerInv
<1> USE CircuitBreakerAssumption DEF CircuitBreakerAssumption, TypeOK
<1>0. failures \in Nat /\ \A u \in Tasks : count[u] \in Nat
  OBVIOUS
<1>1. ASSUME UNCHANGED <<failures, opened, since, count, crossed, Resetting, Counting>>
      PROVE  Ledger'
  BY <1>1 DEF LedgerInv, Ledger, HalfOpen
<1> USE DEF Access, Goto, cells, locals
<1>2. CASE ReadState(t) \/ SwapProbing(t) \/ Answer(t) \/ ClearAfterSuccess(t)
           \/ ClearAfterFailure(t)
  <2>1. UNCHANGED <<failures, opened, since, count, crossed, Resetting, Counting>>
    BY <1>2 DEF ReadState, SwapProbing, Answer, ClearAfterSuccess, ClearAfterFailure, LetThrough,
                Resetting, Counting
  <2> QED BY <1>1, <2>1
<1>3. CASE ResetFailures(t)
  <2>1. Counting' = {} /\ t \in Resetting' /\ failures' = 0
    BY <1>3 DEF ResetFailures, Resetting, Counting
  <2> QED BY <2>1 DEF Ledger
<1>4. CASE Close(t)
  <2>1. Counting' = Counting /\ ~opened' /\ failures' = failures /\ t \in Resetting
    BY <1>4 DEF Close, Resetting, Counting
  <2>2. failures = 0 /\ Counting = {}
    BY <1>0, <1>4, <2>1 DEF Close, LedgerInv, Ledger
  <2> QED BY <2>1, <2>2 DEF Ledger
<1>5. CASE CountFailure(t)
  <2>1. Counting' = Counting \cup {t} /\ Resetting' = Resetting /\ Resetting = {} /\ ~crossed
        /\ t \notin Counting
    BY <1>5 DEF CountFailure, Resetting, Counting
  <2>2. /\ failures' \in Nat /\ failures' >= failures /\ count'[t] = failures'
        /\ \A u \in Counting : count'[u] = count[u]
        /\ failures' # failures => failures <= Threshold
        /\ failures >= Threshold => failures' >= Threshold
        /\ UNCHANGED <<opened, since>>
    BY <1>0, <1>5, <2>1 DEF CountFailure, Counting
  <2>3. Ledger /\ Counting \subseteq Tasks
    BY <2>1 DEF LedgerInv, Counting
  <2>4. failures' >= Threshold => opened' \/ \E u \in Counting' : count'[u] >= Threshold
    BY <2>1, <2>2
  <2>5. \A u \in Counting' : count'[u] <= failures' /\ (HalfOpen' => count'[u] >= Threshold)
    BY <1>0, <2>1, <2>2, <2>3 DEF Ledger, HalfOpen
  <2> QED BY <1>0, <2>1, <2>2, <2>3, <2>4, <2>5 DEF Ledger
<1>6. CASE Trip(t)
  <2>1. Counting' = Counting \ {t} /\ Resetting' = Resetting /\ ~crossed /\ t \in Counting
        /\ UNCHANGED <<failures, count>>
    BY <1>6 DEF Trip, Resetting, Counting
  <2>2. Ledger /\ Counting \subseteq Tasks
    BY <2>1 DEF LedgerInv, Counting
  <2>3. Resetting = {}
    BY <2>1, <2>2 DEF Ledger
  <2>4. CASE Trips(count[t])
    <3>1. opened' /\ since' = 0 /\ failures >= Threshold
      BY <1>0, <1>6, <2>1, <2>2, <2>4 DEF Trip, Trips, Ledger
    <3> QED BY <2>1, <2>2, <2>3, <3>1 DEF Ledger, HalfOpen
  <2>5. CASE ~Trips(count[t])
    <3>1. UNCHANGED <<opened, since>> /\ (count[t] >= Threshold => opened)
      BY <1>6, <2>5 DEF Trip, Trips
    <3> QED BY <2>1, <2>2, <2>3, <3>1 DEF Ledger, HalfOpen
  <2> QED BY <2>4, <2>5
<1> QED BY <1>2, <1>3, <1>4, <1>5, <1>6 DEF TaskNext

(* LedgerInv is an invariant. *)
LEMMA LedgerCorrect == Spec => []LedgerInv
<1>1. Init => LedgerInv
  BY CircuitBreakerAssumption
  DEF CircuitBreakerAssumption, Init, LedgerInv, Ledger, Resetting, Counting
<1>2. TypeOK /\ LedgerInv /\ [Next]_vars => LedgerInv'
  <2> SUFFICES ASSUME TypeOK, LedgerInv, [Next]_vars PROVE LedgerInv'
    OBVIOUS
  <2>1. CASE Tick
    <3>1. UNCHANGED <<failures, opened, crossed, Resetting, Counting>> /\ Counting = {}
      BY <2>1 DEF Tick, Quiet, MidCall, Resetting, Counting
    <3> QED BY <3>1 DEF LedgerInv, Ledger
  <2>2. CASE UNCHANGED vars
    BY <2>2 DEF vars, cells, locals, LedgerInv, Ledger, HalfOpen, Resetting, Counting
  <2> QED BY <2>1, <2>2, LedgerStep DEF Next
<1> QED BY <1>1, <1>2, TypeCorrect, PTL DEF Spec

(* For any number of tasks and with every interleaving of their calls the  *)
(* circuit is open exactly when the counter is full, but for what a        *)
(* success and a failure did at the same moment, and then until a success  *)
(* meets no failure.                                                       *)
THEOREM OpenSpent == Spec => []OpenIsSpent
<1>1. LedgerInv => OpenIsSpent
  BY DEF LedgerInv, Ledger, OpenIsSpent, Agrees
<1> QED BY <1>1, LedgerCorrect, PTL

(* With the same exception a recorded failure never leaves the circuit     *)
(* half-open, also when it overlaps other failures and test requests.      *)
THEOREM FailureReopens == Spec => FailureEndsHalfOpen
<1>1. TypeOK /\ LedgerInv /\ [Next]_vars
      => [\A t \in Tasks : ~crossed /\ Trip(t) => ~HalfOpen']_vars
  <2> SUFFICES ASSUME TypeOK, LedgerInv, ~crossed, NEW t \in Tasks, Trip(t) PROVE ~HalfOpen'
    OBVIOUS
  <2>1. HalfOpen => count[t] >= Threshold
    BY DEF LedgerInv, Ledger, Counting, Trip, Access
  <2> QED BY <2>1, CircuitBreakerAssumption
          DEF CircuitBreakerAssumption, Trip, Trips, HalfOpen, TypeOK
<1> QED BY <1>1, LedgerCorrect, TypeCorrect, PTL DEF Spec, FailureEndsHalfOpen
=============================================================================
