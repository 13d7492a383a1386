--------------------------- MODULE CircuitBreaker ---------------------------
(***************************************************************************)
(* The circuit breaker of one handler (queue.rs, struct CircuitBreaker),   *)
(* shared by the delivery tasks of a process.  Its state is three cells    *)
(* (an atomic counter, an atomic flag, a mutex) that its methods touch one *)
(* after the other.  The runtime has several threads (main.rs), so that    *)
(* the methods of two tasks interleave at every access.                    *)
(* Accesses are sequentially consistent, which is more than the code's     *)
(* Acquire/Release orderings promise.                                      *)
(***************************************************************************)
EXTENDS Naturals, FiniteSets

CONSTANTS
  Tasks,          (* delivery tasks of the handler, each delivering job after job *)
  Threshold,      (* DEFAULT_CB_THRESHOLD                                         *)
  Cooldown,       (* DEFAULT_CB_COOLDOWN_SECS                                     *)
  Deadline,       (* the longest a task stays admitted: the rate limiter's wait,  *)
                  (* the request (30 s at most) and its insert_attempt            *)
  MaxDisturbances (* bound on failed insert_attempts                              *)

ASSUME CircuitBreakerAssumption ==
  /\ Threshold \in Nat \ {0}
  /\ Cooldown \in Nat \ {0}
  /\ Deadline \in Nat
  /\ MaxDisturbances \in Nat

VARIABLES
  failures,  (* consecutive failures, saturating above Threshold               *)
  opened,    (* opened_at is Some                                              *)
  since,     (* ticks since opened_at, saturating at Cooldown                  *)
  probing,   (* half_open_in_progress                                          *)
  pc,        (* where a task stands between the accesses of a call             *)
  count,     (* record_failure: the local count of the task                    *)
  probe,     (* history: allow_request let the task through as the test request *)
  lasting,   (* ticks since it was admitted                                    *)
  crossed,   (* history: a success and a failure have been at their counter    *)
             (* and the mutex at once, and no success by itself since          *)
  disturbed  (* failed insert_attempts so far                                  *)

cells == <<failures, opened, since, probing>>
locals == <<count, probe, lasting>>
vars == <<cells, pc, locals, crossed, disturbed>>

Step == {"idle", "swap", "flight", "s1", "s2", "s3", "f1", "f2", "f3"}

(* A call between two of its accesses.                                     *)
MidCall == {"swap", "s2", "s3", "f2", "f3"}

Quiet == \A t \in Tasks : pc[t] \notin MidCall

Goto(t, to) == pc' = [pc EXCEPT ![t] = to]
Access(t, from, to) == pc[t] = from /\ Goto(t, to)

(* Calls that have accessed the counter, and not the mutex yet.            *)
Resetting == {t \in Tasks : pc[t] = "s2"}
Counting == {t \in Tasks : pc[t] = "f3"}

HalfOpen == opened /\ since >= Cooldown

-----------------------------------------------------------------------------
(* allow_request.                                                          *)

LetThrough(t, as) ==
  /\ Goto(t, "flight")
  /\ probe' = [probe EXCEPT ![t] = as]
  /\ lasting' = [lasting EXCEPT ![t] = 0]

(* state(), under the mutex: closed lets through, half-open goes on to the *)
(* flag, open rejects (and the task turns to another job).                 *)
ReadState(t) ==
  /\ pc[t] = "idle"
  /\ \/ ~opened /\ LetThrough(t, FALSE)
     \/ HalfOpen /\ Goto(t, "swap") /\ UNCHANGED <<probe, lasting>>
  /\ UNCHANGED <<cells, count, crossed, disturbed>>

(* Mutant of SwapProbing: the old value of the flag is not looked at. *)
SwapProbingBlind(t) ==
  /\ pc[t] = "swap"
  /\ probing' = TRUE
  /\ LetThrough(t, TRUE)
  /\ UNCHANGED <<failures, opened, since, count, crossed, disturbed>>

(* half_open_in_progress.swap(true)                                        *)
SwapProbing(t) ==
  /\ pc[t] = "swap"
  /\ probing' = TRUE
  /\ IF probing THEN Goto(t, "idle") /\ UNCHANGED <<probe, lasting>>
                ELSE LetThrough(t, TRUE)
  /\ UNCHANGED <<failures, opened, since, count, crossed, disturbed>>

(* The delivery ends; what insert_attempt fails on is never recorded.      *)
Answer(t) ==
  /\ pc[t] = "flight"
  /\ \/ (Goto(t, "s1") \/ Goto(t, "f1")) /\ UNCHANGED <<probe, disturbed>>
     \/ /\ Goto(t, "idle")
        /\ probe' = [probe EXCEPT ![t] = FALSE]
        /\ disturbed < MaxDisturbances /\ disturbed' = disturbed + 1
  /\ UNCHANGED <<cells, count, lasting, crossed>>

-----------------------------------------------------------------------------
(* record_success, access by access.                                       *)

ResetFailures(t) ==
  /\ Access(t, "s1", "s2")
  /\ failures' = 0
  /\ crossed' = (crossed \/ Counting # {})
  /\ UNCHANGED <<opened, since, probing, locals, disturbed>>

(* What calls at once have left behind, a success by itself puts right.    *)
Close(t) ==
  /\ Access(t, "s2", "s3")
  /\ opened' = FALSE /\ since' = 0
  /\ crossed' = (crossed /\ (failures > 0 \/ Counting # {}))
  /\ UNCHANGED <<failures, probing, locals, disturbed>>

(* Mutant of ClearAfterSuccess: the flag stays set. *)
ClearAfterSuccessNever(t) ==
  /\ Access(t, "s3", "idle")
  /\ probe' = [probe EXCEPT ![t] = FALSE]
  /\ UNCHANGED <<cells, count, lasting, crossed, disturbed>>

ClearAfterSuccess(t) ==
  /\ Access(t, "s3", "idle")
  /\ probing' = FALSE
  /\ probe' = [probe EXCEPT ![t] = FALSE]
  /\ UNCHANGED <<failures, opened, since, count, lasting, crossed, disturbed>>

-----------------------------------------------------------------------------
(* record_failure, access by access.                                       *)

(* Mutant of ClearAfterFailure: the flag stays set. *)
ClearAfterFailureNever(t) ==
  /\ Access(t, "f1", "f2")
  /\ UNCHANGED <<cells, locals, crossed, disturbed>>

ClearAfterFailure(t) ==
  /\ Access(t, "f1", "f2")
  /\ probing' = FALSE
  /\ UNCHANGED <<failures, opened, since, locals, crossed, disturbed>>

CountFailure(t) ==
  /\ Access(t, "f2", "f3")
  /\ LET n == IF failures > Threshold THEN failures ELSE failures + 1
     IN  failures' = n /\ count' = [count EXCEPT ![t] = n]
  /\ crossed' = (crossed \/ Resetting # {})
  /\ UNCHANGED <<opened, since, probing, probe, lasting, disturbed>>

(* Mutants of Trips: an open circuit is never opened anew; one failure     *)
(* more; only the failure that makes the threshold full opens.             *)
TripsOnce(n) == n >= Threshold /\ ~opened
TripsLate(n) == n > Threshold /\ (~opened \/ HalfOpen)
TripsExactly(n) == n = Threshold /\ (~opened \/ HalfOpen)

(* opened.is_none() || was_half_open, above the threshold                  *)
Trips(n) == n >= Threshold /\ (~opened \/ HalfOpen)

(* Under the mutex.  What the call returns decides on an alert only, and   *)
(* is left out.                                                            *)
Trip(t) ==
  /\ Access(t, "f3", "idle")
  /\ IF Trips(count[t]) THEN opened' = TRUE /\ since' = 0
                        ELSE UNCHANGED <<opened, since>>
  /\ probe' = [probe EXCEPT ![t] = FALSE]
  /\ UNCHANGED <<failures, probing, count, lasting, crossed, disturbed>>

-----------------------------------------------------------------------------
(* A call takes no time that a cooldown could be measured in.              *)
Tick ==
  /\ Quiet
  /\ \A t \in Tasks : pc[t] # "idle" => lasting[t] < Deadline
  /\ since' = IF opened /\ since < Cooldown THEN since + 1 ELSE since
  /\ lasting' = [t \in Tasks |-> IF pc[t] = "idle" THEN 0 ELSE lasting[t] + 1]
  /\ UNCHANGED <<failures, opened, probing, pc, count, probe, crossed, disturbed>>

Init ==
  /\ failures = 0 /\ opened = FALSE /\ since = 0 /\ probing = FALSE
  /\ pc = [t \in Tasks |-> "idle"]
  /\ count = [t \in Tasks |-> 0]
  /\ probe = [t \in Tasks |-> FALSE]
  /\ lasting = [t \in Tasks |-> 0]
  /\ crossed = FALSE
  /\ disturbed = 0

TaskNext(t) ==
  \/ ReadState(t)
  \/ SwapProbing(t)
  \/ Answer(t)
  \/ ResetFailures(t)
  \/ Close(t)
  \/ ClearAfterSuccess(t)
  \/ ClearAfterFailure(t)
  \/ CountFailure(t)
  \/ Trip(t)

Next == Tick \/ \E t \in Tasks : TaskNext(t)

Spec == Init /\ [][Next]_vars

(* Fairness: jobs keep coming, time passes, and the runtime goes on with   *)
(* every task.                                                             *)
FairSpec == Spec /\ WF_vars(Tick) /\ \A t \in Tasks : WF_vars(TaskNext(t))

-----------------------------------------------------------------------------
(* Properties.                                                             *)

(* Type invariant. *)
TypeOK ==
  /\ failures \in 0..Threshold + 1
  /\ opened \in BOOLEAN /\ probing \in BOOLEAN /\ crossed \in BOOLEAN
  /\ since \in 0..Cooldown
  /\ pc \in [Tasks -> Step]
  /\ count \in [Tasks -> 0..Threshold + 1]
  /\ probe \in [Tasks -> BOOLEAN]
  /\ lasting \in [Tasks -> 0..Deadline]
  /\ disturbed \in 0..MaxDisturbances

(* The flag is never left behind: as long as every outcome is recorded, a  *)
(* set flag belongs to a test request whose outcome will clear it, even    *)
(* when failures of older requests clear it early and tests overlap.       *)
FlagHasOwner ==
  disturbed = 0 /\ probing =>
    \E t \in Tasks : probe[t] /\ pc[t] \in {"flight", "s1", "s2", "s3", "f1"}

Agrees == opened <=> failures >= Threshold

(* The circuit is open exactly when Threshold failures in a row have been  *)
(* counted, however calls interleave: only a success and a failure of the  *)
(* same handler that are both between counter and mutex break that, until  *)
(* the next success that meets no failure.                                 *)
OpenIsSpent == ~crossed /\ Resetting = {} /\ Counting = {} => Agrees

(* Half-open lets one test request through at a time (allow_request).      *)
SingleProbe ==
  HalfOpen => \A t, u \in Tasks :
    probe[t] /\ probe[u] /\ pc[t] = "flight" /\ pc[u] = "flight" => t = u

(* The code keeps to that when deliveries end within a cooldown.           *)
SingleTimelyProbe == Deadline < Cooldown => SingleProbe

(* With the same exception a recorded failure leaves no circuit half-open: *)
(* a test that fails keeps it open for another cooldown                    *)
(* (docs/configuration.md, circuit breaker).                               *)
FailureEndsHalfOpen == [][\A t \in Tasks : ~crossed /\ Trip(t) => ~HalfOpen']_vars

(* Nor is the exception for ever, whatever the outcomes: a handler that    *)
(* keeps failing is cut off in the end, and one whose circuit was opened   *)
(* over a success is tried until it closes or has failed often enough.     *)
CellsAgreeAgain == ~Agrees ~> Agrees \/ disturbed > 0

(* After the cooldown a test request gets through: a half-open circuit is  *)
(* tried, closed or opened anew (docs/configuration.md, circuit breaker).  *)
EventuallyProbed ==
  HalfOpen ~> ~HalfOpen \/ \E t \in Tasks : pc[t] = "flight"

(* The same, unless the outcome of some request was never recorded.        *)
ProbedUnlessLost ==
  HalfOpen ~> ~HalfOpen \/ disturbed > 0 \/ \E t \in Tasks : pc[t] = "flight"
=============================================================================
