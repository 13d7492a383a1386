----------------------------- MODULE MCDelivery -----------------------------
(* Instances of Delivery for TLC.  Jobs, permits and workers are each       *)
(* interchangeable.                                                         *)
EXTENDS Delivery, TLC

Symmetry == Permutations(Workers) \cup Permutations(Permits) \cup Permutations(Jobs)

(* Two processes race for one job, or one process, with one disturbance at *)
(* most, has more jobs than permits: both at once are too many states.     *)
OneJob == \E j \in Jobs : \A i \in Jobs \ {j} : status[i] \in {"none", "purged"}
OneProcess == \E w \in Workers : \A v \in Workers \ {w} : loop[v] = "down"
Scope == OneJob \/ (OneProcess /\ disturbed <= 1)
=============================================================================
