----------------------------- MODULE MCWorkflow -----------------------------
(* Instances of Workflow for TLC: a few small definitions that have every  *)
(* kind of step between them.                                              *)
EXTENDS Workflow

http == [kind |-> "http", end |-> FALSE, max |-> 1, retry |-> {"all"}, catch |-> <<>>,
         carryOn |-> FALSE, choices |-> {}, default |-> 0, branches |-> 0, child |-> ""]

(* Retries, a catch and a step that ends the run before the last one.      *)
retried == [http EXCEPT !.max = 2, !.retry = {"5xx", "timeout"},
                        !.catch = <<[errors |-> {"4xx"}, goto |-> 3]>>]
ending == [http EXCEPT !.end = TRUE]
tolerant == [http EXCEPT !.carryOn = TRUE]

forked == [http EXCEPT !.kind = "parallel", !.branches = 2]
mapped == [http EXCEPT !.kind = "map", !.carryOn = TRUE]
chosen == [http EXCEPT !.kind = "choice", !.choices = {2}, !.default = 3]
strict == [http EXCEPT !.kind = "choice", !.choices = {2}]
paused == [http EXCEPT !.kind = "wait"]
approved == [http EXCEPT !.kind = "callback", !.end = TRUE]
nested(f) == [http EXCEPT !.kind = "workflow", !.child = f]

Definitions ==
  [order |-> <<retried, ending, tolerant>>,
   fork |-> <<forked, http>>,
   route |-> <<chosen, paused, approved, http>>,
   gate |-> <<strict, http>>,
   nest |-> <<nested("sub"), http>>,
   sub |-> <<mapped, http>>]

(* A step whose branches' errors lead to another step with branches.       *)
escaped == [forked EXCEPT !.catch = <<[errors |-> {"4xx"}, goto |-> 2]>>]
Escaping == [fork |-> <<escaped, forked, http>>]

MainRoots == {"order", "fork", "route", "gate", "nest"}
ForkRoots == {"fork"}
Untimed == {}
MainTimed == {"order", "fork", "route"}
=============================================================================
