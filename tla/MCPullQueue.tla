----------------------------- MODULE MCPullQueue -----------------------------
(* Instances of PullQueue for TLC.  Consumers are interchangeable.          *)
EXTENDS PullQueue, TLC

ConsumerSymmetry == Permutations(Consumers)
=============================================================================
