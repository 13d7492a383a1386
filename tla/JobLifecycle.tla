---------------------------- MODULE JobLifecycle ----------------------------
(***************************************************************************)
(* What qhook promises about one push-delivery job, without workers, time  *)
(* or attempts: the lifecycle drawn in docs/guides/database-schema.md.     *)
(* An accepted job stays pending until it is done or given up; it is done  *)
(* only if its handler answered with a 2xx; a done job is never delivered  *)
(* again, and a job leaves the table only after it has been settled.       *)
(***************************************************************************)
CONSTANT Jobs

VARIABLES
  phase,    (* where the job stands, as a client of the API sees it *)
  answered  (* its handler has answered a delivery with a 2xx       *)

abstractVars == <<phase, answered>>

Phase == {"none", "pending", "done", "dead", "gone"}

JobLifecycleInit ==
  /\ phase = [j \in Jobs |-> "none"]
  /\ answered = [j \in Jobs |-> FALSE]

(* The jobs of S, all in a phase of From, move to the phase to. *)
Move(S, From, to) ==
  /\ \A j \in S : phase[j] \in From
  /\ phase' = [j \in Jobs |-> IF j \in S THEN to ELSE phase[j]]
  /\ UNCHANGED answered

Accept(j) == Move({j}, {"none"}, "pending")

Answer(j) ==
  /\ phase[j] = "pending"
  /\ answered' = [answered EXCEPT ![j] = TRUE]
  /\ UNCHANGED phase

Complete(j) == answered[j] /\ Move({j}, {"pending"}, "done")

(* Attempts spent, or the event's TTL over: several rows at a time. *)
GiveUp(S) == Move(S, {"pending"}, "dead")

(* An operator's retry. *)
Revive(S) == Move(S, {"dead"}, "pending")

(* Retention. *)
Purge(S) == Move(S, {"done", "dead"}, "gone")

JobLifecycleNext ==
  \/ \E j \in Jobs : Accept(j) \/ Answer(j) \/ Complete(j)
  \/ \E S \in SUBSET Jobs : GiveUp(S) \/ Revive(S) \/ Purge(S)

JobLifecycleSpec == JobLifecycleInit /\ [][JobLifecycleNext]_abstractVars
=============================================================================
