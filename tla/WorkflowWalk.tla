---------------------------- MODULE WorkflowWalk ----------------------------
(***************************************************************************)
(* What a run of a workflow promises, without jobs, threads or statements: *)
(* it starts at the first step, moves along the edges of its definition,   *)
(* completes only from a step that ends it, and stays completed.  A run    *)
(* that failed can be redriven; it can also go on as a failed run, since   *)
(* an operator may retry its dead job by itself.  A run is loose from the  *)
(* moment a failed write was passed over, or one begins whose definition   *)
(* catches the errors of branches, the run itself or a descendant; nothing *)
(* is promised about it.                                                   *)
(***************************************************************************)
EXTENDS Naturals, Sequences

CONSTANTS Workflows, Runs

VARIABLES
  walk,   (* the status, definition and current step of each run              *)
  loose   (* the runs about which nothing is promised                         *)

walkVars == <<walk, loose>>

(* A choice goes where its conditions or its default say; any other step   *)
(* goes to the one after it, unless it ends the run, or to a catch target. *)
Successors(f, i) ==
  LET s == Workflows[f][i]
      caught == {s.catch[c].goto : c \in 1..Len(s.catch)}
  IN  IF s.kind = "choice" THEN s.choices \cup ({s.default} \ {0})
      ELSE caught \cup {k \in {i + 1} : k <= Len(Workflows[f]) /\ ~s.end}

(* docs/guides/workflows.md: `end: true` completes the run there.          *)
Final(f, i) ==
  Workflows[f][i].kind # "choice" /\ (Workflows[f][i].end \/ i = Len(Workflows[f]))

Unfinished(r) == walk[r].status \in {"running", "failed"}
Put(r, status, i) ==
  /\ walk' = [walk EXCEPT ![r].status = status, ![r].at = i]
  /\ UNCHANGED loose

Begin(r) ==
  /\ walk[r].status = "none"
  /\ \E f \in DOMAIN Workflows :
       walk' = [walk EXCEPT ![r] = [status |-> "running", flow |-> f, at |-> 1]]
  /\ loose \subseteq loose'

Advance(r) ==
  /\ Unfinished(r)
  /\ \E i \in Successors(walk[r].flow, walk[r].at) : Put(r, walk[r].status, i)

Finish(r) ==
  /\ Unfinished(r) /\ Final(walk[r].flow, walk[r].at)
  /\ Put(r, "completed", walk[r].at)

Fail(r) == walk[r].status = "running" /\ Put(r, "failed", walk[r].at)
Redrive(r) == walk[r].status = "failed" /\ Put(r, "running", walk[r].at)

Loosen(r) == {r} \cup loose \subseteq loose' /\ UNCHANGED walk
Stray(r) ==
  /\ r \in loose
  /\ \A k \in Runs \ {r} : walk'[k] = walk[k]
  /\ UNCHANGED loose

WalkInit ==
  /\ \A r \in Runs : walk[r].status = "none"
  /\ loose = {}

WalkNext ==
  \E r \in Runs :
    \/ Begin(r) \/ Advance(r) \/ Finish(r) \/ Fail(r) \/ Redrive(r)
    \/ Loosen(r) \/ Stray(r)

WalkSpec == WalkInit /\ [][WalkNext]_walkVars
=============================================================================
