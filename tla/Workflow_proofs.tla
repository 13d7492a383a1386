--------------------------- MODULE Workflow_proofs ---------------------------
(***************************************************************************)
(* Proofs about Workflow, for any definitions that Config::validate takes, *)
(* any number of runs and jobs and any faults: type correctness; that no   *)
(* statement names a run, a step or a parent that does not exist; that a   *)
(* run is at one place of its definition at a time; that the branches of a *)
(* step are merged when all of them have completed; that a run nobody can  *)
(* move any more has a cause that is on record; and that the engine        *)
(* implements WorkflowWalk.                                                *)
(***************************************************************************)
EXTENDS Workflow, FiniteSetTheorems, TLAPS

IInv == TypeOK /\ StepsExist

-----------------------------------------------------------------------------
(* Definitions.                                                            *)

LEMMA StepIsStep ==
  ASSUME TypeOK, NEW r, NEW i, Inside(r, i)
  PROVE  /\ StepsOf(r) \in Seq(Step) /\ Len(StepsOf(r)) \in Nat /\ i \in Nat
         /\ StepsOf(r)[i] \in Step
         /\ \A c \in 1..Len(StepsOf(r)[i].catch) :
              StepsOf(r)[i].catch[c].goto \in 1..Len(StepsOf(r))
         /\ StepsOf(r)[i].choices \subseteq 1..Len(StepsOf(r))
         /\ StepsOf(r)[i].default \in (1..Len(StepsOf(r))) \cup {0}
         /\ StepsOf(r)[i].kind = "parallel" => StepsOf(r)[i].branches > 0
         /\ StepsOf(r)[i].kind = "workflow" => StepsOf(r)[i].child \in DOMAIN Workflows
<1>1. run[r].flow \in DOMAIN Workflows /\ i \in 1..Len(Workflows[run[r].flow])
  BY DEF TypeOK, Inside, Run, StepsOf
<1>2. Workflows[run[r].flow] \in Seq(Step)
  BY <1>1, BoundsAssumption DEF BoundsAssumption
<1>3. Workflows[run[r].flow][i] \in Step
  BY <1>1, <1>2
<1> QED BY <1>1, <1>2, <1>3, DefinitionsAssumption DEF DefinitionsAssumption, Accepted, StepAccepted, StepsOf

LEMMA FirstStep ==
  ASSUME NEW f \in DOMAIN Workflows
  PROVE  Len(Workflows[f]) \in Nat \ {0}
<1>1. Workflows[f] \in Seq(Step) /\ Workflows[f] # <<>>
  BY BoundsAssumption, DefinitionsAssumption DEF BoundsAssumption, DefinitionsAssumption, Accepted, StepAccepted
<1> QED BY <1>1

(* The step of a job that a thread works for.                              *)
LEMMA JobStepIsStep ==
  ASSUME IInv, NEW j \in Jobs, thread[j].pc \in OfJob
  PROVE  /\ Inside(job[j].run, job[j].step) /\ job[j].run = thread[j].run
         /\ job[j].run \in Runs /\ job[j].status # "none"
         /\ StepOf(j) = StepsOf(job[j].run)[job[j].step] /\ StepOf(j) \in Step
BY StepIsStep DEF IInv, StepsExist, ThreadInside, JobInside, Threads, StepOf, Inside

-----------------------------------------------------------------------------
(* What no statement undoes: a run keeps its definition, a job its place.  *)

Persist ==
  /\ \A r \in Runs : run[r].status # "none" =>
       run'[r].status # "none" /\ run'[r].flow = run[r].flow
  /\ \A j \in Jobs : job[j].status # "none" =>
       /\ job'[j].status # "none" /\ job'[j].run = job[j].run /\ job'[j].step = job[j].step

LEMMA InsideStays ==
  ASSUME Persist, NEW r, NEW i, Inside(r, i)
  PROVE  Inside(r, i)'
BY DEF Persist, Inside, StepsOf

LEMMA StepOfStays ==
  ASSUME Persist, NEW j \in Jobs, JobInside(j), job[j].status # "none"
  PROVE  StepOf(j)' = StepOf(j)
BY DEF Persist, StepOf, StepsOf, JobInside, Inside

LEMMA ThreadStays ==
  ASSUME StepsExist, Persist, NEW t \in Threads, thread'[t] = thread[t]
  PROVE  ThreadInside(t)'
<1>1. ThreadInside(t)
  BY DEF StepsExist
<1>2. thread[t].pc \in OfJob => StepOf(t)' = StepOf(t)
  BY <1>1, StepOfStays DEF ThreadInside, StepsExist
<1>3. \A r, i : Inside(r, i) => Inside(r, i)'
  BY InsideStays
<1> QED BY <1>1, <1>2, <1>3 DEF ThreadInside, Persist, At, OfJob, Deciding, Written

LEMMA JobStays ==
  ASSUME StepsExist, Persist, NEW j \in Jobs, job[j].status # "none"
  PROVE  JobInside(j)'
BY InsideStays DEF StepsExist, JobInside, Persist

LEMMA ParentStays ==
  ASSUME StepsExist, Persist, NEW r \in Runs,
         run'[r].parent = run[r].parent, run'[r].at = run[r].at
  PROVE  ParentInside(r)'
BY InsideStays DEF StepsExist, ParentInside

(* A step that touches one thread and leaves every job and parent in place *)
(* has only that thread to answer for.                                     *)
LEMMA OneThread ==
  ASSUME StepsExist, Persist, NEW t \in Threads, ThreadInside(t)',
         \A u \in Threads \ {t} : thread'[u] = thread[u],
         \A j \in Jobs : job'[j].status # "none" => job[j].status # "none",
         \A r \in Runs : run'[r].parent = run[r].parent /\ run'[r].at = run[r].at
  PROVE  StepsExist'
<1>1. ASSUME NEW j \in Jobs PROVE JobInside(j)'
  BY JobStays DEF JobInside
<1>2. ASSUME NEW r \in Runs PROVE ParentInside(r)'
  BY ParentStays
<1>3. ASSUME NEW u \in Threads PROVE ThreadInside(u)'
  BY ThreadStays
<1>4. Jobs' = Jobs /\ Runs' = Runs /\ Threads' = Threads
  BY DEF Jobs, Runs, Threads
<1> QED BY <1>1, <1>2, <1>3, <1>4 DEF StepsExist

-----------------------------------------------------------------------------
(* Type correctness, one lemma per helper and one step per action.         *)

PCs == {"idle"} \cup Deciding \cup Moving

LEMMA GotoType ==
  ASSUME TypeOK, NEW t \in Threads, NEW pc \in PCs, Goto(t, pc)
  PROVE  thread' \in [Threads -> Thread]
BY DEF TypeOK, Goto, PCs, Thread

LEMMA EndType ==
  ASSUME TypeOK, NEW t \in Threads, End(t)
  PROVE  thread' \in [Threads -> Thread]
BY DEF TypeOK, End, Idle, Thread

LEMMA SetThreadType ==
  ASSUME TypeOK, NEW t \in Threads, NEW pc \in PCs, NEW r \in Runs \cup {0}, NEW i \in Nat,
         SetThread(t, pc, r, i)
  PROVE  thread' \in [Threads -> Thread]
BY DEF TypeOK, SetThread, PCs, Thread

LEMMA InsertJobType ==
  ASSUME TypeOK, NEW status \in JobStatus, NEW r \in Runs \cup {0}, NEW i \in Nat,
         NEW branch \in BOOLEAN, InsertJob(status, r, i, branch)
  PROVE  job' \in [Jobs -> Job]
BY DEF TypeOK, InsertJob, FreeJobs, NewJob, Job

LEMMA InsertRunType ==
  ASSUME TypeOK, NEW t \in Threads, NEW f \in DOMAIN Workflows, NEW p \in Runs \cup {0},
         NEW i \in Nat, InsertRun(t, f, p, i)
  PROVE  run' \in [Runs -> Run] /\ thread' \in [Threads -> Thread]
<1> PICK r \in FreeRuns : run' = [run EXCEPT ![r] = NewRun(f, p, i)] /\ SetThread(t, "insert", r, 1)
  BY DEF InsertRun
<1>1. NewRun(f, p, i) \in Run
  BY DEF NewRun, Run, RunStatus
<1>2. run' \in [Runs -> Run]
  BY <1>1 DEF TypeOK, FreeRuns
<1>3. thread' \in [Threads -> Thread]
  BY SetThreadType DEF FreeRuns, PCs, Moving
<1> QED BY <1>2, <1>3

LEMMA StepOnType ==
  ASSUME TypeOK, NEW t \in Threads, NEW r, NEW i, Inside(r, i), StepOn(t, r, i)
  PROVE  thread' \in [Threads -> Thread]
<1>1. r \in Runs \cup {0} /\ i + 1 \in Nat /\ 0 \in Nat
  BY StepIsStep DEF Inside
<1>2. "move" \in PCs /\ "complete" \in PCs
  BY DEF PCs, Moving
<1> QED BY <1>1, <1>2, SetThreadType DEF StepOn

LEMMA StepOnOrEndType ==
  ASSUME TypeOK, NEW t \in Threads, NEW r, NEW i, Inside(r, i), StepOnOrEnd(t, r, i)
  PROVE  thread' \in [Threads -> Thread]
<1>1. r \in Runs \cup {0} /\ 0 \in Nat /\ "complete" \in PCs
  BY DEF Inside, PCs, Moving
<1> QED BY <1>1, StepOnType, SetThreadType DEF StepOnOrEnd

LEMMA FaultType ==
  ASSUME TypeOK, NEW lost \in SUBSET (Runs \cup {0}), NEW loose \in SUBSET (Runs \cup {0}),
         Fault(lost, loose)
  PROVE  /\ dropped' \subseteq Runs \cup {0} /\ loosened' \subseteq Runs \cup {0}
         /\ faults' \in 0..MaxFaults /\ calls' \in 0..MaxCalls
BY BoundsAssumption DEF BoundsAssumption, TypeOK, Fault

LEMMA CallType ==
  ASSUME TypeOK, Call
  PROVE  /\ dropped' \subseteq Runs \cup {0} /\ loosened' \subseteq Runs \cup {0}
         /\ faults' \in 0..MaxFaults /\ calls' \in 0..MaxCalls
BY BoundsAssumption DEF BoundsAssumption, TypeOK, Call

LEMMA FollowInPCs ==
  ASSUME NEW j \in Jobs
  PROVE  Follow(j) \in PCs
BY DEF Follow, PCs, Moving

LEMMA TypePreserved ==
  ASSUME IInv, Next
  PROVE  TypeOK'
<1> USE DEF IInv
<1>0. Jobs \subseteq Threads /\ 0 \in Threads /\ 0 \in Nat /\ 1 \in Nat
  BY DEF Threads
<1>d. d1' \in BOOLEAN
  BY DEF Next, TypeOK
<1> USE <1>d
<1>1. ASSUME NEW f \in Roots, StartWorkflow(f) PROVE TypeOK'
  <2>1. f \in DOMAIN Workflows
    BY DefinitionsAssumption DEF DefinitionsAssumption, Accepted, StepAccepted
  <2>2. run' \in [Runs -> Run] /\ thread' \in [Threads -> Thread]
    BY <1>0, <1>1, <2>1, InsertRunType DEF StartWorkflow
  <2>3. started' \in 0..MaxStarts
    BY <1>1, BoundsAssumption DEF BoundsAssumption, StartWorkflow, TypeOK
  <2> QED BY <1>1, <2>2, <2>3 DEF StartWorkflow, historyVars, TypeOK
<1>2. ASSUME NEW j \in Jobs, Claim(j) PROVE TypeOK'
  <2>1. job' \in [Jobs -> Job]
    BY <1>2 DEF Claim, TypeOK, Job, JobStatus
  <2>2. job[j].run \in Runs \cup {0} /\ "start" \in PCs
    BY DEF TypeOK, Job, PCs, Deciding
  <2>3. thread' \in [Threads -> Thread]
    BY <1>0, <1>2, <2>2, SetThreadType DEF Claim
  <2> QED BY <1>2, <2>1, <2>3 DEF Claim, historyVars, TypeOK
<1>3. ASSUME NEW j \in Jobs, Recover(j) PROVE TypeOK'
  BY <1>3 DEF Recover, historyVars, TypeOK, Job, JobStatus
<1>4. ASSUME NEW j \in Jobs, Dispatch(j) PROVE TypeOK'
  <2>1. {"expire", "request", "mark"} \subseteq PCs
    BY DEF PCs, Deciding, Written
  <2>2. thread' \in [Threads -> Thread]
    BY <1>0, <1>4, <2>1, GotoType DEF Dispatch
  <2> QED BY <1>4, <2>2 DEF Dispatch, historyVars, TypeOK
<1>5. ASSUME NEW j \in Jobs, Request(j) PROVE TypeOK'
  <2>1. {"succeed", "retry", "catch", "continue", "stop"} \subseteq PCs
    BY DEF PCs, Deciding, Written
  <2>2. /\ job[j].run \in Runs \cup {0} /\ Inside(job[j].run, job[j].step)
        /\ StepOf(j) = StepsOf(job[j].run)[job[j].step]
    BY <1>5, JobStepIsStep DEF Request, At, OfJob, Deciding
  <2>3. \A c \in 1..Len(StepOf(j).catch) : StepOf(j).catch[c].goto \in Nat
    BY <2>2, StepIsStep
  <2>4. ASSUME NEW e \in ErrorType, Fails(j, e) PROVE thread' \in [Threads -> Thread]
    BY <1>0, <2>1, <2>2, <2>3, <2>4, GotoType, SetThreadType DEF Fails, Catching
  <2>5. thread' \in [Threads -> Thread]
    BY <1>0, <1>5, <2>1, <2>4, GotoType DEF Request
  <2> QED BY <1>5, <2>5 DEF Request, historyVars, TypeOK
<1>6. ASSUME NEW j \in Jobs, WriteOutcome(j) PROVE TypeOK'
  <2>1. thread[j].pc \in DOMAIN Written => Written[thread[j].pc] \in JobStatus
    BY DEF Written, JobStatus
  <2>2. job' \in [Jobs -> Job]
    BY <1>6, <2>1 DEF WriteOutcome, TypeOK, Job
  <2>3. thread' \in [Threads -> Thread]
    BY <1>0, <1>6, FollowInPCs, GotoType, EndType DEF WriteOutcome
  <2> QED BY <1>6, <2>2, <2>3 DEF WriteOutcome, historyVars, TypeOK
<1>7. ASSUME NEW j \in Jobs, Advance(j) PROVE TypeOK'
  <2>1. Inside(job[j].run, job[j].step) /\ "fail" \in PCs
    BY <1>7, JobStepIsStep DEF Advance, At, OfJob, PCs, Moving
  <2>2. thread' \in [Threads -> Thread]
    BY <1>0, <1>7, <2>1, GotoType, StepOnOrEndType DEF Advance
  <2> QED BY <1>7, <2>2 DEF Advance, historyVars, TypeOK
<1>8. ASSUME NEW j \in Jobs, Choose(j) PROVE TypeOK'
  <2>1. /\ Inside(job[j].run, job[j].step) /\ job[j].run \in Runs
        /\ StepOf(j) = StepsOf(job[j].run)[job[j].step]
    BY <1>8, JobStepIsStep DEF Choose, At, OfJob
  <2>2. StepOf(j).choices \subseteq Nat /\ StepOf(j).default \in Nat
    BY <2>1, StepIsStep
  <2>3. {"move", "fail"} \subseteq PCs
    BY DEF PCs, Moving
  <2>4. thread' \in [Threads -> Thread]
    BY <1>0, <1>8, <2>1, <2>2, <2>3, GotoType, SetThreadType DEF Choose
  <2> QED BY <1>8, <2>4 DEF Choose, historyVars, TypeOK
<1>9. ASSUME NEW j \in Jobs, PassWait(j) PROVE TypeOK'
  <2>1. Inside(job[j].run, job[j].step)
    BY <1>9, JobStepIsStep DEF PassWait, At, OfJob
  <2>2. thread' \in [Threads -> Thread]
    BY <1>0, <1>9, <2>1, StepOnType DEF PassWait
  <2> QED BY <1>9, <2>2 DEF PassWait, historyVars, TypeOK
<1>10. ASSUME NEW j \in Jobs, SetUpBranches(j) PROVE TypeOK'
  <2>1. job[j].run \in Runs /\ StepOf(j) \in Step /\ "fan" \in PCs
    BY <1>10, JobStepIsStep DEF SetUpBranches, SetParallel, At, OfJob, PCs, Moving
  <2>2. PICK n \in IF StepOf(j).kind = "map" THEN ItemCounts ELSE {StepOf(j).branches} :
          IF n = 0 THEN End(j) /\ UNCHANGED run
          ELSE /\ run' = [run EXCEPT ![job[j].run].count = n, ![job[j].run].done = 0]
               /\ SetThread(j, "fan", job[j].run, n)
    BY <1>10 DEF SetUpBranches, SetParallel
  <2>3. n \in Nat
    BY <2>1, BoundsAssumption DEF BoundsAssumption, Step
  <2>4. run' \in [Runs -> Run]
    BY <2>1, <2>2, <2>3 DEF TypeOK, Run
  <2>5. thread' \in [Threads -> Thread]
    BY <1>0, <2>1, <2>2, <2>3, EndType, SetThreadType
  <2> QED BY <1>10, <2>4, <2>5 DEF SetUpBranches, SetParallel, historyVars, TypeOK
<1>11. ASSUME NEW j \in Jobs, InsertBranch(j) PROVE TypeOK'
  <2>1. job[j].run \in Runs \cup {0} /\ job[j].step \in Nat /\ "available" \in JobStatus
    BY DEF TypeOK, Job, JobStatus
  <2>2. job' \in [Jobs -> Job]
    BY <1>11, <2>1, InsertJobType DEF InsertBranch
  <2>3. thread[j].next \in Nat /\ thread[j].next > 0
    BY <1>0, <1>11 DEF InsertBranch, StepsExist, ThreadInside, TypeOK, Thread
  <2>4. thread' \in [Threads -> Thread]
    BY <1>0, <1>11, <2>3, EndType DEF InsertBranch, TypeOK, Thread
  <2> QED BY <1>11, <2>2, <2>4 DEF InsertBranch, historyVars, TypeOK
<1>12. ASSUME NEW j \in Jobs, CountBranch(j) PROVE TypeOK'
  <2>1. job[j].run \in Runs /\ "merge" \in PCs /\ "tally" \in PCs
    BY <1>12, JobStepIsStep DEF CountBranch, At, OfJob, PCs, Moving
  <2>2. run' \in [Runs -> Run]
    BY <1>12, <2>1 DEF CountBranch, TypeOK, Run
  <2>3. thread' \in [Threads -> Thread]
    BY <1>0, <1>12, <2>1, EndType, GotoType DEF CountBranch
  <2>4. /\ dropped' \subseteq Runs \cup {0} /\ loosened' \subseteq Runs \cup {0}
        /\ faults' \in 0..MaxFaults /\ calls' \in 0..MaxCalls
    <3>1. CASE UNCHANGED historyVars
      BY <3>1 DEF historyVars, TypeOK
    <3>2. CASE Fault({}, {job[j].run})
      BY <2>1, <3>2, FaultType
    <3> QED BY <1>12, <3>1, <3>2 DEF CountBranch
  <2> QED BY <1>12, <2>2, <2>3, <2>4 DEF CountBranch, TypeOK
<1>31. ASSUME NEW j \in Jobs, ReadCount(j) PROVE TypeOK'
  <2>1. "merge" \in PCs
    BY DEF PCs, Moving
  <2>2. thread' \in [Threads -> Thread]
    BY <1>0, <1>31, <2>1, EndType, GotoType DEF ReadCount
  <2> QED BY <1>31, <2>2 DEF ReadCount, historyVars, TypeOK
<1>13. ASSUME NEW j \in Jobs, MergeBranches(j) PROVE TypeOK'
  <2>1. job[j].run \in Runs /\ Inside(job[j].run, job[j].step)
    BY <1>13, JobStepIsStep DEF MergeBranches, SetParallel, At, OfJob
  <2>2. run' \in [Runs -> Run]
    BY <1>13, <2>1 DEF MergeBranches, SetParallel, TypeOK, Run
  <2>3. thread' \in [Threads -> Thread]
    BY <1>0, <1>13, <2>1, StepOnOrEndType DEF MergeBranches, SetParallel
  <2> QED BY <1>13, <2>2, <2>3 DEF MergeBranches, SetParallel, historyVars, TypeOK
<1>14. ASSUME NEW j \in Jobs, AwaitCallback(j) PROVE TypeOK'
  <2>1. job[j].run \in Runs \cup {0} /\ job[j].step \in Nat /\ "waiting" \in JobStatus
    BY DEF TypeOK, Job, JobStatus
  <2>2. job' \in [Jobs -> Job]
    BY <1>14, <2>1, InsertJobType DEF AwaitCallback, InsertCallback
  <2>3. thread' \in [Threads -> Thread]
    BY <1>0, <1>14, EndType DEF AwaitCallback, InsertCallback
  <2> QED BY <1>14, <2>2, <2>3 DEF AwaitCallback, InsertCallback, historyVars, TypeOK
<1>15. ASSUME NEW j \in Jobs, LaunchChild(j) PROVE TypeOK'
  <2>1. /\ job[j].run \in Runs \cup {0} /\ job[j].step \in Nat
        /\ StepOf(j).child \in DOMAIN Workflows
    <3>1. /\ Inside(job[j].run, job[j].step)
          /\ StepOf(j) = StepsOf(job[j].run)[job[j].step]
      BY <1>15, JobStepIsStep DEF LaunchChild, At, OfJob
    <3>2. StepOf(j).kind = "workflow"
      BY <1>0, <1>15 DEF LaunchChild, StepsExist, ThreadInside
    <3> QED BY <3>1, <3>2, StepIsStep DEF TypeOK, Job
  <2>2. run' \in [Runs -> Run] /\ thread' \in [Threads -> Thread]
    BY <1>0, <1>15, <2>1, InsertRunType DEF LaunchChild
  <2> QED BY <1>15, <2>2 DEF LaunchChild, historyVars, TypeOK
<1>16. ASSUME NEW j \in Jobs, CallbackArrives(j) PROVE TypeOK'
  <2>1. Inside(job[j].run, job[j].step)
    BY <1>16 DEF CallbackArrives, ResumeJob, StepsExist, JobInside
  <2>2. job' \in [Jobs -> Job]
    BY <1>16 DEF CallbackArrives, ResumeJob, TypeOK, Job, JobStatus
  <2>3. thread' \in [Threads -> Thread]
    BY <1>0, <1>16, <2>1, StepOnOrEndType DEF CallbackArrives, ResumeJob
  <2> QED BY <1>16, <2>2, <2>3 DEF CallbackArrives, ResumeJob, historyVars, TypeOK
<1>17. ASSUME NEW t \in Threads, MoveRun(t) PROVE TypeOK'
  <2>1. thread[t].run \in Runs /\ thread[t].next \in Nat /\ "insert" \in PCs
    BY <1>17 DEF MoveRun, At, StepsExist, ThreadInside, Inside, TypeOK, Thread, PCs, Moving
  <2>2. run' \in [Runs -> Run]
    BY <1>17, <2>1 DEF MoveRun, TypeOK, Run
  <2>3. thread' \in [Threads -> Thread]
    BY <1>17, <2>1, GotoType DEF MoveRun
  <2> QED BY <1>17, <2>2, <2>3 DEF MoveRun, historyVars, TypeOK
<1>18. ASSUME NEW t \in Threads, InsertNext(t) PROVE TypeOK'
  <2>1. /\ thread[t].run \in Runs \cup {0} /\ thread[t].next \in Nat
        /\ "available" \in JobStatus
    BY DEF TypeOK, Thread, JobStatus
  <2>2. job' \in [Jobs -> Job]
    BY <1>18, <2>1, InsertJobType DEF InsertNext
  <2>3. thread' \in [Threads -> Thread]
    BY <1>18, EndType DEF InsertNext
  <2> QED BY <1>18, <2>2, <2>3 DEF InsertNext, historyVars, TypeOK
<1>19. ASSUME NEW t \in Threads, CompleteRun(t) PROVE TypeOK'
  <2>1. "completed" \in RunStatus /\ "resume" \in PCs
    BY DEF RunStatus, PCs, Moving
  <2>2. run' \in [Runs -> Run]
    BY <1>19, <2>1 DEF CompleteRun, TypeOK, Run
  <2>3. thread' \in [Threads -> Thread]
    BY <1>19, <2>1, GotoType DEF CompleteRun
  <2> QED BY <1>19, <2>2, <2>3 DEF CompleteRun, historyVars, TypeOK
<1>20. ASSUME NEW t \in Threads, ResumeParent(t) PROVE TypeOK'
  <2>1. thread[t].run \in Runs
    BY <1>20 DEF ResumeParent, At, StepsExist, ThreadInside, Inside
  <2>2. run[thread[t].run].parent # 0 =>
          Inside(run[thread[t].run].parent, run[thread[t].run].at)
    BY <2>1 DEF StepsExist, ParentInside
  <2>3. thread' \in [Threads -> Thread]
    BY <1>20, <2>2, EndType, StepOnType DEF ResumeParent
  <2> QED BY <1>20, <2>3 DEF ResumeParent, historyVars, TypeOK
<1>21. ASSUME NEW t \in Threads, FailRun(t) PROVE TypeOK'
  <2>1. "failed" \in RunStatus
    BY DEF RunStatus
  <2>2. run' \in [Runs -> Run]
    BY <1>21, <2>1 DEF FailRun, TypeOK, Run
  <2>3. thread' \in [Threads -> Thread]
    BY <1>21, EndType DEF FailRun
  <2> QED BY <1>21, <2>2, <2>3 DEF FailRun, historyVars, TypeOK
<1>22. ASSUME NEW r \in Runs, TimeoutPasses(r) PROVE TypeOK'
  <2>1. run' \in [Runs -> Run]
    <3>1. ASSUME NEW b \in BOOLEAN PROVE [run EXCEPT ![r].late = b] \in [Runs -> Run]
      BY DEF TypeOK, Run
    <3>2. [run EXCEPT ![r].late = TRUE] \in [Runs -> Run]
      BY <3>1
    <3> QED BY <1>22, <3>2 DEF TimeoutPasses
  <2>2. UNCHANGED <<job, thread, started, redriving, dropped, loosened, faults, calls>>
    BY <1>22 DEF TimeoutPasses, historyVars
  <2> QED BY <2>1, <2>2 DEF TypeOK
<1>23. ASSUME NEW j \in Jobs, MistakeBranch(j) PROVE TypeOK'
  <2>1. {job[j].run} \in SUBSET (Runs \cup {0}) /\ "mark" \in PCs
    BY DEF TypeOK, Job, PCs, Deciding, Written
  <2>2. thread' \in [Threads -> Thread]
    BY <1>0, <1>23, <2>1, GotoType DEF MistakeBranch
  <2> QED BY <1>23, <2>1, <2>2, FaultType DEF MistakeBranch, TypeOK
<1>24. ASSUME NEW j \in Jobs, OutcomeLost(j) PROVE TypeOK'
  <2>1. {job[j].run} \in SUBSET (Runs \cup {0})
    BY DEF TypeOK, Job
  <2>2. thread' \in [Threads -> Thread]
    BY <1>0, <1>24, FollowInPCs, GotoType DEF OutcomeLost
  <2> QED BY <1>24, <2>1, <2>2, FaultType DEF OutcomeLost, TypeOK
<1>25. ASSUME NEW j \in Jobs, ExpireJob(j) PROVE TypeOK'
  <2>1. {job[j].run} \in SUBSET (Runs \cup {0})
    BY DEF TypeOK, Job
  <2>2. job' \in [Jobs -> Job]
    BY <1>25 DEF ExpireJob, TypeOK, Job, JobStatus
  <2>3. /\ dropped' \subseteq Runs \cup {0} /\ loosened' \subseteq Runs \cup {0}
        /\ faults' \in 0..MaxFaults /\ calls' \in 0..MaxCalls
    BY <1>25, <2>1, FaultType DEF ExpireJob
  <2> QED BY <1>25, <2>2, <2>3 DEF ExpireJob, TypeOK
<1>26. ASSUME NEW j \in Jobs, RetryJob(j) PROVE TypeOK'
  <2>0. "available" \in JobStatus
    BY DEF JobStatus
  <2>1. job' \in [Jobs -> Job]
    <3>1. [job[j] EXCEPT !.status = "available", !.attempt = 0] \in Job
      BY <2>0 DEF TypeOK, Job
    <3>2. job' = [job EXCEPT ![j] = [job[j] EXCEPT !.status = "available", !.attempt = 0]]
      BY <1>26 DEF RetryJob, TypeOK
    <3> QED BY <3>1, <3>2 DEF TypeOK
  <2> QED BY <1>26, <2>1, CallType DEF RetryJob, TypeOK
<1>27. ASSUME NEW t \in Threads, Abandon(t) PROVE TypeOK'
  <2>1. LostBy({t}) \in SUBSET (Runs \cup {0})
    BY DEF LostBy, TypeOK, Thread
  <2>2. thread' \in [Threads -> Thread]
    BY <1>27, EndType DEF Abandon
  <2> QED BY <1>27, <2>1, <2>2, FaultType DEF Abandon, TypeOK
<1>28. ASSUME Crash PROVE TypeOK'
  <2>1. LostBy(Threads) \in SUBSET (Runs \cup {0})
    BY DEF LostBy, TypeOK, Thread
  <2>2. thread' \in [Threads -> Thread]
    BY <1>28 DEF Crash, Idle, Thread
  <2> QED BY <1>28, <2>1, <2>2, FaultType DEF Crash, TypeOK
<1>29. ASSUME NEW r \in Runs, Redrive(r) PROVE TypeOK'
  <2>1. run' \in [Runs -> Run]
    BY <1>29 DEF Redrive, TypeOK, Run, RunStatus
  <2> QED BY <1>29, <2>1, CallType DEF Redrive, TypeOK
<1>30. ASSUME RedriveJobs PROVE TypeOK'
  <2>1. job' \in [Jobs -> Job]
    <3>1. "available" \in JobStatus
      BY DEF JobStatus
    <3>2. ASSUME NEW j \in Jobs
          PROVE  [job[j] EXCEPT !.status = "available", !.attempt = 0] \in Job
      BY <3>1 DEF TypeOK, Job
    <3> QED BY <1>30, <3>2 DEF RedriveJobs, TypeOK
  <2> QED BY <1>30, <2>1 DEF RedriveJobs, TypeOK
<1> QED
  BY <1>1, <1>2, <1>3, <1>4, <1>5, <1>6, <1>7, <1>8, <1>9, <1>10, <1>11, <1>12, <1>13,
     <1>14, <1>15, <1>16, <1>17, <1>18, <1>19, <1>20, <1>21, <1>22, <1>23, <1>24, <1>25,
     <1>26, <1>27, <1>28, <1>29, <1>30, <1>31
  DEF Next, Move, JobStep, RunStep

-----------------------------------------------------------------------------
(* Where a thread may go.                                                  *)

LEMMA EndInside ==
  ASSUME TypeOK, NEW t \in Threads, End(t)
  PROVE  ThreadInside(t)' /\ \A u \in Threads \ {t} : thread'[u] = thread[u]
BY DEF TypeOK, End, Idle, ThreadInside, At, OfJob, Deciding, Written

LEMMA SetThreadInside ==
  ASSUME TypeOK, NEW t \in Threads, NEW r, NEW i, NEW k, Inside(r, k)',
         \/ SetThread(t, "move", r, i) /\ Inside(r, i)'
         \/ SetThread(t, "insert", r, i) /\ Inside(r, i)'
         \/ SetThread(t, "complete", r, i)
  PROVE  ThreadInside(t)' /\ \A u \in Threads \ {t} : thread'[u] = thread[u]
<1>1. Inside(r, 1)'
  BY DEF Inside
<1> QED BY <1>1 DEF TypeOK, SetThread, ThreadInside, At, OfJob, Deciding, Written

LEMMA StepOnInside ==
  ASSUME TypeOK, Persist, NEW t \in Threads, NEW r, NEW i, Inside(r, i), StepOn(t, r, i)
  PROVE  ThreadInside(t)' /\ \A u \in Threads \ {t} : thread'[u] = thread[u]
<1>1. Inside(r, i)'
  BY InsideStays
<1>2. i < Len(StepsOf(r)) => Inside(r, i + 1)'
  <2>1. i < Len(StepsOf(r)) => Inside(r, i + 1)
    BY StepIsStep DEF Inside
  <2> QED BY <2>1, InsideStays
<1> QED BY <1>1, <1>2, SetThreadInside DEF StepOn

LEMMA StepOnOrEndInside ==
  ASSUME TypeOK, Persist, NEW t \in Threads, NEW r, NEW i, Inside(r, i), StepOnOrEnd(t, r, i)
  PROVE  ThreadInside(t)' /\ \A u \in Threads \ {t} : thread'[u] = thread[u]
<1>1. Inside(r, i)'
  BY InsideStays
<1> QED BY <1>1, StepOnInside, SetThreadInside DEF StepOnOrEnd

(* A thread that only changes its pc keeps its run and its job.            *)
LEMMA GotoInside ==
  ASSUME IInv, Persist, NEW t \in Threads, NEW pc \in PCs, Goto(t, pc),
         ~At(t, "idle"),
         pc \in {"catch", "move", "insert"} => Inside(thread[t].run, thread[t].next),
         pc \in OfJob => thread[t].pc \in OfJob,
         pc = "mark" => StepOf(t).kind # "http",
         pc = "child" => StepOf(t).kind = "workflow",
         pc = "fan" => thread[t].next > 0
  PROVE  ThreadInside(t)' /\ \A u \in Threads \ {t} : thread'[u] = thread[u]
<1> USE DEF IInv
<1>1. ThreadInside(t) /\ thread[t] \in Thread
  BY DEF StepsExist, TypeOK
<1>2. thread'[t] = [thread[t] EXCEPT !.pc = pc] /\ \A u \in Threads \ {t} : thread'[u] = thread[u]
  BY DEF Goto, TypeOK
<1>3. thread'[t].pc = pc /\ thread'[t].run = thread[t].run /\ thread'[t].next = thread[t].next
  BY <1>1, <1>2 DEF Thread
<1>4. Inside(thread[t].run, 1)'
  BY <1>1, <1>3, InsideStays DEF ThreadInside, Inside
<1>5. pc \in OfJob => /\ t \in Jobs /\ job[t].status # "none" /\ job[t].run = thread[t].run
                      /\ JobInside(t)
  BY <1>1 DEF ThreadInside, StepsExist
<1>6. pc \in OfJob => /\ job'[t].status # "none" /\ job'[t].run = thread[t].run
                      /\ StepOf(t)' = StepOf(t)
  BY <1>5, StepOfStays DEF Persist
<1>7. pc \in {"catch", "move", "insert"} => Inside(thread[t].run, thread[t].next)'
  BY InsideStays, <1>3 DEF Inside
<1>8. {"mark", "child"} \subseteq OfJob
  BY DEF OfJob, Deciding, Written
<1> QED BY <1>2, <1>3, <1>4, <1>5, <1>6, <1>7, <1>8 DEF ThreadInside, At

(* A thread that starts with a job, goes to its catch or sets up branches. *)
LEMMA JobThreadInside ==
  ASSUME TypeOK, Persist, NEW j \in Jobs, NEW pc \in {"start", "catch", "fan"},
         NEW r, NEW i, NEW k, SetThread(j, pc, r, i), r = job[j].run, job[j].status # "none",
         Inside(r, k), pc = "catch" => Inside(r, i), pc = "fan" => i > 0
  PROVE  ThreadInside(j)' /\ \A u \in Threads \ {j} : thread'[u] = thread[u]
<1>1. /\ thread'[j] = [pc |-> pc, run |-> r, next |-> i]
      /\ \A u \in Threads \ {j} : thread'[u] = thread[u]
  BY DEF SetThread, TypeOK, Threads
<1>2. Inside(r, 1)' /\ (pc = "catch" => Inside(r, i)')
  <2>1. Inside(r, 1)
    BY DEF Inside
  <2> QED BY <2>1, InsideStays
<1>3. job'[j].status # "none" /\ job'[j].run = r
  BY DEF Persist
<1> QED BY <1>1, <1>2, <1>3 DEF ThreadInside, At

LEMMA Still ==
  ASSUME UNCHANGED <<run, job>>
  PROVE  /\ Persist
         /\ \A j \in Jobs : job'[j].status # "none" => job[j].status # "none"
         /\ \A r \in Runs : run'[r].parent = run[r].parent /\ run'[r].at = run[r].at
BY DEF Persist

LEMMA FollowFacts ==
  ASSUME IInv, NEW j \in Jobs, thread[j].pc \in DOMAIN Written, ~At(j, "retry")
  PROVE  /\ Follow(j) \in PCs /\ Follow(j) \notin {"mark", "fan", "catch", "insert"}
         /\ Follow(j) = "move" => At(j, "catch")
         /\ Follow(j) = "child" => StepOf(j).kind = "workflow"
<1>1. thread[j].pc \in OfJob
  BY DEF OfJob, Deciding
<1>2. StepOf(j).kind \in Kind
  BY <1>1, JobStepIsStep DEF Step
<1>3. At(j, "mark") => StepOf(j).kind # "http"
  BY DEF IInv, StepsExist, ThreadInside, Threads
<1>4. Follow(j) \in PCs
  BY FollowInPCs
<1>5. CASE At(j, "mark")
  <2>1. StepOf(j).kind \in {"choice", "parallel", "map", "wait", "callback", "workflow"}
    BY <1>2, <1>3, <1>5 DEF Kind
  <2> QED BY <1>4, <1>5, <2>1 DEF Follow, At
<1>6. CASE ~At(j, "mark")
  <2>1. thread[j].pc \in {"catch", "stop", "expire", "succeed", "continue"}
    BY <1>6 DEF Written, At
  <2> QED BY <1>4, <2>1 DEF Follow, At
<1> QED BY <1>5, <1>6

(* A new job stands at a step of its run; the other jobs stay.             *)
LEMMA InsertJobPersists ==
  ASSUME TypeOK, UNCHANGED run, NEW status, NEW r, NEW i, NEW branch, status # "none",
         InsertJob(status, r, i, branch)
  PROVE  Persist
<1> PICK k \in FreeJobs : job' = [job EXCEPT ![k] = NewJob(status, r, i, branch)]
  BY DEF InsertJob
<1> QED BY DEF Persist, FreeJobs, TypeOK

LEMMA InsertJobInside ==
  ASSUME IInv, UNCHANGED run, NEW t \in Threads, ThreadInside(t)',
         \A u \in Threads \ {t} : thread'[u] = thread[u],
         NEW status, NEW r, NEW i, NEW branch, status # "none", Inside(r, i),
         InsertJob(status, r, i, branch)
  PROVE  StepsExist'
<1> USE DEF IInv
<1> PICK k \in FreeJobs : job' = [job EXCEPT ![k] = NewJob(status, r, i, branch)]
  BY DEF InsertJob
<1>1. k \in Jobs /\ job[k].status = "none" /\ job \in [Jobs -> Job]
  BY DEF FreeJobs, TypeOK
<1>2. Persist
  BY InsertJobPersists
<1>3. ASSUME NEW j \in Jobs PROVE JobInside(j)'
  <2>1. CASE j = k
    <3>1. job'[k].run = r /\ job'[k].step = i
      BY <1>1 DEF NewJob
    <3> QED BY <1>2, <2>1, <3>1, InsideStays DEF JobInside
  <2>2. CASE j # k /\ job[j].status # "none"
    BY <1>2, <2>2, JobStays
  <2>3. CASE j # k /\ job[j].status = "none"
    BY <1>1, <2>3 DEF JobInside
  <2> QED BY <2>1, <2>2, <2>3
<1>4. ASSUME NEW p \in Runs PROVE ParentInside(p)'
  BY <1>2, ParentStays
<1>5. ASSUME NEW u \in Threads PROVE ThreadInside(u)'
  BY <1>2, ThreadStays
<1>6. Jobs' = Jobs /\ Runs' = Runs /\ Threads' = Threads
  BY DEF Jobs, Runs, Threads
<1> QED BY <1>3, <1>4, <1>5, <1>6 DEF StepsExist

(* A new run stands at its first step, and returns to a step of its parent. *)
LEMMA InsertRunInside ==
  ASSUME IInv, UNCHANGED job, NEW t \in Threads, NEW f \in DOMAIN Workflows,
         NEW p \in Runs \cup {0}, NEW i \in Nat, p # 0 => Inside(p, i),
         InsertRun(t, f, p, i)
  PROVE  StepsExist'
<1> USE DEF IInv
<1> PICK r \in FreeRuns : run' = [run EXCEPT ![r] = NewRun(f, p, i)] /\ SetThread(t, "insert", r, 1)
  BY DEF InsertRun
<1>1. r \in Runs /\ run[r].status = "none" /\ run \in [Runs -> Run]
  BY DEF FreeRuns, TypeOK
<1>2. Persist
  BY <1>1 DEF Persist
<1>3. run'[r] = NewRun(f, p, i) /\ \A q \in Runs \ {r} : run'[q] = run[q]
  BY <1>1
<1>4. Inside(r, 1)'
  <2>1. run'[r].status # "none" /\ run'[r].flow = f
    BY <1>3 DEF NewRun
  <2>2. r \in Runs'
    BY <1>1 DEF Runs
  <2> QED BY <2>1, <2>2, FirstStep DEF Inside, StepsOf
<1>5. ASSUME NEW j \in Jobs PROVE JobInside(j)'
  BY <1>2, JobStays DEF JobInside
<1>6. ASSUME NEW q \in Runs PROVE ParentInside(q)'
  <2>1. CASE q = r
    <3>1. run'[q].parent = p /\ run'[q].at = i
      BY <1>3, <2>1 DEF NewRun
    <3> QED BY <1>2, <3>1, InsideStays DEF ParentInside
  <2>2. CASE q # r
    BY <1>2, <1>3, <2>2, ParentStays
  <2> QED BY <2>1, <2>2
<1>7. ASSUME NEW u \in Threads PROVE ThreadInside(u)'
  BY <1>2, <1>4, SetThreadInside, ThreadStays
<1>8. Jobs' = Jobs /\ Runs' = Runs /\ Threads' = Threads
  BY DEF Jobs, Runs, Threads
<1> QED BY <1>5, <1>6, <1>7, <1>8 DEF StepsExist

(* A step that leaves the threads alone, and every job and parent in place. *)
LEMMA SamePlace ==
  ASSUME StepsExist, UNCHANGED thread, Persist,
         \A j \in Jobs : job'[j].status # "none" => job[j].status # "none",
         \A r \in Runs : run'[r].parent = run[r].parent /\ run'[r].at = run[r].at
  PROVE  StepsExist'
<1>1. 0 \in Threads
  BY DEF Threads
<1>2. ThreadInside(0)'
  BY <1>1, ThreadStays
<1> QED BY <1>1, <1>2, OneThread

LEMMA StepsExistPreserved ==
  ASSUME IInv, Next
  PROVE  StepsExist'
<1> USE DEF IInv
<1>0. Jobs \subseteq Threads /\ 0 \in Threads /\ 0 \in Nat
  BY DEF Threads
<1>1. ASSUME NEW f \in Roots, StartWorkflow(f) PROVE StepsExist'
  <2>1. f \in DOMAIN Workflows
    BY DefinitionsAssumption DEF DefinitionsAssumption, Accepted, StepAccepted
  <2> QED BY <1>0, <1>1, <2>1, InsertRunInside DEF StartWorkflow
<1>2. ASSUME NEW j \in Jobs, Claim(j) PROVE StepsExist'
  <2>1. /\ Persist
        /\ \A k \in Jobs : job'[k].status # "none" => job[k].status # "none"
        /\ \A r \in Runs : run'[r].parent = run[r].parent /\ run'[r].at = run[r].at
    BY <1>2 DEF Claim, TypeOK, Job, Persist
  <2>2. Inside(job[j].run, job[j].step) /\ job[j].status # "none"
    BY <1>2 DEF Claim, StepsExist, JobInside
  <2>3. ThreadInside(j)' /\ \A u \in Threads \ {j} : thread'[u] = thread[u]
    BY <1>2, <2>1, <2>2, JobThreadInside DEF Claim
  <2> QED BY <1>0, <2>1, <2>3, OneThread
<1>3. ASSUME NEW j \in Jobs, Recover(j) PROVE StepsExist'
  <2>1. /\ Persist
        /\ \A k \in Jobs : job'[k].status # "none" => job[k].status # "none"
        /\ \A r \in Runs : run'[r].parent = run[r].parent /\ run'[r].at = run[r].at
    BY <1>3 DEF Recover, TypeOK, Job, Persist
  <2> QED BY <1>3, <2>1, SamePlace DEF Recover
<1>4. ASSUME NEW j \in Jobs, Dispatch(j) PROVE StepsExist'
  <2>1. thread[j].pc \in OfJob /\ ~At(j, "idle")
    BY <1>4 DEF Dispatch, At, OfJob, Deciding
  <2>2. {"expire", "request", "mark"} \subseteq PCs
    BY DEF PCs, Deciding, Written
  <2>3. CASE Goto(j, "expire") \/ Goto(j, "request")
    <3>1. ThreadInside(j)' /\ \A u \in Threads \ {j} : thread'[u] = thread[u]
      BY <1>0, <1>4, <2>1, <2>2, <2>3, Still, GotoInside DEF Dispatch
    <3> QED BY <1>0, <1>4, <3>1, Still, OneThread DEF Dispatch
  <2>4. CASE Goto(j, "mark") /\ StepOf(j).kind # "http"
    <3>1. ThreadInside(j)' /\ \A u \in Threads \ {j} : thread'[u] = thread[u]
      BY <1>0, <1>4, <2>1, <2>2, <2>4, Still, GotoInside DEF Dispatch
    <3> QED BY <1>0, <1>4, <3>1, Still, OneThread DEF Dispatch
  <2> QED BY <1>4, <2>3, <2>4 DEF Dispatch
<1>5. ASSUME NEW j \in Jobs, Request(j) PROVE StepsExist'
  <2>1. thread[j].pc \in OfJob /\ ~At(j, "idle")
    BY <1>5 DEF Request, At, OfJob, Deciding
  <2>2. {"succeed", "retry", "catch", "continue", "stop"} \subseteq PCs
    BY DEF PCs, Deciding, Written
  <2>3. /\ Inside(job[j].run, job[j].step) /\ job[j].status # "none"
        /\ job[j].run = thread[j].run
        /\ StepOf(j) = StepsOf(job[j].run)[job[j].step]
    BY <2>1, JobStepIsStep
  <2>4. ASSUME NEW pc \in {"succeed", "retry", "continue", "stop"}, Goto(j, pc)
        PROVE  ThreadInside(j)' /\ \A u \in Threads \ {j} : thread'[u] = thread[u]
    BY <1>0, <1>5, <2>1, <2>2, <2>4, Still, GotoInside DEF Request
  <2>5. ASSUME NEW c \in 1..Len(StepOf(j).catch),
               SetThread(j, "catch", job[j].run, StepOf(j).catch[c].goto)
        PROVE  ThreadInside(j)' /\ \A u \in Threads \ {j} : thread'[u] = thread[u]
    <3> DEFINE i == StepOf(j).catch[c].goto
    <3>1. Inside(job[j].run, i)
      BY <2>3, StepIsStep DEF Inside
    <3> QED BY <1>5, <2>3, <2>5, <3>1, Still, JobThreadInside DEF Request
  <2>6. ASSUME NEW e \in ErrorType, Fails(j, e)
        PROVE  ThreadInside(j)' /\ \A u \in Threads \ {j} : thread'[u] = thread[u]
    BY <2>4, <2>5, <2>6 DEF Fails, Catching
  <2>7. ThreadInside(j)' /\ \A u \in Threads \ {j} : thread'[u] = thread[u]
    BY <1>5, <2>4, <2>6 DEF Request
  <2> QED BY <1>0, <1>5, <2>7, Still, OneThread DEF Request
<1>6. ASSUME NEW j \in Jobs, WriteOutcome(j) PROVE StepsExist'
  <2>1. thread[j].pc \in OfJob /\ ~At(j, "idle")
    BY <1>6 DEF WriteOutcome, At, OfJob, Deciding, Written
  <2>2. Written[thread[j].pc] # "none" /\ job[j].status # "none"
    BY <1>6, <2>1, JobStepIsStep DEF WriteOutcome, Written
  <2>3. /\ Persist
        /\ \A k \in Jobs : job'[k].status # "none" => job[k].status # "none"
        /\ \A r \in Runs : run'[r].parent = run[r].parent /\ run'[r].at = run[r].at
    BY <1>6, <2>2 DEF WriteOutcome, TypeOK, Job, Persist
  <2>4. CASE At(j, "retry")
    <3>1. ThreadInside(j)' /\ \A u \in Threads \ {j} : thread'[u] = thread[u]
      BY <1>0, <1>6, <2>4, EndInside DEF WriteOutcome
    <3> QED BY <1>0, <2>3, <3>1, OneThread
  <2>5. CASE ~At(j, "retry")
    <3>1. /\ Follow(j) \in PCs /\ Follow(j) \notin {"mark", "fan", "catch", "insert"}
          /\ Follow(j) = "move" => At(j, "catch")
          /\ Follow(j) = "child" => StepOf(j).kind = "workflow"
      BY <1>6, <2>5, FollowFacts DEF WriteOutcome
    <3>2. At(j, "catch") => Inside(thread[j].run, thread[j].next)
      BY <1>0 DEF StepsExist, ThreadInside, At
    <3>3. Goto(j, Follow(j))
      BY <1>6, <2>5 DEF WriteOutcome
    <3>4. ThreadInside(j)' /\ \A u \in Threads \ {j} : thread'[u] = thread[u]
      BY <1>0, <2>1, <2>3, <3>1, <3>2, <3>3, GotoInside
    <3> QED BY <1>0, <2>3, <3>4, OneThread
  <2> QED BY <2>4, <2>5
<1>7. ASSUME NEW j \in Jobs, Advance(j) PROVE StepsExist'
  <2>1. /\ thread[j].pc \in OfJob /\ ~At(j, "idle") /\ "fail" \in PCs
        /\ Inside(job[j].run, job[j].step)
    BY <1>7, JobStepIsStep DEF Advance, At, OfJob, PCs, Moving
  <2>2. CASE Goto(j, "fail")
    <3>1. ThreadInside(j)' /\ \A u \in Threads \ {j} : thread'[u] = thread[u]
      BY <1>0, <1>7, <2>1, <2>2, Still, GotoInside DEF Advance
    <3> QED BY <1>0, <1>7, <3>1, Still, OneThread DEF Advance
  <2>3. CASE StepOnOrEnd(j, job[j].run, job[j].step)
    <3>1. ThreadInside(j)' /\ \A u \in Threads \ {j} : thread'[u] = thread[u]
      BY <1>0, <1>7, <2>1, <2>3, Still, StepOnOrEndInside DEF Advance
    <3> QED BY <1>0, <1>7, <3>1, Still, OneThread DEF Advance
  <2> QED BY <1>7, <2>2, <2>3 DEF Advance
<1>8. ASSUME NEW j \in Jobs, Choose(j) PROVE StepsExist'
  <2>1. /\ thread[j].pc \in OfJob /\ ~At(j, "idle") /\ "fail" \in PCs
        /\ Inside(job[j].run, job[j].step) /\ job[j].run \in Runs
        /\ StepOf(j) = StepsOf(job[j].run)[job[j].step]
    BY <1>8, JobStepIsStep DEF Choose, At, OfJob, PCs, Moving
  <2>2. CASE Goto(j, "fail")
    <3>1. ThreadInside(j)' /\ \A u \in Threads \ {j} : thread'[u] = thread[u]
      BY <1>0, <1>8, <2>1, <2>2, Still, GotoInside DEF Choose
    <3> QED BY <1>0, <1>8, <3>1, Still, OneThread DEF Choose
  <2>3. ASSUME NEW i \in StepOf(j).choices \cup {StepOf(j).default}, i # 0,
               SetThread(j, "move", job[j].run, i)
        PROVE  StepsExist'
    <3>1. Inside(job[j].run, i)
      BY <2>1, <2>3, StepIsStep DEF Inside
    <3>2. PICK r : r = job[j].run
      OBVIOUS
    <3>3. Inside(r, i)'
      BY <1>8, <3>1, <3>2, Still, InsideStays DEF Choose
    <3>4. ThreadInside(j)' /\ \A u \in Threads \ {j} : thread'[u] = thread[u]
      BY <1>0, <2>3, <3>2, <3>3, SetThreadInside
    <3> QED BY <1>0, <1>8, <3>4, Still, OneThread DEF Choose
  <2>4. 0 \notin StepOf(j).choices
    BY <2>1, StepIsStep
  <2> QED BY <1>8, <2>2, <2>3, <2>4 DEF Choose
<1>9. ASSUME NEW j \in Jobs, PassWait(j) PROVE StepsExist'
  <2>1. Inside(job[j].run, job[j].step)
    BY <1>9, JobStepIsStep DEF PassWait, At, OfJob
  <2>2. ThreadInside(j)' /\ \A u \in Threads \ {j} : thread'[u] = thread[u]
    BY <1>0, <1>9, <2>1, Still, StepOnInside DEF PassWait
  <2> QED BY <1>0, <1>9, <2>2, Still, OneThread DEF PassWait
<1>10. ASSUME NEW j \in Jobs, SetUpBranches(j) PROVE StepsExist'
  <2>1. /\ job[j].run \in Runs /\ job[j].status # "none" /\ StepOf(j) \in Step
        /\ Inside(job[j].run, job[j].step)
        /\ StepOf(j) = StepsOf(job[j].run)[job[j].step]
    BY <1>10, JobStepIsStep DEF SetUpBranches, SetParallel, At, OfJob
  <2>2. PICK n \in IF StepOf(j).kind = "map" THEN ItemCounts ELSE {StepOf(j).branches} :
          IF n = 0 THEN End(j) /\ UNCHANGED run
          ELSE /\ run' = [run EXCEPT ![job[j].run].count = n, ![job[j].run].done = 0]
               /\ SetThread(j, "fan", job[j].run, n)
    BY <1>10 DEF SetUpBranches, SetParallel
  <2>3. n \in Nat
    BY <2>1, BoundsAssumption DEF BoundsAssumption, Step
  <2>4. CASE n = 0
    <3>1. ThreadInside(j)' /\ \A u \in Threads \ {j} : thread'[u] = thread[u]
      BY <1>0, <2>2, <2>4, EndInside
    <3> QED BY <1>0, <1>10, <2>2, <2>4, <3>1, Still, OneThread DEF SetUpBranches, SetParallel
  <2>5. CASE n # 0
    <3>1. /\ Persist
          /\ \A k \in Jobs : job'[k].status # "none" => job[k].status # "none"
          /\ \A r \in Runs : run'[r].parent = run[r].parent /\ run'[r].at = run[r].at
      <4>1. run' = [run EXCEPT ![job[j].run].count = n, ![job[j].run].done = 0]
        BY <2>2, <2>5
      <4>2. \A r \in Runs :
              /\ run'[r].status = run[r].status /\ run'[r].flow = run[r].flow
              /\ run'[r].parent = run[r].parent /\ run'[r].at = run[r].at
        BY <2>1, <4>1 DEF TypeOK, Run
      <4>3. job' = job
        BY <1>10 DEF SetUpBranches, SetParallel
      <4> QED BY <4>2, <4>3 DEF Persist
    <3>2. ThreadInside(j)' /\ \A u \in Threads \ {j} : thread'[u] = thread[u]
      <4>1. SetThread(j, "fan", job[j].run, n) /\ n > 0
        BY <2>2, <2>3, <2>5
      <4>2. PICK r, k : r = job[j].run /\ Inside(r, k)
        BY <2>1
      <4>3. SetThread(j, "fan", r, n)
        BY <4>1, <4>2
      <4> QED BY <2>1, <3>1, <4>1, <4>2, <4>3, JobThreadInside
    <3> QED BY <1>0, <3>1, <3>2, OneThread
  <2> QED BY <2>4, <2>5
<1>11. ASSUME NEW j \in Jobs, InsertBranch(j) PROVE StepsExist'
  <2>1. Inside(job[j].run, job[j].step) /\ thread[j].pc \in OfJob
    BY <1>11, JobStepIsStep DEF InsertBranch, At, OfJob
  <2>2. Persist
    BY <1>11, InsertJobPersists DEF InsertBranch
  <2>3. ThreadInside(j)' /\ \A u \in Threads \ {j} : thread'[u] = thread[u]
    <3>1. CASE thread[j].next = 1
      BY <1>0, <1>11, <3>1, EndInside DEF InsertBranch
    <3>2. CASE thread[j].next # 1
      <4>1. thread[j] \in Thread /\ ThreadInside(j)
        BY <1>0 DEF TypeOK, StepsExist
      <4>2. /\ thread'[j] = [thread[j] EXCEPT !.next = @ - 1]
            /\ \A u \in Threads \ {j} : thread'[u] = thread[u]
        BY <1>0, <1>11, <3>2 DEF InsertBranch, TypeOK
      <4>3. thread[j].next \in Nat \ {0} /\ thread[j].pc = "fan"
        BY <1>11, <4>1 DEF InsertBranch, ThreadInside, At, Thread
      <4>4. thread'[j].pc = "fan" /\ thread'[j].run = thread[j].run /\ thread'[j].next > 0
        BY <3>2, <4>1, <4>2, <4>3 DEF Thread
      <4>5. PICK r : r = thread[j].run /\ Inside(r, 1)
        BY <4>1, <4>3 DEF ThreadInside, At
      <4>6. Inside(r, 1)'
        BY <2>2, <4>5, InsideStays
      <4>7. job'[j].status # "none" /\ job'[j].run = thread[j].run
        BY <2>1, <2>2, <4>1 DEF ThreadInside, Persist
      <4> QED BY <4>2, <4>4, <4>5, <4>6, <4>7 DEF ThreadInside, At
    <3> QED BY <3>1, <3>2
  <2> QED BY <1>0, <1>11, <2>1, <2>3, InsertJobInside DEF InsertBranch
<1>12. ASSUME NEW j \in Jobs, CountBranch(j) PROVE StepsExist'
  <2>1. /\ job[j].run \in Runs /\ thread[j].pc \in OfJob /\ ~At(j, "idle")
        /\ "merge" \in PCs /\ "tally" \in PCs
    BY <1>12, JobStepIsStep DEF CountBranch, At, OfJob, PCs, Moving
  <2>2. /\ Persist
        /\ \A k \in Jobs : job'[k].status # "none" => job[k].status # "none"
        /\ \A r \in Runs : run'[r].parent = run[r].parent /\ run'[r].at = run[r].at
    BY <1>12, <2>1 DEF CountBranch, TypeOK, Run, Persist
  <2>3. ThreadInside(j)' /\ \A u \in Threads \ {j} : thread'[u] = thread[u]
    BY <1>0, <1>12, <2>1, <2>2, EndInside, GotoInside DEF CountBranch
  <2> QED BY <1>0, <2>2, <2>3, OneThread
<1>31. ASSUME NEW j \in Jobs, ReadCount(j) PROVE StepsExist'
  <2>1. thread[j].pc \in OfJob /\ ~At(j, "idle") /\ "merge" \in PCs
    BY <1>31 DEF ReadCount, At, OfJob, PCs, Moving
  <2>2. /\ Persist
        /\ \A k \in Jobs : job'[k].status # "none" => job[k].status # "none"
        /\ \A r \in Runs : run'[r].parent = run[r].parent /\ run'[r].at = run[r].at
    BY <1>31 DEF ReadCount, Persist
  <2>3. ThreadInside(j)' /\ \A u \in Threads \ {j} : thread'[u] = thread[u]
    BY <1>0, <1>31, <2>1, <2>2, EndInside, GotoInside DEF ReadCount
  <2> QED BY <1>0, <2>2, <2>3, OneThread
<1>13. ASSUME NEW j \in Jobs, MergeBranches(j) PROVE StepsExist'
  <2>1. job[j].run \in Runs /\ Inside(job[j].run, job[j].step)
    BY <1>13, JobStepIsStep DEF MergeBranches, SetParallel, At, OfJob
  <2>2. /\ Persist
        /\ \A k \in Jobs : job'[k].status # "none" => job[k].status # "none"
        /\ \A r \in Runs : run'[r].parent = run[r].parent /\ run'[r].at = run[r].at
    BY <1>13, <2>1 DEF MergeBranches, SetParallel, TypeOK, Run, Persist
  <2>3. ThreadInside(j)' /\ \A u \in Threads \ {j} : thread'[u] = thread[u]
    BY <1>0, <1>13, <2>1, <2>2, StepOnOrEndInside DEF MergeBranches, SetParallel
  <2> QED BY <1>0, <2>2, <2>3, OneThread
<1>14. ASSUME NEW j \in Jobs, AwaitCallback(j) PROVE StepsExist'
  <2>1. Inside(job[j].run, job[j].step)
    BY <1>14, JobStepIsStep DEF AwaitCallback, InsertCallback, At, OfJob
  <2>2. ThreadInside(j)' /\ \A u \in Threads \ {j} : thread'[u] = thread[u]
    BY <1>0, <1>14, EndInside DEF AwaitCallback, InsertCallback
  <2> QED BY <1>0, <1>14, <2>1, <2>2, InsertJobInside DEF AwaitCallback, InsertCallback
<1>15. ASSUME NEW j \in Jobs, LaunchChild(j) PROVE StepsExist'
  <2>1. /\ Inside(job[j].run, job[j].step)
        /\ StepOf(j) = StepsOf(job[j].run)[job[j].step]
    BY <1>15, JobStepIsStep DEF LaunchChild, At, OfJob
  <2>2. StepOf(j).kind = "workflow"
    BY <1>0, <1>15 DEF LaunchChild, StepsExist, ThreadInside
  <2>3. StepOf(j).child \in DOMAIN Workflows
    BY <2>1, <2>2, StepIsStep
  <2>4. job[j].run \in Runs \cup {0} /\ job[j].step \in Nat
    BY DEF TypeOK, Job
  <2> QED BY <1>0, <1>15, <2>1, <2>3, <2>4, InsertRunInside DEF LaunchChild
<1>16. ASSUME NEW j \in Jobs, CallbackArrives(j) PROVE StepsExist'
  <2>1. Inside(job[j].run, job[j].step)
    BY <1>16 DEF CallbackArrives, ResumeJob, StepsExist, JobInside
  <2>2. /\ Persist
        /\ \A k \in Jobs : job'[k].status # "none" => job[k].status # "none"
        /\ \A r \in Runs : run'[r].parent = run[r].parent /\ run'[r].at = run[r].at
    BY <1>16 DEF CallbackArrives, ResumeJob, TypeOK, Job, Persist
  <2>3. ThreadInside(j)' /\ \A u \in Threads \ {j} : thread'[u] = thread[u]
    BY <1>0, <1>16, <2>1, <2>2, StepOnOrEndInside DEF CallbackArrives, ResumeJob
  <2> QED BY <1>0, <2>2, <2>3, OneThread
<1>17. ASSUME NEW t \in Threads, MoveRun(t) PROVE StepsExist'
  <2>1. /\ thread[t].run \in Runs /\ Inside(thread[t].run, thread[t].next)
        /\ "insert" \in PCs /\ "insert" \notin OfJob /\ ~At(t, "idle")
    BY <1>17 DEF MoveRun, At, StepsExist, ThreadInside, Inside, PCs, Moving, OfJob,
                 Deciding, Written
  <2>2. /\ Persist
        /\ \A k \in Jobs : job'[k].status # "none" => job[k].status # "none"
        /\ \A r \in Runs : run'[r].parent = run[r].parent /\ run'[r].at = run[r].at
    BY <1>17, <2>1 DEF MoveRun, TypeOK, Run, Persist
  <2>3. ThreadInside(t)' /\ \A u \in Threads \ {t} : thread'[u] = thread[u]
    BY <1>17, <2>1, <2>2, GotoInside DEF MoveRun
  <2> QED BY <2>2, <2>3, OneThread
<1>18. ASSUME NEW t \in Threads, InsertNext(t) PROVE StepsExist'
  <2>1. Inside(thread[t].run, thread[t].next)
    BY <1>18 DEF InsertNext, At, StepsExist, ThreadInside
  <2>2. ThreadInside(t)' /\ \A u \in Threads \ {t} : thread'[u] = thread[u]
    BY <1>18, EndInside DEF InsertNext
  <2> QED BY <1>18, <2>1, <2>2, InsertJobInside DEF InsertNext
<1>19. ASSUME NEW t \in Threads, CompleteRun(t) PROVE StepsExist'
  <2>1. /\ thread[t].run \in Runs /\ ~At(t, "idle")
        /\ "resume" \in PCs /\ "resume" \notin OfJob
    BY <1>19 DEF CompleteRun, At, StepsExist, ThreadInside, Inside, PCs, Moving, OfJob,
                 Deciding, Written
  <2>2. /\ Persist
        /\ \A k \in Jobs : job'[k].status # "none" => job[k].status # "none"
        /\ \A r \in Runs : run'[r].parent = run[r].parent /\ run'[r].at = run[r].at
    BY <1>19, <2>1 DEF CompleteRun, TypeOK, Run, Persist
  <2>3. ThreadInside(t)' /\ \A u \in Threads \ {t} : thread'[u] = thread[u]
    BY <1>19, <2>1, <2>2, GotoInside DEF CompleteRun
  <2> QED BY <2>2, <2>3, OneThread
<1>20. ASSUME NEW t \in Threads, ResumeParent(t) PROVE StepsExist'
  <2>1. thread[t].run \in Runs
    BY <1>20 DEF ResumeParent, At, StepsExist, ThreadInside, Inside
  <2>2. run[thread[t].run].parent # 0 =>
          Inside(run[thread[t].run].parent, run[thread[t].run].at)
    BY <2>1 DEF StepsExist, ParentInside
  <2>3. ThreadInside(t)' /\ \A u \in Threads \ {t} : thread'[u] = thread[u]
    BY <1>20, <2>2, Still, EndInside, StepOnInside DEF ResumeParent
  <2> QED BY <1>20, <2>3, Still, OneThread DEF ResumeParent
<1>21. ASSUME NEW t \in Threads, FailRun(t) PROVE StepsExist'
  <2>1. thread[t].run \in Runs
    BY <1>21 DEF FailRun, At, StepsExist, ThreadInside, Inside
  <2>2. /\ Persist
        /\ \A k \in Jobs : job'[k].status # "none" => job[k].status # "none"
        /\ \A r \in Runs : run'[r].parent = run[r].parent /\ run'[r].at = run[r].at
    BY <1>21, <2>1 DEF FailRun, TypeOK, Run, Persist
  <2>3. ThreadInside(t)' /\ \A u \in Threads \ {t} : thread'[u] = thread[u]
    BY <1>21, EndInside DEF FailRun
  <2> QED BY <2>2, <2>3, OneThread
<1>22. ASSUME NEW r \in Runs, TimeoutPasses(r) PROVE StepsExist'
  <2>1. /\ Persist
        /\ \A k \in Jobs : job'[k].status # "none" => job[k].status # "none"
        /\ \A q \in Runs : run'[q].parent = run[q].parent /\ run'[q].at = run[q].at
    <3>1. ASSUME NEW b \in BOOLEAN, NEW q \in Runs
          PROVE  LET row == [run EXCEPT ![r].late = b][q]
                 IN  /\ row.status = run[q].status /\ row.flow = run[q].flow
                     /\ row.parent = run[q].parent /\ row.at = run[q].at
      BY DEF TypeOK, Run
    <3>2. run' = [run EXCEPT ![r].late = TRUE] /\ job' = job
      BY <1>22 DEF TimeoutPasses
    <3>3. \A q \in Runs : /\ run'[q].status = run[q].status /\ run'[q].flow = run[q].flow
                          /\ run'[q].parent = run[q].parent /\ run'[q].at = run[q].at
      BY <3>1, <3>2
    <3> QED BY <3>2, <3>3 DEF Persist
  <2> QED BY <1>22, <2>1, SamePlace DEF TimeoutPasses
<1>23. ASSUME NEW j \in Jobs, MistakeBranch(j) PROVE StepsExist'
  <2>1. /\ thread[j].pc \in OfJob /\ ~At(j, "idle") /\ "mark" \in PCs
        /\ StepOf(j).kind # "http"
    BY <1>23 DEF MistakeBranch, At, OfJob, PCs, Deciding, Written
  <2>2. ThreadInside(j)' /\ \A u \in Threads \ {j} : thread'[u] = thread[u]
    BY <1>0, <1>23, <2>1, Still, GotoInside DEF MistakeBranch
  <2> QED BY <1>0, <1>23, <2>2, Still, OneThread DEF MistakeBranch
<1>24. ASSUME NEW j \in Jobs, OutcomeLost(j) PROVE StepsExist'
  <2>1. /\ thread[j].pc \in OfJob /\ ~At(j, "idle") /\ thread[j].pc \in DOMAIN Written
        /\ ~At(j, "retry") /\ ~At(j, "catch")
    BY <1>24 DEF OutcomeLost, At, OfJob, Deciding, Written
  <2>2. /\ Follow(j) \in PCs /\ Follow(j) \notin {"mark", "fan", "catch", "insert"}
        /\ Follow(j) = "move" => At(j, "catch")
        /\ Follow(j) = "child" => StepOf(j).kind = "workflow"
    BY <2>1, FollowFacts
  <2>3. ThreadInside(j)' /\ \A u \in Threads \ {j} : thread'[u] = thread[u]
    BY <1>0, <1>24, <2>1, <2>2, Still, GotoInside DEF OutcomeLost
  <2> QED BY <1>0, <1>24, <2>3, Still, OneThread DEF OutcomeLost
<1>25. ASSUME NEW j \in Jobs, ExpireJob(j) PROVE StepsExist'
  <2>1. /\ Persist
        /\ \A k \in Jobs : job'[k].status # "none" => job[k].status # "none"
        /\ \A r \in Runs : run'[r].parent = run[r].parent /\ run'[r].at = run[r].at
    BY <1>25 DEF ExpireJob, TypeOK, Job, Persist
  <2> QED BY <1>25, <2>1, SamePlace DEF ExpireJob
<1>26. ASSUME NEW j \in Jobs, RetryJob(j) PROVE StepsExist'
  <2>1. /\ Persist
        /\ \A k \in Jobs : job'[k].status # "none" => job[k].status # "none"
        /\ \A r \in Runs : run'[r].parent = run[r].parent /\ run'[r].at = run[r].at
    BY <1>26 DEF RetryJob, TypeOK, Job, Persist
  <2> QED BY <1>26, <2>1, SamePlace DEF RetryJob
<1>27. ASSUME NEW t \in Threads, Abandon(t) PROVE StepsExist'
  <2>1. ThreadInside(t)' /\ \A u \in Threads \ {t} : thread'[u] = thread[u]
    BY <1>27, EndInside DEF Abandon
  <2> QED BY <1>27, <2>1, Still, OneThread DEF Abandon
<1>28. ASSUME Crash PROVE StepsExist'
  <2>1. UNCHANGED <<run, job>> /\ thread' = [t \in Threads |-> Idle]
    BY <1>28 DEF Crash
  <2>2. ASSUME NEW t \in Threads PROVE ThreadInside(t)'
    BY <2>1 DEF Idle, ThreadInside, At, OfJob, Deciding, Written
  <2>3. ASSUME NEW j \in Jobs PROVE JobInside(j)'
    BY <2>1, Still, JobStays DEF JobInside
  <2>4. ASSUME NEW r \in Runs PROVE ParentInside(r)'
    BY <2>1, Still, ParentStays
  <2>5. Jobs' = Jobs /\ Runs' = Runs /\ Threads' = Threads
    BY DEF Jobs, Runs, Threads
  <2> QED BY <2>2, <2>3, <2>4, <2>5 DEF StepsExist
<1>29. ASSUME NEW r \in Runs, Redrive(r) PROVE StepsExist'
  <2>1. /\ Persist
        /\ \A k \in Jobs : job'[k].status # "none" => job[k].status # "none"
        /\ \A q \in Runs : run'[q].parent = run[q].parent /\ run'[q].at = run[q].at
    BY <1>29 DEF Redrive, TypeOK, Run, Persist
  <2> QED BY <1>29, <2>1, SamePlace DEF Redrive
<1>30. ASSUME RedriveJobs PROVE StepsExist'
  <2>1. PICK S \in SUBSET DeadJobs(redriving) :
          job' = [j \in Jobs |-> IF j \in S
                                 THEN [job[j] EXCEPT !.status = "available", !.attempt = 0]
                                 ELSE job[j]]
    BY <1>30 DEF RedriveJobs
  <2>2. \A j \in Jobs : /\ job'[j].status # "none" <=> job[j].status # "none"
                        /\ job'[j].run = job[j].run /\ job'[j].step = job[j].step
    <3>1. \A j \in S : j \in Jobs /\ job[j].status = "dead"
      BY DEF DeadJobs
    <3>2. \A j \in Jobs : job'[j] = IF j \in S
                                    THEN [job[j] EXCEPT !.status = "available", !.attempt = 0]
                                    ELSE job[j]
      BY <2>1
    <3> QED BY <3>1, <3>2 DEF TypeOK, Job
  <2>3. run' = run /\ Persist
    BY <1>30, <2>2 DEF RedriveJobs, Persist
  <2> QED BY <1>30, <2>2, <2>3, SamePlace DEF RedriveJobs
<1> QED
  BY <1>1, <1>2, <1>3, <1>4, <1>5, <1>6, <1>7, <1>8, <1>9, <1>10, <1>11, <1>12, <1>13,
     <1>14, <1>15, <1>16, <1>17, <1>18, <1>19, <1>20, <1>21, <1>22, <1>23, <1>24, <1>25,
     <1>26, <1>27, <1>28, <1>29, <1>30, <1>31
  DEF Next, Move, JobStep, RunStep

-----------------------------------------------------------------------------
(* The theorems.                                                           *)

LEMMA InitIInv ==
  Init => IInv
<1> SUFFICES ASSUME Init PROVE IInv
  OBVIOUS
<1>1. NoRun.status = "none" /\ NoRun.parent = 0 /\ NoRun \in Run
  <2>1. (CHOOSE f \in DOMAIN Workflows : TRUE) \in DOMAIN Workflows
    BY DefinitionsAssumption DEF DefinitionsAssumption, Accepted, StepAccepted
  <2> QED BY <2>1 DEF NoRun, NewRun, Run, RunStatus
<1>2. TypeOK
  <2>1. job \in [Jobs -> Job]
    BY DEF Init, NewJob, Job, JobStatus
  <2>2. thread \in [Threads -> Thread]
    BY DEF Init, Idle, Thread
  <2>3. run \in [Runs -> Run]
    BY <1>1 DEF Init
  <2>4. /\ started = 0 /\ redriving = 0 /\ faults = 0 /\ calls = 0
        /\ dropped = {} /\ loosened = {} /\ d1 \in BOOLEAN
    BY DEF Init
  <2> QED BY <2>1, <2>2, <2>3, <2>4, BoundsAssumption DEF BoundsAssumption, TypeOK
<1>3. StepsExist
  <2>1. ASSUME NEW t \in Threads PROVE ThreadInside(t)
    BY DEF Init, Idle, ThreadInside, At, OfJob, Deciding, Written
  <2>2. ASSUME NEW j \in Jobs PROVE JobInside(j)
    BY DEF Init, NewJob, JobInside
  <2>3. ASSUME NEW r \in Runs PROVE ParentInside(r)
    BY <1>1 DEF Init, ParentInside
  <2> QED BY <2>1, <2>2, <2>3 DEF StepsExist
<1> QED BY <1>2, <1>3 DEF IInv

LEMMA IInvInvariant ==
  Spec => []IInv
<1>1. IInv /\ [Next]_vars => IInv'
  <2> SUFFICES ASSUME IInv, [Next]_vars PROVE IInv'
    OBVIOUS
  <2>1. CASE Next
    BY <2>1, TypePreserved, StepsExistPreserved DEF IInv
  <2>2. CASE UNCHANGED vars
    BY <2>2 DEF vars, historyVars, IInv, TypeOK, StepsExist, JobInside, ParentInside,
       ThreadInside, Inside, At, StepOf, StepsOf, Runs, Jobs, Threads, Run, Job, Thread
  <2> QED BY <2>1, <2>2
<1> QED BY <1>1, InitIInv, PTL DEF Spec

(* For any definitions that Config::validate takes, any number of runs and *)
(* jobs and any faults, the rows and the threads of the workflow engine    *)
(* keep their types.                                                       *)
THEOREM TypeCorrect == Spec => []TypeOK
<1>1. IInv => TypeOK
  BY DEF IInv
<1> QED BY <1>1, IInvInvariant, PTL

(* For any definitions that Config::validate takes, no statement of the    *)
(* engine names a step, a run or a parent that does not exist: the index   *)
(* into `workflow.steps` never panics, and a child launched by a           *)
(* sub-workflow step always finds the step to return to.                   *)
THEOREM StepsAlwaysExist == Spec => []StepsExist
<1>1. IInv => StepsExist
  BY DEF IInv
<1> QED BY <1>1, IInvInvariant, PTL

-----------------------------------------------------------------------------
(* One place.  What makes OnePosition and JoinIsComplete inductive.        *)

(* Whatever may still move the run r, if only after a retry or a redrive:  *)
(* a job of its own that is not completed, a thread that moves it, a child *)
(* that is running or failed, or the branches of one step.  The run has at *)
(* most one of these tokens.                                               *)
Unfinished(j) == job[j].status \notin {"none", "completed"}

TokenJobs(r) == {j \in Jobs : job[j].run = r /\ ~job[j].branch /\ Unfinished(j)}
TokenThreads(r) ==
  {t \in Threads : /\ thread[t].run = r /\ thread[t].pc \in Moving \ Joining
                   /\ At(t, "fail") => t \in Jobs /\ job[t].status = "completed"}
TokenChildren(r) ==
  {c \in Runs : /\ run[c].parent = r
                /\ \/ run[c].status \in {"running", "failed"}
                   \/ \E t \in Threads : At(t, "resume") /\ thread[t].run = c}
Uncounted(r) ==
  {j \in Jobs : /\ job[j].run = r /\ job[j].branch /\ job[j].status # "none"
                /\ job[j].status # "completed" \/ At(j, "count")}

Tokens(r) ==
       {<<"job", j>> : j \in TokenJobs(r)}
  \cup {<<"thread", t>> : t \in TokenThreads(r)}
  \cup {<<"run", c>> : c \in TokenChildren(r)}
  \cup {<<"join", 0>> : j \in Uncounted(r) \cup Joiners(r)}

OneToken(r) == \A x, y \in Tokens(r) : x = y

(* What a thread knows of the job it works for.                            *)
Branching == {"parallel", "map"}
Fits(t) ==
  /\ thread[t].pc \in OfJob \cap Moving => job[t].status = "completed"
  /\ thread[t].pc \in {"count", "tally", "merge"} => job[t].branch
  /\ thread[t].pc \in {"mark", "catch", "choose", "setup", "fan", "pass", "callback",
                       "child", "advance"} => ~job[t].branch
  /\ thread[t].pc \in {"setup", "fan"} => StepOf(t).kind \in Branching
  /\ At(t, "fail") => t \in Jobs /\ job[t].status # "none" /\ job[t].run = thread[t].run
  /\ At(t, "resume") => run[thread[t].run].status = "completed"

ThreadsFit(r) == \A t \in Threads : thread[t].run = r /\ ~At(t, "idle") => Fits(t)
JobsFit(r) ==
  \A j \in Jobs :
    job[j].run = r /\ job[j].branch /\ job[j].status # "none"
      => StepOf(j).kind \in Branching /\ job[j].status # "waiting"

(* The branches of one step: those that are not counted yet, and those     *)
(* still to be inserted, are not more than parallel_count leaves.          *)
Branches(r, i) ==
  {k \in Jobs : job[k].run = r /\ job[k].branch /\ job[k].status # "none" /\ job[k].step = i}
Tallied(r) == run[r].done + Cardinality(Uncounted(r))

Alone(t, r) == Uncounted(r) = {} /\ Joiners(r) = {t}
Joins(t, r) ==
  /\ At(t, "fan") => Tallied(r) + thread[t].next <= run[r].count
  /\ At(t, "merge") => run[r].done = run[r].count
  /\ At(t, "setup") \/ At(t, "merge") => Alone(t, r)
  /\ \A u \in Joiners(r) : thread[u].pc = thread[t].pc /\ ~At(t, "count") => u = t

Joined(r) ==
  /\ Tallied(r) <= run[r].count
  /\ \A t \in Joiners(r) : Joins(t, r)
  /\ \A x, y \in Uncounted(r) \cup Joiners(r) : job[x].step = job[y].step
  /\ \A x \in Uncounted(r) \cup Joiners(r) :
       ~At(x, "setup") => Tallied(r) <= Cardinality(Branches(r, job[x].step))

(* A completed run has nothing left but to resume its parent.              *)
Resuming == {<<"thread", t>> : t \in {u \in Threads : At(u, "resume")}}
Ended(r) ==
  run[r].status = "completed" =>
    /\ Tokens(r) \subseteq Resuming
    /\ \A t \in Threads : thread[t].run = r => ~At(t, "fail")

Sound(r) == OneToken(r) /\ ThreadsFit(r) /\ JobsFit(r) /\ Joined(r) /\ Ended(r)
Blank ==
  /\ \A r \in Runs : run[r].status = "none" => run[r].parent = 0
  /\ \A j \in Jobs : job[j].status = "none" => job[j].run = 0
Delivered == \A j \in Jobs : thread[j].pc \in Deciding => job[j].status = "running"
Placed == Blank /\ Delivered /\ \A r \in Runs \ Loose : Sound(r)

-----------------------------------------------------------------------------
(* What the moves of a thread do to it.                                    *)
Elsewhere(t) == \A u \in Threads \ {t} : thread'[u] = thread[u]

LEMMA GotoAt ==
  ASSUME TypeOK, NEW t \in Threads, NEW pc, Goto(t, pc)
  PROVE  /\ thread'[t].pc = pc /\ thread'[t].run = thread[t].run /\ thread'[t].next = thread[t].next
         /\ Elsewhere(t)
BY DEF TypeOK, Thread, Goto, Elsewhere

LEMMA EndAt ==
  ASSUME TypeOK, NEW t \in Threads, End(t)
  PROVE  thread'[t] = Idle /\ thread'[t].pc = "idle" /\ Elsewhere(t)
BY DEF TypeOK, Thread, End, Idle, Elsewhere

LEMMA SetThreadAt ==
  ASSUME TypeOK, NEW t \in Threads, NEW pc, NEW r, NEW i, SetThread(t, pc, r, i)
  PROVE  /\ thread'[t].pc = pc /\ thread'[t].run = r /\ thread'[t].next = i
         /\ Elsewhere(t)
BY DEF TypeOK, Thread, SetThread, Elsewhere

LEMMA FollowMoves ==
  ASSUME NEW j \in Jobs
  PROVE  Follow(j) \in Moving
BY DEF Follow, Moving

-----------------------------------------------------------------------------
(* What every step keeps.                                                  *)
RunsKept ==
  \A r \in Runs :
    /\ run[r].status # "none" =>
         /\ run'[r].status # "none" /\ run'[r].flow = run[r].flow
         /\ run'[r].parent = run[r].parent /\ run'[r].at = run[r].at
    /\ run'[r].status = "none" => run[r].status = "none" /\ run'[r].parent = run[r].parent
JobsKept ==
  \A j \in Jobs :
    /\ job[j].status # "none" =>
         /\ job'[j].status # "none" /\ job'[j].run = job[j].run
         /\ job'[j].step = job[j].step /\ job'[j].branch = job[j].branch
         /\ job'[j].status = "waiting" => job[j].status = "waiting"
    /\ job[j].status = "completed" => job'[j].status = "completed"
    /\ job'[j].status = "none" => job'[j].run = job[j].run
    /\ thread'[j] = thread[j] /\ thread[j].pc \in Deciding => job'[j].status = job[j].status
Kept == RunsKept /\ JobsKept /\ loosened \subseteq loosened'

LEMMA InsertJobKeeps ==
  ASSUME TypeOK, Delivered, NEW status, NEW r, NEW i, NEW branch, status # "none",
         InsertJob(status, r, i, branch)
  PROVE  JobsKept
<1> PICK k \in FreeJobs : job' = [job EXCEPT ![k] = NewJob(status, r, i, branch)]
  BY DEF InsertJob
<1>1. k \in Jobs /\ job[k].status = "none" /\ job \in [Jobs -> Job]
  BY DEF FreeJobs, TypeOK
<1>2. job'[k].status # "none" /\ \A j \in Jobs \ {k} : job'[j] = job[j]
  BY <1>1 DEF NewJob
<1> QED BY <1>1, <1>2 DEF JobsKept, Delivered

LEMMA InsertRunKeeps ==
  ASSUME TypeOK, NEW t, NEW f, NEW p, NEW i, InsertRun(t, f, p, i)
  PROVE  RunsKept
<1> PICK k \in FreeRuns : run' = [run EXCEPT ![k] = NewRun(f, p, i)]
  BY DEF InsertRun
<1>1. k \in Runs /\ run[k].status = "none" /\ run \in [Runs -> Run]
  BY DEF FreeRuns, TypeOK
<1>2. run'[k].status # "none"
  BY <1>1 DEF NewRun
<1>3. \A q \in Runs \ {k} : run'[q] = run[q]
  BY <1>1
<1> QED BY <1>1, <1>2, <1>3 DEF RunsKept

LEMMA StepKeeps ==
  ASSUME IInv, Delivered, Next
  PROVE  Kept
<1> USE DEF IInv, Delivered
<1>0. Jobs \subseteq Threads /\ run \in [Runs -> Run] /\ job \in [Jobs -> Job]
  BY DEF Threads, TypeOK
<1>r. UNCHANGED run => RunsKept
  BY DEF RunsKept
<1>j. UNCHANGED job => JobsKept
  BY DEF JobsKept
<1>f. ASSUME NEW S, NEW L, Fault(S, L) \/ Call \/ UNCHANGED historyVars
      PROVE  loosened \subseteq loosened'
  BY <1>f DEF Fault, Call, historyVars
<1>1. ASSUME NEW f \in Roots, StartWorkflow(f) PROVE Kept
  BY <1>f, <1>j, <1>1, InsertRunKeeps DEF Kept, StartWorkflow
<1>2. ASSUME NEW j \in Jobs, Claim(j) PROVE Kept
  BY <1>0, <1>f, <1>r, <1>2 DEF Kept, Claim, JobsKept, At, Deciding
<1>3. ASSUME NEW j \in Jobs, Recover(j) PROVE Kept
  BY <1>0, <1>f, <1>r, <1>3 DEF Kept, Recover, JobsKept, At, Deciding, Written
<1>4. ASSUME NEW j \in Jobs, WriteOutcome(j) PROVE Kept
  <2>1. thread[j].pc \in OfJob /\ job[j].status # "none"
    BY <1>0, <1>4, JobStepIsStep DEF WriteOutcome, OfJob, Deciding
  <2>2. Written[thread[j].pc] \notin {"none", "waiting"}
    BY <1>4 DEF WriteOutcome, Written
  <2>3. job'[j] = [job[j] EXCEPT !.status = Written[thread[j].pc]]
        /\ \A k \in Jobs \ {j} : job'[k] = job[k]
    BY <1>0, <1>4 DEF WriteOutcome
  <2>4. job[j].status = "running"
    BY <1>4 DEF WriteOutcome, Deciding
  <2>5. thread'[j] # thread[j]
    BY <1>0, <1>4, GotoAt, EndAt, FollowMoves DEF WriteOutcome, Moving, Written
  <2> QED BY <1>f, <1>r, <1>4, <2>1, <2>2, <2>3, <2>4, <2>5 DEF Kept, WriteOutcome, JobsKept
<1>5. ASSUME NEW j \in Jobs, JobStep(j), ~WriteOutcome(j) PROVE Kept
  <2>1. CASE Dispatch(j) \/ Request(j) \/ Advance(j) \/ Choose(j) \/ PassWait(j) \/ ReadCount(j)
    BY <1>f, <1>r, <1>j, <2>1 DEF Kept, Dispatch, Request, Advance, Choose, PassWait, ReadCount
  <2>2. CASE SetUpBranches(j)
    <3>1. UNCHANGED run \/ \E n : SetParallel(job[j].run, n)
      BY <2>2 DEF SetUpBranches
    <3>2. ASSUME NEW n, NEW r, SetParallel(r, n), NEW q \in Runs
          PROVE  /\ run'[q].status = run[q].status /\ run'[q].flow = run[q].flow
                 /\ run'[q].parent = run[q].parent /\ run'[q].at = run[q].at
      BY <1>0, <3>2 DEF SetParallel, Run
    <3>3. RunsKept
      BY <1>r, <3>1, <3>2 DEF RunsKept
    <3> QED BY <1>f, <1>j, <2>2, <3>3 DEF Kept, SetUpBranches
  <2>3. CASE InsertBranch(j)
    BY <1>f, <1>r, <2>3, InsertJobKeeps DEF Kept, InsertBranch
  <2>4. CASE CountBranch(j)
    BY <1>0, <1>f, <1>j, <2>4 DEF Kept, CountBranch, RunsKept
  <2>5. CASE MergeBranches(j)
    BY <1>0, <1>f, <1>j, <2>5 DEF Kept, MergeBranches, SetParallel, RunsKept
  <2>6. CASE AwaitCallback(j)
    BY <1>f, <1>r, <2>6, InsertJobKeeps DEF Kept, AwaitCallback, InsertCallback
  <2>7. CASE LaunchChild(j)
    BY <1>f, <1>j, <2>7, InsertRunKeeps DEF Kept, LaunchChild
  <2> QED BY <1>5, <2>1, <2>2, <2>3, <2>4, <2>5, <2>6, <2>7 DEF JobStep
<1>6. ASSUME NEW j \in Jobs, CallbackArrives(j) PROVE Kept
  BY <1>0, <1>f, <1>r, <1>6 DEF Kept, CallbackArrives, ResumeJob, JobsKept
<1>7. ASSUME NEW t \in Threads, RunStep(t) PROVE Kept
  <2>1. CASE MoveRun(t)
    BY <1>0, <1>f, <1>j, <2>1 DEF Kept, MoveRun, RunsKept
  <2>2. CASE InsertNext(t)
    BY <1>f, <1>r, <2>2, InsertJobKeeps DEF Kept, InsertNext
  <2>3. CASE CompleteRun(t)
    BY <1>0, <1>f, <1>j, <2>3 DEF Kept, CompleteRun, RunsKept
  <2>4. CASE ResumeParent(t)
    BY <1>f, <1>r, <1>j, <2>4 DEF Kept, ResumeParent
  <2>5. CASE FailRun(t)
    BY <1>0, <1>f, <1>j, <2>5 DEF Kept, FailRun, RunsKept
  <2> QED BY <1>7, <2>1, <2>2, <2>3, <2>4, <2>5 DEF RunStep
<1>8. ASSUME NEW r \in Runs, TimeoutPasses(r) PROVE Kept
  BY <1>0, <1>f, <1>j, <1>8 DEF Kept, TimeoutPasses, RunsKept
<1>9. ASSUME NEW j \in Jobs, MistakeBranch(j) \/ OutcomeLost(j) PROVE Kept
  BY <1>f, <1>r, <1>j, <1>9 DEF Kept, MistakeBranch, OutcomeLost
<1>10. ASSUME NEW j \in Jobs, ExpireJob(j) \/ RetryJob(j) PROVE Kept
  <2>1. /\ job[j].status \notin {"none", "completed", "running"}
        /\ job'[j].status \in {"dead", "available"}
        /\ job'[j].run = job[j].run /\ job'[j].step = job[j].step
        /\ job'[j].branch = job[j].branch
        /\ \A k \in Jobs \ {j} : job'[k] = job[k]
    BY <1>0, <1>10 DEF ExpireJob, RetryJob, Job
  <2>2. JobsKept
    BY <2>1 DEF JobsKept
  <2> QED BY <1>f, <1>r, <1>10, <2>2 DEF Kept, ExpireJob, RetryJob
<1>11. ASSUME NEW t \in Threads, Abandon(t) PROVE Kept
  BY <1>f, <1>r, <1>j, <1>11 DEF Kept, Abandon
<1>12. CASE Crash
  BY <1>f, <1>r, <1>j, <1>12 DEF Kept, Crash
<1>13. ASSUME NEW r \in Runs, Redrive(r) PROVE Kept
  BY <1>0, <1>f, <1>j, <1>13 DEF Kept, Redrive, RunsKept
<1>14. CASE RedriveJobs
  <2>1. ASSUME NEW j \in Jobs
        PROVE  \/ job'[j] = job[j]
               \/ /\ job[j].status = "dead" /\ job'[j].status = "available"
                  /\ job'[j].run = job[j].run /\ job'[j].step = job[j].step
                  /\ job'[j].branch = job[j].branch
    <3>1. PICK S \in SUBSET DeadJobs(redriving) :
            job' = [k \in Jobs |-> IF k \in S THEN [job[k] EXCEPT !.status = "available", !.attempt = 0]
                                              ELSE job[k]]
      BY <1>14 DEF RedriveJobs
    <3>2. CASE j \in S
      <4>1. job'[j] = [job[j] EXCEPT !.status = "available", !.attempt = 0] /\ job[j] \in Job
        BY <1>0, <2>1, <3>1, <3>2
      <4>2. job[j].status = "dead"
        BY <3>2 DEF DeadJobs
      <4> QED BY <4>1, <4>2 DEF Job
    <3> QED BY <2>1, <3>1, <3>2
  <2>2. JobsKept
    BY <2>1 DEF JobsKept
  <2> QED BY <1>r, <1>14, <2>2 DEF Kept, RedriveJobs
<1> QED BY <1>1, <1>2, <1>3, <1>4, <1>5, <1>6, <1>7, <1>8, <1>9, <1>10, <1>11, <1>12, <1>13, <1>14
        DEF Next, Move

-----------------------------------------------------------------------------
(* Loose runs.                                                             *)
LEMMA LooseGrows ==
  ASSUME Kept, Blank
  PROVE  Loose \subseteq Loose' /\ Blank'
<1>1. Blank'
  BY DEF Kept, RunsKept, JobsKept, Blank, Runs, Jobs
<1>2. ASSUME NEW r \in Loose, NEW U \in SUBSET Runs,
             \A x \in Runs : (x \in loosened \/ (run[x].status # "none" /\ CatchesBranches(x)))' => x \in U,
             \A c \in U : run'[c].parent # 0 => run'[c].parent \in U
      PROVE  r \in U
  <2>1. ASSUME NEW x \in Runs, x \in loosened \/ (run[x].status # "none" /\ CatchesBranches(x))
        PROVE  x \in U
    BY <1>2, <2>1 DEF Kept, RunsKept, CatchesBranches, StepsOf
  <2>2. ASSUME NEW c \in U, run[c].parent # 0 PROVE run[c].parent \in U
    BY <1>2, <2>2 DEF Kept, RunsKept, Blank
  <2> QED BY <2>1, <2>2 DEF Loose, WithParents
<1>3. Loose \subseteq Runs
  BY DEF Loose, WithParents
<1> QED BY <1>1, <1>2, <1>3 DEF Loose, WithParents, Runs

LEMMA LooseBase ==
  ASSUME NEW r \in Runs, r \in loosened \/ (run[r].status # "none" /\ CatchesBranches(r))
  PROVE  r \in Loose
BY DEF Loose, WithParents

LEMMA LooseParent ==
  ASSUME NEW r \in Runs, NEW c \in Loose, run[c].parent = r
  PROVE  r \in Loose
<1>1. r # 0
  BY DEF Runs
<1> QED BY <1>1 DEF Loose, WithParents

-----------------------------------------------------------------------------
(* Threads that stay, and runs whose tokens are only taken away.           *)
LEMMA FitKept ==
  ASSUME IInv, Kept, NEW t \in Threads, Fits(t), thread'[t] = thread[t], ~At(t, "idle"),
         At(t, "resume") => run'[thread[t].run].status = "completed"
  PROVE  Fits(t)'
<1>1. thread[t].pc \in OfJob =>
        /\ t \in Jobs /\ job[t].status # "none" /\ job'[t].branch = job[t].branch
        /\ job[t].status = "completed" => job'[t].status = "completed"
        /\ StepOf(t)' = StepOf(t)
  BY StepOfStays DEF IInv, StepsExist, ThreadInside, Kept, JobsKept, RunsKept, Persist
<1>2. At(t, "fail") => t \in Jobs' /\ job'[t].status # "none" /\ job'[t].run = thread'[t].run
  BY DEF Fits, Kept, JobsKept, Jobs
<1>3. thread[t].pc \in {"setup", "fan", "count", "tally", "merge", "mark", "catch", "choose",
                        "pass", "callback", "child", "advance"} => thread[t].pc \in OfJob
  BY DEF OfJob, Deciding, Written
<1> QED BY <1>1, <1>2, <1>3 DEF Fits, At

LEMMA JobsFitKept ==
  ASSUME IInv, Kept, NEW q, JobsFit(q),
         \A j \in Jobs : job'[j].status # "none" /\ job'[j].run = q /\ job'[j].branch
                           => \/ job[j].status # "none"
                              \/ StepOf(j)'.kind \in Branching /\ job'[j].status # "waiting"
  PROVE  JobsFit(q)'
<1>1. ASSUME NEW j \in Jobs, job[j].status # "none"
      PROVE  /\ StepOf(j)' = StepOf(j) /\ job'[j].run = job[j].run /\ job'[j].branch = job[j].branch
             /\ job'[j].status = "waiting" => job[j].status = "waiting"
  BY <1>1, StepOfStays DEF IInv, StepsExist, Kept, JobsKept, RunsKept, Persist
<1> QED BY <1>1 DEF JobsFit, Jobs

LEMMA Counts ==
  ASSUME NEW r, NEW i
  PROVE  /\ IsFiniteSet(Uncounted(r)) /\ IsFiniteSet(Branches(r, i))
         /\ Cardinality(Uncounted(r)) \in Nat /\ Cardinality(Branches(r, i)) \in Nat
         /\ IsFiniteSet(Jobs) /\ IsFiniteSet(Runs) /\ IsFiniteSet(Threads)
<1>1. IsFiniteSet(Jobs) /\ IsFiniteSet(Runs) /\ IsFiniteSet(Threads)
  <2>1. MaxJobs \in Int /\ MaxRuns \in Int
    BY BoundsAssumption DEF BoundsAssumption
  <2>2. IsFiniteSet(1..MaxJobs) /\ IsFiniteSet(1..MaxRuns)
    BY <2>1, FS_Interval
  <2> QED BY <2>2, FS_AddElement DEF Jobs, Runs, Threads
<1>2. Uncounted(r) \in SUBSET Jobs /\ Branches(r, i) \in SUBSET Jobs
  BY DEF Uncounted, Branches
<1> QED BY <1>1, <1>2, FS_Subset, FS_CardinalityType

SameJob(j) ==
  /\ job'[j].run = job[j].run /\ job'[j].step = job[j].step /\ job'[j].branch = job[j].branch
  /\ job[j].status # "none" /\ job'[j].status # "none"
  /\ job'[j].status = "completed" <=> job[j].status = "completed"

(* Jobs, threads and children of q: none is new, and none is elsewhere.    *)
NothingNew(q) ==
  /\ \A j \in Jobs : \/ job'[j].run = q /\ job'[j].status # "none"
                     \/ job[j].run = q /\ job[j].status # "none"
                     => SameJob(j)
  /\ \A t \in Threads :
       thread'[t].run = q /\ thread'[t].pc \in Moving =>
         \/ thread'[t] = thread[t]
         \/ /\ thread'[t].pc = "fail" /\ t \in Jobs
            /\ job'[t].status # "completed" /\ run[q].status # "completed"
  /\ TokenChildren(q)' \subseteq TokenChildren(q)

LEMMA SetsShrink ==
  ASSUME IInv, IInv', NEW q \in Runs, ThreadsFit(q), NothingNew(q)
  PROVE  /\ Uncounted(q)' \subseteq Uncounted(q) /\ Joiners(q)' \subseteq Joiners(q)
         /\ TokenJobs(q)' \subseteq TokenJobs(q) /\ TokenThreads(q)' \subseteq TokenThreads(q)
         /\ \A i : Branches(q, i)' = Branches(q, i)
         /\ Tokens(q)' \subseteq Tokens(q)
         /\ run'[q].done = run[q].done => Tallied(q)' <= Tallied(q)
<1> USE DEF NothingNew
<1>0. Jobs' = Jobs /\ Threads' = Threads /\ Runs' = Runs
  BY DEF Jobs, Threads, Runs
<1>1. \A j \in Jobs : At(j, "count")' => thread'[j].run = job'[j].run
  BY <1>0 DEF IInv, StepsExist, ThreadInside, OfJob, At, Threads
<1>2. Uncounted(q)' \subseteq Uncounted(q)
  <2> SUFFICES ASSUME NEW j \in Uncounted(q)' PROVE j \in Uncounted(q)
    OBVIOUS
  <2>1. /\ j \in Jobs /\ job'[j].run = q /\ job'[j].branch /\ job'[j].status # "none"
        /\ job'[j].status # "completed" \/ At(j, "count")'
    BY <1>0 DEF Uncounted
  <2>2. SameJob(j)
    BY <2>1
  <2>3. At(j, "count")' => At(j, "count")
    BY <1>1, <2>1 DEF At, Moving, Threads
  <2> QED BY <2>1, <2>2, <2>3 DEF Uncounted, SameJob
<1>3. Joiners(q)' \subseteq Joiners(q)
  BY <1>0 DEF Joiners, Joining, Moving
<1>4. TokenJobs(q)' \subseteq TokenJobs(q)
  BY <1>0 DEF TokenJobs, Unfinished, SameJob
<1>5. TokenThreads(q)' \subseteq TokenThreads(q)
  <2> SUFFICES ASSUME NEW t \in TokenThreads(q)' PROVE t \in TokenThreads(q)
    OBVIOUS
  <2>1. /\ t \in Threads /\ thread'[t].run = q /\ thread'[t].pc \in Moving \ Joining
        /\ At(t, "fail")' => t \in Jobs /\ job'[t].status = "completed"
    BY <1>0 DEF TokenThreads
  <2>2. thread'[t] = thread[t]
    BY <2>1 DEF At
  <2>3. At(t, "fail") => job[t].status = "completed" /\ t \in Jobs
    <3> SUFFICES ASSUME At(t, "fail") PROVE job[t].status = "completed" /\ t \in Jobs
      OBVIOUS
    <3>1. Fits(t)
      BY <2>1, <2>2 DEF ThreadsFit, At
    <3>2. t \in Jobs /\ job[t].status # "none" /\ job[t].run = q
      BY <2>1, <2>2, <3>1 DEF Fits, At
    <3> QED BY <2>1, <2>2, <3>2 DEF SameJob, At
  <2> QED BY <2>1, <2>2, <2>3 DEF TokenThreads, At
<1>6. \A i : Branches(q, i)' = Branches(q, i)
  BY <1>0 DEF Branches, SameJob
<1>7. Tokens(q)' \subseteq Tokens(q)
  BY <1>2, <1>3, <1>4, <1>5 DEF Tokens
<1>8. ASSUME run'[q].done = run[q].done PROVE Tallied(q)' <= Tallied(q)
  <2>1. Cardinality(Uncounted(q)') <= Cardinality(Uncounted(q))
    BY <1>2, Counts, FS_Subset
  <2>2. /\ Cardinality(Uncounted(q)') \in Nat /\ Cardinality(Uncounted(q)) \in Nat
        /\ run[q].done \in Nat
    BY <1>2, Counts, FS_Subset, FS_CardinalityType DEF IInv, TypeOK, Run
  <2> QED BY <1>8, <2>1, <2>2 DEF Tallied
<1> QED BY <1>2, <1>3, <1>4, <1>5, <1>6, <1>7, <1>8

LEMMA SoundKept ==
  ASSUME IInv, IInv', NEW q \in Runs, Sound(q), NothingNew(q), ThreadsFit(q)', JobsFit(q)',
         run'[q].done = run[q].done, run'[q].count = run[q].count,
         run'[q].status = "completed" => run[q].status = "completed"
  PROVE  Sound(q)'
<1> USE DEF Sound
<1>0. Jobs' = Jobs /\ Threads' = Threads /\ Runs' = Runs
  BY DEF Jobs, Threads, Runs
<1>1. OneToken(q)'
  BY SetsShrink DEF OneToken
<1>2. \A t \in Joiners(q)' : t \in Joiners(q) /\ thread'[t] = thread[t]
  BY <1>0, SetsShrink DEF Joiners, NothingNew, Joining, Moving
<1>3. /\ Tallied(q)' <= Tallied(q) /\ Tallied(q) \in Nat /\ Tallied(q)' \in Nat
      /\ run[q].count \in Nat
  <2>1. run[q].count \in Nat /\ run[q].done \in Nat
    BY DEF IInv, TypeOK, Run
  <2>2. Cardinality(Uncounted(q)) \in Nat /\ Cardinality(Uncounted(q)') \in Nat
    BY SetsShrink, Counts, FS_Subset, FS_CardinalityType
  <2> QED BY <2>1, <2>2, SetsShrink DEF Tallied
<1>4. ASSUME NEW t \in Joiners(q)' PROVE Joins(t, q)'
  <2>1. Joins(t, q) /\ thread'[t] = thread[t] /\ t \in Threads
    BY <1>2, <1>4 DEF Joined, Joiners
  <2>2. At(t, "fan")' => Tallied(q)' + thread'[t].next <= run'[q].count
    <3>1. thread[t].next \in Nat
      BY <2>1 DEF IInv, TypeOK, Thread
    <3> QED BY <1>3, <2>1, <3>1 DEF Joins, At
  <2>3. At(t, "setup")' \/ At(t, "merge")' => Alone(t, q)'
    BY <1>4, <2>1, SetsShrink DEF Joins, Alone, At
  <2> QED BY <1>2, <2>1, <2>2, <2>3 DEF Joins, At
<1>5. ASSUME NEW x \in Uncounted(q)' \cup Joiners(q)'
      PROVE  /\ x \in Uncounted(q) \cup Joiners(q) /\ job'[x].step = job[x].step
             /\ At(x, "setup") => At(x, "setup")'
  <2>1. x \in Uncounted(q) \cup Joiners(q)
    BY <1>5, SetsShrink
  <2>2. CASE x \in Uncounted(q)'
    <3>1. x \in Jobs /\ job'[x].run = q /\ job'[x].status # "none"
      BY <1>0, <2>2 DEF Uncounted
    <3>2. job'[x].step = job[x].step
      BY <3>1 DEF NothingNew, SameJob
    <3>3. ~At(x, "setup")
      <4> SUFFICES ASSUME At(x, "setup") PROVE FALSE
        OBVIOUS
      <4>1. x \in Uncounted(q)
        BY <2>2, SetsShrink
      <4>2. x \in Threads /\ thread[x].pc \in OfJob /\ thread[x].run = q
        <5>1. x \in Threads /\ thread[x].pc \in OfJob
          BY <3>1 DEF Threads, OfJob, At
        <5>2. thread[x].run = job[x].run
          BY <3>1, <5>1, JobStepIsStep
        <5> QED BY <4>1, <5>1, <5>2 DEF Uncounted
      <4>3. x \in Joiners(q)
        BY <4>2 DEF Joiners, Joining, At
      <4> QED BY <4>1, <4>3 DEF Joined, Joins, Alone
    <3> QED BY <2>1, <3>2, <3>3
  <2>3. CASE x \in Joiners(q)'
    <3>1. thread'[x] = thread[x] /\ x \in Threads /\ thread[x].run = q /\ thread[x].pc \in OfJob
      BY <1>2, <2>3 DEF Joiners, Joining, OfJob
    <3>2. x \in Jobs /\ job[x].status # "none" /\ job[x].run = q
      BY <3>1 DEF IInv, StepsExist, ThreadInside
    <3>3. SameJob(x)
      BY <3>2 DEF NothingNew
    <3> QED BY <2>1, <3>1, <3>3 DEF SameJob, At
  <2> QED BY <1>5, <2>2, <2>3
<1>6. Joined(q)'
  <2>1. Tallied(q)' <= run'[q].count
    BY <1>3 DEF Joined
  <2>2. \A x, y \in Uncounted(q)' \cup Joiners(q)' : job'[x].step = job'[y].step
    BY <1>5 DEF Joined
  <2>3. ASSUME NEW x \in Uncounted(q)' \cup Joiners(q)', ~At(x, "setup")'
        PROVE  Tallied(q)' <= Cardinality(Branches(q, job[x].step))'
    <3>1. Tallied(q) <= Cardinality(Branches(q, job[x].step))
      BY <1>5, <2>3 DEF Joined
    <3>2. PICK i : i = job[x].step /\ i = job'[x].step
      BY <1>5, <2>3
    <3>3. Branches(q, i)' = Branches(q, i)
      BY SetsShrink
    <3>4. Cardinality(Branches(q, i)) \in Nat
      BY Counts
    <3>5. Tallied(q) <= Cardinality(Branches(q, i))
      BY <3>1, <3>2
    <3>6. Tallied(q)' <= Cardinality(Branches(q, i)')
      BY <1>3, <3>3, <3>4, <3>5
    <3>7. Branches(q, job[x].step)' = Branches(q, i)'
      BY <3>2 DEF Branches
    <3> QED BY <3>6, <3>7
  <2> QED BY <1>4, <2>1, <2>2, <2>3 DEF Joined
<1>7. Ended(q)'
  <2> SUFFICES ASSUME run'[q].status = "completed" PROVE Ended(q)'
    BY DEF Ended
  <2>1. run[q].status = "completed"
    OBVIOUS
  <2>2. ASSUME NEW x \in Tokens(q)' PROVE x \in Resuming'
    <3>1. x \in Tokens(q) /\ x \in Resuming
      BY <2>1, <2>2, SetsShrink DEF Ended
    <3>2. PICK t \in TokenThreads(q)' : x = <<"thread", t>>
      BY <2>2, <3>1 DEF Tokens, Resuming
    <3>3. t \in Threads /\ thread'[t] = thread[t]
      BY <1>0, <3>2 DEF TokenThreads, NothingNew
    <3>4. At(t, "resume")
      BY <3>1, <3>2 DEF Resuming
    <3> QED BY <1>0, <3>2, <3>3, <3>4 DEF Resuming, At
  <2>3. \A t \in Threads : thread'[t].run = q => ~At(t, "fail")'
    BY <2>1 DEF Ended, NothingNew, At, Moving
  <2> QED BY <1>0, <2>2, <2>3 DEF Ended
<1> QED BY <1>1, <1>6, <1>7

(* A run of which nothing is new, and whose acting threads fit.            *)
LEMMA Away ==
  ASSUME IInv, IInv', Kept, NEW q \in Runs, Sound(q), NothingNew(q),
         run'[q].done = run[q].done, run'[q].count = run[q].count,
         run'[q].status = "completed" <=> run[q].status = "completed",
         \A t \in Threads : thread'[t].run = q /\ thread'[t].pc # "idle"
                              => thread'[t] = thread[t] \/ Fits(t)'
  PROVE  Sound(q)'
<1>1. ThreadsFit(q)'
  <2> SUFFICES ASSUME NEW t \in Threads, thread'[t].run = q, thread'[t].pc # "idle",
                      thread'[t] = thread[t]
               PROVE  Fits(t)'
    BY DEF ThreadsFit, At, Threads, Jobs
  <2>1. Fits(t) /\ thread[t].run = q
    BY DEF Sound, ThreadsFit, At
  <2> QED BY <2>1, FitKept DEF Fits, At
<1>2. JobsFit(q)'
  BY JobsFitKept DEF Sound, NothingNew, SameJob
<1> QED BY <1>1, <1>2, SoundKept

LEMMA ChildrenKept ==
  ASSUME NEW q, \A t \in Threads : At(t, "resume")' => thread'[t] = thread[t],
         \A c \in Runs : run'[c].parent = q =>
           /\ run[c].parent = q
           /\ run'[c].status \in {"running", "failed"} => run[c].status \in {"running", "failed"}
  PROVE  TokenChildren(q)' \subseteq TokenChildren(q)
BY DEF TokenChildren, At, Runs, Threads, Jobs

(* The run of another thread.                                              *)
LEMMA OtherRun ==
  ASSUME IInv, IInv', Kept, NEW q \in Runs, Sound(q),
         run'[q].done = run[q].done, run'[q].count = run[q].count,
         run'[q].status = "completed" <=> run[q].status = "completed",
         \A j \in Jobs : \/ job'[j] = job[j]
                         \/ job'[j].run # q /\ (job[j].status = "none" \/ job[j].run # q),
         \A t \in Threads : thread'[t] = thread[t] \/ thread'[t].pc = "idle" \/ thread'[t].run # q,
         TokenChildren(q)' \subseteq TokenChildren(q)
  PROVE  Sound(q)'
<1>1. NothingNew(q)
  BY DEF NothingNew, SameJob, Moving, Joining
<1> QED BY <1>1, Away

-----------------------------------------------------------------------------
(* Runs with a single token.                                               *)
LEMMA OnlyThread ==
  ASSUME NEW q, OneToken(q), NEW t \in TokenThreads(q)
  PROVE  /\ TokenThreads(q) = {t} /\ TokenJobs(q) = {} /\ TokenChildren(q) = {}
         /\ Uncounted(q) = {} /\ Joiners(q) = {}
<1>1. <<"thread", t>> \in Tokens(q)
  BY DEF Tokens
<1>2. \A x \in Tokens(q) : x = <<"thread", t>>
  BY <1>1 DEF OneToken
<1> QED BY <1>2 DEF Tokens

LEMMA OnlyJob ==
  ASSUME NEW q, OneToken(q), NEW j \in TokenJobs(q)
  PROVE  /\ TokenJobs(q) = {j} /\ TokenThreads(q) = {} /\ TokenChildren(q) = {}
         /\ Uncounted(q) = {} /\ Joiners(q) = {}
<1>1. <<"job", j>> \in Tokens(q)
  BY DEF Tokens
<1>2. \A x \in Tokens(q) : x = <<"job", j>>
  BY <1>1 DEF OneToken
<1> QED BY <1>2 DEF Tokens

LEMMA OnlyChild ==
  ASSUME NEW q, OneToken(q), NEW c \in TokenChildren(q)
  PROVE  /\ TokenChildren(q) = {c} /\ TokenThreads(q) = {} /\ TokenJobs(q) = {}
         /\ Uncounted(q) = {} /\ Joiners(q) = {}
<1>1. <<"run", c>> \in Tokens(q)
  BY DEF Tokens
<1>2. \A x \in Tokens(q) : x = <<"run", c>>
  BY <1>1 DEF OneToken
<1> QED BY <1>2 DEF Tokens

LEMMA OnlyJoin ==
  ASSUME NEW q, OneToken(q), Uncounted(q) \cup Joiners(q) # {}
  PROVE  TokenJobs(q) = {} /\ TokenThreads(q) = {} /\ TokenChildren(q) = {}
<1>1. <<"join", 0>> \in Tokens(q)
  BY DEF Tokens
<1>2. \A x \in Tokens(q) : x = <<"join", 0>>
  BY <1>1 DEF OneToken
<1> QED BY <1>2 DEF Tokens

LEMMA NoneJoins ==
  ASSUME IInv', NEW q \in Runs, Uncounted(q)' = {}, Joiners(q)' = {}, run'[q].done <= run'[q].count
  PROVE  Joined(q)'
<1>1. Cardinality(Uncounted(q)') = 0
  BY FS_EmptySet
<1>2. run'[q].done \in Nat
  BY DEF IInv, TypeOK, Run, Runs
<1> QED BY <1>1, <1>2 DEF Joined, Tallied

(* A run that goes on has a live token.                                    *)
LEMMA NotEnded ==
  ASSUME NEW q, Ended(q),
         \/ TokenJobs(q) # {} \/ Uncounted(q) \cup Joiners(q) # {} \/ TokenChildren(q) # {}
         \/ \E t \in TokenThreads(q) : ~At(t, "resume")
         \/ \E t \in Threads : At(t, "fail") /\ thread[t].run = q
  PROVE  run[q].status # "completed"
<1> SUFFICES ASSUME run[q].status = "completed" PROVE FALSE
  OBVIOUS
<1>1. ASSUME NEW x \in Tokens(q) PROVE \E t \in Threads : x = <<"thread", t>> /\ At(t, "resume")
  BY <1>1 DEF Ended, Resuming
<1>2. TokenJobs(q) = {}
  <2>1. \A j \in TokenJobs(q) : <<"job", j>> \in Tokens(q)
    BY DEF Tokens
  <2> QED BY <1>1, <2>1
<1>3. Uncounted(q) \cup Joiners(q) = {}
  <2>1. \A j \in Uncounted(q) \cup Joiners(q) : <<"join", 0>> \in Tokens(q)
    BY DEF Tokens
  <2> QED BY <1>1, <2>1
<1>4. TokenChildren(q) = {}
  <2>1. \A c \in TokenChildren(q) : <<"run", c>> \in Tokens(q)
    BY DEF Tokens
  <2> QED BY <1>1, <2>1
<1>5. \A t \in TokenThreads(q) : At(t, "resume")
  <2>1. \A t \in TokenThreads(q) : <<"thread", t>> \in Tokens(q)
    BY DEF Tokens
  <2> QED BY <1>1, <2>1
<1> QED BY <1>2, <1>3, <1>4, <1>5 DEF Ended

(* The bounds of a sound run.                                              *)
LEMMA DoneInCount ==
  ASSUME IInv, NEW q \in Runs, Joined(q)
  PROVE  /\ run[q].done <= run[q].count
         /\ run[q].done \in Nat /\ run[q].count \in Nat /\ Tallied(q) \in Nat
<1>1. run[q].done \in Nat /\ run[q].count \in Nat /\ Cardinality(Uncounted(q)) \in Nat
  BY Counts DEF IInv, TypeOK, Run
<1> QED BY <1>1 DEF Joined, Tallied

(* A step seen from the run q.                                             *)
Stage(q) ==
  /\ IInv /\ IInv' /\ Kept /\ Delivered
  /\ \A r \in Runs \ Loose : Sound(r)
  /\ q \in Runs \ Loose
  /\ q \notin loosened'

LEMMA LoneThread ==
  ASSUME IInv', NEW q \in Runs, ThreadsFit(q)', JobsFit(q)', NEW t,
         TokenThreads(q)' \subseteq {t}, TokenJobs(q)' = {}, TokenChildren(q)' = {},
         Uncounted(q)' = {}, Joiners(q)' = {}, run'[q].done <= run'[q].count,
         \/ run'[q].status # "completed"
         \/ At(t, "resume")' /\ \A u \in Threads : thread'[u].run = q => thread'[u].pc # "fail"
  PROVE  Sound(q)'
<1>0. Runs' = Runs /\ Threads' = Threads
  BY DEF Runs, Threads, Jobs
<1>1. Tokens(q)' \subseteq {<<"thread", t>>}
  BY DEF Tokens
<1>2. Joined(q)'
  BY <1>0, NoneJoins
<1>3. Ended(q)'
  <2>1. CASE run'[q].status # "completed"
    BY <2>1 DEF Ended
  <2>2. CASE At(t, "resume")' /\ \A u \in Threads : thread'[u].run = q => thread'[u].pc # "fail"
    <3>1. ASSUME NEW x \in Tokens(q)' PROVE x \in Resuming'
      <4>1. x = <<"thread", t>> /\ t \in Threads
        BY <1>0, <1>1, <3>1 DEF Tokens, TokenThreads
      <4> QED BY <1>0, <2>2, <4>1 DEF Resuming
    <3> QED BY <1>0, <2>2, <3>1 DEF Ended, At
  <2> QED BY <2>1, <2>2
<1> QED BY <1>1, <1>2, <1>3 DEF Sound, OneToken

LEMMA LoneJob ==
  ASSUME IInv', NEW q \in Runs, ThreadsFit(q)', JobsFit(q)', NEW j,
         TokenJobs(q)' \subseteq {j}, TokenThreads(q)' = {}, TokenChildren(q)' = {},
         Uncounted(q)' = {}, Joiners(q)' = {}, run'[q].done <= run'[q].count,
         run'[q].status # "completed"
  PROVE  Sound(q)'
<1>0. Runs' = Runs
  BY DEF Runs
<1>1. Tokens(q)' \subseteq {<<"job", j>>}
  BY DEF Tokens
<1>2. Joined(q)'
  BY <1>0, NoneJoins
<1> QED BY <1>1, <1>2 DEF Sound, OneToken, Ended

LEMMA LoneChild ==
  ASSUME IInv', NEW q \in Runs, ThreadsFit(q)', JobsFit(q)', NEW c,
         TokenChildren(q)' \subseteq {c}, TokenThreads(q)' = {}, TokenJobs(q)' = {},
         Uncounted(q)' = {}, Joiners(q)' = {}, run'[q].done <= run'[q].count,
         run'[q].status # "completed"
  PROVE  Sound(q)'
<1>0. Runs' = Runs
  BY DEF Runs
<1>1. Tokens(q)' \subseteq {<<"run", c>>}
  BY DEF Tokens
<1>2. Joined(q)'
  BY <1>0, NoneJoins
<1> QED BY <1>1, <1>2 DEF Sound, OneToken, Ended

LEMMA LoneJoin ==
  ASSUME NEW q, ThreadsFit(q)', JobsFit(q)', Joined(q)',
         TokenChildren(q)' = {}, TokenThreads(q)' = {}, TokenJobs(q)' = {},
         run'[q].status # "completed"
  PROVE  Sound(q)'
<1>1. Tokens(q)' \subseteq {<<"join", 0>>}
  BY DEF Tokens
<1> QED BY <1>1 DEF Sound, OneToken, Ended

(* One thread acts, and changes jobs of K.                                 *)
LEMMA ElseSets ==
  ASSUME IInv, IInv', NEW q \in Runs, ThreadsFit(q), NEW t \in Threads, Elsewhere(t),
         NEW K, \A j \in Jobs \ K : job'[j] = job[j],
         \A j \in (Jobs \cap K) \ {t} : job'[j].status # "completed"
  PROVE  /\ TokenThreads(q)' \subseteq TokenThreads(q) \cup {t}
         /\ Joiners(q)' \subseteq Joiners(q) \cup {t}
         /\ TokenJobs(q)' \subseteq TokenJobs(q) \cup K
         /\ Uncounted(q)' \subseteq Uncounted(q) \cup K \cup {t}
<1>0. Threads' = Threads /\ Jobs' = Jobs
  BY DEF Threads, Jobs
<1>1. TokenThreads(q)' \subseteq TokenThreads(q) \cup {t}
  <2> SUFFICES ASSUME NEW u \in TokenThreads(q)', u # t PROVE u \in TokenThreads(q)
    OBVIOUS
  <2>1. u \in Threads /\ thread'[u] = thread[u]
    BY <1>0 DEF TokenThreads, Elsewhere
  <2> QED BY <1>0, <2>1 DEF TokenThreads, At
<1>2. Joiners(q)' \subseteq Joiners(q) \cup {t}
  BY <1>0 DEF Joiners, Elsewhere
<1>3. TokenJobs(q)' \subseteq TokenJobs(q) \cup K
  BY <1>0 DEF TokenJobs, Unfinished
<1>4. Uncounted(q)' \subseteq Uncounted(q) \cup K \cup {t}
  BY <1>0 DEF Uncounted, At, Elsewhere, Threads
<1> QED BY <1>1, <1>2, <1>3, <1>4

LEMMA ThreadsFitKept ==
  ASSUME IInv, Kept, NEW q \in Runs, ThreadsFit(q), NEW t \in Threads, Elsewhere(t),
         run[q].status = "completed" => run'[q].status = "completed",
         thread'[t].run = q /\ thread'[t].pc # "idle" => Fits(t)'
  PROVE  ThreadsFit(q)'
<1> SUFFICES ASSUME NEW u \in Threads, thread'[u].run = q, thread'[u].pc # "idle", u # t
             PROVE  Fits(u)'
  BY DEF ThreadsFit, At, Threads, Jobs
<1>1. thread'[u] = thread[u] /\ Fits(u)
  BY DEF Elsewhere, ThreadsFit, At
<1> QED BY <1>1, FitKept DEF Fits, At

Plain == {"move", "insert", "complete"}

LEMMA PlainFits ==
  ASSUME NEW t, thread'[t].pc \in Plain
  PROVE  Fits(t)'
BY DEF Plain, Fits, At, OfJob, Deciding, Written

LEMMA FailFits ==
  ASSUME NEW t \in Jobs, thread'[t].pc = "fail", job'[t].status # "none",
         job'[t].run = thread'[t].run
  PROVE  Fits(t)'
BY DEF Fits, At, OfJob, Deciding, Written, Jobs

(* The runs that the thread t does not work for.                           *)
LEMMA Others ==
  ASSUME NEW q, Stage(q), NEW t \in Threads, Elsewhere(t), thread'[t].pc # "resume",
         thread'[t].pc = "idle" \/ thread'[t].run # q,
         run'[q].done = run[q].done, run'[q].count = run[q].count,
         run'[q].status = "completed" <=> run[q].status = "completed",
         \A j \in Jobs : \/ job'[j] = job[j]
                         \/ job'[j].run # q /\ (job[j].status = "none" \/ job[j].run # q),
         \A c \in Runs : run'[c].parent = q =>
           /\ run[c].parent = q
           /\ run'[c].status \in {"running", "failed"} => run[c].status \in {"running", "failed"}
  PROVE  Sound(q)'
<1> USE DEF Stage
<1>1. TokenChildren(q)' \subseteq TokenChildren(q)
  BY ChildrenKept DEF Elsewhere, At
<1>2. \A u \in Threads : thread'[u] = thread[u] \/ thread'[u].pc = "idle" \/ thread'[u].run # q
  BY DEF Elsewhere
<1> QED BY <1>1, <1>2, OtherRun

(* A run that does not exist has no tokens.                                *)
LEMMA Unborn ==
  ASSUME IInv, NEW q \in Runs, run[q].status = "none"
  PROVE  /\ TokenThreads(q) = {} /\ TokenJobs(q) = {} /\ TokenChildren(q) = {}
         /\ Uncounted(q) = {} /\ Joiners(q) = {}
<1>1. \A t \in Threads : ~At(t, "idle") => thread[t].run # q
  BY DEF IInv, StepsExist, ThreadInside, Inside
<1>2. \A j \in Jobs : job[j].status # "none" => job[j].run # q
  BY DEF IInv, StepsExist, JobInside, Inside
<1>3. \A c \in Runs : run[c].parent # q
  BY DEF IInv, StepsExist, ParentInside, Inside, Runs
<1>4. TokenThreads(q) = {} /\ Joiners(q) = {}
  BY <1>1 DEF TokenThreads, Joiners, Moving, Joining, At
<1>5. TokenJobs(q) = {} /\ Uncounted(q) = {}
  BY <1>2 DEF TokenJobs, Uncounted, Unfinished
<1> QED BY <1>3, <1>4, <1>5 DEF TokenChildren

-----------------------------------------------------------------------------
(* The thread t holds the only token of its run, and keeps it.             *)
LEMMA MoveOn ==
  ASSUME NEW q, Stage(q), NEW t \in TokenThreads(q), Elsewhere(t), UNCHANGED job,
         thread'[t].run = q, thread'[t].pc \in Plain \cup {"fail"}, Fits(t)',
         ~At(t, "resume"), run'[q].status = run[q].status,
         run'[q].done = run[q].done, run'[q].count = run[q].count,
         TokenChildren(q)' \subseteq TokenChildren(q)
  PROVE  Sound(q)'
<1> USE DEF Stage
<1>0. Sound(q) /\ t \in Threads /\ Threads' = Threads /\ Jobs' = Jobs
  BY DEF TokenThreads, Threads, Jobs
<1>1. /\ TokenThreads(q) = {t} /\ TokenJobs(q) = {} /\ TokenChildren(q) = {}
      /\ Uncounted(q) = {} /\ Joiners(q) = {}
  BY <1>0, OnlyThread DEF Sound
<1>2. /\ TokenThreads(q)' \subseteq TokenThreads(q) \cup {t}
      /\ Joiners(q)' \subseteq Joiners(q) \cup {t}
      /\ TokenJobs(q)' \subseteq TokenJobs(q) \cup {}
      /\ Uncounted(q)' \subseteq Uncounted(q) \cup {} \cup {t}
  BY <1>0, ElseSets DEF Sound
<1>3. t \notin Joiners(q)'
  BY DEF Joiners, Joining, Plain
<1>4. t \notin Uncounted(q)'
  BY <1>0, <1>1 DEF Uncounted, At, Plain
<1>5. run[q].status # "completed"
  BY <1>0, NotEnded DEF Sound
<1>6. ThreadsFit(q)' /\ JobsFit(q)'
  BY <1>0, <1>5, ThreadsFitKept, JobsFitKept DEF Sound
<1>7. run'[q].done <= run'[q].count
  BY <1>0, DoneInCount DEF Sound
<1> QED BY <1>1, <1>2, <1>3, <1>4, <1>5, <1>6, <1>7, LoneThread

(* It gives it to a new job.                                               *)
LEMMA ToJob ==
  ASSUME NEW q, Stage(q), NEW t \in TokenThreads(q), Elsewhere(t), thread'[t].pc = "idle",
         ~At(t, "resume"), UNCHANGED run,
         NEW status \in {"available", "waiting"}, NEW i, InsertJob(status, q, i, FALSE)
  PROVE  Sound(q)'
<1> USE DEF Stage
<1>0. Sound(q) /\ t \in Threads /\ Threads' = Threads /\ Jobs' = Jobs /\ Runs' = Runs
  BY DEF TokenThreads, Threads, Jobs, Runs
<1>1. /\ TokenThreads(q) = {t} /\ TokenJobs(q) = {} /\ TokenChildren(q) = {}
      /\ Uncounted(q) = {} /\ Joiners(q) = {}
  BY <1>0, OnlyThread DEF Sound
<1> PICK k \in FreeJobs : job' = [job EXCEPT ![k] = NewJob(status, q, i, FALSE)]
  BY DEF InsertJob
<1>2. /\ k \in Jobs /\ job[k].status = "none" /\ job'[k] = NewJob(status, q, i, FALSE)
      /\ \A j \in Jobs \ {k} : job'[j] = job[j]
  BY DEF FreeJobs, IInv, TypeOK
<1>n. ~job'[k].branch /\ job'[k].status # "completed"
  BY <1>2 DEF NewJob
<1>3. /\ TokenThreads(q)' \subseteq TokenThreads(q) \cup {t}
      /\ Joiners(q)' \subseteq Joiners(q) \cup {t}
      /\ TokenJobs(q)' \subseteq TokenJobs(q) \cup {k}
      /\ Uncounted(q)' \subseteq Uncounted(q) \cup {k} \cup {t}
  BY <1>0, <1>2, <1>n, ElseSets DEF Sound
<1>4. t \notin Joiners(q)' /\ t \notin TokenThreads(q)'
  BY DEF Joiners, Joining, TokenThreads, Moving
<1>5. k \notin Uncounted(q)' /\ t \notin Uncounted(q)'
  <2>1. k \notin Uncounted(q)'
    BY <1>n DEF Uncounted
  <2>2. ASSUME t \in Uncounted(q)', t # k PROVE FALSE
    <3>1. t \in Jobs /\ job'[t] = job[t] /\ thread'[t].pc # "count"
      BY <1>0, <1>2, <2>2 DEF Uncounted
    <3>2. t \in Uncounted(q)
      BY <2>2, <3>1 DEF Uncounted, At
    <3> QED BY <1>1, <3>2
  <2> QED BY <2>1, <2>2
<1>6. run[q].status # "completed"
  BY <1>0, NotEnded DEF Sound
<1>7. ThreadsFit(q)'
  BY <1>0, ThreadsFitKept DEF Sound
<1>8. JobsFit(q)'
  <2>1. \A j \in Jobs : job'[j].status # "none" /\ job'[j].run = q /\ job'[j].branch
                          => job[j].status # "none"
    BY <1>2, <1>n
  <2> QED BY <1>0, <2>1, JobsFitKept DEF Sound
<1>9. run'[q].done <= run'[q].count
  BY <1>0, DoneInCount DEF Sound
<1>10. TokenChildren(q)' = {}
  BY <1>0, <1>1, ChildrenKept DEF Elsewhere, At
<1> QED BY <1>1, <1>3, <1>4, <1>5, <1>6, <1>7, <1>8, <1>9, <1>10, LoneJob

(* A job that holds the only token of its run gives it to its thread.      *)
LEMMA FromJob ==
  ASSUME NEW q, Stage(q), NEW t \in TokenJobs(q), Elsewhere(t), UNCHANGED run,
         job'[t].status = "completed", job'[t].branch = job[t].branch,
         \A j \in Jobs \ {t} : job'[j] = job[j],
         thread'[t].run = q, thread'[t].pc \notin {"idle", "fan", "count", "tally", "merge", "resume"},
         Fits(t)'
  PROVE  Sound(q)'
<1> USE DEF Stage
<1>0. Sound(q) /\ t \in Threads /\ t \in Jobs /\ Threads' = Threads /\ Jobs' = Jobs /\ Runs' = Runs
  BY DEF TokenJobs, Threads, Jobs, Runs
<1>1. /\ TokenJobs(q) = {t} /\ TokenThreads(q) = {} /\ TokenChildren(q) = {}
      /\ Uncounted(q) = {} /\ Joiners(q) = {}
  BY <1>0, OnlyJob DEF Sound
<1>2. /\ TokenThreads(q)' \subseteq TokenThreads(q) \cup {t}
      /\ Joiners(q)' \subseteq Joiners(q) \cup {t}
      /\ TokenJobs(q)' \subseteq TokenJobs(q) \cup {t}
      /\ Uncounted(q)' \subseteq Uncounted(q) \cup {t} \cup {t}
  BY <1>0, ElseSets DEF Sound
<1>3. t \notin TokenJobs(q)' /\ t \notin Uncounted(q)'
  BY DEF TokenJobs, Unfinished, Uncounted
<1>4. run[q].status # "completed"
  BY <1>0, <1>1, NotEnded DEF Sound
<1>5. ThreadsFit(q)'
  BY <1>0, ThreadsFitKept DEF Sound
<1>6. JobsFit(q)'
  <2>1. \A j \in Jobs : job'[j].status # "none" /\ job'[j].run = q /\ job'[j].branch
                          => job[j].status # "none"
    BY <1>0 DEF TokenJobs
  <2> QED BY <1>0, <2>1, JobsFitKept DEF Sound
<1>7. run'[q].done <= run'[q].count
  BY <1>0, DoneInCount DEF Sound
<1>8. TokenChildren(q)' = {}
  BY <1>0, <1>1, ChildrenKept DEF Elsewhere, At
<1>9. CASE thread'[t].pc # "setup"
  <2>1. t \notin Joiners(q)'
    BY <1>9 DEF Joiners, Joining
  <2> QED BY <1>1, <1>2, <1>3, <1>4, <1>5, <1>6, <1>7, <1>8, <2>1, LoneThread
<1>10. CASE thread'[t].pc = "setup"
  <2>1. t \notin TokenThreads(q)'
    BY <1>10 DEF TokenThreads, Joining
  <2>2. Joiners(q)' \subseteq {t} /\ Uncounted(q)' = {}
    BY <1>1, <1>2, <1>3
  <2>3. Tallied(q)' = run[q].done
    <3>1. Cardinality(Uncounted(q)') = 0 /\ run[q].done \in Nat
      BY <1>0, <2>2, FS_EmptySet DEF IInv, TypeOK, Run
    <3> QED BY <3>1 DEF Tallied
  <2>4. Joined(q)'
    <3>1. Tallied(q)' <= run'[q].count
      BY <1>7, <2>3
    <3>2. \A u \in Joiners(q)' : Joins(u, q)'
      BY <1>10, <2>2 DEF Joins, Alone, At
    <3>3. \A x \in Uncounted(q)' \cup Joiners(q)' : x = t /\ At(x, "setup")'
      BY <1>10, <2>2 DEF At
    <3>4. \A x, y \in Uncounted(q)' \cup Joiners(q)' : job'[x].step = job'[y].step
      BY <3>3
    <3> QED BY <3>1, <3>2, <3>3, <3>4 DEF Joined
  <2> QED BY <1>1, <1>2, <1>3, <1>4, <1>5, <1>6, <1>8, <2>1, <2>4, LoneJoin
<1> QED BY <1>9, <1>10

-----------------------------------------------------------------------------
(* The steps, one by one, seen from a run q that is not loose.             *)
LEMMA StartSound ==
  ASSUME NEW q, Stage(q), NEW f \in Roots, StartWorkflow(f)
  PROVE  Sound(q)'
<1> USE DEF Stage
<1> PICK c \in FreeRuns : run' = [run EXCEPT ![c] = NewRun(f, 0, 0)] /\ SetThread(0, "insert", c, 1)
  BY DEF StartWorkflow, InsertRun
<1>0. Sound(q) /\ 0 \in Threads /\ Runs' = Runs /\ Jobs' = Jobs /\ Threads' = Threads
  BY DEF Threads, Jobs, Runs
<1>1. /\ c \in Runs /\ run[c].status = "none" /\ run'[c] = NewRun(f, 0, 0)
      /\ \A r \in Runs \ {c} : run'[r] = run[r]
  BY DEF FreeRuns, IInv, TypeOK
<1>2. thread'[0].pc = "insert" /\ thread'[0].run = c /\ Elsewhere(0)
  BY <1>0, SetThreadAt DEF IInv
<1>3. UNCHANGED job
  BY DEF StartWorkflow
<1>4. /\ run'[c].parent = 0 /\ run'[c].status = "running"
      /\ run'[c].done = 0 /\ run'[c].count = 0
  BY <1>1 DEF NewRun
<1>5. \A r \in Runs : r # 0
  BY DEF Runs
<1>6. CASE c # q
  <2>1. \A r \in Runs : run'[r].parent = q => run'[r] = run[r]
    BY <1>1, <1>4, <1>5
  <2> QED BY <1>0, <1>1, <1>2, <1>3, <1>6, <2>1, Others
<1>7. CASE c = q
  <2>1. /\ TokenThreads(q) = {} /\ TokenJobs(q) = {} /\ TokenChildren(q) = {}
        /\ Uncounted(q) = {} /\ Joiners(q) = {}
    BY <1>1, <1>7, Unborn
  <2>2. /\ TokenThreads(q)' \subseteq TokenThreads(q) \cup {0}
        /\ Joiners(q)' \subseteq Joiners(q) \cup {0}
        /\ TokenJobs(q)' \subseteq TokenJobs(q) \cup {}
        /\ Uncounted(q)' \subseteq Uncounted(q) \cup {} \cup {0}
    BY <1>0, <1>2, <1>3, ElseSets DEF Sound
  <2>3. 0 \notin Joiners(q)' /\ 0 \notin Uncounted(q)'
    BY <1>2 DEF Joiners, Joining, Uncounted, Jobs
  <2>4. ThreadsFit(q)' /\ JobsFit(q)'
    <3>1. Fits(0)'
      BY <1>2, PlainFits DEF Plain
    <3> QED BY <1>0, <1>1, <1>2, <1>3, <1>7, <3>1, ThreadsFitKept, JobsFitKept DEF Sound
  <2>5. TokenChildren(q)' = {}
    <3>1. \A r \in Runs : run'[r].parent = q => run'[r] = run[r]
      BY <1>1, <1>4, <1>5
    <3> QED BY <1>0, <1>2, <2>1, <3>1, ChildrenKept DEF Elsewhere, At
  <2> QED BY <1>4, <1>7, <2>1, <2>2, <2>3, <2>4, <2>5, LoneThread
<1> QED BY <1>6, <1>7

LEMMA LaunchSound ==
  ASSUME NEW q, Stage(q), NEW j \in Jobs, LaunchChild(j)
  PROVE  Sound(q)'
<1> USE DEF Stage
<1> DEFINE f == StepOf(j).child
           p == job[j].run
           i == job[j].step
<1> PICK c \in FreeRuns : run' = [run EXCEPT ![c] = NewRun(f, p, i)] /\ SetThread(j, "insert", c, 1)
  BY DEF LaunchChild, InsertRun
<1>0. Sound(q) /\ j \in Threads /\ Runs' = Runs /\ Jobs' = Jobs /\ Threads' = Threads
  BY DEF Threads, Jobs, Runs
<1>1. /\ c \in Runs /\ run[c].status = "none" /\ run'[c] = NewRun(f, p, i)
      /\ \A r \in Runs \ {c} : run'[r] = run[r]
  BY DEF FreeRuns, IInv, TypeOK
<1>2. thread'[j].pc = "insert" /\ thread'[j].run = c /\ Elsewhere(j)
  BY <1>0, SetThreadAt DEF IInv
<1>3. UNCHANGED job /\ At(j, "child")
  BY DEF LaunchChild
<1>4. /\ run'[c].parent = p /\ run'[c].status = "running"
      /\ run'[c].done = 0 /\ run'[c].count = 0
  BY <1>1 DEF NewRun
<1>5. thread[j].run = p /\ p \in Runs /\ run[p].status # "none"
  BY <1>3, JobStepIsStep DEF OfJob, At, Inside
<1>a. Fits(j)'
  BY <1>2, PlainFits DEF Plain
<1> HIDE DEF f, p, i
<1>6. CASE c # q /\ p # q
  <2>1. \A r \in Runs : run'[r].parent = q => run'[r] = run[r]
    BY <1>1, <1>4, <1>6
  <2> QED BY <1>0, <1>1, <1>2, <1>3, <1>6, <2>1, Others
<1>7. CASE c = q
  <2>1. /\ TokenThreads(q) = {} /\ TokenJobs(q) = {} /\ TokenChildren(q) = {}
        /\ Uncounted(q) = {} /\ Joiners(q) = {}
    BY <1>1, <1>7, Unborn
  <2>2. /\ TokenThreads(q)' \subseteq TokenThreads(q) \cup {j}
        /\ Joiners(q)' \subseteq Joiners(q) \cup {j}
        /\ TokenJobs(q)' \subseteq TokenJobs(q) \cup {}
        /\ Uncounted(q)' \subseteq Uncounted(q) \cup {} \cup {j}
    BY <1>0, <1>2, <1>3, ElseSets DEF Sound
  <2>3. j \notin Joiners(q)' /\ j \notin Uncounted(q)'
    BY <1>2, <1>3, <2>1 DEF Joiners, Joining, Uncounted, Jobs, At
  <2>4. ThreadsFit(q)' /\ JobsFit(q)'
    BY <1>0, <1>1, <1>2, <1>3, <1>7, <1>a, ThreadsFitKept, JobsFitKept DEF Sound
  <2>5. TokenChildren(q)' = {}
    <3>1. \A r \in Runs : run'[r].parent = q => run'[r] = run[r]
      BY <1>1, <1>4, <1>5, <1>7
    <3> QED BY <1>0, <1>2, <2>1, <3>1, ChildrenKept DEF Elsewhere, At
  <2> QED BY <1>4, <1>7, <2>1, <2>2, <2>3, <2>4, <2>5, LoneThread
<1>8. CASE c # q /\ p = q
  <2>0. j \in TokenThreads(q) /\ ~At(j, "resume")
    BY <1>0, <1>3, <1>5, <1>8 DEF TokenThreads, Moving, Joining, At
  <2>1. /\ TokenThreads(q) = {j} /\ TokenJobs(q) = {} /\ TokenChildren(q) = {}
        /\ Uncounted(q) = {} /\ Joiners(q) = {}
    BY <1>0, <2>0, OnlyThread DEF Sound
  <2>2. /\ TokenThreads(q)' \subseteq TokenThreads(q) \cup {j}
        /\ Joiners(q)' \subseteq Joiners(q) \cup {j}
        /\ TokenJobs(q)' \subseteq TokenJobs(q) \cup {}
        /\ Uncounted(q)' \subseteq Uncounted(q) \cup {} \cup {j}
    BY <1>0, <1>2, <1>3, ElseSets DEF Sound
  <2>3. j \notin Joiners(q)' /\ j \notin TokenThreads(q)' /\ j \notin Uncounted(q)'
    BY <1>0, <1>2, <1>3, <1>8, <2>1 DEF Joiners, TokenThreads, Uncounted, At
  <2>4. ThreadsFit(q)' /\ JobsFit(q)'
    BY <1>0, <1>1, <1>2, <1>3, <1>8, ThreadsFitKept, JobsFitKept DEF Sound
  <2>5. TokenChildren(q)' \subseteq {c}
    <3> SUFFICES ASSUME NEW r \in TokenChildren(q)', r # c PROVE r \in TokenChildren(q)
      BY <2>1
    <3>1. r \in Runs /\ run'[r] = run[r]
      BY <1>0, <1>1 DEF TokenChildren
    <3> QED BY <1>0, <1>2, <3>1 DEF TokenChildren, Elsewhere, At
  <2>6. run[q].status # "completed" /\ run'[q] = run[q]
    BY <1>0, <1>1, <1>8, <2>0, NotEnded DEF Sound
  <2>7. run'[q].done <= run'[q].count
    BY <1>0, <2>6, DoneInCount DEF Sound
  <2> QED BY <2>1, <2>2, <2>3, <2>4, <2>5, <2>6, <2>7, LoneChild
<1> QED BY <1>6, <1>7, <1>8

(* Steps in which no run gains a token.                                    *)
LEMMA Quiet ==
  ASSUME NEW q, Stage(q), UNCHANGED run,
         \A j \in Jobs : SameJob(j) \/ job'[j] = job[j],
         \A t \in Threads :
           \/ thread'[t] = thread[t]
           \/ thread'[t].pc = "idle"
           \/ thread'[t].pc \in Deciding /\ (thread'[t].run = q => Fits(t)')
  PROVE  Sound(q)'
<1> USE DEF Stage
<1>0. Sound(q) /\ q \in Runs
  OBVIOUS
<1>1. \A t \in Threads : thread'[t].run = q /\ thread'[t].pc \in Moving => thread'[t] = thread[t]
  BY DEF Deciding, Written, Moving
<1>2. \A j \in Jobs : \/ job'[j].run = q /\ job'[j].status # "none"
                      \/ job[j].run = q /\ job[j].status # "none"
                      => SameJob(j)
  BY DEF SameJob
<1>3. TokenChildren(q)' \subseteq TokenChildren(q)
  <2> SUFFICES ASSUME NEW c \in TokenChildren(q)' PROVE c \in TokenChildren(q)
    OBVIOUS
  <2>1. c \in Runs /\ run'[c] = run[c] /\ run[c].parent = q
    BY DEF TokenChildren, Runs
  <2>2. \A t \in Threads : At(t, "resume")' => thread'[t] = thread[t]
    BY DEF At, Deciding, Written
  <2>3. Threads' = Threads
    BY DEF Threads, Jobs
  <2> QED BY <1>0, <2>1, <2>2, <2>3 DEF TokenChildren, At
<1>4. NothingNew(q)
  BY <1>1, <1>2, <1>3 DEF NothingNew
<1> QED BY <1>0, <1>4, Away

LEMMA ClaimSound ==
  ASSUME NEW q, Stage(q), NEW j \in Jobs, Claim(j)
  PROVE  Sound(q)'
<1> USE DEF Stage
<1>1. j \in Threads /\ job \in [Jobs -> Job]
  BY DEF Threads, IInv, TypeOK
<1>2. thread'[j].pc = "start" /\ Elsewhere(j)
  BY <1>1, SetThreadAt DEF Claim, IInv
<1>3. SameJob(j) /\ \A k \in Jobs \ {j} : job'[k] = job[k]
  BY <1>1 DEF Claim, SameJob, Job
<1>4. Fits(j)'
  BY <1>2 DEF Fits, At, OfJob, Deciding, Written, Moving
<1> QED BY <1>2, <1>3, <1>4, Quiet DEF Claim, Elsewhere, Deciding

LEMMA QuietJobsSound ==
  ASSUME NEW q, Stage(q), NEW j \in Jobs, Recover(j) \/ ExpireJob(j) \/ RetryJob(j)
  PROVE  Sound(q)'
<1> USE DEF Stage
<1>1. job \in [Jobs -> Job] /\ UNCHANGED <<run, thread>>
  BY DEF IInv, TypeOK, Recover, ExpireJob, RetryJob
<1>2. SameJob(j) /\ \A k \in Jobs \ {j} : job'[k] = job[k]
  BY <1>1 DEF Recover, ExpireJob, RetryJob, SameJob, Job
<1> QED BY <1>1, <1>2, Quiet

LEMMA RedriveJobsSound ==
  ASSUME NEW q, Stage(q), RedriveJobs
  PROVE  Sound(q)'
<1> USE DEF Stage
<1>1. job \in [Jobs -> Job] /\ UNCHANGED <<run, thread>>
  BY DEF IInv, TypeOK, RedriveJobs
<1> PICK S \in SUBSET DeadJobs(redriving) :
           job' = [k \in Jobs |-> IF k \in S THEN [job[k] EXCEPT !.status = "available", !.attempt = 0]
                                             ELSE job[k]]
  BY DEF RedriveJobs
<1>2. ASSUME NEW j \in S, j \in Jobs PROVE SameJob(j)
  <2>1. job'[j] = [job[j] EXCEPT !.status = "available", !.attempt = 0] /\ job[j] \in Job
    BY <1>1, <1>2
  <2>2. job[j].status = "dead"
    BY DEF DeadJobs
  <2>3. job'[j].status = "available" /\ job'[j].run = job[j].run
        /\ job'[j].step = job[j].step /\ job'[j].branch = job[j].branch
    BY <2>1 DEF Job
  <2> QED BY <2>2, <2>3 DEF SameJob
<1>3. \A j \in Jobs : SameJob(j) \/ job'[j] = job[j]
  BY <1>2
<1> QED BY <1>1, <1>3, Quiet

LEMMA EndsSound ==
  ASSUME NEW q, Stage(q), (\E t \in Threads : Abandon(t)) \/ Crash
  PROVE  Sound(q)'
<1> USE DEF Stage
<1>1. UNCHANGED <<run, job>>
  BY DEF Abandon, Crash
<1>2. \A t \in Threads : thread'[t] = thread[t] \/ thread'[t].pc = "idle"
  <2>1. CASE Crash
    BY <2>1 DEF Crash, Idle
  <2>2. ASSUME NEW u \in Threads, Abandon(u) PROVE \A t \in Threads : thread'[t] = thread[t] \/ thread'[t].pc = "idle"
    BY <2>2, EndAt DEF Abandon, IInv, Elsewhere
  <2> QED BY <2>1, <2>2
<1> QED BY <1>1, <1>2, Quiet

LEMMA DispatchSound ==
  ASSUME NEW q, Stage(q), NEW j \in Jobs, Dispatch(j)
  PROVE  Sound(q)'
<1> USE DEF Stage
<1>1. j \in Threads /\ UNCHANGED <<run, job>>
  BY DEF Threads, Dispatch
<1>2. /\ thread'[j].pc \in {"expire", "request", "mark"} /\ Elsewhere(j)
      /\ thread'[j].pc = "mark" => ~job[j].branch
  BY <1>1, GotoAt DEF Dispatch, IInv
<1>3. Fits(j)'
  BY <1>1, <1>2 DEF Fits, At, OfJob, Deciding, Written, Moving
<1>4. thread'[j].pc \in Deciding
  BY <1>2 DEF Deciding, Written
<1> QED BY <1>1, <1>2, <1>3, <1>4, Quiet DEF Elsewhere

LEMMA MistakeSound ==
  ASSUME NEW q, Stage(q), NEW j \in Jobs, MistakeBranch(j)
  PROVE  Sound(q)'
<1> USE DEF Stage
<1>1. j \in Threads /\ UNCHANGED <<run, job>> /\ At(j, "start")
  BY DEF Threads, MistakeBranch
<1>2. thread'[j].pc = "mark" /\ thread'[j].run = thread[j].run /\ Elsewhere(j)
  BY <1>1, GotoAt DEF MistakeBranch, IInv
<1>3. thread[j].run = job[j].run /\ job[j].run \in loosened'
  BY <1>1, JobStepIsStep DEF OfJob, Deciding, At, MistakeBranch, Fault
<1>4. thread'[j].pc \in Deciding
  BY <1>2 DEF Deciding, Written
<1> QED BY <1>1, <1>2, <1>3, <1>4, Quiet DEF Elsewhere

(* The errors of branches are not caught.                                  *)
LEMMA CaughtIsNoBranch ==
  ASSUME NEW q, Stage(q), NEW j \in Jobs, job[j].run = q, job[j].status # "none",
         StepOf(j).catch # <<>>
  PROVE  ~job[j].branch
<1> USE DEF Stage
<1> SUFFICES ASSUME job[j].branch PROVE FALSE
  OBVIOUS
<1>1. StepOf(j).kind \in Branching /\ job[j].step \in 1..Len(StepsOf(q)) /\ run[q].status # "none"
  BY DEF Sound, JobsFit, IInv, StepsExist, JobInside, Inside
<1>2. CatchesBranches(q)
  BY <1>1 DEF CatchesBranches, StepOf, Branching
<1> QED BY <1>1, <1>2, LooseBase

LEMMA RequestSound ==
  ASSUME NEW q, Stage(q), NEW j \in Jobs, Request(j)
  PROVE  Sound(q)'
<1> USE DEF Stage
<1>1. j \in Threads /\ UNCHANGED <<run, job>> /\ At(j, "request")
  BY DEF Threads, Request
<1>2. thread[j].run = job[j].run /\ job[j].status # "none" /\ StepOf(j) \in Step
  BY <1>1, JobStepIsStep DEF OfJob, Deciding, At
<1>3. /\ thread'[j].pc \in {"succeed", "retry", "continue", "stop", "catch"}
      /\ thread'[j].run = job[j].run /\ Elsewhere(j)
      /\ thread'[j].pc = "catch" => StepOf(j).catch # <<>>
  <2>1. CASE Goto(j, "succeed")
    BY <1>1, <1>2, <2>1, GotoAt DEF IInv
  <2>2. ASSUME NEW e \in ErrorType, Fails(j, e)
        PROVE  /\ thread'[j].pc \in {"retry", "continue", "stop", "catch"}
               /\ thread'[j].run = job[j].run /\ Elsewhere(j)
               /\ thread'[j].pc = "catch" => StepOf(j).catch # <<>>
    <3>1. CASE \E pc \in {"retry", "continue", "stop"} : Goto(j, pc)
      BY <1>1, <1>2, <3>1, GotoAt DEF IInv
    <3>2. CASE \E c \in Catching(StepOf(j), e) : SetThread(j, "catch", job[j].run, StepOf(j).catch[c].goto)
      <4>1. StepOf(j).catch # <<>>
        BY <3>2 DEF Catching
      <4> QED BY <1>1, <3>2, <4>1, SetThreadAt DEF IInv
    <3> QED BY <2>2, <3>1, <3>2 DEF Fails
  <2> QED BY <2>1, <2>2 DEF Request
<1>4. ASSUME thread'[j].run = q PROVE Fits(j)'
  <2>1. thread'[j].pc = "catch" => ~job'[j].branch
    BY <1>1, <1>2, <1>3, <1>4, CaughtIsNoBranch
  <2> QED BY <1>3, <2>1 DEF Fits, At, OfJob, Deciding, Written, Moving
<1>5. thread'[j].pc \in Deciding
  BY <1>3 DEF Deciding, Written
<1> QED BY <1>1, <1>3, <1>4, <1>5, Quiet DEF Elsewhere

-----------------------------------------------------------------------------
(* The write of a job's outcome.                                           *)
LEMMA OutcomeSets ==
  ASSUME NEW q, Stage(q), NEW j \in Jobs, WriteOutcome(j)
  PROVE  /\ j \in Threads /\ UNCHANGED run /\ Elsewhere(j)
         /\ job[j].status = "running" /\ thread[j].run = job[j].run
         /\ job'[j] = [job[j] EXCEPT !.status = Written[thread[j].pc]]
         /\ job'[j].status = Written[thread[j].pc]
         /\ job'[j].run = job[j].run /\ job'[j].step = job[j].step /\ job'[j].branch = job[j].branch
         /\ \A k \in Jobs \ {j} : job'[k] = job[k]
         /\ thread'[j].pc = IF At(j, "retry") THEN "idle" ELSE Follow(j)
         /\ ~At(j, "retry") => thread'[j].run = job[j].run
<1> USE DEF Stage
<1>1. j \in Threads /\ job \in [Jobs -> Job]
  BY DEF Threads, IInv, TypeOK
<1>2. thread[j].pc \in Deciding /\ thread[j].pc \in DOMAIN Written
  BY DEF WriteOutcome, Deciding
<1>3. job[j].status = "running"
  BY <1>2 DEF Delivered
<1>4. thread[j].run = job[j].run
  BY <1>2, JobStepIsStep DEF OfJob
<1>5. job'[j] = [job[j] EXCEPT !.status = Written[thread[j].pc]]
      /\ \A k \in Jobs \ {j} : job'[k] = job[k]
  BY <1>1 DEF WriteOutcome
<1>6. CASE At(j, "retry")
  <2>1. thread'[j].pc = "idle" /\ Elsewhere(j)
    BY <1>1, <1>6, EndAt DEF WriteOutcome, IInv
  <2> QED BY <1>1, <1>3, <1>4, <1>5, <1>6, <2>1 DEF WriteOutcome, Job
<1>7. CASE ~At(j, "retry")
  <2>1. thread'[j].pc = Follow(j) /\ thread'[j].run = job[j].run /\ Elsewhere(j)
    BY <1>1, <1>4, <1>7, GotoAt DEF WriteOutcome, IInv
  <2> QED BY <1>1, <1>3, <1>4, <1>5, <1>7, <2>1 DEF WriteOutcome, Job
<1> QED BY <1>6, <1>7

(* A job that is not completed: it is retried, or it is dead and its run   *)
(* is to fail.                                                             *)
LEMMA SetbackSound ==
  ASSUME NEW q, Stage(q), NEW j \in Jobs, WriteOutcome(j), Written[thread[j].pc] # "completed"
  PROVE  Sound(q)'
<1>o. /\ j \in Threads /\ UNCHANGED run /\ Elsewhere(j)
      /\ job[j].status = "running" /\ thread[j].run = job[j].run
      /\ job'[j].status = Written[thread[j].pc]
      /\ job'[j].run = job[j].run /\ job'[j].step = job[j].step /\ job'[j].branch = job[j].branch
      /\ \A k \in Jobs \ {j} : job'[k] = job[k]
      /\ thread'[j].pc = IF At(j, "retry") THEN "idle" ELSE Follow(j)
      /\ ~At(j, "retry") => thread'[j].run = job[j].run
  BY OutcomeSets
<1> USE DEF Stage
<1>0. Sound(q) /\ q \in Runs
  OBVIOUS
<1>p. thread[j].pc \in DOMAIN Written
  BY DEF WriteOutcome
<1>q. thread[j].pc \in {"retry", "stop", "expire"}
  BY <1>p DEF Written
<1>1. thread[j].pc \in {"retry", "stop", "expire"} /\ job'[j].status \in {"retryable", "dead"}
  BY <1>o, <1>q DEF Written
<1>2. CASE At(j, "retry")
  <2>1. thread'[j].pc = "idle"
    BY <1>2, <1>o
  <2> QED BY <1>1, <2>1, <1>o, Quiet DEF Elsewhere, SameJob
<1>3. CASE ~At(j, "retry")
  <2>1. thread'[j].pc = "fail" /\ thread'[j].run = job[j].run
    BY <1>1, <1>3, <1>o DEF Follow, At
  <2>2. SameJob(j) /\ \A k \in Jobs \ {j} : job'[k] = job[k]
    BY <1>1, <1>o DEF SameJob
  <2>3. job[j].run = q => run[q].status # "completed"
    <3> SUFFICES ASSUME job[j].run = q PROVE run[q].status # "completed"
      OBVIOUS
    <3>1. j \in TokenJobs(q) \/ j \in Uncounted(q)
      BY <1>o DEF TokenJobs, Uncounted, Unfinished
    <3> QED BY <1>0, <3>1, NotEnded DEF Sound
  <2>4. TokenChildren(q)' \subseteq TokenChildren(q)
    BY <1>0, <2>1, <1>o, ChildrenKept DEF Elsewhere, At
  <2>5. Fits(j)'
    BY <2>1, <2>2, FailFits DEF SameJob
  <2>6. NothingNew(q)
    <3>1. \A k \in Jobs : \/ job'[k].run = q /\ job'[k].status # "none"
                          \/ job[k].run = q /\ job[k].status # "none"
                          => SameJob(k)
      BY <2>2 DEF SameJob
    <3>2. \A t \in Threads :
            thread'[t].run = q /\ thread'[t].pc \in Moving =>
              \/ thread'[t] = thread[t]
              \/ /\ thread'[t].pc = "fail" /\ t \in Jobs
                 /\ job'[t].status # "completed" /\ run[q].status # "completed"
      BY <1>1, <2>1, <2>3, <1>o DEF Elsewhere
    <3> QED BY <2>4, <3>1, <3>2 DEF NothingNew
  <2>7. UNCHANGED run /\ \A t \in Threads : thread'[t] = thread[t] \/ Fits(t)'
    BY <2>5, <1>o DEF Elsewhere
  <2> QED BY <1>0, <2>6, <2>7, Away
<1> QED BY <1>2, <1>3

(* A completed branch is to be counted.                                    *)
LEMMA BranchDoneSound ==
  ASSUME NEW q, Stage(q), NEW j \in Jobs, WriteOutcome(j), job[j].run = q, job[j].branch,
         thread[j].pc \in {"succeed", "continue"}
  PROVE  Sound(q)'
<1>o. /\ j \in Threads /\ UNCHANGED run /\ Elsewhere(j)
      /\ job[j].status = "running" /\ thread[j].run = job[j].run
      /\ job'[j].status = Written[thread[j].pc]
      /\ job'[j].run = job[j].run /\ job'[j].step = job[j].step /\ job'[j].branch = job[j].branch
      /\ \A k \in Jobs \ {j} : job'[k] = job[k]
      /\ thread'[j].pc = IF At(j, "retry") THEN "idle" ELSE Follow(j)
      /\ ~At(j, "retry") => thread'[j].run = job[j].run
  BY OutcomeSets
<1> USE DEF Stage
<1>0. /\ Sound(q) /\ q \in Runs /\ j \in Threads /\ UNCHANGED run
      /\ Threads' = Threads /\ Jobs' = Jobs
  BY <1>o DEF Threads, Jobs
<1>1. /\ thread'[j].pc = "count" /\ thread'[j].run = q
      /\ job'[j].status = "completed" /\ job'[j].branch
  <2>1. thread'[j].pc = "count"
    BY <1>o DEF Follow, At
  <2>2. Written[thread[j].pc] = "completed"
    BY DEF Written
  <2> QED BY <1>o, <2>1, <2>2 DEF At
<1>2. j \in Uncounted(q) /\ j \in Uncounted(q)' /\ j \in Joiners(q)'
  <2>1. j \in Uncounted(q)
    BY <1>o DEF Uncounted
  <2>2. job'[j].run = q
    BY <1>o
  <2> QED BY <1>0, <1>1, <2>1, <2>2 DEF Uncounted, Joiners, Joining, At
<1>3. /\ TokenThreads(q)' \subseteq TokenThreads(q) \cup {j}
      /\ Joiners(q)' \subseteq Joiners(q) \cup {j}
      /\ TokenJobs(q)' \subseteq TokenJobs(q) \cup {j}
      /\ Uncounted(q)' \subseteq Uncounted(q) \cup {j} \cup {j}
  BY <1>0, <1>o, ElseSets DEF Sound
<1>4. TokenJobs(q) = {} /\ TokenThreads(q) = {} /\ TokenChildren(q) = {}
  BY <1>0, <1>2, OnlyJoin DEF Sound
<1>5. j \notin TokenThreads(q)' /\ j \notin TokenJobs(q)'
  BY <1>1 DEF TokenThreads, TokenJobs, Joining
<1>6. TokenChildren(q)' = {}
  BY <1>0, <1>1, <1>4, <1>o, ChildrenKept DEF Elsewhere, At
<1>7. run'[q].status # "completed"
  BY <1>0, <1>2, NotEnded DEF Sound
<1>8. ThreadsFit(q)' /\ JobsFit(q)'
  <2>1. Fits(j)'
    BY <1>1 DEF Fits, At, OfJob
  <2>2. \A k \in Jobs : job'[k].status # "none" => job[k].status # "none"
    BY <1>o
  <2> QED BY <1>0, <2>1, <2>2, <1>o, ThreadsFitKept, JobsFitKept DEF Sound
<1>9. Joined(q)'
  <2>1. Uncounted(q)' \subseteq Uncounted(q) /\ Tallied(q)' <= Tallied(q)
    <3>1. Uncounted(q)' \subseteq Uncounted(q)
      BY <1>2, <1>3
    <3>2. Cardinality(Uncounted(q)') <= Cardinality(Uncounted(q))
      BY <3>1, Counts, FS_Subset
    <3>3. /\ Cardinality(Uncounted(q)') \in Nat /\ Cardinality(Uncounted(q)) \in Nat
          /\ run[q].done \in Nat
      BY <3>1, Counts, FS_Subset, FS_CardinalityType DEF IInv, TypeOK, Run
    <3> QED BY <1>0, <3>1, <3>2, <3>3 DEF Tallied
  <2>2. Tallied(q) \in Nat /\ Tallied(q)' \in Nat /\ run[q].count \in Nat
    <3>1. Cardinality(Uncounted(q)') \in Nat
      BY <2>1, Counts, FS_Subset, FS_CardinalityType
    <3>2. run[q].done \in Nat
      BY DEF IInv, TypeOK, Run
    <3> QED BY <1>0, <3>1, <3>2, DoneInCount DEF Tallied, Sound
  <2>3. \A u \in Joiners(q)' : u = j \/ (u \in Joiners(q) /\ thread'[u] = thread[u] /\ u \in Threads)
    BY <1>3, <1>o DEF Elsewhere, Joiners
  <2>4. ASSUME NEW u \in Joiners(q)' PROVE Joins(u, q)'
    <3>1. CASE u = j
      BY <1>1, <3>1 DEF Joins, At
    <3>2. CASE u # j
      <4>1. u \in Joiners(q) /\ thread'[u] = thread[u] /\ u \in Threads /\ Joins(u, q)
        BY <2>3, <2>4, <3>2 DEF Sound, Joined
      <4>2. ~At(u, "setup") /\ ~At(u, "merge")
        BY <1>2, <4>1 DEF Joins, Alone
      <4>3. thread[u].next \in Nat
        BY <4>1 DEF IInv, TypeOK, Thread
      <4>4. At(u, "fan")' => Tallied(q)' + thread'[u].next <= run'[q].count
        BY <1>0, <2>1, <2>2, <4>1, <4>3 DEF Joins, At
      <4>5. \A v \in Joiners(q)' : thread'[v].pc = thread'[u].pc /\ thread'[u].pc # "count" => v = u
        BY <1>1, <2>3, <4>1 DEF Joins, At
      <4> QED BY <4>1, <4>2, <4>4, <4>5 DEF Joins, At
    <3> QED BY <3>1, <3>2
  <2>5. ASSUME NEW x \in Uncounted(q)' \cup Joiners(q)'
        PROVE  /\ x \in Uncounted(q) \cup Joiners(q) /\ job'[x].step = job[x].step /\ ~At(x, "setup")
    <3>1. x \in Uncounted(q) \cup Joiners(q)
      BY <1>2, <2>1, <2>3, <2>5
    <3>2. ~At(x, "setup")
      <4>1. CASE x \in Joiners(q)
        BY <1>0, <1>2, <4>1 DEF Joins, Alone, Joined, Sound
      <4>2. CASE x \in Uncounted(q)
        <5> SUFFICES ASSUME At(x, "setup") PROVE FALSE
          OBVIOUS
        <5>1. x \in Jobs /\ job[x].run = q /\ thread[x].pc \in OfJob /\ x \in Threads
          BY <4>2 DEF Uncounted, OfJob, At, Threads
        <5>2. thread[x].run = q
          BY <5>1, JobStepIsStep
        <5>3. x \in Joiners(q)
          BY <5>1, <5>2 DEF Joiners, Joining, At
        <5> QED BY <4>1, <5>3
      <4> QED BY <3>1, <4>1, <4>2
    <3>3. x \in Jobs
      <4>1. CASE x \in Joiners(q)
        BY <4>1 DEF Joiners, Joining, IInv, StepsExist, ThreadInside, OfJob
      <4> QED BY <3>1, <4>1 DEF Uncounted
    <3> QED BY <3>1, <3>2, <3>3, <1>o
  <2>6. Tallied(q)' <= run'[q].count
    BY <1>0, <2>1, <2>2 DEF Joined, Sound
  <2>7. \A x, y \in Uncounted(q)' \cup Joiners(q)' : job'[x].step = job'[y].step
    BY <1>0, <2>5 DEF Joined, Sound
  <2>8. ASSUME NEW x \in Uncounted(q)' \cup Joiners(q)'
        PROVE  Tallied(q)' <= Cardinality(Branches(q, job[x].step))'
    <3>1. Tallied(q) <= Cardinality(Branches(q, job[x].step))
      BY <1>0, <2>5, <2>8 DEF Joined, Sound
    <3>2. PICK i : i = job[x].step /\ i = job'[x].step
      BY <2>5, <2>8
    <3>3. Branches(q, i)' = Branches(q, i)
      <4>1. \A k \in Jobs :
              /\ job'[k].run = job[k].run /\ job'[k].step = job[k].step
              /\ job'[k].branch = job[k].branch
              /\ job'[k].status = "none" <=> job[k].status = "none"
        BY <1>o, <1>1
      <4> QED BY <1>0, <4>1 DEF Branches
    <3>4. Cardinality(Branches(q, i)) \in Nat
      BY Counts
    <3>5. Tallied(q)' <= Cardinality(Branches(q, i)')
      BY <2>1, <2>2, <3>1, <3>2, <3>3, <3>4
    <3>6. Branches(q, job[x].step)' = Branches(q, i)'
      BY <3>2 DEF Branches
    <3> QED BY <3>5, <3>6
  <2> QED BY <2>4, <2>6, <2>7, <2>8 DEF Joined
<1> QED BY <1>3, <1>4, <1>5, <1>6, <1>7, <1>8, <1>9, LoneJoin

LEMMA OutcomeSound ==
  ASSUME NEW q, Stage(q), NEW j \in Jobs, WriteOutcome(j)
  PROVE  Sound(q)'
<1>o. /\ j \in Threads /\ UNCHANGED run /\ Elsewhere(j)
      /\ job[j].status = "running" /\ thread[j].run = job[j].run
      /\ job'[j].status = Written[thread[j].pc]
      /\ job'[j].run = job[j].run /\ job'[j].step = job[j].step /\ job'[j].branch = job[j].branch
      /\ \A k \in Jobs \ {j} : job'[k] = job[k]
      /\ thread'[j].pc = IF At(j, "retry") THEN "idle" ELSE Follow(j)
      /\ ~At(j, "retry") => thread'[j].run = job[j].run
  BY OutcomeSets
<1> USE DEF Stage
<1>0. Sound(q) /\ q \in Runs
  OBVIOUS
<1>1. CASE Written[thread[j].pc] # "completed"
  BY <1>1, SetbackSound
<1>2. CASE Written[thread[j].pc] = "completed" /\ job[j].run # q
  <2>1. ~At(j, "retry")
    BY <1>2 DEF At, Written
  <2>2. thread'[j].pc # "resume"
    BY <1>o, <2>1 DEF Follow
  <2> QED BY <1>0, <1>o, <1>2, <2>1, <2>2, Others
<1>3. CASE Written[thread[j].pc] = "completed" /\ job[j].run = q
  <2>0. thread[j].pc \in {"mark", "succeed", "continue", "catch"}
    <3>1. thread[j].pc \in DOMAIN Written
      BY DEF WriteOutcome
    <3> QED BY <1>3, <3>1 DEF Written
  <2>1. CASE job[j].branch /\ thread[j].pc \in {"succeed", "continue"}
    BY <1>3, <2>1, BranchDoneSound
  <2>2. CASE ~(job[j].branch /\ thread[j].pc \in {"succeed", "continue"})
    <3>1. ~job[j].branch
      <4>1. Fits(j)
        BY <1>0, <1>o, <1>3, <2>0 DEF Sound, ThreadsFit, At
      <4> QED BY <2>0, <2>2, <4>1 DEF Fits
    <3>2. j \in TokenJobs(q)
      BY <1>o, <1>3, <3>1 DEF TokenJobs, Unfinished
    <3>3. /\ thread'[j].pc = Follow(j) /\ thread'[j].run = q
          /\ thread'[j].pc \in {"move", "advance", "choose", "setup", "pass", "callback", "child"}
          /\ thread'[j].pc = "setup" => StepOf(j).kind \in Branching
      <4>1. ~At(j, "retry")
        BY <2>0 DEF At
      <4> QED BY <1>o, <1>3, <2>0, <3>1, <4>1 DEF Follow, At, Branching
    <3>4. Fits(j)'
      <4>1. StepOf(j)' = StepOf(j)
        BY <1>o, StepOfStays DEF IInv, StepsExist, Kept, JobsKept, RunsKept, Persist
      <4> QED BY <1>o, <1>3, <3>1, <3>3, <4>1 DEF Fits, At
    <3> QED BY <1>o, <1>3, <3>2, <3>3, <3>4, FromJob
  <2> QED BY <2>1, <2>2
<1> QED BY <1>1, <1>2, <1>3

(* A write that fails loosens the run.                                     *)
LEMMA OutcomeLostSound ==
  ASSUME NEW q, Stage(q), NEW j \in Jobs, OutcomeLost(j)
  PROVE  Sound(q)'
<1> USE DEF Stage
<1>1. j \in Threads /\ UNCHANGED <<run, job>> /\ Goto(j, Follow(j)) /\ job[j].run \in loosened'
  BY DEF Threads, OutcomeLost, Fault
<1>2. thread[j].pc \in {"succeed", "continue", "stop", "expire"}
  BY DEF OutcomeLost
<1>3. thread[j].run = job[j].run
  BY <1>2, JobStepIsStep DEF OfJob, Deciding, Written
<1>4. thread'[j].run = job[j].run /\ thread'[j].pc = Follow(j) /\ Elsewhere(j)
  BY <1>1, <1>3, GotoAt DEF IInv
<1>5. Follow(j) # "resume"
  BY DEF Follow
<1> QED BY <1>1, <1>4, <1>5, Others

-----------------------------------------------------------------------------
(* The moves of a run.                                                     *)
LEMMA StepOnAt ==
  ASSUME TypeOK, NEW t \in Threads, NEW r, NEW i, StepOn(t, r, i) \/ StepOnOrEnd(t, r, i)
  PROVE  /\ thread'[t].run = r /\ thread'[t].pc \in {"move", "complete"} /\ Elsewhere(t)
         /\ Fits(t)'
<1>1. thread'[t].run = r /\ thread'[t].pc \in {"move", "complete"} /\ Elsewhere(t)
  <2>1. (\E k : SetThread(t, "move", r, k)) \/ SetThread(t, "complete", r, 0)
    BY DEF StepOn, StepOnOrEnd
  <2> QED BY <2>1, SetThreadAt
<1> QED BY <1>1, PlainFits DEF Plain

LEMMA WalkSound ==
  ASSUME NEW q, Stage(q), NEW j \in Jobs, Advance(j) \/ Choose(j) \/ PassWait(j)
  PROVE  Sound(q)'
<1> USE DEF Stage
<1>0. Sound(q) /\ q \in Runs
  OBVIOUS
<1>1. /\ j \in Threads /\ UNCHANGED <<run, job>>
      /\ thread[j].pc \in {"advance", "choose", "pass"}
  BY DEF Threads, Advance, Choose, PassWait, At
<1>2. thread[j].run = job[j].run /\ job[j].status # "none"
  BY <1>1, JobStepIsStep DEF OfJob
<1>3. /\ thread'[j].run = job[j].run /\ Elsewhere(j)
      /\ thread'[j].pc \in {"move", "complete", "fail"}
      /\ Fits(j)'
  <2>1. CASE Goto(j, "fail")
    <3>1. thread'[j].run = job[j].run /\ Elsewhere(j) /\ thread'[j].pc = "fail"
      BY <1>1, <1>2, <2>1, GotoAt DEF IInv
    <3> QED BY <1>1, <1>2, <3>1, FailFits
  <2>2. CASE \E i : StepOn(j, job[j].run, i) \/ StepOnOrEnd(j, job[j].run, i)
    BY <1>1, <2>2, StepOnAt DEF IInv
  <2>3. CASE \E i : SetThread(j, "move", job[j].run, i)
    <3>1. thread'[j].run = job[j].run /\ Elsewhere(j) /\ thread'[j].pc = "move"
      BY <1>1, <2>3, SetThreadAt DEF IInv
    <3> QED BY <3>1, PlainFits DEF Plain
  <2> QED BY <2>1, <2>2, <2>3 DEF Advance, Choose, PassWait
<1>4. CASE job[j].run # q
  BY <1>1, <1>3, <1>4, Others
<1>5. CASE job[j].run = q
  <2>1. j \in TokenThreads(q) /\ ~At(j, "resume")
    BY <1>1, <1>2, <1>5 DEF TokenThreads, Moving, Joining, At
  <2>2. TokenChildren(q)' \subseteq TokenChildren(q)
    BY <1>0, <1>1, <1>3, ChildrenKept DEF Elsewhere, At
  <2> QED BY <1>1, <1>3, <1>5, <2>1, <2>2, MoveOn DEF Plain
<1> QED BY <1>4, <1>5

LEMMA MoveRunSound ==
  ASSUME NEW q, Stage(q), NEW t \in Threads, MoveRun(t)
  PROVE  Sound(q)'
<1> USE DEF Stage
<1> DEFINE r == thread[t].run
<1>0. Sound(q) /\ q \in Runs
  OBVIOUS
<1>1. UNCHANGED job /\ At(t, "move") /\ run' = [run EXCEPT ![r].step = thread[t].next]
      /\ Goto(t, "insert")
  BY DEF MoveRun
<1>2. thread'[t].run = r /\ thread'[t].pc = "insert" /\ Elsewhere(t)
  BY <1>1, GotoAt DEF IInv
<1>3. /\ run'[q].status = run[q].status /\ run'[q].done = run[q].done /\ run'[q].count = run[q].count
      /\ \A c \in Runs : run'[c].status = run[c].status /\ run'[c].parent = run[c].parent
  BY <1>0, <1>1 DEF IInv, TypeOK, Run
<1>4. Fits(t)'
  BY <1>2, PlainFits DEF Plain
<1>5. CASE r # q
  BY <1>1, <1>2, <1>3, <1>5, Others
<1>6. CASE r = q
  <2>1. t \in TokenThreads(q) /\ ~At(t, "resume")
    BY <1>1, <1>6 DEF TokenThreads, Moving, Joining, At
  <2>2. TokenChildren(q)' \subseteq TokenChildren(q)
    BY <1>0, <1>2, <1>3, ChildrenKept DEF Elsewhere, At
  <2> QED BY <1>1, <1>2, <1>3, <1>4, <1>6, <2>1, <2>2, MoveOn DEF Plain
<1> QED BY <1>5, <1>6

LEMMA InsertSound ==
  ASSUME NEW q, Stage(q), NEW t \in Threads, NEW r, NEW status \in {"available", "waiting"}, NEW i,
         thread[t].run = r, thread[t].pc \in {"insert", "callback"},
         InsertJob(status, r, i, FALSE), End(t), UNCHANGED run
  PROVE  Sound(q)'
<1> USE DEF Stage
<1>0. Sound(q) /\ q \in Runs
  OBVIOUS
<1>1. thread'[t].pc = "idle" /\ Elsewhere(t)
  BY EndAt DEF IInv
<1>2. CASE r # q
  <2> PICK k \in FreeJobs : job' = [job EXCEPT ![k] = NewJob(status, r, i, FALSE)]
    BY DEF InsertJob
  <2>1. /\ k \in Jobs /\ job[k].status = "none" /\ job'[k].run = r
        /\ \A j \in Jobs \ {k} : job'[j] = job[j]
    BY DEF FreeJobs, IInv, TypeOK, NewJob
  <2> QED BY <1>1, <1>2, <2>1, Others
<1>3. CASE r = q
  <2>1. t \in TokenThreads(q) /\ ~At(t, "resume")
    BY <1>3 DEF TokenThreads, Moving, Joining, At
  <2> QED BY <1>1, <1>3, <2>1, ToJob
<1> QED BY <1>2, <1>3

LEMMA CallbackSound ==
  ASSUME NEW q, Stage(q), NEW j \in Jobs, CallbackArrives(j)
  PROVE  Sound(q)'
<1> USE DEF Stage
<1>0. Sound(q) /\ q \in Runs
  OBVIOUS
<1>1. j \in Threads /\ UNCHANGED run /\ job \in [Jobs -> Job] /\ job[j].status = "waiting"
  BY DEF Threads, CallbackArrives, ResumeJob, IInv, TypeOK
<1>2. /\ thread'[j].run = job[j].run /\ thread'[j].pc \in {"move", "complete"}
      /\ Elsewhere(j) /\ Fits(j)'
  BY <1>1, StepOnAt DEF CallbackArrives, IInv
<1>3. /\ job'[j].status = "completed" /\ job'[j].run = job[j].run /\ job'[j].branch = job[j].branch
      /\ \A k \in Jobs \ {j} : job'[k] = job[k]
  BY <1>1 DEF CallbackArrives, ResumeJob, Job
<1>4. CASE job[j].run # q
  BY <1>1, <1>2, <1>3, <1>4, Others
<1>5. CASE job[j].run = q
  <2>1. ~job[j].branch
    BY <1>0, <1>1, <1>5 DEF Sound, JobsFit
  <2>2. j \in TokenJobs(q)
    BY <1>1, <1>5, <2>1 DEF TokenJobs, Unfinished
  <2> QED BY <1>1, <1>2, <1>3, <1>5, <2>2, FromJob
<1> QED BY <1>4, <1>5

LEMMA TimeSound ==
  ASSUME NEW q, Stage(q), NEW r \in Runs, TimeoutPasses(r) \/ Redrive(r)
  PROVE  Sound(q)'
<1> USE DEF Stage
<1>1. UNCHANGED <<job, thread>> /\ run \in [Runs -> Run]
  BY DEF TimeoutPasses, Redrive, IInv, TypeOK
<1>2. \A c \in Runs :
        /\ run'[c].done = run[c].done /\ run'[c].count = run[c].count /\ run'[c].parent = run[c].parent
        /\ run'[c].status = "completed" <=> run[c].status = "completed"
        /\ run'[c].status \in {"running", "failed"} <=> run[c].status \in {"running", "failed"}
  <2>1. \A c \in Runs \ {r} : run'[c] = run[c]
    BY <1>1 DEF TimeoutPasses, Redrive
  <2>2. /\ run'[r].done = run[r].done /\ run'[r].count = run[r].count /\ run'[r].parent = run[r].parent
        /\ \/ run'[r].status = run[r].status
           \/ run[r].status = "failed" /\ run'[r].status = "running"
    BY <1>1 DEF TimeoutPasses, Redrive, Run
  <2> QED BY <2>1, <2>2
<1>3. TokenChildren(q)' \subseteq TokenChildren(q)
  BY <1>1, <1>2, ChildrenKept
<1> QED BY <1>1, <1>2, <1>3, OtherRun

(* The child runs of q, when the run r of t completes or fails.            *)
LEMMA ChildSettles ==
  ASSUME NEW q, Stage(q), NEW t \in Threads, thread[t].pc \in {"complete", "fail"},
         \A u \in Threads \ {t} : thread'[u] = thread[u],
         thread'[t].run \in {0, thread[t].run},
         \A c \in Runs \ {thread[t].run} : run'[c] = run[c],
         run'[thread[t].run].parent = run[thread[t].run].parent
  PROVE  /\ TokenChildren(q)' \subseteq TokenChildren(q)
         /\ thread[t].run = q => run[q].status # "completed"
<1> USE DEF Stage
<1> DEFINE r == thread[t].run
<1>0. Runs' = Runs /\ Threads' = Threads /\ r \in Runs /\ run[r].status # "none"
  BY DEF Runs, Threads, Jobs, IInv, StepsExist, ThreadInside, Inside, At
<1>1. ASSUME run[r].parent = q \/ r = q PROVE run[r].status \in {"running", "failed"}
  <2>1. r \in Runs \ Loose
    BY <1>0, <1>1, LooseParent
  <2>2. Sound(r)
    BY <2>1
  <2>3. At(t, "complete") => t \in TokenThreads(r) /\ ~At(t, "resume")
    BY DEF TokenThreads, Moving, Joining, At
  <2>4. At(t, "complete") \/ At(t, "fail")
    BY DEF At
  <2>5. run[r].status # "completed"
    BY <2>2, <2>3, <2>4, NotEnded DEF Sound
  <2> QED BY <1>0, <2>5 DEF IInv, TypeOK, Run, RunStatus
<1>2. ASSUME NEW c \in TokenChildren(q)' PROVE c \in TokenChildren(q)
  <2>1. /\ c \in Runs /\ run'[c].parent = q
        /\ \/ run'[c].status \in {"running", "failed"}
           \/ \E u \in Threads : thread'[u].pc = "resume" /\ thread'[u].run = c
    BY <1>0 DEF TokenChildren, At
  <2>2. CASE c = r
    BY <1>0, <1>1, <2>1, <2>2 DEF TokenChildren
  <2>3. CASE c # r
    <3>1. run'[c] = run[c] /\ c # 0
      BY <2>1, <2>3 DEF Runs
    <3> QED BY <1>0, <2>1, <2>3, <3>1 DEF TokenChildren, At
  <2> QED BY <2>2, <2>3
<1> QED BY <1>1, <1>2

LEMMA CompleteSound ==
  ASSUME NEW q, Stage(q), NEW t \in Threads, CompleteRun(t)
  PROVE  Sound(q)'
<1> USE DEF Stage
<1> DEFINE r == thread[t].run
<1>0. /\ Sound(q) /\ q \in Runs /\ Runs' = Runs /\ Threads' = Threads /\ Jobs' = Jobs
  BY DEF Runs, Threads, Jobs
<1>1. UNCHANGED job /\ At(t, "complete") /\ run' = [run EXCEPT ![r].status = "completed"]
      /\ Goto(t, "resume")
  BY DEF CompleteRun
<1>2. thread'[t].run = r /\ thread'[t].pc = "resume" /\ Elsewhere(t)
  BY <1>1, GotoAt DEF IInv
<1>3. /\ r \in Runs /\ run'[r].status = "completed"
      /\ \A c \in Runs \ {r} : run'[c] = run[c]
      /\ \A c \in Runs : /\ run'[c].parent = run[c].parent /\ run'[c].done = run[c].done
                         /\ run'[c].count = run[c].count
  <2>1. r \in Runs
    BY <1>1 DEF IInv, StepsExist, ThreadInside, Inside, At
  <2> QED BY <1>1, <2>1 DEF IInv, TypeOK, Run
<1>4. /\ TokenChildren(q)' \subseteq TokenChildren(q)
      /\ thread[t].run = q => run[q].status # "completed"
  BY <1>1, <1>2, <1>3, ChildSettles DEF Elsewhere, At
<1>5. CASE r # q
  BY <1>0, <1>1, <1>2, <1>3, <1>4, <1>5, OtherRun DEF Elsewhere
<1>6. CASE r = q
  <2>0. t \in TokenThreads(q)
    BY <1>1, <1>6 DEF TokenThreads, Moving, Joining, At
  <2>1. /\ TokenThreads(q) = {t} /\ TokenJobs(q) = {} /\ TokenChildren(q) = {}
        /\ Uncounted(q) = {} /\ Joiners(q) = {}
    BY <1>0, <2>0, OnlyThread DEF Sound
  <2>2. /\ TokenThreads(q)' \subseteq TokenThreads(q) \cup {t}
        /\ Joiners(q)' \subseteq Joiners(q) \cup {t}
        /\ TokenJobs(q)' \subseteq TokenJobs(q) \cup {}
        /\ Uncounted(q)' \subseteq Uncounted(q) \cup {} \cup {t}
    BY <1>0, <1>1, <1>2, ElseSets DEF Sound
  <2>3. t \notin Joiners(q)' /\ t \notin Uncounted(q)'
    BY <1>0, <1>1, <1>2, <2>1 DEF Joiners, Joining, Uncounted, At
  <2>4. Fits(t)'
    BY <1>2, <1>3 DEF Fits, At, OfJob, Deciding, Written
  <2>5. ThreadsFit(q)' /\ JobsFit(q)'
    BY <1>0, <1>1, <1>2, <1>4, <1>6, <2>4, ThreadsFitKept, JobsFitKept DEF Sound
  <2>6. run'[q].done <= run'[q].count
    BY <1>0, <1>3, DoneInCount DEF Sound
  <2>7. ASSUME NEW u \in Threads, thread'[u].run = q PROVE thread'[u].pc # "fail"
    <3> SUFFICES ASSUME thread'[u].pc = "fail" PROVE FALSE
      OBVIOUS
    <3>1. u # t /\ thread[u] = thread'[u]
      BY <1>2 DEF Elsewhere
    <3>2. u \in Jobs /\ job[u].status # "none" /\ job[u].run = q
      BY <1>0, <2>7, <3>1 DEF Sound, ThreadsFit, Fits, At
    <3>3. CASE job[u].status = "completed"
      BY <1>2, <2>1, <2>7, <3>1, <3>2, <3>3 DEF TokenThreads, Moving, Joining, At
    <3>4. CASE job[u].status # "completed"
      BY <2>1, <3>2, <3>4 DEF TokenJobs, Uncounted, Unfinished
    <3> QED BY <3>3, <3>4
  <2> QED BY <1>2, <1>4, <2>1, <2>2, <2>3, <2>5, <2>6, <2>7, LoneThread DEF At
<1> QED BY <1>5, <1>6

LEMMA FailSound ==
  ASSUME NEW q, Stage(q), NEW t \in Threads, FailRun(t)
  PROVE  Sound(q)'
<1> USE DEF Stage
<1> DEFINE r == thread[t].run
<1>0. Sound(q) /\ q \in Runs
  OBVIOUS
<1>1. UNCHANGED job /\ At(t, "fail") /\ run' = [run EXCEPT ![r].status = "failed"] /\ End(t)
  BY DEF FailRun
<1>2. thread'[t].run = 0 /\ thread'[t].pc = "idle" /\ Elsewhere(t)
  BY <1>1, EndAt DEF IInv, Idle
<1>3. /\ r \in Runs /\ run'[r].status = "failed"
      /\ \A c \in Runs \ {r} : run'[c] = run[c]
      /\ \A c \in Runs : /\ run'[c].parent = run[c].parent /\ run'[c].done = run[c].done
                         /\ run'[c].count = run[c].count
  <2>1. r \in Runs
    BY <1>1 DEF IInv, StepsExist, ThreadInside, Inside, At
  <2> QED BY <1>1, <2>1 DEF IInv, TypeOK, Run
<1>4. /\ TokenChildren(q)' \subseteq TokenChildren(q)
      /\ thread[t].run = q => run[q].status # "completed"
  BY <1>1, <1>2, <1>3, ChildSettles DEF Elsewhere, At
<1>5. run'[q].status = "completed" <=> run[q].status = "completed"
  BY <1>0, <1>3, <1>4
<1> QED BY <1>0, <1>1, <1>2, <1>3, <1>4, <1>5, OtherRun DEF Elsewhere

(* A completed child gives its token to the parent.                        *)
LEMMA ResumeSound ==
  ASSUME NEW q, Stage(q), NEW t \in Threads, ResumeParent(t)
  PROVE  Sound(q)'
<1> USE DEF Stage
<1> DEFINE c == thread[t].run
           p == run[c].parent
<1>0. /\ Sound(q) /\ q \in Runs /\ Runs' = Runs /\ Threads' = Threads /\ Jobs' = Jobs
  BY DEF Runs, Threads, Jobs
<1>1. UNCHANGED <<run, job>> /\ At(t, "resume") /\ c \in Runs
  BY DEF ResumeParent, IInv, StepsExist, ThreadInside, Inside, At
<1>2. CASE p = 0
  <2>1. thread'[t].pc = "idle" /\ Elsewhere(t)
    BY <1>2, EndAt DEF ResumeParent, IInv
  <2> QED BY <1>1, <2>1, Quiet DEF Elsewhere
<1>3. CASE p # 0
  <2>1. /\ thread'[t].run = p /\ thread'[t].pc \in {"move", "complete"} /\ Elsewhere(t)
        /\ Fits(t)'
    BY <1>3, StepOnAt DEF ResumeParent, IInv
  <2>2. CASE p # q
    BY <1>1, <2>1, <2>2, Others
  <2>3. CASE p = q
    <3>1. c \in Runs \ Loose /\ Sound(c)
      BY <1>0, <1>1, <2>3, LooseParent
    <3>2. c \in TokenChildren(q)
      BY <1>1, <2>3 DEF TokenChildren
    <3>3. /\ TokenChildren(q) = {c} /\ TokenThreads(q) = {} /\ TokenJobs(q) = {}
          /\ Uncounted(q) = {} /\ Joiners(q) = {}
      BY <1>0, <3>2, OnlyChild DEF Sound
    <3>4. run[c].status = "completed"
      BY <1>1, <3>1 DEF Sound, ThreadsFit, Fits, At
    <3>5. TokenChildren(q)' = {}
      <4> SUFFICES ASSUME NEW d \in TokenChildren(q)' PROVE FALSE
        OBVIOUS
      <4>1. TokenChildren(q)' \subseteq TokenChildren(q)
        BY <1>0, <1>1, <2>1, ChildrenKept DEF Elsewhere, At, TokenChildren
      <4>2. d = c
        BY <3>3, <4>1
      <4>3. PICK u \in Threads : thread'[u].pc = "resume" /\ thread'[u].run = c
        BY <1>0, <1>1, <3>4, <4>2 DEF TokenChildren, At
      <4>4. u # t /\ thread[u].pc = "resume" /\ thread[u].run = c
        BY <2>1, <4>3 DEF Elsewhere
      <4>5. t \in TokenThreads(c) /\ u \in TokenThreads(c)
        BY <1>1, <4>4 DEF TokenThreads, Moving, Joining, At
      <4> QED BY <3>1, <4>4, <4>5, OnlyThread DEF Sound
    <3>6. /\ TokenThreads(q)' \subseteq TokenThreads(q) \cup {t}
          /\ Joiners(q)' \subseteq Joiners(q) \cup {t}
          /\ TokenJobs(q)' \subseteq TokenJobs(q) \cup {}
          /\ Uncounted(q)' \subseteq Uncounted(q) \cup {} \cup {t}
      BY <1>0, <1>1, <2>1, ElseSets DEF Sound
    <3>7. t \notin Joiners(q)' /\ t \notin Uncounted(q)'
      BY <1>0, <1>1, <2>1, <3>3 DEF Joiners, Joining, Uncounted, At
    <3>8. ThreadsFit(q)' /\ JobsFit(q)'
      BY <1>0, <1>1, <2>1, ThreadsFitKept, JobsFitKept DEF Sound
    <3>9. run'[q].done <= run'[q].count /\ run'[q].status # "completed"
      BY <1>0, <1>1, <3>2, DoneInCount, NotEnded DEF Sound
    <3> QED BY <3>3, <3>5, <3>6, <3>7, <3>8, <3>9, LoneThread
  <2> QED BY <2>2, <2>3
<1> QED BY <1>2, <1>3

-----------------------------------------------------------------------------
(* The branches of a step.                                                 *)
LEMMA JoinerFacts ==
  ASSUME NEW q, Stage(q), NEW t \in Threads, thread[t].pc \in Joining
  PROVE  /\ t \in Jobs /\ job[t].run = thread[t].run /\ job[t].status # "none"
         /\ thread[t].run = q =>
              /\ t \in Joiners(q) /\ Joins(t, q) /\ Fits(t)
              /\ TokenJobs(q) = {} /\ TokenThreads(q) = {} /\ TokenChildren(q) = {}
              /\ run[q].status # "completed"
<1> USE DEF Stage
<1>1. t \in Jobs /\ job[t].run = thread[t].run /\ job[t].status # "none"
  BY DEF Joining, OfJob, IInv, StepsExist, ThreadInside
<1>2. ASSUME thread[t].run = q
      PROVE  /\ t \in Joiners(q) /\ Joins(t, q) /\ Fits(t)
             /\ TokenJobs(q) = {} /\ TokenThreads(q) = {} /\ TokenChildren(q) = {}
             /\ run[q].status # "completed"
  <2>1. Sound(q) /\ t \in Joiners(q)
    BY <1>2 DEF Joiners
  <2>2. Joins(t, q) /\ Fits(t)
    BY <1>2, <2>1 DEF Sound, Joined, ThreadsFit, At, Joining
  <2> QED BY <2>1, <2>2, OnlyJoin, NotEnded DEF Sound
<1> QED BY <1>1, <1>2

LEMMA MergeSound ==
  ASSUME NEW q, Stage(q), NEW j \in Jobs, MergeBranches(j)
  PROVE  Sound(q)'
<1>f. ASSUME thread[j].pc \in Joining
      PROVE  /\ job[j].run = thread[j].run
             /\ thread[j].run = q =>
                  /\ j \in Joiners(q) /\ Joins(j, q)
                  /\ TokenJobs(q) = {} /\ TokenThreads(q) = {} /\ TokenChildren(q) = {}
                  /\ run[q].status # "completed"
  BY <1>f, JoinerFacts DEF Threads
<1> USE DEF Stage
<1> DEFINE r == job[j].run
<1>0. /\ Sound(q) /\ q \in Runs /\ Runs' = Runs /\ Threads' = Threads /\ Jobs' = Jobs
      /\ j \in Threads
  BY DEF Runs, Threads, Jobs
<1>1. UNCHANGED job /\ At(j, "merge") /\ SetParallel(r, 0)
  BY DEF MergeBranches
<1>2. /\ thread'[j].run = r /\ thread'[j].pc \in {"move", "complete"} /\ Elsewhere(j)
      /\ Fits(j)'
  BY <1>0, StepOnAt DEF MergeBranches, IInv
<1>3. /\ r \in Runs /\ run'[r].count = 0 /\ run'[r].done = 0
      /\ \A c \in Runs \ {r} : run'[c] = run[c]
      /\ \A c \in Runs : run'[c].parent = run[c].parent /\ run'[c].status = run[c].status
  <2>1. r \in Runs
    BY <1>1, JobStepIsStep DEF OfJob, At
  <2> QED BY <1>1, <2>1 DEF SetParallel, IInv, TypeOK, Run
<1>4. CASE r # q
  BY <1>0, <1>1, <1>2, <1>3, <1>4, Others
<1>5. CASE r = q
  <2>1. /\ j \in Joiners(q) /\ Joins(j, q)
        /\ TokenJobs(q) = {} /\ TokenThreads(q) = {} /\ TokenChildren(q) = {}
        /\ run[q].status # "completed"
    BY <1>1, <1>5, <1>f DEF At, Joining
  <2>2. Uncounted(q) = {} /\ Joiners(q) = {j}
    BY <1>1, <2>1 DEF Joins, Alone
  <2>3. /\ TokenThreads(q)' \subseteq TokenThreads(q) \cup {j}
        /\ Joiners(q)' \subseteq Joiners(q) \cup {j}
        /\ TokenJobs(q)' \subseteq TokenJobs(q) \cup {}
        /\ Uncounted(q)' \subseteq Uncounted(q) \cup {} \cup {j}
    BY <1>0, <1>1, <1>2, ElseSets DEF Sound
  <2>4. j \notin Joiners(q)' /\ j \notin Uncounted(q)'
    BY <1>0, <1>1, <1>2, <2>2 DEF Joiners, Joining, Uncounted, At
  <2>5. TokenChildren(q)' = {}
    BY <1>0, <1>2, <1>3, <2>1, ChildrenKept DEF Elsewhere, At
  <2>6. ThreadsFit(q)' /\ JobsFit(q)'
    BY <1>0, <1>1, <1>2, <1>3, ThreadsFitKept, JobsFitKept DEF Sound
  <2> QED BY <1>3, <1>5, <2>1, <2>2, <2>3, <2>4, <2>5, <2>6, LoneThread
<1> QED BY <1>4, <1>5

(* A thread that stops joining takes nothing along.                        *)
LEMMA JoinerEndsSound ==
  ASSUME NEW q, Stage(q), NEW j \in Jobs, End(j), UNCHANGED <<run, job>>
  PROVE  Sound(q)'
<1> USE DEF Stage
<1>1. thread'[j].pc = "idle" /\ Elsewhere(j)
  BY EndAt DEF IInv, Threads
<1> QED BY <1>1, Quiet DEF Elsewhere

LEMMA SetUpSound ==
  ASSUME NEW q, Stage(q), NEW j \in Jobs, SetUpBranches(j)
  PROVE  Sound(q)'
<1>f. ASSUME thread[j].pc \in Joining
      PROVE  /\ job[j].run = thread[j].run
             /\ thread[j].run = q =>
                  /\ j \in Joiners(q) /\ Joins(j, q) /\ Fits(j)
                  /\ TokenJobs(q) = {} /\ TokenThreads(q) = {} /\ TokenChildren(q) = {}
                  /\ run[q].status # "completed"
  BY <1>f, JoinerFacts DEF Threads
<1>e. ASSUME End(j), UNCHANGED <<run, job>> PROVE Sound(q)'
  BY <1>e, JoinerEndsSound
<1> USE DEF Stage
<1> DEFINE r == job[j].run
<1>0. /\ Sound(q) /\ q \in Runs /\ Runs' = Runs /\ Threads' = Threads /\ Jobs' = Jobs
      /\ j \in Threads
  BY DEF Runs, Threads, Jobs
<1>1. UNCHANGED job /\ At(j, "setup")
  BY DEF SetUpBranches
<1>s. StepOf(j) \in Step /\ r \in Runs /\ job[j].status # "none"
  BY <1>1, JobStepIsStep DEF OfJob, At
<1>2. CASE End(j) /\ UNCHANGED run
  BY <1>1, <1>2, <1>e
<1>3. ASSUME NEW n \in Nat, SetParallel(r, n), SetThread(j, "fan", r, n) PROVE Sound(q)'
  <2>1. /\ thread'[j].run = r /\ thread'[j].pc = "fan" /\ thread'[j].next = n /\ Elsewhere(j)
    BY <1>0, <1>3, SetThreadAt DEF IInv
  <2>2. /\ run'[r].count = n /\ run'[r].done = 0
        /\ \A c \in Runs \ {r} : run'[c] = run[c]
        /\ \A c \in Runs : run'[c].parent = run[c].parent /\ run'[c].status = run[c].status
    BY <1>s, <1>3 DEF SetParallel, IInv, TypeOK, Run
  <2>3. CASE r # q
    BY <1>0, <1>1, <2>1, <2>2, <2>3, Others
  <2>4. CASE r = q
    <3>1. /\ j \in Joiners(q) /\ Joins(j, q) /\ Fits(j)
          /\ TokenJobs(q) = {} /\ TokenThreads(q) = {} /\ TokenChildren(q) = {}
          /\ run[q].status # "completed"
      BY <1>1, <2>4, <1>f DEF At, Joining
    <3>2. Uncounted(q) = {} /\ Joiners(q) = {j}
      BY <1>1, <3>1 DEF Joins, Alone
    <3>3. /\ TokenThreads(q)' \subseteq TokenThreads(q) \cup {j}
          /\ Joiners(q)' \subseteq Joiners(q) \cup {j}
          /\ TokenJobs(q)' \subseteq TokenJobs(q) \cup {}
          /\ Uncounted(q)' \subseteq Uncounted(q) \cup {} \cup {j}
      BY <1>0, <1>1, <2>1, ElseSets DEF Sound
    <3>4. j \notin TokenThreads(q)' /\ j \notin Uncounted(q)'
      BY <1>0, <1>1, <2>1, <3>2 DEF TokenThreads, Joining, Uncounted, At
    <3>5. TokenChildren(q)' = {}
      BY <1>0, <2>1, <2>2, <3>1, ChildrenKept DEF Elsewhere, At
    <3>6. Fits(j)'
      <4>1. StepOf(j)' = StepOf(j)
        BY <1>s, StepOfStays DEF IInv, StepsExist, Kept, JobsKept, RunsKept, Persist
      <4>2. job[j].status = "completed" /\ ~job[j].branch /\ StepOf(j).kind \in Branching
        BY <1>1, <3>1 DEF Fits, At, OfJob, Moving
      <4> QED BY <1>1, <2>1, <4>1, <4>2 DEF Fits, At
    <3>7. ThreadsFit(q)' /\ JobsFit(q)'
      BY <1>0, <1>1, <2>1, <2>2, <3>6, ThreadsFitKept, JobsFitKept DEF Sound
    <3>8. Uncounted(q)' = {} /\ Joiners(q)' \subseteq {j}
      BY <3>2, <3>3, <3>4
    <3>9. Tallied(q)' = 0
      <4>1. Cardinality(Uncounted(q)') = 0
        BY <3>8, FS_EmptySet
      <4> QED BY <2>2, <2>4, <4>1 DEF Tallied
    <3>10. Joined(q)'
      <4>1. \A u \in Joiners(q)' : Joins(u, q)'
        BY <2>1, <2>2, <2>4, <3>8, <3>9 DEF Joins, Alone, At
      <4>2. \A x, y \in Uncounted(q)' \cup Joiners(q)' : job'[x].step = job'[y].step
        BY <3>8
      <4>3. ASSUME NEW x PROVE Tallied(q)' <= Cardinality(Branches(q, job[x].step))'
        <5>1. PICK i : i = job'[x].step
          OBVIOUS
        <5>2. Branches(q, i)' \in SUBSET Jobs
          BY <1>0 DEF Branches
        <5>3. Cardinality(Branches(q, i)') \in Nat
          BY <5>2, Counts, FS_Subset, FS_CardinalityType
        <5>4. Branches(q, job[x].step)' = Branches(q, i)'
          BY <5>1 DEF Branches
        <5> QED BY <3>9, <5>3, <5>4
      <4> QED BY <2>2, <2>4, <3>9, <4>1, <4>2, <4>3 DEF Joined
    <3> QED BY <2>2, <3>1, <3>3, <3>4, <3>5, <3>7, <3>10, LoneJoin
  <2> QED BY <2>3, <2>4
<1>4. \A n \in IF StepOf(j).kind = "map" THEN ItemCounts ELSE {StepOf(j).branches} : n \in Nat
  BY <1>s, BoundsAssumption DEF BoundsAssumption, Step
<1> QED BY <1>2, <1>3, <1>4 DEF SetUpBranches

(* Whoever counts the last branch, or reads that it was counted, is alone. *)
LEMMA LastIsAlone ==
  ASSUME NEW q, Stage(q), NEW j \in Threads, thread[j].run = q, thread[j].pc \in {"count", "tally"},
         run[q].done + (IF At(j, "count") THEN 1 ELSE 0) >= run[q].count,
         \A k \in Jobs : At(k, "tally") /\ thread[k].run = q => k = j
  PROVE  /\ Joiners(q) = {j} /\ Uncounted(q) = IF At(j, "count") THEN {j} ELSE {}
         /\ run[q].done + (IF At(j, "count") THEN 1 ELSE 0) = run[q].count
<1>1. /\ j \in Jobs /\ job[j].run = q /\ job[j].status # "none"
      /\ j \in Joiners(q) /\ Joins(j, q) /\ Fits(j)
  BY JoinerFacts DEF Joining
<1> USE DEF Stage
<1> DEFINE n == Cardinality(Uncounted(q))
<1>2. /\ n \in Nat /\ run[q].done \in Nat /\ run[q].count \in Nat
      /\ run[q].done + n <= run[q].count /\ IsFiniteSet(Uncounted(q))
  BY Counts, DoneInCount DEF Sound, Joined, Tallied
<1>3. ASSUME At(j, "count") PROVE Uncounted(q) = {j} /\ run[q].done + 1 = run[q].count
  <2>1. j \in Uncounted(q)
    BY <1>1, <1>3 DEF Uncounted, Fits, At
  <2>2. Cardinality(Uncounted(q) \ {j}) = n - 1 /\ IsFiniteSet(Uncounted(q) \ {j})
    BY <1>2, <2>1, FS_RemoveElement
  <2>3. Cardinality(Uncounted(q) \ {j}) = 0 /\ run[q].done + 1 = run[q].count
    <3>1. Cardinality(Uncounted(q) \ {j}) \in Nat
      BY <2>2, FS_CardinalityType
    <3> QED BY <1>2, <1>3, <2>2, <3>1
  <2> QED BY <1>3, <2>1, <2>2, <2>3, FS_EmptySet
<1>4. ASSUME ~At(j, "count") PROVE Uncounted(q) = {} /\ run[q].done = run[q].count
  <2>1. n = 0
    BY <1>2, <1>4
  <2> QED BY <1>2, <2>1, <1>4, FS_EmptySet
<1>5. ASSUME NEW u \in Joiners(q) PROVE u = j
  <2>1. u \in Threads /\ thread[u].run = q /\ thread[u].pc \in Joining
    BY DEF Joiners
  <2>2. u \in Jobs /\ job[u].run = q /\ job[u].status # "none" /\ Joins(u, q) /\ Fits(u)
    BY <2>1, JoinerFacts
  <2>3. CASE At(u, "count")
    <3>1. u \in Uncounted(q)
      BY <2>2, <2>3 DEF Uncounted, Fits, At
    <3> QED BY <1>3, <1>4, <3>1
  <2>4. CASE At(u, "tally")
    BY <2>1, <2>2, <2>4
  <2>5. CASE At(u, "fan")
    <3>1. Tallied(q) + thread[u].next <= run[q].count
      BY <2>2, <2>5 DEF Joins
    <3>2. thread[u].next \in Nat /\ thread[u].next > 0
      BY <2>1, <2>5 DEF IInv, StepsExist, ThreadInside, TypeOK, Thread
    <3>3. Tallied(q) = run[q].count
      <4>1. CASE At(j, "count")
        <5>1. n = 1
          BY <1>3, <4>1, FS_Singleton
        <5> QED BY <1>3, <4>1, <5>1 DEF Tallied
      <4>2. CASE ~At(j, "count")
        <5>1. n = 0
          BY <1>4, <4>2, FS_EmptySet
        <5> QED BY <1>2, <1>4, <4>2, <5>1 DEF Tallied
      <4> QED BY <4>1, <4>2
    <3> QED BY <1>2, <3>1, <3>2, <3>3
  <2>6. CASE At(u, "setup") \/ At(u, "merge")
    BY <1>1, <2>2, <2>6 DEF Joins, Alone
  <2> QED BY <2>1, <2>3, <2>4, <2>5, <2>6 DEF Joining, At
<1>6. Joiners(q) = {j}
  BY <1>1, <1>5
<1>7. CASE At(j, "count")
  BY <1>3, <1>6, <1>7
<1>8. CASE ~At(j, "count")
  BY <1>2, <1>4, <1>6, <1>8
<1> QED BY <1>7, <1>8

LEMMA ReadSound ==
  ASSUME NEW q, Stage(q), NEW j \in Jobs, ReadCount(j)
  PROVE  Sound(q)'
<1>f. ASSUME thread[j].pc \in Joining
      PROVE  /\ job[j].run = thread[j].run /\ job[j].status # "none"
             /\ thread[j].run = q =>
                  /\ j \in Joiners(q) /\ Joins(j, q) /\ Fits(j)
                  /\ TokenJobs(q) = {} /\ TokenThreads(q) = {} /\ TokenChildren(q) = {}
                  /\ run[q].status # "completed"
  BY <1>f, JoinerFacts DEF Threads
<1>e. ASSUME End(j), UNCHANGED <<run, job>> PROVE Sound(q)'
  BY <1>e, JoinerEndsSound
<1>g. ASSUME job[j].run = q, IsLast(run[q].done, run[q].count)
      PROVE  Joiners(q) = {j} /\ Uncounted(q) = {} /\ run[q].done = run[q].count
  <2>1. j \in Threads /\ At(j, "tally") /\ ~At(j, "count")
    BY DEF Threads, ReadCount, At
  <2>2. thread[j].run = q
    BY <1>f, <1>g, <2>1 DEF Joining, At
  <2>3. Joins(j, q) /\ run[q].done \in Nat /\ run[q].count \in Nat
    BY <1>f, <2>1, <2>2 DEF Joining, At, Stage, IInv, TypeOK, Run
  <2>4. \A k \in Jobs : At(k, "tally") /\ thread[k].run = q => k = j
    BY <2>1, <2>3 DEF Joins, Joiners, Joining, Threads, At
  <2>5. run[q].done + 0 >= run[q].count
    BY <1>g, <2>3 DEF IsLast
  <2>6. run[q].done + (IF At(j, "count") THEN 1 ELSE 0) >= run[q].count
    BY <2>1, <2>5
  <2>7. thread[j].pc \in {"count", "tally"}
    BY <2>1 DEF At
  <2>8. /\ Joiners(q) = {j} /\ Uncounted(q) = IF At(j, "count") THEN {j} ELSE {}
        /\ run[q].done + (IF At(j, "count") THEN 1 ELSE 0) = run[q].count
    BY <2>1, <2>2, <2>4, <2>6, <2>7, LastIsAlone
  <2> QED BY <2>1, <2>3, <2>8
<1> USE DEF Stage
<1>0. /\ Sound(q) /\ q \in Runs /\ Runs' = Runs /\ Threads' = Threads /\ Jobs' = Jobs
      /\ j \in Threads
  BY DEF Runs, Threads, Jobs
<1>1. UNCHANGED <<run, job>> /\ At(j, "tally") /\ job[j].run = thread[j].run
  BY <1>f DEF ReadCount, At, Joining
<1>2. CASE End(j)
  BY <1>1, <1>2, <1>e
<1>3. CASE Goto(j, "merge") /\ IsLast(run[job[j].run].done, run[job[j].run].count)
  <2>1. thread'[j].pc = "merge" /\ thread'[j].run = job[j].run /\ Elsewhere(j)
    BY <1>0, <1>1, <1>3, GotoAt DEF IInv
  <2>2. CASE job[j].run # q
    BY <1>0, <1>1, <2>1, <2>2, Others
  <2>3. CASE job[j].run = q
    <3>1. /\ j \in Joiners(q) /\ Joins(j, q) /\ Fits(j) /\ job[j].status # "none"
          /\ TokenJobs(q) = {} /\ TokenThreads(q) = {} /\ TokenChildren(q) = {}
          /\ run[q].status # "completed"
      BY <1>1, <2>3, <1>f DEF At, Joining
    <3>2. Joiners(q) = {j} /\ Uncounted(q) = {} /\ run[q].done = run[q].count
      BY <1>3, <2>3, <1>g
    <3>3. /\ TokenThreads(q)' \subseteq TokenThreads(q) \cup {j}
          /\ Joiners(q)' \subseteq Joiners(q) \cup {j}
          /\ TokenJobs(q)' \subseteq TokenJobs(q) \cup {}
          /\ Uncounted(q)' \subseteq Uncounted(q) \cup {} \cup {j}
      BY <1>0, <1>1, <2>1, ElseSets DEF Sound
    <3>4. j \notin TokenThreads(q)' /\ j \notin Uncounted(q)'
      BY <1>0, <1>1, <2>1, <3>2 DEF TokenThreads, Joining, Uncounted, At
    <3>5. TokenChildren(q)' = {}
      BY <1>0, <1>1, <2>1, <3>1, ChildrenKept DEF Elsewhere, At
    <3>6. Fits(j)'
      BY <1>1, <2>1, <3>1 DEF Fits, At, OfJob, Moving
    <3>7. ThreadsFit(q)' /\ JobsFit(q)'
      BY <1>0, <1>1, <2>1, <3>6, ThreadsFitKept, JobsFitKept DEF Sound
    <3>8. Uncounted(q)' = {} /\ Joiners(q)' = {j}
      <4>1. j \in Joiners(q)'
        BY <1>0, <2>1, <2>3 DEF Joiners, Joining
      <4> QED BY <3>2, <3>3, <3>4, <4>1
    <3>9. Joined(q)'
      <4>1. Tallied(q)' = Tallied(q)
        BY <1>1, <3>2, <3>8 DEF Tallied
      <4>2. \A u \in Joiners(q)' : Joins(u, q)'
        BY <1>1, <2>1, <3>2, <3>8 DEF Joins, Alone, At
      <4>3. \A x, y \in Uncounted(q)' \cup Joiners(q)' : job'[x].step = job'[y].step
        BY <3>8
      <4>4. ASSUME NEW x \in Uncounted(q)' \cup Joiners(q)'
            PROVE  Tallied(q)' <= Cardinality(Branches(q, job[x].step))'
        <5>1. PICK i : i = job[x].step /\ i = job'[x].step
          BY <1>1
        <5>2. Branches(q, i)' = Branches(q, i)
          BY <1>0, <1>1 DEF Branches
        <5>3. x = j /\ ~At(j, "setup")
          BY <1>1, <3>8 DEF At
        <5>4. Tallied(q) <= Cardinality(Branches(q, job[x].step))
          BY <1>0, <3>1, <5>3 DEF Sound, Joined
        <5>5. Branches(q, job[x].step)' = Branches(q, i)'
          BY <5>1 DEF Branches
        <5>6. Tallied(q) <= Cardinality(Branches(q, i))
          BY <5>1, <5>4
        <5> QED BY <4>1, <5>2, <5>5, <5>6
      <4> QED BY <1>0, <1>1, <4>1, <4>2, <4>3, <4>4 DEF Joined, Sound
    <3> QED BY <1>1, <3>1, <3>3, <3>4, <3>5, <3>7, <3>9, LoneJoin
  <2> QED BY <2>2, <2>3
<1> QED BY <1>2, <1>3 DEF ReadCount

LEMMA CountSound ==
  ASSUME NEW q, Stage(q), NEW j \in Jobs, CountBranch(j)
  PROVE  Sound(q)'
<1>f. ASSUME thread[j].pc \in Joining
      PROVE  /\ job[j].run = thread[j].run /\ job[j].status # "none"
             /\ thread[j].run = q =>
                  /\ j \in Joiners(q) /\ Joins(j, q) /\ Fits(j)
                  /\ TokenJobs(q) = {} /\ TokenThreads(q) = {} /\ TokenChildren(q) = {}
                  /\ run[q].status # "completed"
  BY <1>f, JoinerFacts DEF Threads
<1>g. ASSUME thread[j].run = q, run[q].done + 1 >= run[q].count,
             \A k \in Jobs : ~(At(k, "tally") /\ thread[k].run = q)
      PROVE  Joiners(q) = {j} /\ Uncounted(q) = {j} /\ run[q].done + 1 = run[q].count
  <2>1. j \in Threads /\ At(j, "count") /\ thread[j].pc \in {"count", "tally"}
    BY DEF Threads, CountBranch, At
  <2>2. run[q].done + (IF At(j, "count") THEN 1 ELSE 0) >= run[q].count
    BY <1>g, <2>1
  <2>3. /\ Joiners(q) = {j} /\ Uncounted(q) = IF At(j, "count") THEN {j} ELSE {}
        /\ run[q].done + (IF At(j, "count") THEN 1 ELSE 0) = run[q].count
    BY <1>g, <2>1, <2>2, LastIsAlone
  <2> QED BY <2>1, <2>3
<1> USE DEF Stage
<1> DEFINE r == job[j].run
<1>0. /\ Sound(q) /\ q \in Runs /\ Runs' = Runs /\ Threads' = Threads /\ Jobs' = Jobs
      /\ j \in Threads
  BY DEF Runs, Threads, Jobs
<1>1. /\ UNCHANGED job /\ At(j, "count") /\ r = thread[j].run
      /\ run' = [run EXCEPT ![r].done = run[r].done + 1]
  BY <1>f DEF CountBranch, At, Joining
<1>2. /\ thread'[j].pc \in {"tally", "merge", "idle"} /\ Elsewhere(j)
      /\ thread'[j].pc \in {"tally", "merge"} => thread'[j].run = r
      /\ thread'[j].pc = "merge" => IsLast(run[r].done + 1, run[r].count)
  <2>1. CASE Goto(j, "tally")
    BY <1>0, <1>1, <2>1, GotoAt DEF IInv
  <2>2. CASE Goto(j, "merge") /\ IsLast(run[r].done + 1, run[r].count)
    BY <1>0, <1>1, <2>2, GotoAt DEF IInv
  <2>3. CASE End(j)
    BY <1>0, <2>3, EndAt DEF IInv
  <2> QED BY <2>1, <2>2, <2>3 DEF CountBranch
<1>3. /\ r \in Runs /\ run'[r].done = run[r].done + 1
      /\ \A c \in Runs \ {r} : run'[c] = run[c]
      /\ \A c \in Runs : /\ run'[c].parent = run[c].parent /\ run'[c].status = run[c].status
                         /\ run'[c].count = run[c].count
  <2>1. r \in Runs
    BY <1>1, JobStepIsStep DEF OfJob, At
  <2> QED BY <1>1, <2>1 DEF IInv, TypeOK, Run
<1>4. CASE r # q
  BY <1>0, <1>1, <1>2, <1>3, <1>4, Others
<1>5. CASE r = q
  <2>1. /\ j \in Joiners(q) /\ Joins(j, q) /\ Fits(j) /\ job[j].status # "none"
        /\ TokenJobs(q) = {} /\ TokenThreads(q) = {} /\ TokenChildren(q) = {}
        /\ run[q].status # "completed"
    BY <1>1, <1>5, <1>f DEF At, Joining
  <2>2. \A k \in Jobs : ~(At(k, "tally") /\ thread[k].run = q)
    BY <1>5 DEF CountBranch, Fault
  <2>3. j \in Uncounted(q) /\ job[j].status = "completed" /\ job[j].branch
    BY <1>1, <1>5, <2>1 DEF Uncounted, Fits, At, OfJob, Moving
  <2>4. /\ TokenThreads(q)' \subseteq TokenThreads(q) \cup {j}
        /\ Joiners(q)' \subseteq Joiners(q) \cup {j}
        /\ TokenJobs(q)' \subseteq TokenJobs(q) \cup {}
        /\ Uncounted(q)' \subseteq Uncounted(q) \cup {} \cup {j}
    BY <1>0, <1>1, <1>2, ElseSets DEF Sound
  <2>5. j \notin TokenThreads(q)' /\ j \notin Uncounted(q)'
    BY <1>0, <1>1, <1>2, <2>3 DEF TokenThreads, Joining, Moving, Uncounted, At
  <2>6. TokenChildren(q)' = {}
    BY <1>0, <1>2, <1>3, <2>1, ChildrenKept DEF Elsewhere, At
  <2>7. Fits(j)'
    BY <1>1, <1>2, <2>1, <2>3 DEF Fits, At, OfJob, Moving, Deciding, Written
  <2>8. ThreadsFit(q)' /\ JobsFit(q)'
    BY <1>0, <1>1, <1>2, <1>3, <2>7, ThreadsFitKept, JobsFitKept DEF Sound
  <2>9. Uncounted(q)' \subseteq Uncounted(q) \ {j} /\ Joiners(q)' \subseteq Joiners(q)
    BY <2>1, <2>4, <2>5
  <2>10. Tallied(q)' <= Tallied(q) /\ Tallied(q) \in Nat /\ Tallied(q)' \in Nat /\ run[q].count \in Nat
    <3>1. /\ Cardinality(Uncounted(q) \ {j}) = Cardinality(Uncounted(q)) - 1
          /\ IsFiniteSet(Uncounted(q) \ {j})
      BY <2>3, Counts, FS_RemoveElement
    <3>2. Cardinality(Uncounted(q)') <= Cardinality(Uncounted(q) \ {j}) /\ Cardinality(Uncounted(q)') \in Nat
      BY <2>9, <3>1, FS_Subset, FS_CardinalityType
    <3>3. Cardinality(Uncounted(q)) \in Nat /\ run[q].done \in Nat /\ run[q].count \in Nat
      BY <1>0, Counts, DoneInCount DEF Sound
    <3> HIDE DEF r
    <3>4. run'[q].done = run[q].done + 1
      BY <1>3, <1>5
    <3> QED BY <3>1, <3>2, <3>3, <3>4 DEF Tallied
  <2>11. thread'[j].pc = "merge" => Joiners(q)' \subseteq {j} /\ Uncounted(q)' = {}
                                     /\ run'[q].done = run'[q].count
    <3> SUFFICES ASSUME thread'[j].pc = "merge"
                 PROVE  Joiners(q)' \subseteq {j} /\ Uncounted(q)' = {} /\ run'[q].done = run'[q].count
      OBVIOUS
    <3>1. run[q].done + 1 >= run[q].count
      BY <1>2, <1>5, <2>10, DoneInCount DEF IsLast, Sound
    <3>2. Joiners(q) = {j} /\ Uncounted(q) = {j} /\ run[q].done + 1 = run[q].count
      BY <1>1, <1>5, <1>g, <2>2, <3>1
    <3> QED BY <1>3, <1>5, <2>9, <3>2
  <2>12. ASSUME NEW u \in Joiners(q)', u # j
         PROVE  /\ u \in Threads /\ u \in Joiners(q) /\ thread'[u] = thread[u] /\ Joins(u, q)
                /\ ~At(u, "setup") /\ ~At(u, "merge") /\ ~At(u, "tally")
    <3>1. u \in Threads /\ u \in Joiners(q) /\ thread'[u] = thread[u] /\ Joins(u, q)
      BY <1>0, <1>2, <2>9, <2>12 DEF Elsewhere, Joiners, Sound, Joined
    <3>2. ~At(u, "setup") /\ ~At(u, "merge")
      BY <2>1, <2>12, <3>1 DEF Joins, Alone
    <3>3. ~At(u, "tally")
      <4> SUFFICES ASSUME At(u, "tally") PROVE FALSE
        OBVIOUS
      <4>1. u \in Jobs /\ thread[u].run = q
        BY <3>1 DEF Joiners, IInv, StepsExist, ThreadInside, OfJob, At
      <4> QED BY <2>2, <4>1
    <3> QED BY <3>1, <3>2, <3>3
  <2>13. ASSUME NEW u \in Joiners(q)' PROVE Joins(u, q)'
    <3>1. CASE u = j
      <4>1. thread'[j].pc \in {"tally", "merge"}
        BY <1>2, <2>13, <3>1 DEF Joiners, Joining
      <4>2. thread'[j].pc = "merge" => Alone(j, q)' /\ run'[q].done = run'[q].count
        BY <2>11, <2>13, <3>1 DEF Alone
      <4>3. \A v \in Joiners(q)' : thread'[v].pc = thread'[j].pc => v = j
        BY <2>11, <2>12, <4>1 DEF At
      <4> QED BY <3>1, <4>1, <4>2, <4>3 DEF Joins, At
    <3>2. CASE u # j
      <4>1. /\ u \in Threads /\ u \in Joiners(q) /\ thread'[u] = thread[u] /\ Joins(u, q)
            /\ ~At(u, "setup") /\ ~At(u, "merge") /\ ~At(u, "tally")
        BY <2>12, <2>13, <3>2
      <4>2. thread[u].next \in Nat
        BY <4>1 DEF IInv, TypeOK, Thread
      <4>3. At(u, "fan")' => Tallied(q)' + thread'[u].next <= run'[q].count
        BY <1>0, <1>3, <2>10, <4>1, <4>2 DEF Joins, At
      <4>4. \A v \in Joiners(q)' : thread'[v].pc = thread'[u].pc /\ thread'[u].pc # "count" => v = u
        <5> SUFFICES ASSUME NEW v \in Joiners(q)', thread'[v].pc = thread'[u].pc, thread'[u].pc # "count"
                     PROVE  v = u
          OBVIOUS
        <5>1. v # j
          <6> SUFFICES ASSUME v = j PROVE FALSE
            OBVIOUS
          <6>1. thread'[j].pc \in {"tally", "merge"}
            BY <1>2 DEF Joiners, Joining
          <6> QED BY <4>1, <6>1 DEF At
        <5>2. v \in Joiners(q) /\ thread'[v] = thread[v]
          BY <2>12, <5>1
        <5> QED BY <4>1, <5>2 DEF Joins, At
      <4> QED BY <4>1, <4>3, <4>4 DEF Joins, At
    <3> QED BY <3>1, <3>2
  <2>14. ASSUME NEW x \in Uncounted(q)' \cup Joiners(q)'
         PROVE  x \in Uncounted(q) \cup Joiners(q) /\ ~At(x, "setup")
    <3>1. x \in Uncounted(q) \cup Joiners(q)
      BY <2>9, <2>14
    <3>2. ~At(x, "setup")
      <4>1. CASE x \in Joiners(q)
        BY <1>0, <2>3, <4>1 DEF Joins, Alone, Joined, Sound
      <4>2. CASE x \in Uncounted(q)
        <5> SUFFICES ASSUME At(x, "setup") PROVE FALSE
          OBVIOUS
        <5>1. x \in Jobs /\ job[x].run = q /\ thread[x].pc \in OfJob /\ x \in Threads
          BY <4>2 DEF Uncounted, OfJob, At, Threads
        <5>2. thread[x].run = q
          BY <5>1, JobStepIsStep
        <5>3. x \in Joiners(q)
          BY <5>1, <5>2 DEF Joiners, Joining, At
        <5> QED BY <4>1, <5>3
      <4> QED BY <3>1, <4>1, <4>2
    <3> QED BY <3>1, <3>2
  <2>15. ASSUME NEW x \in Uncounted(q)' \cup Joiners(q)'
         PROVE  Tallied(q)' <= Cardinality(Branches(q, job[x].step))'
    <3>1. Tallied(q) <= Cardinality(Branches(q, job[x].step))
      BY <1>0, <2>14, <2>15 DEF Joined, Sound
    <3>2. PICK i : i = job[x].step /\ i = job'[x].step
      BY <1>1
    <3>3. Branches(q, i)' = Branches(q, i)
      BY <1>0, <1>1 DEF Branches
    <3>4. Cardinality(Branches(q, i)) \in Nat
      BY Counts
    <3>5. Branches(q, job[x].step)' = Branches(q, i)'
      BY <3>2 DEF Branches
    <3>6. Tallied(q) <= Cardinality(Branches(q, i))
      BY <3>1, <3>2
    <3> QED BY <2>10, <3>3, <3>4, <3>5, <3>6
  <2>16. Tallied(q)' <= run'[q].count
    BY <1>0, <1>3, <2>10 DEF Joined, Sound
  <2>17. \A x, y \in Uncounted(q)' \cup Joiners(q)' : job'[x].step = job'[y].step
    BY <1>0, <1>1, <2>14 DEF Joined, Sound
  <2>18. Joined(q)'
    BY <2>13, <2>15, <2>16, <2>17 DEF Joined
  <2> QED BY <1>3, <2>1, <2>4, <2>5, <2>6, <2>8, <2>18, LoneJoin
<1> QED BY <1>4, <1>5

LEMMA BranchSound ==
  ASSUME NEW q, Stage(q), NEW j \in Jobs, InsertBranch(j)
  PROVE  Sound(q)'
<1>f. ASSUME thread[j].pc \in Joining
      PROVE  /\ job[j].run = thread[j].run /\ job[j].status # "none"
             /\ thread[j].run = q =>
                  /\ j \in Joiners(q) /\ Joins(j, q) /\ Fits(j)
                  /\ TokenJobs(q) = {} /\ TokenThreads(q) = {} /\ TokenChildren(q) = {}
                  /\ run[q].status # "completed"
  BY <1>f, JoinerFacts DEF Threads
<1> USE DEF Stage
<1> DEFINE r == job[j].run
           s == job[j].step
<1>0. /\ Sound(q) /\ q \in Runs /\ Runs' = Runs /\ Threads' = Threads /\ Jobs' = Jobs
      /\ j \in Threads
  BY DEF Runs, Threads, Jobs
<1>1. UNCHANGED run /\ At(j, "fan") /\ r = thread[j].run /\ job[j].status # "none"
  BY <1>f DEF InsertBranch, At, Joining
<1> PICK k \in FreeJobs : job' = [job EXCEPT ![k] = NewJob("available", r, s, TRUE)]
  BY DEF InsertBranch, InsertJob
<1>2. /\ k \in Jobs /\ job[k].status = "none" /\ k # j
      /\ job'[k] = NewJob("available", r, s, TRUE)
      /\ \A i \in Jobs \ {k} : job'[i] = job[i]
  BY <1>1 DEF FreeJobs, IInv, TypeOK
<1>3. /\ job'[k].status = "available" /\ job'[k].run = r /\ job'[k].step = s /\ job'[k].branch
  BY <1>2 DEF NewJob
<1>4. /\ Elsewhere(j) /\ thread'[j].pc \in {"fan", "idle"}
      /\ thread'[j].pc = "fan" =>
           /\ thread'[j].run = r /\ thread'[j].next = thread[j].next - 1
      /\ thread[j].next \in Nat /\ thread[j].next > 0
  <2>1. thread[j].next \in Nat /\ thread[j].next > 0 /\ thread \in [Threads -> Thread]
    BY <1>0, <1>1 DEF IInv, StepsExist, ThreadInside, TypeOK, Thread
  <2>2. CASE End(j)
    <3>1. thread'[j].pc = "idle" /\ Elsewhere(j)
      BY <1>0, <2>2, EndAt DEF IInv
    <3> QED BY <2>1, <3>1
  <2>3. CASE thread' = [thread EXCEPT ![j].next = @ - 1]
    BY <1>0, <1>1, <2>1, <2>3 DEF Elsewhere, Thread, At
  <2> QED BY <2>2, <2>3 DEF InsertBranch
<1>5. CASE r # q
  BY <1>0, <1>1, <1>2, <1>3, <1>4, <1>5, Others
<1>6. CASE r = q
  <2>1. /\ j \in Joiners(q) /\ Joins(j, q) /\ Fits(j)
        /\ TokenJobs(q) = {} /\ TokenThreads(q) = {} /\ TokenChildren(q) = {}
        /\ run[q].status # "completed"
    BY <1>1, <1>6, <1>f DEF At, Joining
  <2>2. job[j].status = "completed" /\ ~job[j].branch /\ StepOf(j).kind \in Branching
    BY <1>1, <2>1 DEF Fits, At, OfJob, Moving
  <2>3. /\ TokenThreads(q)' \subseteq TokenThreads(q) \cup {j}
        /\ Joiners(q)' \subseteq Joiners(q) \cup {j}
        /\ TokenJobs(q)' \subseteq TokenJobs(q) \cup {k}
        /\ Uncounted(q)' \subseteq Uncounted(q) \cup {k} \cup {j}
    <3>1. \A i \in (Jobs \cap {k}) \ {j} : job'[i].status # "completed"
      BY <1>3
    <3> QED BY <1>0, <1>2, <1>4, <3>1, ElseSets DEF Sound
  <2>4. /\ j \notin TokenThreads(q)' /\ j \notin Uncounted(q)'
        /\ k \notin TokenJobs(q)' /\ k \notin Uncounted(q)
    BY <1>2, <1>3, <1>4, <2>2 DEF TokenThreads, Joining, Moving, Uncounted, TokenJobs, At
  <2>5. TokenChildren(q)' = {}
    BY <1>0, <1>1, <1>4, <2>1, ChildrenKept DEF Elsewhere, At
  <2>6. StepOf(j)' = StepOf(j)
    BY <1>1, StepOfStays DEF IInv, StepsExist, Kept, JobsKept, RunsKept, Persist
  <2>7. Fits(j)'
    BY <1>1, <1>2, <1>4, <2>2, <2>6 DEF Fits, At, OfJob, Moving, Deciding, Written
  <2>8. ThreadsFit(q)'
    BY <1>0, <1>1, <1>4, <2>7, ThreadsFitKept DEF Sound
  <2>9. JobsFit(q)'
    <3>1. StepOf(k)' = StepOf(j)'
      <4>1. job'[k].run = job'[j].run /\ job'[k].step = job'[j].step
        BY <1>2, <1>3
      <4> QED BY <4>1 DEF StepOf, StepsOf
    <3>2. StepOf(k)'.kind \in Branching /\ job'[k].status # "waiting"
      BY <1>3, <2>2, <2>6, <3>1
    <3>3. \A i \in Jobs : job'[i].status # "none" /\ job'[i].run = q /\ job'[i].branch
                            => \/ job[i].status # "none"
                               \/ StepOf(i)'.kind \in Branching /\ job'[i].status # "waiting"
      BY <1>2, <3>2
    <3> QED BY <1>0, <3>3, JobsFitKept DEF Sound
  <2>10. Uncounted(q)' \subseteq Uncounted(q) \cup {k} /\ Joiners(q)' \subseteq Joiners(q)
    BY <2>1, <2>3, <2>4
  <2>11. Tallied(q)' <= Tallied(q) + 1 /\ Tallied(q) \in Nat /\ Tallied(q)' \in Nat /\ run[q].count \in Nat
    <3>1. /\ Cardinality(Uncounted(q) \cup {k}) = Cardinality(Uncounted(q)) + 1
          /\ IsFiniteSet(Uncounted(q) \cup {k})
      BY <2>4, Counts, FS_AddElement
    <3>2. /\ Cardinality(Uncounted(q)') <= Cardinality(Uncounted(q) \cup {k})
          /\ Cardinality(Uncounted(q)') \in Nat
      BY <2>10, <3>1, FS_Subset, FS_CardinalityType
    <3>3. Cardinality(Uncounted(q)) \in Nat /\ run[q].done \in Nat /\ run[q].count \in Nat
      BY <1>0, Counts, DoneInCount DEF Sound
    <3>4. run'[q].done = run[q].done
      BY <1>1
    <3> QED BY <3>1, <3>2, <3>3, <3>4 DEF Tallied
  <2>12. Tallied(q) + thread[j].next <= run[q].count
    BY <1>1, <2>1 DEF Joins
  <2>13. ASSUME NEW u \in Joiners(q)', u # j
         PROVE  /\ u \in Threads /\ u \in Joiners(q) /\ thread'[u] = thread[u] /\ Joins(u, q)
                /\ ~At(u, "setup") /\ ~At(u, "merge") /\ ~At(u, "fan")
    <3>1. u \in Threads /\ u \in Joiners(q) /\ thread'[u] = thread[u] /\ Joins(u, q)
      BY <1>0, <1>4, <2>10, <2>13 DEF Elsewhere, Joiners, Sound, Joined
    <3>2. ~At(u, "setup") /\ ~At(u, "merge")
      BY <2>1, <2>13, <3>1 DEF Joins, Alone
    <3>3. ~At(u, "fan")
      BY <1>1, <2>1, <2>13, <3>1 DEF Joins, At
    <3> QED BY <3>1, <3>2, <3>3
  <2>14. ASSUME NEW u \in Joiners(q)' PROVE Joins(u, q)'
    <3>1. CASE u = j
      <4>1. thread'[j].pc = "fan" /\ thread'[j].next = thread[j].next - 1
        BY <1>4, <2>14, <3>1 DEF Joiners, Joining
      <4>2. Tallied(q)' + thread'[j].next <= run'[q].count
        BY <1>1, <1>4, <2>11, <2>12, <4>1
      <4>3. \A v \in Joiners(q)' : thread'[v].pc = thread'[j].pc => v = j
        BY <2>13, <4>1 DEF At
      <4> QED BY <3>1, <4>1, <4>2, <4>3 DEF Joins, At
    <3>2. CASE u # j
      <4>1. /\ u \in Threads /\ u \in Joiners(q) /\ thread'[u] = thread[u] /\ Joins(u, q)
            /\ ~At(u, "setup") /\ ~At(u, "merge") /\ ~At(u, "fan")
        BY <2>13, <2>14, <3>2
      <4>2. \A v \in Joiners(q)' : thread'[v].pc = thread'[u].pc /\ thread'[u].pc # "count" => v = u
        <5> SUFFICES ASSUME NEW v \in Joiners(q)', thread'[v].pc = thread'[u].pc, thread'[u].pc # "count"
                     PROVE  v = u
          OBVIOUS
        <5>1. v # j
          <6> SUFFICES ASSUME v = j PROVE FALSE
            OBVIOUS
          <6>1. thread'[j].pc = "fan"
            BY <1>4 DEF Joiners, Joining
          <6> QED BY <4>1, <6>1 DEF At
        <5>2. v \in Joiners(q) /\ thread'[v] = thread[v]
          BY <2>13, <5>1
        <5> QED BY <4>1, <5>2 DEF Joins, At
      <4> QED BY <4>1, <4>2 DEF Joins, At
    <3> QED BY <3>1, <3>2
  <2>15. \A x \in Uncounted(q) \cup Joiners(q) : x \in Jobs /\ job[x].status # "none" /\ job[x].step = s
    <3>1. \A x \in Joiners(q) : x \in Jobs /\ job[x].status # "none"
      BY DEF Joiners, Joining, IInv, StepsExist, ThreadInside, OfJob
    <3> QED BY <1>0, <2>1, <3>1 DEF Sound, Joined, Uncounted
  <2>16. ASSUME NEW x \in Uncounted(q)' \cup Joiners(q)' PROVE job'[x].step = s
    <3>1. CASE x = k
      BY <1>3, <3>1
    <3>2. CASE x # k
      BY <1>2, <2>10, <2>15, <2>16, <3>2
    <3> QED BY <3>1, <3>2
  <2>17. Tallied(q)' <= run'[q].count
    BY <1>1, <1>4, <2>11, <2>12
  <2>18. ASSUME NEW x \in Uncounted(q)' \cup Joiners(q)'
         PROVE  Tallied(q)' <= Cardinality(Branches(q, job[x].step))'
    <3>1. Tallied(q) <= Cardinality(Branches(q, s))
      BY <1>0, <1>1, <2>1 DEF Joined, Sound, At
    <3>2. PICK i : i = s /\ i = job'[x].step
      BY <2>16, <2>18
    <3>3. Branches(q, i) \cup {k} \subseteq Branches(q, i)'
      BY <1>0, <1>2, <1>3, <1>6, <3>2 DEF Branches
    <3>4. k \notin Branches(q, i)
      BY <1>2 DEF Branches
    <3>5. /\ Cardinality(Branches(q, i) \cup {k}) = Cardinality(Branches(q, i)) + 1
          /\ Cardinality(Branches(q, i)) \in Nat
      BY <3>4, Counts, FS_AddElement
    <3>6. IsFiniteSet(Branches(q, i)')
      <4>1. Branches(q, i)' \subseteq Jobs
        BY <1>0 DEF Branches
      <4> QED BY <4>1, Counts, FS_Subset
    <3>7. /\ Cardinality(Branches(q, i) \cup {k}) <= Cardinality(Branches(q, i)')
          /\ Cardinality(Branches(q, i)') \in Nat
      BY <3>3, <3>6, FS_Subset, FS_CardinalityType
    <3>8. Branches(q, job[x].step)' = Branches(q, i)'
      BY <3>2 DEF Branches
    <3>9. Tallied(q) <= Cardinality(Branches(q, i))
      BY <3>1, <3>2
    <3>10. Tallied(q)' <= Cardinality(Branches(q, i)')
      BY <2>11, <3>5, <3>7, <3>9
    <3> QED BY <3>8, <3>10
  <2>19. Joined(q)'
    BY <2>14, <2>16, <2>17, <2>18 DEF Joined
  <2> QED BY <1>1, <2>1, <2>3, <2>4, <2>5, <2>8, <2>9, <2>19, LoneJoin
<1> QED BY <1>5, <1>6

-----------------------------------------------------------------------------
(* Every step.                                                             *)
LEMMA SoundNext ==
  ASSUME NEW q, Stage(q), Move
  PROVE  Sound(q)'
<1>1. ASSUME NEW j \in Jobs, JobStep(j) PROVE Sound(q)'
  <2>1. CASE WriteOutcome(j)
    BY <2>1, OutcomeSound
  <2>2. CASE AwaitCallback(j)
    <3>1. thread[j].run = job[j].run /\ thread[j].pc \in {"insert", "callback"} /\ j \in Threads
      BY <2>2, JobStepIsStep DEF AwaitCallback, Stage, OfJob, At, Threads
    <3>2. InsertJob("waiting", job[j].run, job[j].step, FALSE) /\ End(j) /\ UNCHANGED run
      BY <2>2 DEF AwaitCallback, InsertCallback
    <3> QED BY <3>1, <3>2, InsertSound
  <2> QED BY <1>1, <2>1, <2>2, DispatchSound, RequestSound, WalkSound, SetUpSound, BranchSound,
             CountSound, ReadSound, MergeSound, LaunchSound
          DEF JobStep
<1>2. ASSUME NEW t \in Threads, RunStep(t) PROVE Sound(q)'
  <2>1. CASE InsertNext(t)
    BY <2>1, InsertSound DEF InsertNext, At
  <2> QED BY <1>2, <2>1, MoveRunSound, CompleteSound, ResumeSound, FailSound DEF RunStep
<1>3. ASSUME NEW j \in Jobs, \/ Claim(j) \/ Recover(j) \/ CallbackArrives(j) \/ MistakeBranch(j)
                             \/ OutcomeLost(j) \/ ExpireJob(j) \/ RetryJob(j)
      PROVE  Sound(q)'
  BY <1>3, ClaimSound, QuietJobsSound, CallbackSound, MistakeSound, OutcomeLostSound
<1> QED BY <1>1, <1>2, <1>3, StartSound, TimeSound, EndsSound, RedriveJobsSound DEF Move

LEMMA DeliveredNext ==
  ASSUME IInv, Delivered, Kept, Next
  PROVE  Delivered'
<1> USE DEF IInv, Delivered
<1> SUFFICES ASSUME NEW k \in Jobs, thread'[k].pc \in Deciding PROVE job'[k].status = "running"
  BY DEF Jobs
<1>0. Jobs \subseteq Threads
  BY DEF Threads
<1>1. CASE thread'[k] = thread[k]
  BY <1>1 DEF Kept, JobsKept
<1>2. ASSUME thread'[k] # thread[k], NEW j \in Threads, Elsewhere(j) PROVE k = j
  BY <1>0, <1>2 DEF Elsewhere
<1>3. ASSUME NEW t \in Threads, thread'[t].pc \in Moving \cup {"idle"}, Elsewhere(t)
      PROVE  thread'[k] = thread[k]
  BY <1>0, <1>3 DEF Elsewhere, Moving, Deciding, Written
<1>m. ASSUME NEW t \in Threads, NEW pc \in Moving, Goto(t, pc) PROVE thread'[k] = thread[k]
  BY <1>3, <1>m, GotoAt
<1>e. ASSUME NEW t \in Threads, End(t) PROVE thread'[k] = thread[k]
  BY <1>3, <1>e, EndAt
<1>s. ASSUME NEW t \in Threads, NEW pc \in Moving, NEW r, NEW i, SetThread(t, pc, r, i)
      PROVE  thread'[k] = thread[k]
  BY <1>3, <1>s, SetThreadAt
<1>o. ASSUME NEW t \in Threads, NEW r, NEW i, StepOn(t, r, i) \/ StepOnOrEnd(t, r, i)
      PROVE  thread'[k] = thread[k]
  BY <1>3, <1>o, StepOnAt DEF Moving
<1>f. ASSUME NEW t \in Threads, NEW pc \in Deciding, Goto(t, pc), thread[t].pc \in Deciding, UNCHANGED job
      PROVE  job'[k].status = "running"
  <2>1. CASE k = t
    BY <1>f, <2>1
  <2>2. CASE k # t
    BY <1>1, <1>0, <1>f, <2>2, GotoAt DEF Elsewhere
  <2> QED BY <2>1, <2>2
<1>4. ASSUME NEW j \in Jobs, Claim(j) PROVE job'[k].status = "running"
  <2>1. job'[j].status = "running" /\ Elsewhere(j) /\ j \in Threads
    BY <1>0, <1>4, SetThreadAt DEF Claim, TypeOK, Job
  <2> QED BY <1>1, <1>2, <2>1
<1>5. ASSUME NEW j \in Jobs, Dispatch(j) PROVE job'[k].status = "running"
  <2>1. thread[j].pc \in Deciding /\ UNCHANGED job /\ j \in Threads
    BY <1>0, <1>5 DEF Dispatch, At, Deciding
  <2>2. \E pc \in Deciding : Goto(j, pc)
    BY <1>5 DEF Dispatch, Deciding, Written
  <2> QED BY <1>f, <2>1, <2>2
<1>6. ASSUME NEW j \in Jobs, MistakeBranch(j) PROVE job'[k].status = "running"
  BY <1>0, <1>f, <1>6 DEF MistakeBranch, At, Deciding, Written
<1>7. ASSUME NEW j \in Jobs, Request(j) PROVE job'[k].status = "running"
  <2>1. thread[j].pc \in Deciding /\ UNCHANGED job /\ j \in Threads
    BY <1>0, <1>7 DEF Request, At, Deciding
  <2>2. (\E pc \in Deciding : Goto(j, pc)) \/ (\E r, i : SetThread(j, "catch", r, i))
    BY <1>7 DEF Request, Fails, Deciding, Written
  <2>3. ASSUME NEW r, NEW i, SetThread(j, "catch", r, i) PROVE job'[k].status = "running"
    <3>1. Elsewhere(j)
      BY <2>1, <2>3, SetThreadAt
    <3>2. CASE k = j
      BY <2>1, <3>2
    <3> QED BY <1>1, <1>2, <2>1, <3>1, <3>2
  <2> QED BY <1>f, <2>1, <2>2, <2>3
<1>8. ASSUME NEW j \in Jobs, WriteOutcome(j) \/ OutcomeLost(j) PROVE job'[k].status = "running"
  <2>1. End(j) \/ Goto(j, Follow(j))
    BY <1>8 DEF WriteOutcome, OutcomeLost
  <2> QED BY <1>0, <1>1, <1>e, <1>m, <2>1, FollowMoves
<1>9. ASSUME NEW j \in Jobs, Advance(j) \/ Choose(j) \/ PassWait(j) PROVE job'[k].status = "running"
  <2>1. \/ Goto(j, "fail") \/ (\E i : StepOn(j, job[j].run, i) \/ StepOnOrEnd(j, job[j].run, i))
        \/ \E i : SetThread(j, "move", job[j].run, i)
    BY <1>9 DEF Advance, Choose, PassWait
  <2> QED BY <1>0, <1>1, <1>m, <1>o, <1>s, <2>1 DEF Moving
<1>10. ASSUME NEW j \in Jobs, SetUpBranches(j) \/ CountBranch(j) \/ ReadCount(j)
       PROVE  job'[k].status = "running"
  <2>1. \/ End(j) \/ Goto(j, "tally") \/ Goto(j, "merge") \/ \E r, i : SetThread(j, "fan", r, i)
    BY <1>10 DEF SetUpBranches, CountBranch, ReadCount
  <2> QED BY <1>0, <1>1, <1>m, <1>e, <1>s, <2>1 DEF Moving
<1>11. ASSUME NEW j \in Jobs, InsertBranch(j) PROVE job'[k].status = "running"
  <2>1. CASE End(j)
    BY <1>0, <1>1, <1>e, <2>1
  <2>2. CASE thread' = [thread EXCEPT ![j].next = @ - 1]
    <3>1. thread'[j].pc = "fan" /\ Elsewhere(j)
      BY <1>0, <1>11, <2>2 DEF InsertBranch, TypeOK, Thread, Elsewhere, At
    <3> QED BY <1>0, <1>1, <1>3, <3>1 DEF Moving
  <2> QED BY <1>11, <2>1, <2>2 DEF InsertBranch
<1>12. ASSUME NEW j \in Jobs, MergeBranches(j) \/ CallbackArrives(j) PROVE job'[k].status = "running"
  BY <1>0, <1>1, <1>o, <1>12 DEF MergeBranches, CallbackArrives
<1>13. ASSUME NEW j \in Jobs, AwaitCallback(j) PROVE job'[k].status = "running"
  BY <1>0, <1>1, <1>e, <1>13 DEF AwaitCallback
<1>14. ASSUME NEW t \in Threads, NEW f, NEW p, NEW i, InsertRun(t, f, p, i) PROVE job'[k].status = "running"
  BY <1>1, <1>s, <1>14 DEF InsertRun, Moving
<1>15. ASSUME NEW j \in Jobs, LaunchChild(j) PROVE job'[k].status = "running"
  BY <1>0, <1>14, <1>15 DEF LaunchChild
<1>16. ASSUME NEW f \in Roots, StartWorkflow(f) PROVE job'[k].status = "running"
  BY <1>14, <1>16 DEF StartWorkflow, Threads
<1>17. ASSUME NEW t \in Threads, RunStep(t) PROVE job'[k].status = "running"
  <2>1. CASE MoveRun(t) \/ CompleteRun(t)
    BY <1>1, <1>m, <2>1 DEF MoveRun, CompleteRun, Moving
  <2>2. CASE InsertNext(t) \/ FailRun(t)
    BY <1>1, <1>e, <2>2 DEF InsertNext, FailRun
  <2>3. CASE ResumeParent(t)
    BY <1>1, <1>e, <1>o, <2>3 DEF ResumeParent
  <2> QED BY <1>17, <2>1, <2>2, <2>3 DEF RunStep
<1>18. ASSUME NEW t \in Threads, Abandon(t) PROVE job'[k].status = "running"
  BY <1>1, <1>e, <1>18 DEF Abandon
<1>19. CASE Crash
  BY <1>0, <1>19 DEF Crash, Idle, Deciding, Written
<1>20. CASE UNCHANGED thread
  BY <1>1, <1>20
<1>21. ASSUME \/ \E r \in Runs : TimeoutPasses(r) \/ Redrive(r)
              \/ \E j \in Jobs : Recover(j) \/ ExpireJob(j) \/ RetryJob(j)
              \/ RedriveJobs
       PROVE  UNCHANGED thread
  BY <1>21 DEF TimeoutPasses, Redrive, Recover, ExpireJob, RetryJob, RedriveJobs
<1>22. ASSUME NEW j \in Jobs, JobStep(j) PROVE job'[k].status = "running"
  BY <1>5, <1>7, <1>8, <1>9, <1>10, <1>11, <1>12, <1>13, <1>15, <1>22 DEF JobStep
<1> QED BY <1>4, <1>6, <1>8, <1>12, <1>16, <1>17, <1>18, <1>19, <1>20, <1>21, <1>22
        DEF Next, Move

LEMMA PlacedNext ==
  IInv /\ Placed /\ [Next]_vars => Placed'
<1> SUFFICES ASSUME IInv, Placed, [Next]_vars PROVE Placed'
  OBVIOUS
<1>1. CASE Next
  <2>1. IInv'
    BY <1>1, TypePreserved, StepsExistPreserved DEF IInv
  <2>2. Kept
    BY <1>1, StepKeeps DEF Placed
  <2>3. Loose \subseteq Loose' /\ Blank'
    BY <2>2, LooseGrows DEF Placed
  <2>4. Delivered'
    BY <1>1, <2>2, DeliveredNext DEF Placed
  <2>5. ASSUME NEW q \in Runs, q \notin Loose' PROVE Sound(q)'
    <3>1. q \notin loosened'
      BY <2>5 DEF Loose, WithParents, Runs
    <3>2. Stage(q)
      BY <2>1, <2>2, <2>3, <2>5, <3>1 DEF Stage, Placed
    <3> QED BY <1>1, <3>2, SoundNext DEF Next
  <2> QED BY <2>3, <2>4, <2>5 DEF Placed, Runs
<1>2. CASE UNCHANGED vars
  <2>1. UNCHANGED <<run, job, thread, loosened>>
    BY <1>2 DEF vars, historyVars
  <2>2. Blank' /\ Delivered'
    BY <2>1 DEF Placed, Blank, Delivered, Runs, Jobs
  <2>3. Loose' = Loose
    BY <2>1 DEF Loose, WithParents, CatchesBranches, StepsOf, Runs
  <2>4. ASSUME NEW q \in Runs \ Loose PROVE Sound(q)'
    <3>1. Sound(q)
      BY DEF Placed
    <3>2. /\ TokenJobs(q)' = TokenJobs(q) /\ TokenThreads(q)' = TokenThreads(q)
          /\ TokenChildren(q)' = TokenChildren(q) /\ Uncounted(q)' = Uncounted(q)
          /\ Joiners(q)' = Joiners(q) /\ \A i : Branches(q, i)' = Branches(q, i)
      BY <2>1 DEF TokenJobs, TokenThreads, TokenChildren, Uncounted, Joiners, Branches, Unfinished, At,
         Jobs, Threads, Runs
    <3>3. OneToken(q)'
      BY <3>1, <3>2 DEF Sound, OneToken, Tokens
    <3>4. ThreadsFit(q)' /\ JobsFit(q)'
      BY <2>1, <3>1 DEF Sound, ThreadsFit, JobsFit, Fits, At, StepOf, StepsOf, Jobs, Threads
    <3>5. Tallied(q)' = Tallied(q)
      BY <2>1, <3>2 DEF Tallied
    <3>6. Joined(q)'
      <4>1. \A t \in Joiners(q) : Joins(t, q)'
        BY <2>1, <3>1, <3>2, <3>5 DEF Sound, Joined, Joins, Alone, At
      <4>2. ASSUME NEW x \in Uncounted(q) \cup Joiners(q), ~At(x, "setup")'
            PROVE  Tallied(q)' <= Cardinality(Branches(q, job[x].step))'
        <5>1. Tallied(q) <= Cardinality(Branches(q, job[x].step))
          BY <2>1, <3>1, <4>2 DEF Sound, Joined, At
        <5>2. Branches(q, job[x].step)' = Branches(q, job[x].step)
          BY <2>1 DEF Branches, Jobs
        <5> QED BY <3>5, <5>1, <5>2
      <4> QED BY <2>1, <3>1, <3>2, <3>5, <4>1, <4>2 DEF Sound, Joined
    <3>7. Ended(q)'
      BY <2>1, <3>1, <3>2 DEF Sound, Ended, Tokens, Resuming, At, Threads, Jobs
    <3> QED BY <3>3, <3>4, <3>6, <3>7 DEF Sound
  <2> QED BY <2>2, <2>3, <2>4 DEF Placed, Runs
<1> QED BY <1>1, <1>2

LEMMA PlacedInit ==
  Init => Placed
<1> SUFFICES ASSUME Init PROVE Placed
  OBVIOUS
<1>1. /\ IInv
      /\ \A r \in Runs : /\ run[r].status = "none" /\ run[r].parent = 0
                         /\ run[r].done = 0 /\ run[r].count = 0
      /\ \A j \in Jobs : job[j].status = "none" /\ job[j].run = 0
      /\ \A t \in Threads : thread[t].pc = "idle"
  BY InitIInv DEF Init, NoRun, NewRun, NewJob, Idle
<1>2. Blank /\ Delivered
  BY <1>1 DEF Blank, Delivered, Deciding, Written, Threads
<1>3. ASSUME NEW q \in Runs PROVE Sound(q)
  <2>1. /\ TokenThreads(q) = {} /\ TokenJobs(q) = {} /\ TokenChildren(q) = {}
        /\ Uncounted(q) = {} /\ Joiners(q) = {}
    BY <1>1, Unborn
  <2>2. Tallied(q) = 0
    BY <1>1, <2>1, FS_EmptySet DEF Tallied
  <2>3. Joined(q)
    BY <1>1, <2>1, <2>2 DEF Joined
  <2>4. ThreadsFit(q) /\ JobsFit(q) /\ Ended(q)
    BY <1>1 DEF ThreadsFit, JobsFit, Ended, At
  <2> QED BY <2>1, <2>3, <2>4 DEF Sound, OneToken, Tokens
<1> QED BY <1>2, <1>3 DEF Placed

LEMMA PlacedInvariant ==
  Spec => [](IInv /\ Placed)
<1>1. Init => Placed
  BY PlacedInit
<1>2. IInv /\ Placed /\ [Next]_vars => Placed'
  BY PlacedNext
<1> QED BY <1>1, <1>2, IInvInvariant, PTL DEF Spec

LEMMA AtMostOne ==
  ASSUME NEW S, NEW T, S \subseteq T, NEW x, T = {} \/ T = {x}
  PROVE  /\ Cardinality(S) \in Nat /\ Cardinality(S) <= 1
         /\ T = {} => Cardinality(S) = 0
<1>1. IsFiniteSet({}) /\ Cardinality({}) = 0 /\ Cardinality({x}) = 1
  BY FS_EmptySet, FS_Singleton
<1>2. S = {} \/ S = {x}
  OBVIOUS
<1> QED BY <1>1, <1>2

(* For any definitions that Config::validate takes, any number of runs and *)
(* jobs, any faults and any calls, a run that neither went on after a      *)
(* failed write or a race of D1 nor catches the errors of branches is at   *)
(* one place of its definition at a time.                                  *)
THEOREM OnePlace == Spec => []OnePosition
<1>1. ASSUME IInv, Placed PROVE OnePosition
  <2> SUFFICES ASSUME NEW r \in Runs \ Loose PROVE Positions(r) <= 1
    BY DEF OnePosition
  <2>1. Sound(r)
    BY <1>1 DEF Placed
  <2>2. /\ StepJobs(r) \subseteq TokenJobs(r) /\ Movers(r) \subseteq TokenThreads(r)
        /\ Children(r) \subseteq TokenChildren(r) /\ BranchJobs(r) \subseteq Uncounted(r)
    BY DEF StepJobs, TokenJobs, Movers, TokenThreads, Children, TokenChildren, BranchJobs, Uncounted,
       Unfinished, Live, Joining, At
  <2>3. ASSUME TokenJobs(r) = {}, TokenThreads(r) = {}, TokenChildren(r) = {} PROVE Positions(r) <= 1
    <3>1. /\ Cardinality(StepJobs(r)) = 0 /\ Cardinality(Movers(r)) = 0
          /\ Cardinality(Children(r)) = 0
      BY <2>2, <2>3, FS_EmptySet
    <3>2. Join(r) = 0 \/ Join(r) = 1
      BY DEF Join
    <3> QED BY <3>1, <3>2 DEF Positions
  <2>4. ASSUME NEW j \in TokenJobs(r) PROVE Positions(r) <= 1
    <3>1. /\ TokenJobs(r) = {j} /\ TokenThreads(r) = {} /\ TokenChildren(r) = {}
          /\ Uncounted(r) \cup Joiners(r) = {}
      BY <2>1, OnlyJob DEF Sound
    <3>2. Cardinality(StepJobs(r)) \in Nat /\ Cardinality(StepJobs(r)) <= 1
      BY <2>2, <3>1, AtMostOne
    <3>3. Cardinality(Movers(r)) = 0 /\ Cardinality(Children(r)) = 0
      BY <2>2, <3>1, AtMostOne
    <3>4. Join(r) = 0
      BY <2>2, <3>1 DEF Join
    <3> QED BY <3>2, <3>3, <3>4 DEF Positions
  <2>5. ASSUME NEW t \in TokenThreads(r) PROVE Positions(r) <= 1
    <3>1. /\ TokenThreads(r) = {t} /\ TokenJobs(r) = {} /\ TokenChildren(r) = {}
          /\ Uncounted(r) \cup Joiners(r) = {}
      BY <2>1, OnlyThread DEF Sound
    <3>2. Cardinality(Movers(r)) \in Nat /\ Cardinality(Movers(r)) <= 1
      BY <2>2, <3>1, AtMostOne
    <3>3. Cardinality(StepJobs(r)) = 0 /\ Cardinality(Children(r)) = 0
      BY <2>2, <3>1, AtMostOne
    <3>4. Join(r) = 0
      BY <2>2, <3>1 DEF Join
    <3> QED BY <3>2, <3>3, <3>4 DEF Positions
  <2>6. ASSUME NEW c \in TokenChildren(r) PROVE Positions(r) <= 1
    <3>1. /\ TokenChildren(r) = {c} /\ TokenJobs(r) = {} /\ TokenThreads(r) = {}
          /\ Uncounted(r) \cup Joiners(r) = {}
      BY <2>1, OnlyChild DEF Sound
    <3>2. Cardinality(Children(r)) \in Nat /\ Cardinality(Children(r)) <= 1
      BY <2>2, <3>1, AtMostOne
    <3>3. Cardinality(StepJobs(r)) = 0 /\ Cardinality(Movers(r)) = 0
      BY <2>2, <3>1, AtMostOne
    <3>4. Join(r) = 0
      BY <2>2, <3>1 DEF Join
    <3> QED BY <3>2, <3>3, <3>4 DEF Positions
  <2> QED BY <2>3, <2>4, <2>5, <2>6
<1> QED BY <1>1, PlacedInvariant, PTL

(* For any definitions that Config::validate takes, any number of runs and *)
(* jobs, any faults and any calls, the outputs of a parallel or map step   *)
(* of such a run are merged when each of its branches has completed and    *)
(* has been counted.                                                       *)
THEOREM JoinsAreComplete == Spec => []JoinIsComplete
<1>1. ASSUME IInv, Placed PROVE JoinIsComplete
  <2> SUFFICES ASSUME NEW j \in Jobs, At(j, "merge"), job[j].run \notin Loose PROVE AllJoined(j)
    BY DEF JoinIsComplete
  <2> DEFINE r == job[j].run
             S == {k \in Jobs : job[k].run = r /\ job[k].branch /\ job[k].step = job[j].step}
  <2>1. r \in Runs /\ thread[j].run = r /\ j \in Threads
    BY <1>1, JobStepIsStep DEF At, OfJob, Threads
  <2>2. Sound(r) /\ j \in Joiners(r)
    BY <1>1, <2>1 DEF Placed, Joiners, Joining, At
  <2>3. Uncounted(r) = {} /\ run[r].done = run[r].count
        /\ Tallied(r) <= Cardinality(Branches(r, job[j].step))
    BY <2>2 DEF Sound, Joined, Joins, Alone, At
  <2>4. ASSUME NEW k \in S PROVE job[k].status = "completed"
    <3>1. job[k].status # "none"
      BY <1>1, <2>1 DEF Placed, Blank, Runs
    <3> QED BY <2>3, <3>1 DEF Uncounted
  <2>5. Cardinality(S) >= run[r].count
    <3>1. Tallied(r) = run[r].count
      <4>1. run[r].done \in Nat
        BY <1>1, <2>1 DEF IInv, TypeOK, Run
      <4> QED BY <2>3, <4>1, FS_EmptySet DEF Tallied
    <3>2. S \subseteq Jobs /\ Branches(r, job[j].step) \subseteq S
      BY DEF Branches
    <3>3. IsFiniteSet(S)
      BY <3>2, Counts, FS_Subset
    <3>4. /\ Cardinality(Branches(r, job[j].step)) <= Cardinality(S)
          /\ Cardinality(S) \in Nat /\ Cardinality(Branches(r, job[j].step)) \in Nat
      BY <3>2, <3>3, Counts, FS_Subset, FS_CardinalityType
    <3>5. run[r].count \in Nat
      BY <1>1, <2>1 DEF IInv, TypeOK, Run
    <3> HIDE DEF r, S
    <3> QED BY <2>3, <3>1, <3>4, <3>5
  <2> QED BY <2>3, <2>4, <2>5 DEF AllJoined
<1> QED BY <1>1, PlacedInvariant, PTL

-----------------------------------------------------------------------------
(* Somebody holds it.  What makes StrandedIsExplained inductive, for the   *)
(* runs of which nothing was lost.  A child that has failed still holds    *)
(* its parent: a redrive gives both back.                                  *)
Gone == WithParents({r \in Runs : r \in dropped \cup Loose})
Failing(r) == \E t \in Threads : At(t, "fail") /\ thread[t].run = r

Held(r) == run[r].status = "running" => redriving = r \/ Tokens(r) # {} \/ Failing(r)

(* A dead job has made its run fail, or is about to.                       *)
Buried(r) ==
  run[r].status = "running" /\ redriving # r => DeadJobs(r) = {} \/ Failing(r)

(* Every branch that is missing from parallel_completed is there to be     *)
(* counted, or still to be inserted.                                       *)
Full(r) ==
  \/ run[r].count <= Tallied(r)
  \/ \E t \in Threads : /\ At(t, "fan") /\ thread[t].run = r
                        /\ run[r].count <= Tallied(r) + thread[t].next

Whole(r) == Held(r) /\ Buried(r) /\ Full(r)

(* Where every map step finds items, or no definition has one: the only    *)
(* restriction on the constants.                                           *)
NoEmptyMap ==
  0 \in ItemCounts =>
    \A f \in DOMAIN Workflows : \A i \in 1..Len(Workflows[f]) : Workflows[f][i].kind # "map"

-----------------------------------------------------------------------------
LEMMA GoneIsThere ==
  ASSUME NEW r \in Runs, r \in dropped \cup Loose
  PROVE  r \in Gone
BY DEF Gone, WithParents

LEMMA GoneParent ==
  ASSUME NEW r \in Runs, NEW c \in Gone, run[c].parent = r
  PROVE  r \in Gone
<1>1. r # 0
  BY DEF Runs
<1> QED BY <1>1 DEF Gone, WithParents

LEMMA GoneGrows ==
  ASSUME Kept, Blank, dropped \subseteq dropped'
  PROVE  Gone \subseteq Gone'
<1>0. Runs' = Runs /\ Loose \subseteq Loose'
  BY LooseGrows DEF Runs
<1> SUFFICES ASSUME NEW r \in Gone, NEW U \in SUBSET Runs,
                    \A x \in Runs : x \in dropped' \cup Loose' => x \in U,
                    \A c \in U : run'[c].parent # 0 => run'[c].parent \in U
             PROVE  r \in U
  <2>1. Gone \subseteq Runs
    BY DEF Gone, WithParents
  <2> QED BY <1>0, <2>1 DEF Gone, WithParents
<1>1. \A x \in Runs : x \in dropped \cup Loose => x \in U
  BY <1>0
<1>2. ASSUME NEW c \in U, run[c].parent # 0 PROVE run[c].parent \in U
  BY <1>2 DEF Kept, RunsKept, Blank
<1> QED BY <1>1, <1>2 DEF Gone, WithParents

(* What is gone is lost.                                                   *)
LEMMA GoneIsLost == Gone \subseteq Lost
BY DEF Gone, Lost, WithParents

LEMMA DroppedGrows ==
  ASSUME Next
  PROVE  dropped \subseteq dropped'
<1> USE DEF Fault, Call, historyVars
<1>1. CASE \E j \in Jobs : JobStep(j)
  BY <1>1 DEF JobStep, Dispatch, Request, WriteOutcome, Advance, Choose, PassWait, SetUpBranches,
              InsertBranch, CountBranch, ReadCount, MergeBranches, AwaitCallback, LaunchChild
<1>2. CASE \E t \in Threads : RunStep(t)
  BY <1>2 DEF RunStep, MoveRun, InsertNext, CompleteRun, ResumeParent, FailRun
<1>3. CASE RedriveJobs
  BY <1>3 DEF RedriveJobs
<1> QED BY <1>1, <1>2, <1>3 DEF Next, Move, StartWorkflow, Claim, Recover, CallbackArrives,
      TimeoutPasses, MistakeBranch, OutcomeLost, ExpireJob, RetryJob, Abandon, Crash, Redrive

-----------------------------------------------------------------------------
(* A step seen from a run q of which nothing is lost.                      *)
View(q) == Stage(q) /\ Blank /\ Whole(q) /\ q \notin Gone'

LEMMA ViewFacts ==
  ASSUME NEW q, View(q)
  PROVE  /\ q \in Runs /\ q \notin dropped' /\ Sound(q)
         /\ \A c \in Runs : run'[c].parent = q => c \notin dropped'
<1>1. q \in Runs /\ Runs' = Runs /\ Sound(q)
  BY DEF View, Stage, Runs
<1>2. q \notin dropped'
  BY <1>1 DEF View, Gone, WithParents
<1>3. ASSUME NEW c \in Runs, run'[c].parent = q, c \in dropped' PROVE FALSE
  <2>1. q # 0
    BY <1>1 DEF Runs
  <2> QED BY <1>1, <1>3, <2>1 DEF View, Gone, WithParents
<1> QED BY <1>1, <1>2, <1>3

(* Threads and jobs of q that go on as they were, and children that are    *)
(* not over.                                                               *)
MoversStay(q) ==
  \A t \in Threads :
    \/ thread[t].run = q /\ thread[t].pc \in Moving
    \/ At(t, "resume") /\ run[thread[t].run].parent = q
    => thread'[t] = thread[t]
JobsStay(q) ==
  \A j \in Jobs : job[j].run = q /\ Unfinished(j) => Unfinished(j)'
ChildrenStay(q) ==
  \A c \in Runs : run[c].parent = q /\ run[c].status \in {"running", "failed"} =>
    \/ run'[c].status \in {"running", "failed"}
    \/ \E t \in Threads : At(t, "resume")' /\ thread'[t].run = c

LEMMA TokensStay ==
  ASSUME NEW q, View(q), MoversStay(q), JobsStay(q), ChildrenStay(q)
  PROVE  /\ Tokens(q) \subseteq Tokens(q)' /\ Uncounted(q) \subseteq Uncounted(q)'
         /\ Failing(q) => Failing(q)'
<1> USE DEF View, Stage
<1>0. Jobs' = Jobs /\ Threads' = Threads /\ Runs' = Runs /\ Jobs \subseteq Threads
  BY DEF Jobs, Threads, Runs
<1>1. \A j \in Jobs : Unfinished(j) => job'[j].run = job[j].run /\ job'[j].branch = job[j].branch
  BY DEF Unfinished, Kept, JobsKept
<1>2. TokenJobs(q) \subseteq TokenJobs(q)'
  BY <1>0, <1>1 DEF TokenJobs, JobsStay
<1>3. TokenThreads(q) \subseteq TokenThreads(q)'
  <2> SUFFICES ASSUME NEW t \in TokenThreads(q) PROVE t \in TokenThreads(q)'
    OBVIOUS
  <2>1. t \in Threads /\ thread[t].run = q /\ thread[t].pc \in Moving \ Joining
        /\ thread'[t] = thread[t]
    BY DEF TokenThreads, MoversStay
  <2>2. At(t, "fail") => t \in Jobs /\ job'[t].status = "completed"
    BY DEF TokenThreads, Kept, JobsKept
  <2> QED BY <1>0, <2>1, <2>2 DEF TokenThreads, At
<1>4. TokenChildren(q) \subseteq TokenChildren(q)'
  <2> SUFFICES ASSUME NEW c \in TokenChildren(q) PROVE c \in TokenChildren(q)'
    OBVIOUS
  <2>1. c \in Runs /\ run[c].parent = q
    BY DEF TokenChildren
  <2>2. run[c].status # "none" /\ run'[c].parent = q
    <3>1. q # 0
      BY DEF Runs
    <3> QED BY <2>1, <3>1, ViewFacts DEF Blank, Kept, RunsKept
  <2>3. CASE run[c].status \in {"running", "failed"}
    BY <1>0, <2>1, <2>2, <2>3 DEF ChildrenStay, TokenChildren
  <2>4. ASSUME NEW t \in Threads, At(t, "resume"), thread[t].run = c PROVE c \in TokenChildren(q)'
    <3>1. thread'[t] = thread[t]
      BY <2>1, <2>4 DEF MoversStay
    <3> QED BY <1>0, <2>1, <2>2, <2>4, <3>1 DEF TokenChildren, At
  <2> QED BY <2>3, <2>4 DEF TokenChildren
<1>5. Joiners(q) \subseteq Joiners(q)'
  BY <1>0 DEF Joiners, MoversStay, Joining, Moving
<1>6. Uncounted(q) \subseteq Uncounted(q)'
  <2> SUFFICES ASSUME NEW j \in Uncounted(q) PROVE j \in Uncounted(q)'
    OBVIOUS
  <2>1. j \in Jobs /\ job[j].run = q /\ job[j].branch /\ job[j].status # "none"
    BY DEF Uncounted
  <2>2. job'[j].run = q /\ job'[j].branch /\ job'[j].status # "none"
    BY <2>1 DEF Kept, JobsKept
  <2>3. CASE job[j].status # "completed"
    BY <1>0, <2>1, <2>2, <2>3 DEF Uncounted, JobsStay, Unfinished
  <2>4. CASE At(j, "count")
    <3>1. thread[j].run = q
      BY <1>0, <2>1, <2>4, JobStepIsStep DEF OfJob, At
    <3>2. thread'[j] = thread[j]
      BY <1>0, <2>1, <2>4, <3>1 DEF MoversStay, Moving, At
    <3> QED BY <1>0, <2>1, <2>2, <2>4, <3>2 DEF Uncounted, At
  <2> QED BY <2>3, <2>4 DEF Uncounted
<1>7. Failing(q) => Failing(q)'
  BY <1>0 DEF Failing, MoversStay, Moving, At
<1>8. Tokens(q) \subseteq Tokens(q)'
  BY <1>2, <1>3, <1>4, <1>5, <1>6 DEF Tokens
<1> QED BY <1>6, <1>7, <1>8

-----------------------------------------------------------------------------
(* Who holds it after the step.                                            *)
LEMMA HeldByThread ==
  ASSUME NEW q, NEW t \in Threads, thread'[t].run = q, thread'[t].pc \in Moving
  PROVE  Held(q)'
<1>0. Threads' = Threads
  BY DEF Threads, Jobs
<1>1. CASE thread'[t].pc = "fail"
  BY <1>0, <1>1 DEF Held, Failing, At
<1>2. CASE thread'[t].pc \in Joining
  <2>1. t \in Joiners(q)'
    BY <1>0, <1>2 DEF Joiners
  <2> QED BY <2>1 DEF Held, Tokens
<1>3. CASE thread'[t].pc \in Moving \ (Joining \cup {"fail"})
  <2>1. t \in TokenThreads(q)'
    BY <1>0, <1>3 DEF TokenThreads, At
  <2> QED BY <2>1 DEF Held, Tokens
<1> QED BY <1>1, <1>2, <1>3

LEMMA HeldByJob ==
  ASSUME NEW q, NEW j \in Jobs, job'[j].run = q, Unfinished(j)'
  PROVE  Held(q)'
<1>0. Jobs' = Jobs
  BY DEF Jobs
<1>1. CASE job'[j].branch
  <2>1. j \in Uncounted(q)'
    BY <1>0, <1>1 DEF Uncounted, Unfinished
  <2> QED BY <2>1 DEF Held, Tokens
<1>2. CASE ~job'[j].branch
  <2>1. j \in TokenJobs(q)'
    BY <1>0, <1>2 DEF TokenJobs
  <2> QED BY <2>1 DEF Held, Tokens
<1> QED BY <1>1, <1>2

LEMMA HeldKept ==
  ASSUME NEW q, View(q), MoversStay(q), JobsStay(q), ChildrenStay(q),
         run'[q].status = "running" => run[q].status = "running",
         redriving = q => redriving' = q
  PROVE  Held(q)'
BY TokensStay DEF Held, View, Whole

LEMMA BuriedKept ==
  ASSUME NEW q, View(q), DeadJobs(q)' \subseteq DeadJobs(q),
         \A t \in Threads : At(t, "fail") /\ thread[t].run = q => thread'[t] = thread[t],
         run'[q].status = "running" => run[q].status = "running",
         redriving = q => redriving' = q
  PROVE  Buried(q)'
<1>0. Threads' = Threads
  BY DEF Threads, Jobs
<1>1. Failing(q) => Failing(q)'
  BY <1>0 DEF Failing, At
<1> QED BY <1>1 DEF Buried, View, Whole

LEMMA MoreUncounted ==
  ASSUME NEW q, Uncounted(q) \subseteq Uncounted(q)'
  PROVE  Cardinality(Uncounted(q)) <= Cardinality(Uncounted(q)')
<1>1. Jobs' = Jobs
  BY DEF Jobs
<1>2. Uncounted(q)' \subseteq Jobs
  BY <1>1 DEF Uncounted
<1>3. IsFiniteSet(Uncounted(q)')
  BY <1>2, Counts, FS_Subset
<1> QED BY <1>3, FS_Subset

LEMMA TalliesAreNumbers ==
  ASSUME NEW q \in Runs, IInv, IInv'
  PROVE  /\ Cardinality(Uncounted(q)) \in Nat /\ Cardinality(Uncounted(q)') \in Nat
         /\ run[q].done \in Nat /\ run[q].count \in Nat
         /\ run'[q].done \in Nat /\ run'[q].count \in Nat
         /\ IsFiniteSet(Uncounted(q)) /\ IsFiniteSet(Uncounted(q)')
<1>1. Jobs' = Jobs /\ Runs' = Runs
  BY DEF Jobs, Runs
<1>2. Uncounted(q)' \subseteq Jobs /\ Uncounted(q) \subseteq Jobs
  BY <1>1 DEF Uncounted
<1>3. IsFiniteSet(Uncounted(q)') /\ IsFiniteSet(Uncounted(q))
  BY <1>2, Counts, FS_Subset
<1>4. run[q] \in Run /\ run'[q] \in Run
  BY <1>1 DEF IInv, TypeOK
<1> QED BY <1>3, <1>4, FS_CardinalityType DEF Run

(* A thread that goes on inserting still does.                             *)
LEMMA FullKept ==
  ASSUME NEW q, View(q), Uncounted(q) \subseteq Uncounted(q)',
         run'[q].done = run[q].done, run'[q].count = run[q].count,
         \A t \in Threads : At(t, "fan") /\ thread[t].run = q => thread'[t] = thread[t]
  PROVE  Full(q)'
<1> USE DEF View, Stage
<1>0. Threads' = Threads /\ q \in Runs
  BY DEF Threads, Jobs
<1>1. Cardinality(Uncounted(q)) <= Cardinality(Uncounted(q)')
  BY MoreUncounted
<1>2. /\ Tallied(q) = run[q].done + Cardinality(Uncounted(q))
      /\ Tallied(q)' = run'[q].done + Cardinality(Uncounted(q)')
  BY DEF Tallied
<1>3. Tallied(q) <= Tallied(q)' /\ Tallied(q) \in Nat /\ Tallied(q)' \in Nat /\ run[q].count \in Nat
  BY <1>0, <1>1, <1>2, TalliesAreNumbers
<1>4. CASE run[q].count <= Tallied(q)
  BY <1>3, <1>4 DEF Full
<1>5. ASSUME NEW t \in Threads, At(t, "fan"), thread[t].run = q,
             run[q].count <= Tallied(q) + thread[t].next
      PROVE  Full(q)'
  <2>1. thread'[t] = thread[t] /\ thread[t].next \in Nat
    BY <1>5 DEF IInv, TypeOK, Thread
  <2>2. run'[q].count <= Tallied(q)' + thread'[t].next
    BY <1>3, <1>5, <2>1
  <2> QED BY <1>0, <1>5, <2>1, <2>2 DEF Full, At
<1> QED BY <1>4, <1>5 DEF Whole, Full

LEMMA WholeKept ==
  ASSUME NEW q, View(q), MoversStay(q), JobsStay(q), ChildrenStay(q),
         DeadJobs(q)' \subseteq DeadJobs(q),
         run'[q].status = "running" => run[q].status = "running",
         run'[q].done = run[q].done, run'[q].count = run[q].count,
         redriving = q => redriving' = q
  PROVE  Whole(q)'
<1>1. Held(q)'
  BY HeldKept
<1>2. Buried(q)'
  BY BuriedKept DEF MoversStay, Moving, At
<1>3. Full(q)'
  BY TokensStay, FullKept DEF MoversStay, Moving, At
<1> QED BY <1>1, <1>2, <1>3 DEF Whole

LEMMA UncountedStays ==
  ASSUME NEW q, View(q), JobsStay(q),
         \A t \in Threads : At(t, "count") /\ thread[t].run = q => thread'[t] = thread[t]
  PROVE  Uncounted(q) \subseteq Uncounted(q)'
<1> USE DEF View, Stage
<1>0. Jobs' = Jobs /\ Jobs \subseteq Threads
  BY DEF Jobs, Threads
<1> SUFFICES ASSUME NEW j \in Uncounted(q) PROVE j \in Uncounted(q)'
  OBVIOUS
<1>1. j \in Jobs /\ job[j].run = q /\ job[j].branch /\ job[j].status # "none"
  BY DEF Uncounted
<1>2. job'[j].run = q /\ job'[j].branch /\ job'[j].status # "none"
  BY <1>1 DEF Kept, JobsKept
<1>3. CASE job[j].status # "completed"
  BY <1>0, <1>1, <1>2, <1>3 DEF Uncounted, JobsStay, Unfinished
<1>4. CASE At(j, "count")
  <2>1. thread[j].run = q
    BY <1>0, <1>1, <1>4, JobStepIsStep DEF OfJob, At
  <2>2. thread'[j] = thread[j]
    BY <1>0, <1>1, <1>4, <2>1
  <2> QED BY <1>0, <1>1, <1>2, <1>4, <2>2 DEF Uncounted, At
<1> QED BY <1>3, <1>4 DEF Uncounted

(* A thread of q acts, one that neither counts, inserts branches nor fails *)
(* the run.                                                                *)
LEMMA OwnStep ==
  ASSUME NEW q, View(q), NEW t \in Threads, Elsewhere(t),
         thread[t].pc \notin {"fail", "fan", "count"}, JobsStay(q),
         DeadJobs(q)' \subseteq DeadJobs(q),
         run'[q].status = "running" => run[q].status = "running",
         run'[q].done = run[q].done, run'[q].count = run[q].count,
         UNCHANGED redriving, Held(q)'
  PROVE  Whole(q)'
<1>1. Buried(q)'
  BY BuriedKept DEF Elsewhere, At
<1>2. Full(q)'
  BY UncountedStays, FullKept DEF Elsewhere, At
<1> QED BY <1>1, <1>2 DEF Whole

(* A thread acts that does not move q.                                     *)
LEMMA OtherStep ==
  ASSUME NEW q, View(q), NEW t \in Threads, Elsewhere(t),
         thread[t].run # q \/ thread[t].pc \notin Moving,
         At(t, "resume") => run[thread[t].run].parent # q,
         JobsStay(q), ChildrenStay(q), DeadJobs(q)' \subseteq DeadJobs(q),
         run'[q].status = "running" => run[q].status = "running",
         run'[q].done = run[q].done, run'[q].count = run[q].count,
         UNCHANGED redriving
  PROVE  Whole(q)'
BY WholeKept DEF MoversStay, Elsewhere

LEMMA SameStays ==
  ASSUME NEW q
  PROVE  /\ UNCHANGED job => JobsStay(q) /\ DeadJobs(q)' \subseteq DeadJobs(q)
         /\ UNCHANGED run => ChildrenStay(q)
BY DEF JobsStay, Unfinished, DeadJobs, ChildrenStay, Jobs

LEMMA InsertStays ==
  ASSUME NEW q, View(q), NEW status \in {"available", "waiting"}, NEW r, NEW i, NEW branch,
         InsertJob(status, r, i, branch)
  PROVE  /\ JobsStay(q) /\ DeadJobs(q)' \subseteq DeadJobs(q)
         /\ r = q => Held(q)'
<1> PICK k \in FreeJobs : job' = [job EXCEPT ![k] = NewJob(status, r, i, branch)]
  BY DEF InsertJob
<1>1. /\ k \in Jobs /\ job[k].status = "none" /\ job'[k] = NewJob(status, r, i, branch)
      /\ \A j \in Jobs \ {k} : job'[j] = job[j]
  BY DEF FreeJobs, View, Stage, IInv, TypeOK
<1>2. job'[k].status = status /\ job'[k].run = r
  BY <1>1 DEF NewJob
<1>3. JobsStay(q)
  BY <1>1 DEF JobsStay, Unfinished
<1>4. DeadJobs(q)' \subseteq DeadJobs(q)
  BY <1>1, <1>2 DEF DeadJobs, Jobs
<1>5. r = q => Held(q)'
  BY <1>1, <1>2, HeldByJob DEF Unfinished
<1> QED BY <1>3, <1>4, <1>5

-----------------------------------------------------------------------------
(* The steps, seen from a run of which nothing is lost.                    *)
LEMMA ThreadWhole ==
  ASSUME NEW q, View(q), NEW t \in Threads, Elsewhere(t), UNCHANGED <<run, job, redriving>>,
         ~At(t, "resume"),
         \/ thread[t].pc \notin Moving
         \/ /\ thread[t].pc \notin {"fail", "fan", "count"}
            /\ thread'[t].run = thread[t].run /\ thread'[t].pc \in Moving
  PROVE  Whole(q)'
<1>1. CASE thread[t].run # q \/ thread[t].pc \notin Moving
  BY <1>1, SameStays, OtherStep
<1>2. CASE thread[t].run = q /\ thread[t].pc \in Moving
  BY <1>2, SameStays, HeldByThread, OwnStep
<1> QED BY <1>1, <1>2

LEMMA WalkWhole ==
  ASSUME NEW q, View(q), NEW j \in Jobs,
         Dispatch(j) \/ Request(j) \/ MistakeBranch(j) \/ Advance(j) \/ Choose(j) \/ PassWait(j)
  PROVE  Whole(q)'
<1> USE DEF View, Stage
<1>0. j \in Threads /\ UNCHANGED <<run, job, redriving>>
  BY DEF Threads, Dispatch, Request, MistakeBranch, Advance, Choose, PassWait
<1>1. CASE Dispatch(j) \/ Request(j) \/ MistakeBranch(j)
  <2>1. thread[j].pc \notin Moving /\ ~At(j, "resume")
    BY <1>1 DEF Dispatch, Request, MistakeBranch, At, Moving
  <2>2. Elsewhere(j)
    <3>1. CASE Dispatch(j) \/ MistakeBranch(j)
      BY <1>0, <3>1, GotoAt DEF Dispatch, MistakeBranch, IInv
    <3>2. CASE Request(j)
      BY <1>0, <3>2, GotoAt, SetThreadAt DEF Request, Fails, IInv
    <3> QED BY <1>1, <3>1, <3>2
  <2> QED BY <1>0, <2>1, <2>2, ThreadWhole
<1>2. CASE Advance(j) \/ Choose(j) \/ PassWait(j)
  <2>1. thread[j].pc \in {"advance", "choose", "pass"}
    BY <1>2 DEF Advance, Choose, PassWait, At
  <2>2. thread[j].run = job[j].run
    BY <2>1, JobStepIsStep DEF OfJob
  <2>3. Elsewhere(j) /\ thread'[j].run = thread[j].run /\ thread'[j].pc \in Moving
    <3>1. CASE \E i : StepOn(j, job[j].run, i) \/ StepOnOrEnd(j, job[j].run, i)
      BY <1>0, <2>2, <3>1, StepOnAt DEF Moving, Plain, IInv
    <3>2. CASE Goto(j, "fail") \/ \E i : SetThread(j, "move", job[j].run, i)
      BY <1>0, <2>2, <3>2, GotoAt, SetThreadAt DEF Moving, IInv
    <3> QED BY <1>2, <3>1, <3>2 DEF Advance, Choose, PassWait
  <2>4. thread[j].pc \notin {"fail", "fan", "count", "resume"}
    BY <2>1
  <2> QED BY <1>0, <2>3, <2>4, ThreadWhole DEF At
<1> QED BY <1>1, <1>2

(* Rows and threads that are not touched, whoever's they are.              *)
LEMMA TableWhole ==
  ASSUME NEW q, View(q), UNCHANGED thread, JobsStay(q), ChildrenStay(q),
         DeadJobs(q)' \subseteq DeadJobs(q),
         run'[q].status = "running" => run[q].status = "running",
         run'[q].done = run[q].done, run'[q].count = run[q].count,
         redriving = q => redriving' = q
  PROVE  Whole(q)'
BY WholeKept DEF MoversStay

LEMMA NewbornWhole ==
  ASSUME NEW q, View(q), run[q].status = "none", UNCHANGED job, run'[q].count = 0, Held(q)'
  PROVE  Whole(q)'
<1> USE DEF View, Stage
<1>1. DeadJobs(q) = {}
  BY DEF DeadJobs, IInv, StepsExist, JobInside, Inside
<1>2. Buried(q)'
  BY <1>1, SameStays DEF Buried
<1>3. Full(q)'
  <2>1. Tallied(q)' = run'[q].done + Cardinality(Uncounted(q)')
    BY DEF Tallied
  <2>2. 0 <= Tallied(q)'
    BY <2>1, TalliesAreNumbers
  <2> QED BY <2>2 DEF Full
<1> QED BY <1>2, <1>3 DEF Whole

LEMMA StartWhole ==
  ASSUME NEW q, View(q), NEW f \in Roots, StartWorkflow(f)
  PROVE  Whole(q)'
<1> USE DEF View, Stage
<1> PICK c \in FreeRuns : run' = [run EXCEPT ![c] = NewRun(f, 0, 0)] /\ SetThread(0, "insert", c, 1)
  BY DEF StartWorkflow, InsertRun
<1>0. 0 \in Threads /\ Runs' = Runs /\ UNCHANGED <<job, redriving>> /\ At(0, "idle")
  BY DEF Threads, Runs, StartWorkflow
<1>1. /\ c \in Runs /\ run[c].status = "none" /\ run'[c] = NewRun(f, 0, 0)
      /\ \A r \in Runs \ {c} : run'[r] = run[r]
  BY DEF FreeRuns, IInv, TypeOK
<1>2. thread'[0].pc = "insert" /\ thread'[0].run = c /\ Elsewhere(0)
  BY <1>0, SetThreadAt DEF IInv
<1>3. CASE c # q
  <2>1. ChildrenStay(q)
    BY <1>1 DEF ChildrenStay
  <2>2. thread[0].pc \notin Moving /\ ~At(0, "resume")
    BY <1>0 DEF At, Moving
  <2> QED BY <1>0, <1>1, <1>2, <1>3, <2>1, <2>2, SameStays, OtherStep
<1>4. CASE c = q
  <2>1. Held(q)'
    BY <1>0, <1>2, <1>4, HeldByThread DEF Moving
  <2>2. run'[q].count = 0
    BY <1>1, <1>4 DEF NewRun
  <2> QED BY <1>0, <1>1, <1>4, <2>1, <2>2, NewbornWhole
<1> QED BY <1>3, <1>4

LEMMA LaunchWhole ==
  ASSUME NEW q, View(q), NEW j \in Jobs, LaunchChild(j)
  PROVE  Whole(q)'
<1> USE DEF View, Stage
<1> DEFINE f == StepOf(j).child
           p == job[j].run
           i == job[j].step
<1> PICK c \in FreeRuns : run' = [run EXCEPT ![c] = NewRun(f, p, i)] /\ SetThread(j, "insert", c, 1)
  BY DEF LaunchChild, InsertRun
<1>0. j \in Threads /\ Runs' = Runs /\ UNCHANGED <<job, redriving>> /\ At(j, "child")
  BY DEF Threads, Runs, LaunchChild
<1>1. /\ c \in Runs /\ run[c].status = "none" /\ run'[c] = NewRun(f, p, i)
      /\ \A r \in Runs \ {c} : run'[r] = run[r]
  BY DEF FreeRuns, IInv, TypeOK
<1>2. thread'[j].pc = "insert" /\ thread'[j].run = c /\ Elsewhere(j)
  BY <1>0, SetThreadAt DEF IInv
<1>3. run'[c].parent = p /\ run'[c].status = "running" /\ run'[c].count = 0
  BY <1>1 DEF NewRun
<1>4. thread[j].run = p /\ run[p].status # "none" /\ p \in Runs
  BY <1>0, JobStepIsStep DEF OfJob, At, Inside
<1> HIDE DEF f, p, i
<1>5. CASE c = q
  <2>1. Held(q)'
    BY <1>0, <1>2, <1>5, HeldByThread DEF Moving
  <2> QED BY <1>0, <1>1, <1>3, <1>5, <2>1, NewbornWhole
<1>6. CASE c # q
  <2>1. ChildrenStay(q) /\ run'[q] = run[q]
    BY <1>1, <1>6 DEF ChildrenStay
  <2>2. thread[j].pc = "child"
    BY <1>0 DEF At
  <2>3. CASE p # q
    BY <1>0, <1>2, <1>4, <2>1, <2>2, <2>3, SameStays, OtherStep DEF At
  <2>4. CASE p = q
    <3>1. c \in TokenChildren(q)'
      BY <1>0, <1>1, <1>3, <2>4 DEF TokenChildren
    <3>2. Held(q)'
      BY <3>1 DEF Held, Tokens
    <3> QED BY <1>0, <1>2, <2>1, <2>2, <3>2, SameStays, OwnStep
  <2> QED BY <2>3, <2>4
<1> QED BY <1>5, <1>6

(* Claims, expiries and retries leave a job that is not completed; an      *)
(* expiry is on record.                                                    *)
LEMMA ClaimWhole ==
  ASSUME NEW q, View(q), NEW j \in Jobs, Claim(j)
  PROVE  Whole(q)'
<1> USE DEF View, Stage
<1>0. j \in Threads /\ job \in [Jobs -> Job] /\ UNCHANGED <<run, redriving>> /\ At(j, "idle")
  BY DEF Threads, Claim, IInv, TypeOK
<1>1. Elsewhere(j)
  BY <1>0, SetThreadAt DEF Claim, IInv
<1>2. job'[j].status = "running" /\ \A k \in Jobs \ {j} : job'[k] = job[k]
  BY <1>0 DEF Claim, Job
<1>3. JobsStay(q)
  BY <1>2 DEF JobsStay, Unfinished
<1>4. DeadJobs(q)' \subseteq DeadJobs(q)
  BY <1>2 DEF DeadJobs, Jobs
<1>5. thread[j].pc \notin Moving /\ ~At(j, "resume")
  BY <1>0 DEF At, Moving
<1> QED BY <1>0, <1>1, <1>3, <1>4, <1>5, SameStays, OtherStep

LEMMA QuietJobsWhole ==
  ASSUME NEW q, View(q), NEW j \in Jobs, Recover(j) \/ ExpireJob(j) \/ RetryJob(j)
  PROVE  Whole(q)'
<1> USE DEF View, Stage
<1>0. job \in [Jobs -> Job] /\ UNCHANGED <<run, thread, redriving>>
  BY DEF Recover, ExpireJob, RetryJob, IInv, TypeOK
<1>1. /\ job'[j].status \in {"retryable", "available", "dead"} /\ job'[j].run = job[j].run
      /\ job'[j].status = "dead" => ExpireJob(j)
      /\ \A k \in Jobs \ {j} : job'[k] = job[k]
  BY <1>0 DEF Recover, ExpireJob, RetryJob, Job
<1>2. JobsStay(q)
  BY <1>1 DEF JobsStay, Unfinished
<1>3. DeadJobs(q)' \subseteq DeadJobs(q)
  <2>1. ExpireJob(j) => job[j].run \in dropped'
    BY DEF ExpireJob, Fault
  <2> QED BY <1>1, <2>1, ViewFacts DEF DeadJobs, Jobs
<1> QED BY <1>0, <1>2, <1>3, SameStays, TableWhole

LEMMA RedriveWhole ==
  ASSUME NEW q, View(q), NEW r \in Runs, Redrive(r)
  PROVE  Whole(q)'
<1> USE DEF View, Stage
<1>0. /\ run \in [Runs -> Run] /\ UNCHANGED <<job, thread>>
      /\ redriving = 0 /\ redriving' = r /\ q # 0
  BY DEF Redrive, IInv, TypeOK, Runs
<1>1. /\ run[r].status = "failed" /\ run'[r].status = "running"
      /\ run'[r].done = run[r].done /\ run'[r].count = run[r].count
      /\ \A c \in Runs \ {r} : run'[c] = run[c]
  BY <1>0 DEF Redrive, Run
<1>2. CASE r # q
  <2>1. ChildrenStay(q)
    BY <1>1 DEF ChildrenStay
  <2> QED BY <1>0, <1>1, <1>2, <2>1, SameStays, TableWhole
<1>3. CASE r = q
  <2>1. Held(q)' /\ Buried(q)'
    BY <1>0, <1>3 DEF Held, Buried
  <2>2. Full(q)'
    BY <1>0, <1>1, <1>3, SameStays, UncountedStays, FullKept
  <2> QED BY <2>1, <2>2 DEF Whole
<1> QED BY <1>2, <1>3

LEMMA RedriveJobsWhole ==
  ASSUME NEW q, View(q), RedriveJobs
  PROVE  Whole(q)'
<1> USE DEF View, Stage
<1>0. job \in [Jobs -> Job] /\ UNCHANGED <<run, thread>> /\ redriving' = 0 /\ q # 0 /\ q \in Runs
  <2>1. UNCHANGED <<run, thread>> /\ redriving' = 0
    BY DEF RedriveJobs
  <2>2. job \in [Jobs -> Job] /\ q # 0 /\ q \in Runs
    BY DEF IInv, TypeOK, Runs
  <2> QED BY <2>1, <2>2
<1> PICK S \in SUBSET DeadJobs(redriving) :
      /\ job' = [k \in Jobs |-> IF k \in S THEN [job[k] EXCEPT !.status = "available", !.attempt = 0]
                                ELSE job[k]]
      /\ dropped' = IF S = DeadJobs(redriving) /\ S # {} THEN dropped
                    ELSE dropped \cup {redriving}
  BY DEF RedriveJobs
<1>1. ASSUME NEW k \in S
      PROVE  k \in Jobs /\ job'[k].status = "available" /\ job'[k].run = job[k].run
             /\ job[k].run = redriving
  <2>1. k \in Jobs /\ job[k].run = redriving
    BY DEF DeadJobs
  <2>2. job'[k] = [job[k] EXCEPT !.status = "available", !.attempt = 0] /\ job[k] \in Job
    BY <1>0, <2>1
  <2> QED BY <2>1, <2>2 DEF Job
<1>2. \A k \in Jobs \ S : job'[k] = job[k]
  BY <1>0
<1>3. JobsStay(q)
  BY <1>1, <1>2 DEF JobsStay, Unfinished
<1>4. DeadJobs(q)' \subseteq DeadJobs(q) \ S
  BY <1>1, <1>2 DEF DeadJobs, Jobs
<1>5. CASE redriving # q
  BY <1>0, <1>3, <1>4, <1>5, SameStays, TableWhole
<1>6. CASE redriving = q
  <2>1. S = DeadJobs(q) /\ S # {}
    BY <1>6, ViewFacts
  <2>2. Held(q)'
    <3> PICK k \in S : TRUE
      BY <2>1
    <3> QED BY <1>1, <1>6, HeldByJob DEF Unfinished
  <2>3. Buried(q)'
    BY <1>4, <2>1 DEF Buried
  <2>4. Full(q)'
    BY <1>0, <1>3, UncountedStays, FullKept
  <2> QED BY <2>2, <2>3, <2>4 DEF Whole
<1> QED BY <1>5, <1>6

LEMMA LateWhole ==
  ASSUME NEW q, View(q), NEW r \in Runs, TimeoutPasses(r)
  PROVE  Whole(q)'
<1> USE DEF View, Stage
<1>0. run \in [Runs -> Run] /\ UNCHANGED <<job, thread, redriving>> /\ Runs' = Runs
  BY DEF TimeoutPasses, IInv, TypeOK, Runs
<1>1. \A c \in Runs : /\ run'[c].status = run[c].status /\ run'[c].done = run[c].done
                      /\ run'[c].count = run[c].count
  BY <1>0 DEF TimeoutPasses, Run
<1>2. ChildrenStay(q)
  BY <1>1 DEF ChildrenStay
<1> QED BY <1>0, <1>1, <1>2, SameStays, TableWhole

(* A thread that is cut off was not moving q, nor a child of q.            *)
LEMMA EndsWhole ==
  ASSUME NEW q, View(q), (\E t \in Threads : Abandon(t)) \/ Crash
  PROVE  Whole(q)'
<1> USE DEF View, Stage
<1>0. UNCHANGED <<run, job, redriving>>
  BY DEF Abandon, Crash
<1>1. MoversStay(q)
  <2> SUFFICES ASSUME NEW t \in Threads,
                      \/ thread[t].run = q /\ thread[t].pc \in Moving
                      \/ At(t, "resume") /\ run[thread[t].run].parent = q,
                      thread'[t] # thread[t]
               PROVE  FALSE
    BY DEF MoversStay
  <2>1. thread[t].pc \in Moving
    BY DEF At, Moving
  <2>2. thread[t].run \in dropped'
    <3>1. CASE Crash
      BY <2>1, <3>1 DEF Crash, Fault, LostBy
    <3>2. ASSUME NEW u \in Threads, Abandon(u) PROVE thread[t].run \in dropped'
      <4>1. u = t
        BY <3>2, EndAt DEF Abandon, Elsewhere, IInv
      <4> QED BY <2>1, <3>2, <4>1 DEF Abandon, Fault, LostBy
    <3> QED BY <3>1, <3>2
  <2>3. thread[t].run \in Runs
    BY <2>1 DEF IInv, StepsExist, ThreadInside, Inside, At, Moving
  <2> QED BY <1>0, <2>2, <2>3, ViewFacts
<1> QED BY <1>0, <1>1, SameStays, WholeKept

LEMMA OutcomeWhole ==
  ASSUME NEW q, View(q), NEW j \in Jobs, WriteOutcome(j)
  PROVE  Whole(q)'
<1> USE DEF View, Stage
<1>0. /\ j \in Threads /\ UNCHANGED <<run, redriving>> /\ Elsewhere(j)
      /\ job[j].status = "running" /\ thread[j].run = job[j].run
      /\ job'[j].status = Written[thread[j].pc]
      /\ job'[j].run = job[j].run /\ job'[j].step = job[j].step /\ job'[j].branch = job[j].branch
      /\ \A k \in Jobs \ {j} : job'[k] = job[k]
      /\ thread'[j].pc = IF At(j, "retry") THEN "idle" ELSE Follow(j)
      /\ ~At(j, "retry") => thread'[j].run = job[j].run
      /\ thread[j].pc \in DOMAIN Written
  BY OutcomeSets DEF WriteOutcome
<1>1. thread[j].pc \notin Moving /\ ~At(j, "resume")
  BY <1>0 DEF Written, Moving, At
<1>2. MoversStay(q)
  BY <1>0, <1>1 DEF MoversStay, Elsewhere, At, Moving
<1>3. CASE job[j].run # q
  <2>1. JobsStay(q)
    BY <1>0, <1>3 DEF JobsStay, Unfinished
  <2>2. DeadJobs(q)' \subseteq DeadJobs(q)
    BY <1>0, <1>3 DEF DeadJobs, Jobs
  <2> QED BY <1>0, <1>2, <2>1, <2>2, SameStays, WholeKept
<1>4. CASE job[j].run = q /\ Written[thread[j].pc] = "completed"
  <2>1. thread[j].pc \in {"mark", "succeed", "continue", "catch"} /\ ~At(j, "retry")
    BY <1>0, <1>4 DEF Written, At
  <2>2. thread'[j].pc \in Moving /\ thread'[j].run = q
    BY <1>0, <1>4, <2>1, FollowMoves
  <2>3. Held(q)'
    BY <1>0, <2>2, HeldByThread
  <2>4. DeadJobs(q)' \subseteq DeadJobs(q)
    BY <1>0, <1>4 DEF DeadJobs, Jobs
  <2>5. Buried(q)'
    BY <1>0, <1>2, <2>4, BuriedKept DEF MoversStay, Moving, At
  <2>6. Uncounted(q) \subseteq Uncounted(q)'
    <3>1. ASSUME NEW k \in Uncounted(q), k # j PROVE k \in Uncounted(q)'
      <4>1. k \in Jobs /\ job'[k] = job[k] /\ thread'[k] = thread[k] /\ Jobs' = Jobs
        BY <1>0, <3>1 DEF Uncounted, Elsewhere, Threads, Jobs
      <4> QED BY <3>1, <4>1 DEF Uncounted, At
    <3>2. ASSUME j \in Uncounted(q) PROVE j \in Uncounted(q)'
      <4>1. job[j].branch
        BY <3>2 DEF Uncounted
      <4>2. Fits(j)
        BY <1>0, <1>1, <1>4, <2>1, ViewFacts DEF Sound, ThreadsFit, At
      <4>3. thread[j].pc \in {"succeed", "continue"}
        BY <2>1, <4>1, <4>2 DEF Fits
      <4>4. At(j, "count")'
        BY <1>0, <2>1, <4>1, <4>3 DEF Follow, At
      <4> QED BY <1>0, <1>4, <4>1, <4>4 DEF Uncounted, Jobs, Written
    <3> QED BY <3>1, <3>2
  <2>7. Full(q)'
    BY <1>0, <1>2, <2>6, FullKept DEF MoversStay, Moving, At
  <2> QED BY <2>3, <2>5, <2>7 DEF Whole
<1>5. CASE job[j].run = q /\ Written[thread[j].pc] # "completed"
  <2>1. job'[j].status \in {"retryable", "dead"}
    BY <1>0, <1>5 DEF Written
  <2>2. JobsStay(q)
    BY <1>0, <2>1 DEF JobsStay, Unfinished
  <2>3. CASE job'[j].status # "dead"
    <3>1. DeadJobs(q)' \subseteq DeadJobs(q)
      BY <1>0, <2>3 DEF DeadJobs, Jobs
    <3> QED BY <1>0, <1>2, <2>2, <3>1, SameStays, WholeKept
  <2>4. CASE job'[j].status = "dead"
    <3>1. thread[j].pc \in {"stop", "expire"} /\ ~At(j, "retry") /\ ~At(j, "catch")
      BY <1>0, <2>4 DEF Written, At
    <3>2. thread'[j].pc = "fail" /\ thread'[j].run = q
      BY <1>0, <1>5, <3>1 DEF Follow
    <3>3. Held(q)'
      BY <1>0, <1>2, <2>2, SameStays, HeldKept
    <3>4. Failing(q)'
      BY <1>0, <3>2 DEF Failing, At, Threads, Jobs
    <3>5. Full(q)'
      BY <1>0, <1>2, <2>2, SameStays, TokensStay, FullKept DEF MoversStay, Moving, At
    <3> QED BY <3>3, <3>4, <3>5 DEF Whole, Buried
  <2> QED BY <2>1, <2>3, <2>4
<1> QED BY <1>3, <1>4, <1>5

LEMMA OutcomeLostWhole ==
  ASSUME NEW q, View(q), NEW j \in Jobs, OutcomeLost(j)
  PROVE  Whole(q)'
<1> USE DEF View, Stage
<1>0. j \in Threads /\ UNCHANGED <<run, job, redriving>>
  BY DEF Threads, OutcomeLost
<1>1. thread[j].pc \notin Moving /\ ~At(j, "resume")
  BY DEF OutcomeLost, Moving, At
<1>2. Elsewhere(j)
  BY <1>0, GotoAt DEF OutcomeLost, IInv
<1> QED BY <1>0, <1>1, <1>2, ThreadWhole

-----------------------------------------------------------------------------
(* The branches of a step.                                                 *)
LEMMA HeldByFull ==
  ASSUME NEW q \in Runs, IInv, IInv', Full(q)', run'[q].done < run'[q].count
  PROVE  Held(q)'
<1>0. Threads' = Threads
  BY DEF Threads, Jobs
<1>1. CASE run'[q].count <= Tallied(q)'
  <2>1. Tallied(q)' = run'[q].done + Cardinality(Uncounted(q)')
    BY DEF Tallied
  <2>2. Cardinality(Uncounted(q)') # 0
    BY <1>1, <2>1, TalliesAreNumbers
  <2>3. Uncounted(q)' # {}
    BY <2>2, FS_EmptySet
  <2> QED BY <2>3 DEF Held, Tokens
<1>2. ASSUME NEW t \in Threads, thread'[t].pc = "fan", thread'[t].run = q PROVE Held(q)'
  BY <1>2, HeldByThread DEF Moving
<1> QED BY <1>0, <1>1, <1>2 DEF Full, At

LEMMA SetUpWhole ==
  ASSUME NoEmptyMap, NEW q, View(q), NEW j \in Jobs, SetUpBranches(j)
  PROVE  Whole(q)'
<1> USE DEF View, Stage
<1> DEFINE r == job[j].run
<1>0. /\ q \in Runs /\ j \in Threads /\ Threads' = Threads /\ At(j, "setup")
      /\ UNCHANGED <<job, redriving>>
  BY DEF Threads, Jobs, SetUpBranches
<1>1. thread[j].run = r /\ r \in Runs /\ StepOf(j) \in Step /\ Inside(r, job[j].step)
      /\ StepOf(j) = StepsOf(r)[job[j].step]
  BY <1>0, JobStepIsStep DEF OfJob, At
<1>2. PICK n \in IF StepOf(j).kind = "map" THEN ItemCounts ELSE {StepOf(j).branches} :
        IF n = 0 THEN End(j) /\ UNCHANGED run
        ELSE SetParallel(r, n) /\ SetThread(j, "fan", r, n)
  BY DEF SetUpBranches
<1>3. n \in Nat
  BY <1>1, BoundsAssumption DEF BoundsAssumption, Step
<1>4. CASE n # 0
  <2>1. /\ thread'[j].run = r /\ thread'[j].pc = "fan" /\ thread'[j].next = n /\ Elsewhere(j)
    BY <1>0, <1>2, <1>4, SetThreadAt DEF IInv
  <2>2. /\ run'[r].count = n /\ run'[r].done = 0
        /\ \A c \in Runs \ {r} : run'[c] = run[c]
        /\ \A c \in Runs : run'[c].status = run[c].status
    BY <1>1, <1>2, <1>3, <1>4 DEF SetParallel, IInv, TypeOK, Run
  <2>3. ChildrenStay(q)
    BY <2>2 DEF ChildrenStay
  <2>4. CASE r # q
    BY <1>0, <1>1, <2>1, <2>2, <2>3, <2>4, SameStays, OtherStep DEF At
  <2>5. CASE r = q
    <3>1. Held(q)'
      BY <1>0, <2>1, <2>5, HeldByThread DEF Moving
    <3>2. Buried(q)'
      BY <1>0, <2>1, <2>2, SameStays, BuriedKept DEF Elsewhere, At
    <3>3. Full(q)'
      <4>1. Tallied(q)' = Cardinality(Uncounted(q)')
        BY <1>0, <2>2, <2>5, TalliesAreNumbers DEF Tallied
      <4>2. run'[q].count <= Tallied(q)' + thread'[j].next
        BY <1>0, <1>3, <2>1, <2>2, <2>5, <4>1, TalliesAreNumbers
      <4> QED BY <1>0, <2>1, <2>5, <4>2 DEF Full, At
    <3> QED BY <3>1, <3>2, <3>3 DEF Whole
  <2> QED BY <2>4, <2>5
<1>5. CASE n = 0
  <2>0. 0 \in ItemCounts => StepOf(j).kind # "map"
    <3>1. run[r].flow \in DOMAIN Workflows /\ job[j].step \in 1..Len(Workflows[run[r].flow])
      BY <1>1 DEF IInv, TypeOK, Run, Inside, StepsOf
    <3> QED BY <1>1, <3>1 DEF NoEmptyMap, StepsOf
  <2>1. StepOf(j).kind # "map" /\ StepOf(j).branches = 0 /\ UNCHANGED run
    BY <1>2, <1>5, <2>0
  <2>2. Elsewhere(j)
    BY <1>0, <1>2, <1>5, EndAt DEF IInv
  <2>3. CASE r # q
    BY <1>0, <1>1, <2>1, <2>2, <2>3, SameStays, OtherStep DEF At
  <2>4. CASE r = q
    <3>1. StepOf(j).kind \in Branching
      BY <1>0, <1>1, <2>4, ViewFacts DEF Sound, ThreadsFit, Fits, At
    <3>2. StepOf(j).branches > 0
      BY <1>1, <2>1, <3>1, StepIsStep DEF Branching, IInv
    <3> QED BY <2>1, <3>2
  <2> QED BY <2>3, <2>4
<1> QED BY <1>4, <1>5

LEMMA BranchWhole ==
  ASSUME NEW q, View(q), NEW j \in Jobs, InsertBranch(j)
  PROVE  Whole(q)'
<1> USE DEF View, Stage
<1> DEFINE r == job[j].run
<1>0. /\ q \in Runs /\ j \in Threads /\ Threads' = Threads /\ Jobs' = Jobs /\ At(j, "fan")
      /\ UNCHANGED <<run, redriving>>
  BY DEF Threads, Jobs, InsertBranch
<1>1. thread[j].run = r /\ r \in Runs
  BY <1>0, JobStepIsStep DEF OfJob, At
<1>2. InsertJob("available", r, job[j].step, TRUE)
  BY DEF InsertBranch
<1>3. /\ JobsStay(q) /\ DeadJobs(q)' \subseteq DeadJobs(q)
      /\ r = q => Held(q)'
  BY <1>2, InsertStays
<1>4. /\ Elsewhere(j)
      /\ \/ thread[j].next = 1
         \/ thread'[j].pc = "fan" /\ thread'[j].run = r /\ thread'[j].next = thread[j].next - 1
  <2>1. CASE thread[j].next = 1
    BY <1>0, <2>1, EndAt DEF InsertBranch, IInv
  <2>2. CASE thread[j].next # 1
    <3>1. thread' = [thread EXCEPT ![j].next = @ - 1]
      BY <2>2 DEF InsertBranch
    <3> QED BY <1>0, <1>1, <3>1 DEF IInv, TypeOK, Thread, At, Elsewhere
  <2> QED BY <2>1, <2>2
<1>5. CASE r # q
  BY <1>0, <1>1, <1>3, <1>4, <1>5, SameStays, OtherStep DEF At
<1>6. CASE r = q
  <2>1. Buried(q)'
    BY <1>0, <1>3, <1>4, BuriedKept DEF Elsewhere, At
  <2>2. Uncounted(q) \subseteq Uncounted(q)'
    BY <1>0, <1>3, <1>4, UncountedStays DEF Elsewhere, At
  <2>3. Cardinality(Uncounted(q)') >= Cardinality(Uncounted(q)) + 1
    <3> PICK k \in FreeJobs : job' = [job EXCEPT ![k] = NewJob("available", r, job[j].step, TRUE)]
      BY <1>2 DEF InsertJob
    <3>1. k \in Jobs /\ job[k].status = "none" /\ job'[k] = NewJob("available", r, job[j].step, TRUE)
      BY DEF FreeJobs, IInv, TypeOK
    <3>2. k \in Uncounted(q)' /\ k \notin Uncounted(q)
      BY <1>0, <1>6, <3>1 DEF Uncounted, NewJob
    <3>3. IsFiniteSet(Uncounted(q)) /\ IsFiniteSet(Uncounted(q)')
      BY <1>0, TalliesAreNumbers
    <3>4. Cardinality(Uncounted(q) \cup {k}) = Cardinality(Uncounted(q)) + 1
      BY <3>2, <3>3, FS_AddElement
    <3>5. Cardinality(Uncounted(q) \cup {k}) <= Cardinality(Uncounted(q)')
      BY <2>2, <3>2, <3>3, FS_Subset
    <3> QED BY <1>0, <3>4, <3>5, TalliesAreNumbers
  <2>4. Full(q)'
    <3>1. /\ Tallied(q) = run[q].done + Cardinality(Uncounted(q))
          /\ Tallied(q)' = run[q].done + Cardinality(Uncounted(q)')
      BY <1>0 DEF Tallied
    <3>2. Tallied(q)' >= Tallied(q) + 1 /\ Tallied(q) \in Nat /\ Tallied(q)' \in Nat /\ run[q].count \in Nat
      BY <1>0, <2>3, <3>1, TalliesAreNumbers
    <3>3. thread[j].next \in Nat
      BY <1>0 DEF IInv, TypeOK, Thread
    <3>4. ASSUME NEW t \in Threads, At(t, "fan"), thread[t].run = q PROVE t = j
      <4>1. j \in Joiners(q) /\ t \in Joiners(q)
        BY <1>0, <1>1, <1>6, <3>4 DEF Joiners, Joining, At
      <4>2. Joins(j, q)
        BY <4>1, ViewFacts DEF Sound, Joined
      <4> QED BY <1>0, <3>4, <4>1, <4>2 DEF Joins, At
    <3>5. run[q].count <= Tallied(q) + thread[j].next
      BY <3>2, <3>3, <3>4 DEF Whole, Full
    <3>6. CASE thread[j].next = 1
      BY <1>0, <3>2, <3>5, <3>6 DEF Full
    <3>7. CASE thread'[j].pc = "fan" /\ thread'[j].run = r /\ thread'[j].next = thread[j].next - 1
      <4>1. run'[q].count <= Tallied(q)' + thread'[j].next
        BY <1>0, <3>2, <3>3, <3>5, <3>7
      <4> QED BY <1>0, <1>6, <3>7, <4>1 DEF Full, At
    <3> QED BY <1>4, <3>6, <3>7
  <2> QED BY <1>3, <1>6, <2>1, <2>4 DEF Whole
<1> QED BY <1>5, <1>6

LEMMA CountWhole ==
  ASSUME NEW q, View(q), NEW j \in Jobs, CountBranch(j)
  PROVE  Whole(q)'
<1> USE DEF View, Stage
<1> DEFINE r == job[j].run
<1>0. /\ q \in Runs /\ j \in Threads /\ Threads' = Threads /\ Jobs' = Jobs /\ At(j, "count")
      /\ UNCHANGED <<job, redriving>>
  BY DEF Threads, Jobs, CountBranch
<1>1. thread[j].run = r /\ r \in Runs
  BY <1>0, JobStepIsStep DEF OfJob, At
<1>2. /\ run'[r].done = run[r].done + 1 /\ run'[r].count = run[r].count
      /\ \A c \in Runs \ {r} : run'[c] = run[c]
      /\ \A c \in Runs : run'[c].status = run[c].status
  BY <1>1 DEF CountBranch, IInv, TypeOK, Run
<1>3. /\ Elsewhere(j)
      /\ \/ thread'[j].pc \in {"tally", "merge"} /\ thread'[j].run = r
         \/ run'[r].done < run'[r].count
  <2>1. CASE \E pc \in {"tally", "merge"} : Goto(j, pc)
    BY <1>0, <1>1, <2>1, GotoAt DEF IInv
  <2>2. CASE End(j) /\ ~IsLast(run[r].done + 1, run[r].count)
    <3>1. Elsewhere(j)
      BY <1>0, <2>2, EndAt DEF IInv
    <3>2. run[r].done + 1 < run[r].count
      BY <1>1, <2>2, TalliesAreNumbers DEF IsLast
    <3> QED BY <1>2, <3>1, <3>2
  <2> QED BY <2>1, <2>2 DEF CountBranch
<1>4. ChildrenStay(q)
  BY <1>2 DEF ChildrenStay
<1>5. CASE r # q
  BY <1>0, <1>1, <1>2, <1>3, <1>4, <1>5, SameStays, OtherStep DEF At
<1>6. CASE r = q
  <2>1. Buried(q)'
    BY <1>0, <1>2, <1>3, SameStays, BuriedKept DEF Elsewhere, At
  <2>2. Uncounted(q) \ {j} \subseteq Uncounted(q)'
    <3> SUFFICES ASSUME NEW k \in Uncounted(q), k # j PROVE k \in Uncounted(q)'
      OBVIOUS
    <3>1. k \in Jobs /\ thread'[k] = thread[k]
      BY <1>3 DEF Uncounted, Elsewhere, Threads
    <3> QED BY <1>0, <3>1 DEF Uncounted, At
  <2>3. Cardinality(Uncounted(q)') + 1 >= Cardinality(Uncounted(q))
    <3>1. IsFiniteSet(Uncounted(q)) /\ IsFiniteSet(Uncounted(q)')
      BY <1>0, TalliesAreNumbers
    <3>2. Cardinality(Uncounted(q) \ {j}) <= Cardinality(Uncounted(q)')
      BY <2>2, <3>1, FS_Subset
    <3>3. Cardinality(Uncounted(q) \ {j}) \in {Cardinality(Uncounted(q)), Cardinality(Uncounted(q)) - 1}
      <4>1. CASE j \in Uncounted(q)
        BY <3>1, <4>1, FS_RemoveElement
      <4>2. CASE j \notin Uncounted(q)
        <5>1. Uncounted(q) \ {j} = Uncounted(q)
          BY <4>2
        <5> QED BY <5>1
      <4> QED BY <4>1, <4>2
    <3> QED BY <1>0, <3>2, <3>3, TalliesAreNumbers
  <2>4. Full(q)'
    <3>1. /\ Tallied(q) = run[q].done + Cardinality(Uncounted(q))
          /\ Tallied(q)' = run'[q].done + Cardinality(Uncounted(q)')
      BY <1>0 DEF Tallied
    <3>2. Tallied(q)' >= Tallied(q) /\ Tallied(q) \in Nat /\ Tallied(q)' \in Nat /\ run[q].count \in Nat
      BY <1>0, <1>2, <1>6, <2>3, <3>1, TalliesAreNumbers
    <3>3. CASE run[q].count <= Tallied(q)
      BY <1>2, <1>6, <3>2, <3>3 DEF Full
    <3>4. ASSUME NEW t \in Threads, At(t, "fan"), thread[t].run = q,
                 run[q].count <= Tallied(q) + thread[t].next
          PROVE  Full(q)'
      <4>1. thread'[t] = thread[t] /\ thread[t].next \in Nat
        BY <1>0, <1>3, <3>4 DEF Elsewhere, At, IInv, TypeOK, Thread
      <4>2. run'[q].count <= Tallied(q)' + thread'[t].next
        BY <1>2, <1>6, <3>2, <3>4, <4>1
      <4> QED BY <1>0, <3>4, <4>1, <4>2 DEF Full, At
    <3> QED BY <3>3, <3>4 DEF Whole, Full
  <2>5. Held(q)'
    <3>1. CASE thread'[j].pc \in {"tally", "merge"} /\ thread'[j].run = r
      BY <1>0, <1>6, <3>1, HeldByThread DEF Moving
    <3>2. CASE run'[r].done < run'[r].count
      BY <1>0, <1>6, <2>4, <3>2, HeldByFull
    <3> QED BY <1>3, <3>1, <3>2
  <2> QED BY <2>1, <2>4, <2>5 DEF Whole
<1> QED BY <1>5, <1>6

LEMMA ReadWhole ==
  ASSUME NEW q, View(q), NEW j \in Jobs, ReadCount(j)
  PROVE  Whole(q)'
<1> USE DEF View, Stage
<1> DEFINE r == job[j].run
<1>0. /\ q \in Runs /\ j \in Threads /\ At(j, "tally") /\ UNCHANGED <<run, job, redriving>>
  BY DEF Threads, ReadCount
<1>1. thread[j].run = r /\ r \in Runs
  BY <1>0, JobStepIsStep DEF OfJob, At
<1>2. CASE Goto(j, "merge")
  <2>1. Elsewhere(j) /\ thread'[j].pc = "merge" /\ thread'[j].run = thread[j].run
    BY <1>0, <1>2, GotoAt DEF IInv
  <2> QED BY <1>0, <2>1, ThreadWhole DEF At, Moving
<1>3. CASE End(j) /\ ~IsLast(run[r].done, run[r].count)
  <2>1. Elsewhere(j)
    BY <1>0, <1>3, EndAt DEF IInv
  <2>2. CASE r # q
    BY <1>0, <1>1, <2>1, <2>2, SameStays, OtherStep DEF At
  <2>3. CASE r = q
    <3>1. Full(q)'
      BY <1>0, <2>1, SameStays, UncountedStays, FullKept DEF Elsewhere, At
    <3>2. run'[q].done < run'[q].count
      BY <1>0, <1>3, <2>3, TalliesAreNumbers DEF IsLast
    <3>3. Held(q)'
      BY <1>0, <3>1, <3>2, HeldByFull
    <3> QED BY <1>0, <2>1, <3>3, SameStays, OwnStep DEF At
  <2> QED BY <2>2, <2>3
<1> QED BY <1>2, <1>3 DEF ReadCount

LEMMA MergeWhole ==
  ASSUME NEW q, View(q), NEW j \in Jobs, MergeBranches(j)
  PROVE  Whole(q)'
<1> USE DEF View, Stage
<1> DEFINE r == job[j].run
<1>0. /\ q \in Runs /\ j \in Threads /\ At(j, "merge") /\ UNCHANGED <<job, redriving>>
  BY DEF Threads, MergeBranches
<1>1. thread[j].run = r /\ r \in Runs
  BY <1>0, JobStepIsStep DEF OfJob, At
<1>2. thread'[j].run = r /\ thread'[j].pc \in {"move", "complete"} /\ Elsewhere(j)
  BY <1>0, StepOnAt DEF MergeBranches, IInv
<1>3. /\ run'[r].count = 0
      /\ \A c \in Runs \ {r} : run'[c] = run[c]
      /\ \A c \in Runs : run'[c].status = run[c].status
  BY <1>1 DEF MergeBranches, SetParallel, IInv, TypeOK, Run
<1>4. ChildrenStay(q)
  BY <1>3 DEF ChildrenStay
<1>5. CASE r # q
  BY <1>0, <1>1, <1>2, <1>3, <1>4, <1>5, SameStays, OtherStep DEF At
<1>6. CASE r = q
  <2>1. Held(q)'
    BY <1>0, <1>2, <1>6, HeldByThread DEF Moving
  <2>2. Buried(q)'
    BY <1>0, <1>2, <1>3, SameStays, BuriedKept DEF Elsewhere, At
  <2>3. Tallied(q)' \in Nat
    BY <1>0, TalliesAreNumbers DEF Tallied
  <2>4. Full(q)'
    BY <1>3, <1>6, <2>3 DEF Full
  <2> QED BY <2>1, <2>2, <2>4 DEF Whole
<1> QED BY <1>5, <1>6

-----------------------------------------------------------------------------
(* The moves of a run.                                                     *)
LEMMA InsertWhole ==
  ASSUME NEW q, View(q), NEW t \in Threads, NEW r, NEW status \in {"available", "waiting"}, NEW i,
         thread[t].run = r, thread[t].pc \in {"insert", "callback"},
         InsertJob(status, r, i, FALSE), End(t), UNCHANGED <<run, redriving>>
  PROVE  Whole(q)'
<1> USE DEF View, Stage
<1>1. Elsewhere(t)
  BY EndAt DEF IInv
<1>2. JobsStay(q) /\ DeadJobs(q)' \subseteq DeadJobs(q) /\ (r = q => Held(q)')
  BY InsertStays
<1>3. CASE r # q
  BY <1>1, <1>2, <1>3, SameStays, OtherStep DEF At
<1>4. CASE r = q
  BY <1>1, <1>2, <1>4, SameStays, OwnStep
<1> QED BY <1>3, <1>4

LEMMA CallbackWhole ==
  ASSUME NEW q, View(q), NEW j \in Jobs, CallbackArrives(j)
  PROVE  Whole(q)'
<1> USE DEF View, Stage
<1>0. /\ j \in Threads /\ job \in [Jobs -> Job] /\ job[j].status = "waiting" /\ At(j, "idle")
      /\ UNCHANGED <<run, redriving>> /\ q \in Runs
  BY DEF Threads, CallbackArrives, ResumeJob, IInv, TypeOK
<1>1. /\ thread'[j].run = job[j].run /\ thread'[j].pc \in {"move", "complete"} /\ Elsewhere(j)
  BY <1>0, StepOnAt DEF CallbackArrives, IInv
<1>2. /\ job'[j].status = "completed" /\ job'[j].run = job[j].run
      /\ \A k \in Jobs \ {j} : job'[k] = job[k]
  BY <1>0 DEF CallbackArrives, ResumeJob, Job
<1>3. DeadJobs(q)' \subseteq DeadJobs(q)
  BY <1>2 DEF DeadJobs, Jobs
<1>4. thread[j].pc = "idle"
  BY <1>0 DEF At
<1>5. CASE job[j].run # q
  <2>1. JobsStay(q)
    BY <1>2, <1>5 DEF JobsStay, Unfinished
  <2> QED BY <1>0, <1>1, <1>3, <1>4, <2>1, SameStays, OtherStep DEF Moving, At
<1>6. CASE job[j].run = q
  <2>1. Held(q)'
    BY <1>0, <1>1, <1>6, HeldByThread DEF Moving
  <2>2. Buried(q)'
    BY <1>0, <1>1, <1>3, <1>4, BuriedKept DEF Elsewhere, At
  <2>3. ~job[j].branch
    BY <1>0, <1>6, ViewFacts DEF Sound, JobsFit
  <2>4. Uncounted(q) \subseteq Uncounted(q)'
    <3> SUFFICES ASSUME NEW k \in Uncounted(q) PROVE k \in Uncounted(q)'
      OBVIOUS
    <3>1. k \in Jobs /\ k # j
      BY <2>3 DEF Uncounted
    <3>2. job'[k] = job[k] /\ thread'[k] = thread[k] /\ Jobs' = Jobs
      BY <1>1, <1>2, <3>1 DEF Elsewhere, Threads, Jobs
    <3> QED BY <3>1, <3>2 DEF Uncounted, At
  <2>5. Full(q)'
    BY <1>0, <1>1, <1>4, <2>4, FullKept DEF Elsewhere, At
  <2> QED BY <2>1, <2>2, <2>5 DEF Whole
<1> QED BY <1>5, <1>6

LEMMA MoveWhole ==
  ASSUME NEW q, View(q), NEW t \in Threads, MoveRun(t)
  PROVE  Whole(q)'
<1> USE DEF View, Stage
<1>0. UNCHANGED <<job, redriving>> /\ thread[t].pc = "move" /\ run \in [Runs -> Run]
  BY DEF MoveRun, At, IInv, TypeOK
<1>1. thread'[t].run = thread[t].run /\ thread'[t].pc = "insert" /\ Elsewhere(t)
  BY GotoAt DEF MoveRun, IInv
<1>2. \A c \in Runs : /\ run'[c].status = run[c].status /\ run'[c].done = run[c].done
                      /\ run'[c].count = run[c].count
  BY <1>0 DEF MoveRun, Run
<1>3. ChildrenStay(q)
  BY <1>2 DEF ChildrenStay
<1>4. CASE thread[t].run # q
  BY <1>0, <1>1, <1>2, <1>3, <1>4, SameStays, OtherStep DEF At
<1>5. CASE thread[t].run = q
  <2>1. Held(q)'
    BY <1>1, <1>5, HeldByThread DEF Moving
  <2> QED BY <1>0, <1>1, <1>2, <2>1, SameStays, OwnStep
<1> QED BY <1>4, <1>5

(* A run that settles need not be held; its child keeps the parent.        *)
LEMMA SettleWhole ==
  ASSUME NEW q, View(q), NEW t \in Threads, CompleteRun(t) \/ FailRun(t)
  PROVE  Whole(q)'
<1> USE DEF View, Stage
<1> DEFINE r == thread[t].run
<1>0. /\ UNCHANGED <<job, redriving>> /\ thread[t].pc \in {"complete", "fail"}
      /\ q \in Runs /\ Threads' = Threads
  BY DEF CompleteRun, FailRun, At, Threads, Jobs
<1>1. /\ Elsewhere(t)
      /\ CompleteRun(t) => thread'[t].pc = "resume" /\ thread'[t].run = r
  BY GotoAt, EndAt DEF CompleteRun, FailRun, IInv
<1>2. /\ r \in Runs /\ run'[r].status \in {"completed", "failed"}
      /\ FailRun(t) => run'[r].status = "failed"
      /\ \A c \in Runs \ {r} : run'[c] = run[c]
      /\ \A c \in Runs : run'[c].done = run[c].done /\ run'[c].count = run[c].count
  <2>1. r \in Runs
    BY <1>0 DEF IInv, StepsExist, ThreadInside, Inside, At
  <2> QED BY <2>1 DEF CompleteRun, FailRun, IInv, TypeOK, Run
<1>3. ChildrenStay(q)
  <2>1. \A c \in Runs \ {r} : run'[c].status = run[c].status
    BY <1>2
  <2>2. run'[r].status = "failed" \/ (At(t, "resume")' /\ thread'[t].run = r)
    BY <1>1, <1>2 DEF At
  <2> HIDE DEF r
  <2> QED BY <2>1, <2>2 DEF ChildrenStay
<1>4. CASE r # q
  BY <1>0, <1>1, <1>2, <1>3, <1>4, SameStays, OtherStep DEF At
<1>5. CASE r = q
  <2>1. run'[q].status # "running"
    BY <1>2, <1>5
  <2>2. Full(q)'
    BY <1>0, <1>1, <1>2, SameStays, UncountedStays, FullKept DEF Elsewhere, At
  <2> QED BY <2>1, <2>2 DEF Whole, Held, Buried
<1> QED BY <1>4, <1>5

LEMMA ResumeWhole ==
  ASSUME NEW q, View(q), NEW t \in Threads, ResumeParent(t)
  PROVE  Whole(q)'
<1> USE DEF View, Stage
<1> DEFINE c == thread[t].run
           p == run[c].parent
<1>0. UNCHANGED <<run, job, redriving>> /\ thread[t].pc = "resume" /\ q \in Runs /\ q # 0
  BY DEF ResumeParent, At, Runs
<1>1. /\ Elsewhere(t)
      /\ p # 0 => thread'[t].run = p /\ thread'[t].pc \in {"move", "complete"}
  BY EndAt, StepOnAt DEF ResumeParent, IInv
<1>2. CASE c = q
  <2>1. run[q].status = "completed"
    BY <1>0, <1>2, ViewFacts DEF Sound, ThreadsFit, Fits, At
  <2>2. Held(q)'
    BY <1>0, <2>1 DEF Held
  <2> QED BY <1>0, <1>1, <2>2, SameStays, OwnStep
<1>3. CASE p = q
  <2>1. Held(q)'
    BY <1>0, <1>1, <1>3, HeldByThread DEF Moving
  <2> QED BY <1>0, <1>1, <2>1, SameStays, OwnStep
<1>4. CASE c # q /\ p # q
  BY <1>0, <1>1, <1>4, SameStays, OtherStep DEF At
<1> QED BY <1>2, <1>3, <1>4

-----------------------------------------------------------------------------
LEMMA WholeNext ==
  ASSUME NoEmptyMap, NEW q, View(q), Move
  PROVE  Whole(q)'
<1>1. ASSUME NEW j \in Jobs, JobStep(j) PROVE Whole(q)'
  <2>1. CASE AwaitCallback(j)
    <3>1. thread[j].run = job[j].run /\ thread[j].pc \in {"insert", "callback"} /\ j \in Threads
      BY <2>1, JobStepIsStep DEF AwaitCallback, View, Stage, OfJob, At, Threads
    <3>2. /\ InsertJob("waiting", job[j].run, job[j].step, FALSE) /\ End(j)
          /\ UNCHANGED <<run, redriving>>
      BY <2>1 DEF AwaitCallback, InsertCallback
    <3> QED BY <3>1, <3>2, InsertWhole
  <2> QED BY <1>1, <2>1, WalkWhole, OutcomeWhole, SetUpWhole, BranchWhole, CountWhole, ReadWhole,
             MergeWhole, LaunchWhole
          DEF JobStep
<1>2. ASSUME NEW t \in Threads, RunStep(t) PROVE Whole(q)'
  <2>1. CASE InsertNext(t)
    BY <2>1, InsertWhole DEF InsertNext, At
  <2> QED BY <1>2, <2>1, MoveWhole, SettleWhole, ResumeWhole DEF RunStep
<1>3. ASSUME NEW j \in Jobs, \/ Claim(j) \/ Recover(j) \/ CallbackArrives(j) \/ MistakeBranch(j)
                             \/ OutcomeLost(j) \/ ExpireJob(j) \/ RetryJob(j)
      PROVE  Whole(q)'
  BY <1>3, ClaimWhole, QuietJobsWhole, CallbackWhole, WalkWhole, OutcomeLostWhole
<1>4. ASSUME NEW r \in Runs, TimeoutPasses(r) \/ Redrive(r) PROVE Whole(q)'
  BY <1>4, LateWhole, RedriveWhole
<1> QED BY <1>1, <1>2, <1>3, <1>4, StartWhole, EndsWhole, RedriveJobsWhole DEF Move

AllWhole == \A r \in Runs \ Gone : Whole(r)

LEMMA AllWholeNext ==
  ASSUME NoEmptyMap, IInv, IInv', Placed, AllWhole, [Next]_vars
  PROVE  AllWhole'
<1>1. CASE Next
  <2>1. Kept
    BY <1>1, StepKeeps DEF Placed
  <2>2. Gone \subseteq Gone' /\ Loose \subseteq Loose' /\ Runs' = Runs
    BY <1>1, <2>1, GoneGrows, LooseGrows, DroppedGrows DEF Placed, Runs
  <2>3. ASSUME NEW q \in Runs, q \notin Gone' PROVE Whole(q)'
    <3>1. q \notin Loose'
      BY <2>2, <2>3 DEF Gone, WithParents
    <3>2. q \notin loosened'
      BY <2>2, <3>1, <2>3 DEF Loose, WithParents
    <3>3. View(q)
      BY <2>1, <2>2, <2>3, <3>1, <3>2 DEF View, Stage, Placed, AllWhole
    <3> QED BY <1>1, <3>3, WholeNext DEF Next
  <2> QED BY <2>2, <2>3 DEF AllWhole
<1>2. CASE UNCHANGED vars
  <2>1. UNCHANGED <<run, job, thread, redriving, dropped, loosened>>
    BY <1>2 DEF vars, historyVars
  <2>2. /\ Jobs' = Jobs /\ Threads' = Threads /\ Runs' = Runs
    BY DEF Jobs, Threads, Runs
  <2>3. Loose' = Loose
    BY <2>1, <2>2 DEF Loose, WithParents, CatchesBranches, StepsOf
  <2>4. Gone' = Gone
    BY <2>1, <2>2, <2>3 DEF Gone, WithParents
  <2>5. ASSUME NEW q \in Runs \ Gone PROVE Whole(q)'
    <3>1. /\ Uncounted(q)' = Uncounted(q) /\ DeadJobs(q)' = DeadJobs(q)
          /\ Failing(q)' = Failing(q)
      BY <2>1, <2>2 DEF Uncounted, DeadJobs, Failing, At
    <3>2. /\ TokenJobs(q)' = TokenJobs(q) /\ TokenThreads(q)' = TokenThreads(q)
          /\ TokenChildren(q)' = TokenChildren(q) /\ Joiners(q)' = Joiners(q)
      BY <2>1, <2>2 DEF TokenJobs, TokenThreads, TokenChildren, Joiners, Unfinished, At
    <3>3. Tokens(q)' = Tokens(q)
      BY <3>1, <3>2 DEF Tokens
    <3>4. Tallied(q)' = Tallied(q)
      BY <2>1, <3>1 DEF Tallied
    <3>5. Whole(q)
      BY DEF AllWhole
    <3>6. Held(q)' /\ Buried(q)'
      BY <2>1, <3>1, <3>3, <3>5 DEF Whole, Held, Buried
    <3>7. Full(q)'
      BY <2>1, <2>2, <3>4, <3>5 DEF Whole, Full, At
    <3> QED BY <3>6, <3>7 DEF Whole
  <2> QED BY <2>2, <2>4, <2>5 DEF AllWhole
<1> QED BY <1>1, <1>2

LEMMA AllWholeInit ==
  ASSUME Init
  PROVE  AllWhole
<1>1. /\ \A r \in Runs : run[r].status = "none" /\ run[r].done = 0 /\ run[r].count = 0
      /\ \A j \in Jobs : job[j].status = "none"
  BY DEF Init, NoRun, NewRun, NewJob
<1>2. ASSUME NEW q \in Runs PROVE Whole(q)
  <2>1. Held(q) /\ Buried(q)
    BY <1>1 DEF Held, Buried
  <2>2. Uncounted(q) = {}
    BY <1>1 DEF Uncounted
  <2>3. Tallied(q) = 0
    BY <1>1, <2>2, FS_EmptySet DEF Tallied
  <2>4. Full(q)
    BY <1>1, <2>3 DEF Full
  <2> QED BY <2>1, <2>4 DEF Whole
<1> QED BY <1>2 DEF AllWhole

LEMMA WholeInvariant ==
  ASSUME NoEmptyMap
  PROVE  Spec => [](IInv /\ Placed /\ AllWhole)
<1>1. Init => AllWhole
  BY AllWholeInit
<1>2. IInv /\ IInv' /\ Placed /\ AllWhole /\ [Next]_vars => AllWhole'
  BY AllWholeNext
<1>3. Spec => [](IInv /\ Placed)
  BY PlacedInvariant
<1> QED BY <1>1, <1>2, <1>3, PTL DEF Spec

LEMMA NotNothing ==
  ASSUME NEW S, NEW T, IsFiniteSet(T), S \subseteq T
  PROVE  Cardinality(S) \in Nat /\ (S # {} => Cardinality(S) > 0)
<1>1. IsFiniteSet(S)
  BY FS_Subset
<1> QED BY <1>1, FS_CardinalityType, FS_EmptySet

(* For any definitions that Config::validate takes, any number of runs and *)
(* jobs, any faults and any calls, a run that is running can be moved by   *)
(* somebody, or what took that away is on record.  A map step that finds   *)
(* no items is the one exception: the code returns without a next job.     *)
THEOREM StrandedExplained ==
  ASSUME NoEmptyMap
  PROVE  Spec => []StrandedIsExplained
<1>1. ASSUME IInv, Placed, AllWhole PROVE StrandedIsExplained
  <2> SUFFICES ASSUME NEW r \in Runs, run[r].status = "running", redriving # r, r \notin Lost,
                      ~Failing(r)
               PROVE  Positions(r) > 0
    BY DEF StrandedIsExplained, Failing
  <2>1. r \notin Gone /\ r \notin Loose /\ FailedChildren(r) = {}
    <3>1. r \notin Gone /\ FailedChildren(r) = {}
      BY GoneIsLost DEF Lost, WithParents
    <3> QED BY <3>1, GoneIsThere
  <2>2. Whole(r) /\ Sound(r)
    BY <1>1, <2>1 DEF AllWhole, Placed
  <2>3. Tokens(r) # {} /\ DeadJobs(r) = {}
    BY <2>2 DEF Whole, Held, Buried
  <2>4. \A j \in Jobs : job[j].run = r /\ Unfinished(j) => job[j].status \in Live
    BY <1>1, <2>3 DEF DeadJobs, Unfinished, Live, IInv, TypeOK, Job, JobStatus
  <2>5. StepJobs(r) \cup Movers(r) \cup Children(r) # {} \/ BranchJobs(r) \cup Joiners(r) # {}
    <3>1. TokenJobs(r) \subseteq StepJobs(r)
      BY <2>4 DEF TokenJobs, StepJobs
    <3>2. TokenThreads(r) \subseteq Movers(r)
      <4> SUFFICES ASSUME NEW t \in TokenThreads(r) PROVE t \in Movers(r)
        OBVIOUS
      <4>1. t \in Threads /\ thread[t].run = r /\ thread[t].pc \in Moving \ Joining
        BY DEF TokenThreads
      <4>2. thread[t].pc # "fail"
        BY <4>1 DEF Failing, At
      <4> QED BY <4>1, <4>2 DEF Movers
    <3>3. TokenChildren(r) \subseteq Children(r)
      BY <2>1 DEF TokenChildren, Children, FailedChildren
    <3>4. Uncounted(r) \subseteq BranchJobs(r) \cup Joiners(r)
      <4> SUFFICES ASSUME NEW j \in Uncounted(r) PROVE j \in BranchJobs(r) \cup Joiners(r)
        OBVIOUS
      <4>1. j \in Jobs /\ j \in Threads /\ job[j].run = r /\ job[j].branch
            /\ job[j].status # "none"
        BY DEF Uncounted, Threads
      <4>2. CASE job[j].status # "completed"
        BY <2>4, <4>1, <4>2 DEF BranchJobs, Unfinished
      <4>3. CASE At(j, "count")
        <5>1. thread[j].run = r
          BY <1>1, <4>1, <4>3, JobStepIsStep DEF OfJob, At
        <5> QED BY <4>1, <4>3, <5>1 DEF Joiners, Joining, At
      <4> QED BY <4>2, <4>3 DEF Uncounted
    <3> QED BY <2>3, <3>1, <3>2, <3>3, <3>4 DEF Tokens
  <2>6. IsFiniteSet(Jobs) /\ IsFiniteSet(Threads) /\ IsFiniteSet(Runs)
    BY Counts
  <2>7. /\ StepJobs(r) \subseteq Jobs /\ Movers(r) \subseteq Threads /\ Children(r) \subseteq Runs
    BY DEF StepJobs, Movers, Children
  <2>8. /\ Cardinality(StepJobs(r)) \in Nat /\ (StepJobs(r) # {} => Cardinality(StepJobs(r)) > 0)
        /\ Cardinality(Movers(r)) \in Nat /\ (Movers(r) # {} => Cardinality(Movers(r)) > 0)
        /\ Cardinality(Children(r)) \in Nat /\ (Children(r) # {} => Cardinality(Children(r)) > 0)
    BY <2>6, <2>7, NotNothing
  <2>9. Join(r) \in Nat /\ (BranchJobs(r) \cup Joiners(r) # {} => Join(r) = 1)
    BY DEF Join
  <2> QED BY <2>5, <2>8, <2>9 DEF Positions
<1>2. Spec => [](IInv /\ Placed /\ AllWhole)
  BY WholeInvariant
<1> QED BY <1>1, <1>2, PTL

-----------------------------------------------------------------------------
(* On course.  What ImplementsWalk needs besides: whoever holds a run that *)
(* is not loose agrees with its row about the current step, and a thread   *)
(* that is about to move the run goes along an edge of the definition.     *)
(* Wait steps and the steps of sub-workflows do not ask for `end`          *)
(* (README, section 6), so that only the last step may have it there.      *)
EndsAreAsked ==
  \A f \in DOMAIN Workflows : \A i \in 1..Len(Workflows[f]) :
    Workflows[f][i].kind \in {"wait", "workflow"} /\ Workflows[f][i].end
      => i = Len(Workflows[f])

Gotos(s) == {s.catch[c].goto : c \in 1..Len(s.catch)}
NextSteps(r) == Walked!Successors(run[r].flow, run[r].step)
IsFinal(r) == Walked!Final(run[r].flow, run[r].step)
Here(t) == job[t].step = run[thread[t].run].step

Guided(t) ==
  /\ thread[t].pc \in {"request", "succeed", "continue", "catch", "advance"}
       => StepOf(t).kind # "choice"
  /\ At(t, "choose") => StepOf(t).kind = "choice"
  /\ At(t, "pass") => StepOf(t).kind = "wait"
  /\ At(t, "callback") => StepOf(t).kind = "callback"
  /\ At(t, "catch") => thread[t].next \in Gotos(StepOf(t))
  /\ thread[t].pc \in OfJob \cap Moving => Here(t)
  /\ At(t, "move") => thread[t].next \in NextSteps(thread[t].run)
  /\ At(t, "insert") => thread[t].next = run[thread[t].run].step
  /\ At(t, "complete") => IsFinal(thread[t].run)

JobOnCourse(j) ==
  /\ Unfinished(j) => job[j].step = run[job[j].run].step
  /\ job[j].status = "waiting" => StepOf(j).kind = "callback"
ChildOnCourse(c) ==
  LET p == run[c].parent
  IN  run[c].at = run[p].step /\ StepsOf(p)[run[c].at].kind = "workflow"

OnCourse(r) ==
  /\ \A t \in Threads : thread[t].run = r => Guided(t)
  /\ \A j \in Jobs : job[j].run = r => JobOnCourse(j)
  /\ \A c \in TokenChildren(r) : ChildOnCourse(c)

-----------------------------------------------------------------------------
Aim(q) == Stage(q) /\ Blank /\ OnCourse(q)

(* What a thread knows that works for a job of q.                          *)
LEMMA GuidedFacts ==
  ASSUME NEW q, Aim(q), NEW j \in Jobs, thread[j].pc \in OfJob, job[j].run = q
  PROVE  /\ thread[j].run = q /\ Guided(j) /\ JobOnCourse(j) /\ Fits(j) /\ Here(j)
         /\ StepOf(j) \in Step /\ StepOf(j) = StepsOf(q)[run[q].step]
         /\ job[j].step = run[q].step /\ run[q].step \in 1..Len(StepsOf(q))
         /\ job[j].branch => StepOf(j).kind \in Branching
<1> USE DEF Aim, Stage
<1>1. /\ Inside(q, job[j].step) /\ thread[j].run = q /\ job[j].status # "none"
      /\ StepOf(j) = StepsOf(q)[job[j].step] /\ StepOf(j) \in Step
  BY JobStepIsStep
<1>2. j \in Threads /\ Guided(j) /\ JobOnCourse(j) /\ Sound(q)
  BY <1>1 DEF Threads, OnCourse
<1>3. Fits(j) /\ (job[j].branch => StepOf(j).kind \in Branching)
  BY <1>1, <1>2 DEF Sound, ThreadsFit, JobsFit, At, OfJob, Deciding, Written
<1>4. Here(j)
  <2>1. CASE thread[j].pc \in Deciding
    <3>1. job[j].status = "running"
      BY <2>1 DEF Delivered
    <3> QED BY <1>1, <1>2, <3>1 DEF JobOnCourse, Unfinished, Here
  <2>2. CASE thread[j].pc \notin Deciding
    BY <1>2, <2>2 DEF Guided, OfJob, Moving
  <2> QED BY <2>1, <2>2
<1> QED BY <1>1, <1>2, <1>3, <1>4 DEF Here, Inside

(* A thread that stays where it is.                                        *)
LEMMA GuidedKept ==
  ASSUME NEW q, Stage(q), NEW t \in Threads, thread[t].run = q, Guided(t),
         thread'[t] = thread[t], run'[q].step = run[q].step
  PROVE  Guided(t)'
<1> USE DEF Stage
<1>1. thread[t].pc \in OfJob =>
        /\ t \in Jobs /\ job'[t].step = job[t].step /\ StepOf(t)' = StepOf(t)
  BY StepOfStays DEF IInv, StepsExist, ThreadInside, Kept, JobsKept, RunsKept, Persist
<1>2. ~At(t, "idle") => run'[q].flow = run[q].flow
  BY DEF IInv, StepsExist, ThreadInside, Inside, Kept, RunsKept
<1>3. thread[t].pc \in {"request", "succeed", "continue", "catch", "advance", "choose", "pass",
                        "callback"} => thread[t].pc \in OfJob
  BY DEF OfJob, Deciding, Written
<1>4. ~At(t, "idle") => NextSteps(q)' = NextSteps(q) /\ (IsFinal(q) => IsFinal(q)')
  <2>1. ASSUME run'[q].flow = run[q].flow PROVE NextSteps(q)' = NextSteps(q)
    BY <2>1 DEF NextSteps, Walked!Successors
  <2>2. ASSUME run'[q].flow = run[q].flow PROVE IsFinal(q) => IsFinal(q)'
    BY <2>2 DEF IsFinal, Walked!Final
  <2> QED BY <1>2, <2>1, <2>2
<1>5. thread[t].pc \in OfJob => Gotos(StepOf(t))' = Gotos(StepOf(t)) /\ Here(t)' = Here(t)
  BY <1>1 DEF Gotos, Here
<1> QED BY <1>1, <1>3, <1>4, <1>5 DEF Guided, At

LEMMA CourseKept ==
  ASSUME NEW q, Aim(q), run'[q].step = run[q].step,
         \A t \in Threads : thread'[t] = thread[t] \/ thread'[t].run # q \/ Guided(t)',
         \A j \in Jobs : job[j].status = "none" /\ job'[j].status # "none" /\ job'[j].run = q
                           => JobOnCourse(j)',
         \A c \in TokenChildren(q)' : c \in TokenChildren(q) \/ ChildOnCourse(c)'
  PROVE  OnCourse(q)'
<1> USE DEF Aim, Stage
<1>0. Threads' = Threads /\ Jobs' = Jobs /\ Runs' = Runs
  BY DEF Threads, Jobs, Runs
<1>1. ASSUME NEW u \in Threads, thread'[u].run = q PROVE Guided(u)'
  <2>1. CASE thread'[u] = thread[u]
    BY <1>1, <2>1, GuidedKept DEF OnCourse
  <2>2. CASE thread'[u] # thread[u]
    BY <1>1, <2>2
  <2> QED BY <2>1, <2>2
<1>2. ASSUME NEW j \in Jobs, job'[j].run = q PROVE JobOnCourse(j)'
  <2>1. CASE job[j].status # "none"
    <3>1. /\ job'[j].step = job[j].step /\ job[j].run = q /\ StepOf(j)' = StepOf(j)
          /\ Unfinished(j)' => Unfinished(j)
          /\ job'[j].status = "waiting" => job[j].status = "waiting"
      BY <1>2, <2>1, StepOfStays DEF IInv, StepsExist, Kept, JobsKept, RunsKept, Persist, Unfinished
    <3>2. JobOnCourse(j)
      BY <3>1 DEF OnCourse
    <3> QED BY <1>2, <3>1, <3>2 DEF JobOnCourse
  <2>2. CASE job[j].status = "none" /\ job'[j].status = "none"
    BY <2>2 DEF JobOnCourse, Unfinished
  <2>3. CASE job[j].status = "none" /\ job'[j].status # "none"
    BY <1>2, <2>3
  <2> QED BY <2>1, <2>2, <2>3
<1>3. ASSUME NEW c \in TokenChildren(q)' PROVE ChildOnCourse(c)'
  <2> SUFFICES ASSUME c \in TokenChildren(q) PROVE ChildOnCourse(c)'
    BY <1>3
  <2>1. c \in Runs /\ run[c].parent = q /\ q # 0 /\ ChildOnCourse(c)
    BY DEF TokenChildren, OnCourse, Runs
  <2>2. run[c].status # "none" /\ run[q].status # "none"
    BY <2>1 DEF Blank, IInv, StepsExist, ParentInside, Inside
  <2>3. run'[c].parent = q /\ run'[c].at = run[c].at /\ run'[q].flow = run[q].flow
    BY <2>1, <2>2 DEF Kept, RunsKept
  <2> QED BY <2>1, <2>3 DEF ChildOnCourse, StepsOf
<1> QED BY <1>0, <1>1, <1>2, <1>3 DEF OnCourse

(* Where nothing is asked of a thread.                                     *)
LEMMA QuietGuided ==
  ASSUME NEW t, thread'[t].pc \in {"idle", "start", "mark", "retry", "stop", "expire", "fail", "resume"}
  PROVE  Guided(t)'
BY DEF Guided, At, OfJob, Deciding, Written, Moving

(* From the step where the run stands, along an edge or to the end.        *)
LEMMA StepOnGuided ==
  ASSUME IInv, NEW q \in Runs, NEW t \in Threads, NEW i, i = run[q].step,
         i \in 1..Len(StepsOf(q)), run'[q].step = run[q].step, run'[q].flow = run[q].flow,
         StepsOf(q)[i].kind # "choice",
         \/ StepOnOrEnd(t, q, i)
         \/ StepOn(t, q, i) /\ (StepsOf(q)[i].end => i = Len(StepsOf(q)))
  PROVE  Guided(t)' /\ thread'[t].run = q /\ thread'[t].pc # "resume"
<1>1. Len(StepsOf(q)) \in Nat /\ i \in Nat
  <2>1. StepsOf(q) \in Seq(Step)
    BY BoundsAssumption DEF BoundsAssumption, IInv, TypeOK, Run, StepsOf
  <2> QED BY <2>1
<1>2. \/ /\ thread'[t].pc = "move" /\ thread'[t].run = q /\ thread'[t].next = i + 1
         /\ i < Len(StepsOf(q)) /\ ~StepsOf(q)[i].end
      \/ /\ thread'[t].pc = "complete" /\ thread'[t].run = q
         /\ StepsOf(q)[i].end \/ i = Len(StepsOf(q))
  <2>1. CASE StepOn(t, q, i) /\ ~StepsOf(q)[i].end /\ i < Len(StepsOf(q))
    BY <2>1, SetThreadAt DEF StepOn, IInv
  <2>2. CASE StepOn(t, q, i) /\ i = Len(StepsOf(q))
    BY <1>1, <2>2, SetThreadAt DEF StepOn, IInv
  <2>3. CASE StepOnOrEnd(t, q, i) /\ StepsOf(q)[i].end
    BY <2>3, SetThreadAt DEF StepOnOrEnd, IInv
  <2> QED BY <1>1, <2>1, <2>2, <2>3 DEF StepOnOrEnd
<1>3. CASE thread'[t].pc = "move"
  <2>1. i + 1 \in NextSteps(q)'
    <3>1. i + 1 \in {k \in {i + 1} : k <= Len(StepsOf(q)) /\ ~StepsOf(q)[i].end}
      BY <1>1, <1>2, <1>3
    <3>2. i + 1 \in Walked!Successors(run[q].flow, i)
      BY <3>1 DEF Walked!Successors, StepsOf
    <3>3. NextSteps(q)' = Walked!Successors(run[q].flow, i)
      BY DEF NextSteps, Walked!Successors
    <3> QED BY <3>2, <3>3
  <2> QED BY <1>2, <1>3, <2>1 DEF Guided, At, OfJob, Deciding, Written
<1>4. CASE thread'[t].pc = "complete"
  <2>1. IsFinal(q)'
    BY <1>2, <1>4 DEF IsFinal, Walked!Final, StepsOf
  <2> QED BY <1>2, <1>4, <2>1 DEF Guided, At, OfJob, Deciding, Written
<1> QED BY <1>2, <1>3, <1>4

LEMMA ThreadCourse ==
  ASSUME NEW q, Aim(q), NEW t \in Threads, Elsewhere(t), UNCHANGED <<run, job>>,
         thread'[t].pc # "resume", thread'[t].run = q => Guided(t)'
  PROVE  OnCourse(q)'
<1>1. TokenChildren(q)' \subseteq TokenChildren(q)
  BY ChildrenKept DEF Elsewhere, At, Threads, Jobs
<1>2. run'[q].step = run[q].step /\ \A u \in Threads : thread'[u] = thread[u] \/ u = t
  BY DEF Elsewhere
<1> QED BY <1>1, <1>2, CourseKept

LEMMA DispatchCourse ==
  ASSUME NEW q, Aim(q), NEW j \in Jobs, Dispatch(j) \/ MistakeBranch(j)
  PROVE  OnCourse(q)'
<1> USE DEF Aim, Stage
<1>0. /\ j \in Threads /\ UNCHANGED <<run, job>> /\ thread[j].pc = "start"
      /\ StepOf(j)' = StepOf(j)
  BY DEF Threads, Dispatch, MistakeBranch, At, StepOf, StepsOf
<1>1. /\ Elsewhere(j) /\ thread'[j].run = thread[j].run
      /\ thread'[j].pc \in {"expire", "request", "mark"}
      /\ thread'[j].pc = "request" => job[j].branch \/ StepOf(j).kind = "http"
  <2>1. CASE Dispatch(j)
    BY <1>0, <2>1, GotoAt DEF Dispatch, IInv
  <2>2. CASE MistakeBranch(j)
    BY <1>0, <2>2, GotoAt DEF MistakeBranch, IInv
  <2> QED BY <2>1, <2>2
<1>2. ASSUME thread'[j].run = q PROVE Guided(j)'
  <2>1. thread[j].pc \in OfJob
    BY <1>0 DEF OfJob, Deciding
  <2>2. job[j].run = q
    BY <1>1, <1>2, <2>1, JobStepIsStep
  <2>3. thread'[j].pc = "request" => StepOf(j)'.kind # "choice"
    BY <1>0, <1>1, <2>1, <2>2, GuidedFacts DEF Branching
  <2>4. CASE thread'[j].pc = "request"
    BY <2>3, <2>4 DEF Guided, At, Moving
  <2>5. CASE thread'[j].pc # "request"
    BY <1>1, <2>5, QuietGuided
  <2> QED BY <2>4, <2>5
<1> QED BY <1>0, <1>1, <1>2, ThreadCourse

LEMMA RequestCourse ==
  ASSUME NEW q, Aim(q), NEW j \in Jobs, Request(j)
  PROVE  OnCourse(q)'
<1> USE DEF Aim, Stage
<1>0. /\ j \in Threads /\ UNCHANGED <<run, job>> /\ thread[j].pc = "request"
      /\ StepOf(j)' = StepOf(j) /\ thread[j].pc \in OfJob
  BY DEF Threads, Request, At, StepOf, StepsOf, OfJob, Deciding
<1>1. job[j].run = thread[j].run
  BY <1>0, JobStepIsStep
<1>2. /\ Elsewhere(j) /\ thread'[j].run = thread[j].run
      /\ thread'[j].pc \in {"succeed", "retry", "catch", "continue", "stop"}
      /\ thread'[j].pc = "catch" => thread'[j].next \in Gotos(StepOf(j))
  <2>1. CASE \E pc \in {"succeed", "retry", "continue", "stop"} : Goto(j, pc)
    BY <1>0, <2>1, GotoAt DEF IInv
  <2>2. CASE \E e \in ErrorType : \E c \in Catching(StepOf(j), e) :
               SetThread(j, "catch", job[j].run, StepOf(j).catch[c].goto)
    <3> PICK e \in ErrorType : \E c \in Catching(StepOf(j), e) :
               SetThread(j, "catch", job[j].run, StepOf(j).catch[c].goto)
      BY <2>2
    <3> PICK c \in Catching(StepOf(j), e) :
               SetThread(j, "catch", job[j].run, StepOf(j).catch[c].goto)
      OBVIOUS
    <3>1. StepOf(j).catch[c].goto \in Gotos(StepOf(j))
      BY DEF Catching, Gotos
    <3> QED BY <1>0, <1>1, <3>1, SetThreadAt DEF IInv
  <2> QED BY <2>1, <2>2 DEF Request, Fails
<1>3. ASSUME thread'[j].run = q PROVE Guided(j)'
  <2>1. StepOf(j)'.kind # "choice"
    BY <1>0, <1>1, <1>2, <1>3, GuidedFacts DEF Guided
  <2>2. Gotos(StepOf(j))' = Gotos(StepOf(j))
    BY <1>0 DEF Gotos
  <2> QED BY <1>2, <2>1, <2>2 DEF Guided, At, Moving
<1> QED BY <1>0, <1>2, <1>3, ThreadCourse

LEMMA AdvanceCourse ==
  ASSUME EndsAreAsked, NEW q, Aim(q), NEW j \in Jobs, Advance(j) \/ Choose(j) \/ PassWait(j)
  PROVE  OnCourse(q)'
<1> USE DEF Aim, Stage
<1> DEFINE r == job[j].run
<1>0. /\ j \in Threads /\ UNCHANGED <<run, job>> /\ thread[j].pc \in {"advance", "choose", "pass"}
      /\ StepOf(j)' = StepOf(j) /\ q \in Runs
  BY DEF Threads, Advance, Choose, PassWait, At, StepOf, StepsOf
<1>1. r = thread[j].run /\ thread[j].pc \in OfJob
  BY <1>0, JobStepIsStep DEF OfJob
<1>2. Elsewhere(j) /\ thread'[j].run = r /\ thread'[j].pc # "resume"
  <2>1. CASE \E i : StepOn(j, r, i) \/ StepOnOrEnd(j, r, i)
    BY <1>0, <2>1, StepOnAt DEF IInv
  <2>2. CASE Goto(j, "fail") \/ \E i : SetThread(j, "move", r, i)
    BY <1>0, <1>1, <2>2, GotoAt, SetThreadAt DEF IInv
  <2> QED BY <2>1, <2>2 DEF Advance, Choose, PassWait
<1>3. ASSUME r = q PROVE Guided(j)'
  <2>1. /\ Guided(j) /\ StepOf(j) = StepsOf(q)[run[q].step] /\ job[j].step = run[q].step
        /\ run[q].step \in 1..Len(StepsOf(q))
    BY <1>1, <1>3, GuidedFacts
  <2>2. CASE Goto(j, "fail")
    BY <1>0, <2>2, GotoAt, QuietGuided DEF IInv
  <2>3. CASE Advance(j) /\ StepOnOrEnd(j, r, job[j].step)
    <3>1. StepOf(j).kind # "choice"
      BY <2>1, <2>3 DEF Guided, Advance, At
    <3> QED BY <1>0, <1>3, <2>1, <2>3, <3>1, StepOnGuided
  <2>4. CASE Choose(j) /\ \E i \in StepOf(j).choices \cup ({StepOf(j).default} \ {0}) :
               SetThread(j, "move", r, i)
    <3>1. StepOf(j).kind = "choice"
      BY <2>1, <2>4 DEF Guided, Choose, At
    <3>2. PICK i \in StepOf(j).choices \cup ({StepOf(j).default} \ {0}) : SetThread(j, "move", r, i)
      BY <2>4
    <3>3. thread'[j].pc = "move" /\ thread'[j].run = q /\ thread'[j].next = i
      BY <1>0, <1>3, <3>2, SetThreadAt DEF IInv
    <3>4. i \in NextSteps(q)'
      BY <1>0, <2>1, <3>1, <3>2 DEF NextSteps, Walked!Successors, StepsOf
    <3> QED BY <3>3, <3>4 DEF Guided, At, OfJob, Deciding, Written
  <2>5. CASE PassWait(j)
    <3>1. StepOf(j).kind = "wait" /\ StepOn(j, r, job[j].step)
      BY <2>1, <2>5 DEF Guided, PassWait, At
    <3>2. StepsOf(q)[run[q].step].end => run[q].step = Len(StepsOf(q))
      <4>1. run[q].flow \in DOMAIN Workflows
        BY <1>0 DEF IInv, TypeOK, Run
      <4> QED BY <2>1, <3>1, <4>1 DEF EndsAreAsked, StepsOf
    <3> QED BY <1>0, <1>3, <2>1, <3>1, <3>2, StepOnGuided
  <2> QED BY <1>0, <2>2, <2>3, <2>4, <2>5 DEF Advance, Choose
<1> QED BY <1>0, <1>2, <1>3, ThreadCourse

(* What follows an outcome.                                                *)
LEMMA FollowGuided ==
  ASSUME NEW q, Aim(q), NEW j \in Jobs, job[j].run = q,
         thread[j].pc \in DOMAIN Written, ~At(j, "retry"), UNCHANGED run,
         thread'[j].pc = Follow(j), thread'[j].run = q, thread'[j].next = thread[j].next,
         job'[j].step = job[j].step, StepOf(j)' = StepOf(j)
  PROVE  Guided(j)'
<1> USE DEF Aim, Stage
<1>1. thread[j].pc \in OfJob /\ q \in Runs
  BY DEF OfJob, Deciding
<1>2. /\ Guided(j) /\ Here(j) /\ Fits(j) /\ StepOf(j) \in Step
      /\ StepOf(j) = StepsOf(q)[run[q].step] /\ thread[j].run = q
  BY <1>1, GuidedFacts
<1>3. Here(j)'
  BY <1>2 DEF Here
<1>4. CASE At(j, "catch")
  <2>1. thread'[j].pc = "move"
    BY <1>4 DEF Follow, At
  <2>2. thread[j].next \in Gotos(StepOf(j)) /\ StepOf(j).kind # "choice"
    BY <1>2, <1>4 DEF Guided, At
  <2>3. Gotos(StepOf(j)) \subseteq Walked!Successors(run[q].flow, run[q].step)
    BY <1>2, <2>2 DEF Gotos, Walked!Successors, StepsOf
  <2>4. NextSteps(q)' = Walked!Successors(run[q].flow, run[q].step)
    BY DEF NextSteps, Walked!Successors
  <2> QED BY <2>1, <2>2, <2>3, <2>4 DEF Guided, At, OfJob, Deciding, Written
<1>5. CASE thread[j].pc \in {"stop", "expire"}
  <2>1. thread'[j].pc = "fail"
    BY <1>5 DEF Follow, At
  <2> QED BY <2>1, QuietGuided
<1>6. CASE thread[j].pc \in {"succeed", "continue"}
  <2>1. thread'[j].pc \in {"count", "advance"}
    BY <1>6 DEF Follow, At
  <2>2. StepOf(j)'.kind # "choice"
    BY <1>2, <1>6 DEF Guided
  <2> QED BY <1>3, <2>1, <2>2 DEF Guided, At
<1>7. CASE At(j, "mark")
  <2>1. /\ thread'[j].pc \in {"choose", "setup", "pass", "callback", "child"}
        /\ thread'[j].pc = "choose" => StepOf(j).kind = "choice"
        /\ thread'[j].pc = "pass" => StepOf(j).kind = "wait"
        /\ thread'[j].pc = "callback" => StepOf(j).kind = "callback"
    BY <1>7 DEF Follow, At
  <2> QED BY <1>3, <2>1 DEF Guided, At
<1> QED BY <1>4, <1>5, <1>6, <1>7 DEF Written, At

LEMMA OutcomeCourse ==
  ASSUME NEW q, Aim(q), NEW j \in Jobs, WriteOutcome(j) \/ OutcomeLost(j)
  PROVE  OnCourse(q)'
<1> USE DEF Aim, Stage
<1>0. /\ j \in Threads /\ UNCHANGED run /\ thread[j].pc \in OfJob /\ thread[j].pc \in DOMAIN Written
      /\ job \in [Jobs -> Job]
  BY DEF Threads, WriteOutcome, OutcomeLost, OfJob, Deciding, Written, IInv, TypeOK
<1>1. thread[j].run = job[j].run /\ job[j].status # "none"
  BY <1>0, JobStepIsStep
<1>2. /\ job'[j].step = job[j].step /\ job'[j].run = job[j].run
      /\ \A k \in Jobs \ {j} : job'[k] = job[k]
  BY <1>0 DEF WriteOutcome, OutcomeLost, Job
<1>3. StepOf(j)' = StepOf(j)
  BY <1>0, <1>2 DEF StepOf, StepsOf
<1>4. /\ Elsewhere(j)
      /\ \/ thread'[j].pc = "idle"
         \/ /\ ~At(j, "retry") /\ thread'[j].pc = Follow(j) /\ thread'[j].run = thread[j].run
            /\ thread'[j].next = thread[j].next
  <2>1. CASE At(j, "retry") /\ End(j)
    BY <1>0, <2>1, EndAt DEF IInv
  <2>2. CASE ~At(j, "retry") /\ Goto(j, Follow(j))
    BY <1>0, <2>2, GotoAt DEF IInv
  <2> QED BY <2>1, <2>2 DEF WriteOutcome, OutcomeLost, At
<1>5. thread'[j].run = q => Guided(j)'
  BY <1>0, <1>1, <1>2, <1>3, <1>4, FollowGuided, QuietGuided
<1>6. TokenChildren(q)' \subseteq TokenChildren(q)
  <2>1. thread'[j].pc # "resume"
    BY <1>4 DEF Follow
  <2> QED BY <1>0, <1>4, <2>1, ChildrenKept DEF Elsewhere, At, Threads, Jobs
<1>7. \A u \in Threads : thread'[u] = thread[u] \/ u = j
  BY <1>4 DEF Elsewhere
<1> QED BY <1>0, <1>1, <1>2, <1>5, <1>6, <1>7, CourseKept

(* The rows of jobs and runs change, and no thread moves, or all end.      *)
LEMMA RowsCourse ==
  ASSUME NEW q, Aim(q), run'[q].step = run[q].step,
         \A t \in Threads : thread'[t] = thread[t] \/ thread'[t].pc = "idle",
         \A j \in Jobs : job[j].status = "none" => job'[j].status = "none",
         \A c \in Runs : /\ run'[c].parent = run[c].parent
                         /\ run'[c].status \in {"running", "failed"}
                              => run[c].status \in {"running", "failed"}
  PROVE  OnCourse(q)'
<1>1. TokenChildren(q)' \subseteq TokenChildren(q)
  BY ChildrenKept DEF At, Threads, Jobs
<1>2. \A t \in Threads : thread'[t] = thread[t] \/ thread'[t].run # q \/ Guided(t)'
  BY QuietGuided
<1> QED BY <1>1, <1>2, CourseKept

LEMMA QuietCourse ==
  ASSUME NEW q, Aim(q),
         \/ \E j \in Jobs : Claim(j) \/ Recover(j) \/ ExpireJob(j) \/ RetryJob(j)
         \/ RedriveJobs \/ Crash \/ (\E t \in Threads : Abandon(t))
         \/ \E r \in Runs : TimeoutPasses(r) \/ Redrive(r)
  PROVE  OnCourse(q)'
<1> USE DEF Aim, Stage
<1>0. job \in [Jobs -> Job] /\ run \in [Runs -> Run] /\ q \in Runs
  BY DEF IInv, TypeOK
<1>1. ASSUME NEW j \in Jobs, Claim(j) PROVE OnCourse(q)'
  <2>1. j \in Threads /\ UNCHANGED run /\ job[j].status # "none"
    BY <1>1 DEF Claim, Threads
  <2>2. Elsewhere(j) /\ thread'[j].pc = "start"
    BY <1>1, <2>1, SetThreadAt DEF Claim, IInv
  <2>3. \A k \in Jobs : job[k].status = "none" => job'[k] = job[k]
    BY <1>0, <1>1 DEF Claim
  <2>4. TokenChildren(q)' \subseteq TokenChildren(q)
    BY <2>1, <2>2, ChildrenKept DEF Elsewhere, At, Threads, Jobs
  <2>5. \A t \in Threads : thread'[t] = thread[t] \/ Guided(t)'
    BY <2>2, QuietGuided DEF Elsewhere
  <2> QED BY <2>1, <2>3, <2>4, <2>5, CourseKept
<1>2. ASSUME NEW j \in Jobs, Recover(j) \/ ExpireJob(j) \/ RetryJob(j) PROVE OnCourse(q)'
  <2>1. UNCHANGED <<run, thread>> /\ \A k \in Jobs : job[k].status = "none" => job'[k] = job[k]
    BY <1>0, <1>2 DEF Recover, ExpireJob, RetryJob
  <2> QED BY <2>1, RowsCourse
<1>3. CASE RedriveJobs
  <2>1. UNCHANGED <<run, thread>> /\ \A k \in Jobs : job[k].status = "none" => job'[k] = job[k]
    BY <1>0, <1>3 DEF RedriveJobs, DeadJobs
  <2> QED BY <2>1, RowsCourse
<1>4. CASE Crash \/ \E t \in Threads : Abandon(t)
  <2>1. UNCHANGED <<run, job>>
    BY <1>4 DEF Crash, Abandon
  <2>2. \A t \in Threads : thread'[t] = thread[t] \/ thread'[t].pc = "idle"
    <3>1. CASE Crash
      BY <3>1 DEF Crash, Idle
    <3>2. ASSUME NEW t \in Threads, Abandon(t)
          PROVE  \A u \in Threads : thread'[u] = thread[u] \/ thread'[u].pc = "idle"
      BY <3>2, EndAt DEF Abandon, Elsewhere, IInv
    <3> QED BY <1>4, <3>1, <3>2
  <2> QED BY <2>1, <2>2, RowsCourse
<1>5. ASSUME NEW r \in Runs, TimeoutPasses(r) \/ Redrive(r) PROVE OnCourse(q)'
  <2>1. UNCHANGED <<job, thread>>
    BY <1>5 DEF TimeoutPasses, Redrive
  <2>2. \A c \in Runs : /\ run'[c].parent = run[c].parent /\ run'[c].step = run[c].step
                        /\ run'[c].status \in {"running", "failed"}
                             => run[c].status \in {"running", "failed"}
    BY <1>0, <1>5 DEF TimeoutPasses, Redrive, Run
  <2> QED BY <1>0, <2>1, <2>2, RowsCourse
<1> QED BY <1>1, <1>2, <1>3, <1>4, <1>5

(* A job is inserted at the step where its run stands.                     *)
LEMMA InsertedCourse ==
  ASSUME NEW q, Aim(q), NEW t \in Threads, Elsewhere(t), UNCHANGED run,
         thread'[t].pc # "resume", thread'[t].run = q => Guided(t)',
         NEW status, NEW r, NEW i, NEW branch, InsertJob(status, r, i, branch),
         r = q => /\ i = run[q].step
                  /\ status = "waiting" => StepsOf(q)[i].kind = "callback"
  PROVE  OnCourse(q)'
<1> USE DEF Aim, Stage
<1> PICK k \in FreeJobs : job' = [job EXCEPT ![k] = NewJob(status, r, i, branch)]
  BY DEF InsertJob
<1>1. /\ k \in Jobs /\ job'[k] = NewJob(status, r, i, branch)
      /\ \A j \in Jobs \ {k} : job'[j] = job[j]
  BY DEF FreeJobs, IInv, TypeOK
<1>2. job'[k].status = status /\ job'[k].run = r /\ job'[k].step = i
  BY <1>1 DEF NewJob
<1>3. r = q => JobOnCourse(k)'
  BY <1>2 DEF JobOnCourse, StepOf, StepsOf
<1>4. \A j \in Jobs : job[j].status = "none" /\ job'[j].status # "none" /\ job'[j].run = q
                        => JobOnCourse(j)'
  BY <1>1, <1>2, <1>3
<1>5. TokenChildren(q)' \subseteq TokenChildren(q)
  BY ChildrenKept DEF Elsewhere, At, Threads, Jobs
<1>6. \A u \in Threads : thread'[u] = thread[u] \/ u = t
  BY DEF Elsewhere
<1> QED BY <1>4, <1>5, <1>6, CourseKept

LEMMA InsertCourse ==
  ASSUME NEW q, Aim(q), \/ \E t \in Threads : InsertNext(t)
                        \/ \E j \in Jobs : AwaitCallback(j) \/ InsertBranch(j)
  PROVE  OnCourse(q)'
<1> USE DEF Aim, Stage
<1>1. ASSUME NEW t \in Threads, InsertNext(t) PROVE OnCourse(q)'
  <2>1. /\ InsertJob("available", thread[t].run, thread[t].next, FALSE) /\ UNCHANGED run
        /\ thread'[t].pc = "idle" /\ Elsewhere(t)
    BY <1>1, EndAt DEF InsertNext, IInv
  <2>2. thread[t].run = q => thread[t].next = run[q].step
    BY <1>1 DEF InsertNext, OnCourse, Guided
  <2>3. Guided(t)' /\ thread'[t].pc # "resume" /\ "available" # "waiting"
    BY <2>1, QuietGuided
  <2> QED BY <2>1, <2>2, <2>3, InsertedCourse
<1>2. ASSUME NEW j \in Jobs, AwaitCallback(j) PROVE OnCourse(q)'
  <2>1. /\ InsertJob("waiting", job[j].run, job[j].step, FALSE) /\ UNCHANGED run
        /\ thread'[j].pc = "idle" /\ Elsewhere(j) /\ j \in Threads /\ At(j, "callback")
    BY <1>2, EndAt DEF AwaitCallback, InsertCallback, IInv, Threads
  <2>2. job[j].run = q => job[j].step = run[q].step /\ StepsOf(q)[job[j].step].kind = "callback"
    BY <2>1, GuidedFacts DEF Guided, At, OfJob
  <2>3. Guided(j)' /\ thread'[j].pc # "resume"
    BY <2>1, QuietGuided
  <2> QED BY <2>1, <2>2, <2>3, InsertedCourse
<1>3. ASSUME NEW j \in Jobs, InsertBranch(j) PROVE OnCourse(q)'
  <2>1. /\ InsertJob("available", job[j].run, job[j].step, TRUE) /\ UNCHANGED run
        /\ j \in Threads /\ thread[j].pc = "fan" /\ thread[j].pc \in OfJob
    BY <1>3 DEF InsertBranch, Threads, At, OfJob
  <2>2. job[j].status # "none" /\ job[j].run = thread[j].run
    BY <2>1, JobStepIsStep
  <2>3. job'[j].step = job[j].step
    BY <2>2 DEF Kept, JobsKept
  <2>4. /\ Elsewhere(j)
        /\ \/ thread'[j].pc = "idle"
           \/ thread'[j].pc = "fan" /\ thread'[j].run = thread[j].run
    <3>1. CASE thread[j].next = 1
      <4>1. End(j)
        BY <1>3, <3>1 DEF InsertBranch
      <4> QED BY <2>1, <4>1, EndAt DEF IInv
    <3>2. CASE thread[j].next # 1
      <4>1. thread' = [thread EXCEPT ![j].next = @ - 1]
        BY <1>3, <3>2 DEF InsertBranch
      <4> QED BY <2>1, <4>1 DEF IInv, TypeOK, Thread, Elsewhere
    <3> QED BY <3>1, <3>2
  <2>5. job[j].run = q => job[j].step = run[q].step /\ Here(j)
    BY <2>1, GuidedFacts
  <2>6. thread'[j].run = q => Guided(j)'
    <3>1. CASE thread'[j].pc = "idle"
      BY <3>1, QuietGuided
    <3>2. ASSUME thread'[j].pc = "fan", thread'[j].run = thread[j].run, thread'[j].run = q
          PROVE  Guided(j)'
      BY <2>1, <2>2, <2>3, <2>5, <3>2 DEF Guided, At, Here
    <3> QED BY <2>4, <3>1, <3>2
  <2>7. thread'[j].pc # "resume"
    BY <2>4
  <2> QED BY <2>1, <2>4, <2>5, <2>6, <2>7, InsertedCourse
<1> QED BY <1>1, <1>2, <1>3

LEMMA CallbackCourse ==
  ASSUME NEW q, Aim(q), NEW j \in Jobs, CallbackArrives(j)
  PROVE  OnCourse(q)'
<1> USE DEF Aim, Stage
<1>0. /\ j \in Threads /\ job[j].status = "waiting" /\ UNCHANGED run /\ job \in [Jobs -> Job]
      /\ StepOnOrEnd(j, job[j].run, job[j].step) /\ q \in Runs
  BY DEF Threads, CallbackArrives, ResumeJob, IInv, TypeOK
<1>1. thread'[j].run = job[j].run /\ thread'[j].pc \in {"move", "complete"} /\ Elsewhere(j)
  BY <1>0, StepOnAt DEF IInv
<1>2. \A k \in Jobs : job[k].status = "none" => job'[k] = job[k]
  BY <1>0 DEF CallbackArrives, ResumeJob
<1>3. ASSUME job[j].run = q PROVE Guided(j)'
  <2>1. Inside(q, job[j].step) /\ JobOnCourse(j)
    BY <1>0, <1>3 DEF IInv, StepsExist, JobInside, OnCourse
  <2>2. /\ job[j].step = run[q].step /\ StepsOf(q)[job[j].step].kind = "callback"
        /\ job[j].step \in 1..Len(StepsOf(q))
    BY <1>0, <1>3, <2>1 DEF JobOnCourse, Unfinished, Inside, StepOf
  <2> QED BY <1>0, <1>3, <2>2, StepOnGuided
<1>4. TokenChildren(q)' \subseteq TokenChildren(q)
  BY <1>0, <1>1, ChildrenKept DEF Elsewhere, At, Threads, Jobs
<1>5. \A u \in Threads : thread'[u] = thread[u] \/ u = j
  BY <1>1 DEF Elsewhere
<1> QED BY <1>0, <1>1, <1>2, <1>3, <1>4, <1>5, CourseKept

(* The branches of a step.                                                 *)
SameRun(c) ==
  /\ run'[c].status = run[c].status /\ run'[c].flow = run[c].flow
  /\ run'[c].step = run[c].step /\ run'[c].parent = run[c].parent

LEMMA JoinColumns ==
  ASSUME IInv, NEW j \in Jobs,
         SetUpBranches(j) \/ CountBranch(j) \/ ReadCount(j) \/ MergeBranches(j)
  PROVE  \A c \in Runs : SameRun(c)
<1> DEFINE r == job[j].run
<1>0. run \in [Runs -> Run] /\ thread[j].pc \in OfJob
  BY DEF IInv, TypeOK, SetUpBranches, CountBranch, ReadCount, MergeBranches, At, OfJob
<1>1. r \in Runs /\ StepOf(j) \in Step
  BY <1>0, JobStepIsStep
<1>2. ASSUME NEW n \in Nat, SetParallel(r, n) PROVE \A c \in Runs : SameRun(c)
  BY <1>0, <1>1, <1>2 DEF SetParallel, Run, SameRun
<1>3. CASE SetUpBranches(j)
  <2>1. PICK n \in IF StepOf(j).kind = "map" THEN ItemCounts ELSE {StepOf(j).branches} :
          UNCHANGED run \/ SetParallel(r, n)
    BY <1>3 DEF SetUpBranches
  <2>2. n \in Nat
    BY <1>1, <2>1, BoundsAssumption DEF BoundsAssumption, Step
  <2> QED BY <1>2, <2>1, <2>2 DEF SameRun
<1>4. CASE CountBranch(j)
  BY <1>0, <1>1, <1>4 DEF CountBranch, Run, SameRun
<1>5. CASE ReadCount(j)
  BY <1>5 DEF ReadCount, SameRun
<1>6. CASE MergeBranches(j)
  BY <1>2, <1>6 DEF MergeBranches
<1> QED BY <1>3, <1>4, <1>5, <1>6

LEMMA JoinCourse ==
  ASSUME NEW q, Aim(q), NEW j \in Jobs,
         SetUpBranches(j) \/ CountBranch(j) \/ ReadCount(j) \/ MergeBranches(j)
  PROVE  OnCourse(q)'
<1> USE DEF Aim, Stage
<1> DEFINE r == job[j].run
<1>0. /\ j \in Threads /\ UNCHANGED job /\ q \in Runs
      /\ thread[j].pc \in {"setup", "count", "tally", "merge"} /\ thread[j].pc \in OfJob
  BY DEF Threads, SetUpBranches, CountBranch, ReadCount, MergeBranches, At, OfJob
<1>1. r = thread[j].run /\ r \in Runs
  BY <1>0, JobStepIsStep
<1>2. \A c \in Runs : SameRun(c)
  BY JoinColumns
<1>3. /\ Elsewhere(j)
      /\ \/ thread'[j].pc = "idle"
         \/ thread'[j].pc \in {"fan", "tally", "merge"} /\ thread'[j].run = r
         \/ /\ MergeBranches(j) /\ StepOnOrEnd(j, r, job[j].step)
            /\ thread'[j].pc \in {"move", "complete"} /\ thread'[j].run = r
  <2>1. CASE End(j)
    BY <1>0, <2>1, EndAt DEF IInv
  <2>2. CASE Goto(j, "tally") \/ Goto(j, "merge") \/ \E n : SetThread(j, "fan", r, n)
    BY <1>0, <1>1, <2>2, GotoAt, SetThreadAt DEF IInv
  <2>3. CASE MergeBranches(j)
    BY <1>0, <2>3, StepOnAt DEF MergeBranches, IInv
  <2> QED BY <2>1, <2>2, <2>3 DEF SetUpBranches, CountBranch, ReadCount
<1>4. ASSUME r = q PROVE Guided(j)'
  <2>1. /\ Here(j) /\ Fits(j) /\ StepOf(j) = StepsOf(q)[run[q].step] /\ job[j].step = run[q].step
        /\ run[q].step \in 1..Len(StepsOf(q)) /\ (job[j].branch => StepOf(j).kind \in Branching)
    BY <1>0, <1>4, GuidedFacts
  <2>2. CASE thread'[j].pc = "idle"
    BY <2>2, QuietGuided
  <2>3. CASE thread'[j].pc \in {"fan", "tally", "merge"} /\ thread'[j].run = r
    BY <1>0, <1>2, <1>4, <2>1, <2>3 DEF Guided, At, Here, SameRun
  <2>4. CASE MergeBranches(j) /\ StepOnOrEnd(j, r, job[j].step)
    <3>1. StepOf(j).kind \in Branching
      BY <2>1, <2>4 DEF Fits, MergeBranches, At
    <3> QED BY <1>0, <1>2, <1>4, <2>1, <2>4, <3>1, StepOnGuided DEF Branching, SameRun
  <2> QED BY <1>3, <2>2, <2>3, <2>4
<1>5. TokenChildren(q)' \subseteq TokenChildren(q)
  BY <1>2, <1>3, ChildrenKept DEF Elsewhere, At, Threads, Jobs, SameRun
<1>6. \A u \in Threads : thread'[u] = thread[u] \/ u = j
  BY <1>3 DEF Elsewhere
<1>7. thread'[j].run = q => Guided(j)'
  BY <1>3, <1>4, QuietGuided
<1> HIDE DEF r
<1> QED BY <1>0, <1>2, <1>5, <1>6, <1>7, CourseKept DEF SameRun

(* A run begins at its first step.                                         *)
LEMMA NewbornCourse ==
  ASSUME NEW q, Aim(q), NEW t \in Threads, UNCHANGED job, run[q].status = "none",
         run'[q].step = 1, run'[q].parent # q,
         \A c \in Runs \ {q} : run'[c] = run[c], SetThread(t, "insert", q, 1)
  PROVE  OnCourse(q)'
<1> USE DEF Aim, Stage
<1>0. q \in Runs /\ q # 0 /\ Threads' = Threads /\ Jobs' = Jobs /\ Runs' = Runs
  BY DEF Threads, Jobs, Runs
<1>1. /\ Elsewhere(t) /\ thread'[t].pc = "insert" /\ thread'[t].run = q /\ thread'[t].next = 1
  BY SetThreadAt DEF IInv
<1>2. ASSUME NEW u \in Threads, thread'[u].run = q PROVE Guided(u)'
  <2>1. CASE u = t
    BY <1>1, <2>1 DEF Guided, At, OfJob, Deciding, Written
  <2>2. CASE u # t
    <3>1. thread'[u] = thread[u]
      BY <1>1, <2>2 DEF Elsewhere
    <3>2. thread'[u].pc = "idle"
      BY <1>2, <3>1 DEF IInv, StepsExist, ThreadInside, Inside, At
    <3> QED BY <3>2, QuietGuided
  <2> QED BY <2>1, <2>2
<1>3. \A j \in Jobs : job'[j].run # q
  BY <1>0 DEF IInv, StepsExist, JobInside, Inside, Blank
<1>4. ASSUME NEW c \in TokenChildren(q)' PROVE FALSE
  <2>1. c \in Runs /\ run'[c].parent = q
    BY <1>0 DEF TokenChildren
  <2>2. run[c].parent = q
    BY <2>1
  <2> QED BY <1>0, <2>1, <2>2 DEF IInv, StepsExist, ParentInside, Inside
<1> QED BY <1>0, <1>2, <1>3, <1>4 DEF OnCourse

LEMMA BeginCourse ==
  ASSUME NEW q, Aim(q), (\E f \in Roots : StartWorkflow(f)) \/ \E j \in Jobs : LaunchChild(j)
  PROVE  OnCourse(q)'
<1> USE DEF Aim, Stage
<1>0. q \in Runs /\ q # 0 /\ Runs' = Runs /\ run \in [Runs -> Run]
  BY DEF Runs, IInv, TypeOK
<1>1. ASSUME NEW f, NEW t \in Threads, NEW p, NEW i, NEW c \in FreeRuns, UNCHANGED job,
             run' = [run EXCEPT ![c] = NewRun(f, p, i)], SetThread(t, "insert", c, 1),
             p = 0 \/ (p \in Runs /\ run[p].status # "none"),
             p = q => i = run[q].step /\ StepsOf(q)[i].kind = "workflow"
      PROVE  OnCourse(q)'
  <2>1. /\ c \in Runs /\ run[c].status = "none" /\ run'[c] = NewRun(f, p, i)
        /\ \A r \in Runs \ {c} : run'[r] = run[r]
    BY <1>0, <1>1 DEF FreeRuns
  <2>2. run'[c].step = 1 /\ run'[c].parent = p /\ run'[c].at = i
    BY <2>1 DEF NewRun
  <2>3. CASE c = q
    <3>1. p # q
      BY <1>0, <1>1, <2>1, <2>3
    <3> QED BY <1>1, <2>1, <2>2, <2>3, <3>1, NewbornCourse
  <2>4. CASE c # q
    <3>1. /\ Elsewhere(t) /\ thread'[t].pc = "insert" /\ thread'[t].run = c
      BY <1>1, SetThreadAt DEF IInv
    <3>2. ASSUME NEW d \in TokenChildren(q)' PROVE d \in TokenChildren(q) \/ ChildOnCourse(d)'
      <4>1. d \in Runs /\ run'[d].parent = q
        BY <1>0 DEF TokenChildren
      <4>2. CASE d = c
        <5>1. run'[d].parent = q /\ run'[d].at = run'[q].step /\ StepsOf(q)' = StepsOf(q)
              /\ StepsOf(q)[run'[d].at].kind = "workflow"
          BY <1>1, <1>0, <2>1, <2>2, <2>4, <4>1, <4>2 DEF StepsOf
        <5> QED BY <5>1 DEF ChildOnCourse
      <4>3. CASE d # c
        <5>1. run'[d] = run[d] /\ Threads' = Threads
          BY <2>1, <4>1, <4>3 DEF Threads, Jobs
        <5>2. \A u \in Threads : thread'[u].pc = "resume" => thread'[u] = thread[u]
          BY <3>1 DEF Elsewhere
        <5> QED BY <1>0, <5>1, <5>2 DEF TokenChildren, At
      <4> QED BY <4>2, <4>3
    <3>3. \A u \in Threads : thread'[u] = thread[u] \/ u = t
      BY <3>1 DEF Elsewhere
    <3> QED BY <1>0, <1>1, <2>1, <2>4, <3>1, <3>2, <3>3, CourseKept
  <2> QED BY <2>3, <2>4
<1>2. ASSUME NEW f \in Roots, StartWorkflow(f) PROVE OnCourse(q)'
  <2> PICK c \in FreeRuns : /\ run' = [run EXCEPT ![c] = NewRun(f, 0, 0)]
                            /\ SetThread(0, "insert", c, 1)
    BY <1>2 DEF StartWorkflow, InsertRun
  <2>1. 0 \in Threads /\ UNCHANGED job
    BY <1>2 DEF Threads, StartWorkflow
  <2> QED BY <1>0, <1>1, <2>1
<1>3. ASSUME NEW j \in Jobs, LaunchChild(j) PROVE OnCourse(q)'
  <2> DEFINE f == StepOf(j).child
             p == job[j].run
             i == job[j].step
  <2> PICK c \in FreeRuns : /\ run' = [run EXCEPT ![c] = NewRun(f, p, i)]
                            /\ SetThread(j, "insert", c, 1)
    BY <1>3 DEF LaunchChild, InsertRun
  <2>1. j \in Threads /\ UNCHANGED job /\ thread[j].pc = "child" /\ thread[j].pc \in OfJob
    BY <1>3 DEF Threads, LaunchChild, At, OfJob
  <2>2. p \in Runs /\ run[p].status # "none"
    BY <2>1, JobStepIsStep DEF Inside
  <2>3. p = q => i = run[q].step /\ StepsOf(q)[i].kind = "workflow"
    <3>1. StepOf(j).kind = "workflow"
      BY <2>1 DEF IInv, StepsExist, ThreadInside, At
    <3> QED BY <2>1, <3>1, GuidedFacts
  <2> HIDE DEF f, p, i
  <2> QED BY <1>1, <2>1, <2>2, <2>3
<1> QED BY <1>2, <1>3

(* A run settles, or gives its parent back.                                *)
LEMMA SettleCourse ==
  ASSUME NEW q, Aim(q), NEW t \in Threads, CompleteRun(t) \/ FailRun(t)
  PROVE  OnCourse(q)'
<1> USE DEF Aim, Stage
<1> DEFINE r == thread[t].run
<1>0. UNCHANGED job /\ thread[t].pc \in {"complete", "fail"} /\ q \in Runs
  BY DEF CompleteRun, FailRun, At
<1>1. /\ Elsewhere(t)
      /\ \/ thread'[t].pc = "resume" /\ thread'[t].run = r
         \/ thread'[t].pc = "idle" /\ thread'[t].run = 0
  BY GotoAt, EndAt DEF CompleteRun, FailRun, IInv, Idle
<1>2. /\ \A c \in Runs \ {r} : run'[c] = run[c]
      /\ run'[r].parent = run[r].parent /\ run'[q].step = run[q].step
  <2>1. r \in Runs
    BY <1>0 DEF IInv, StepsExist, ThreadInside, Inside, At
  <2> QED BY <1>0, <2>1 DEF CompleteRun, FailRun, IInv, TypeOK, Run
<1>3. TokenChildren(q)' \subseteq TokenChildren(q)
  BY <1>0, <1>1, <1>2, ChildSettles DEF Elsewhere
<1>4. \A u \in Threads : thread'[u] = thread[u] \/ Guided(u)'
  BY <1>1, QuietGuided DEF Elsewhere
<1> QED BY <1>0, <1>2, <1>3, <1>4, CourseKept

LEMMA ResumeCourse ==
  ASSUME EndsAreAsked, NEW q, Aim(q), NEW t \in Threads, ResumeParent(t)
  PROVE  OnCourse(q)'
<1> USE DEF Aim, Stage
<1> DEFINE c == thread[t].run
           p == run[c].parent
<1>0. UNCHANGED <<run, job>> /\ At(t, "resume") /\ q \in Runs /\ q # 0 /\ c \in Runs
  BY DEF ResumeParent, Runs, IInv, StepsExist, ThreadInside, Inside, At
<1>1. CASE p = 0
  <2>1. Elsewhere(t) /\ thread'[t].pc = "idle"
    BY <1>1, EndAt DEF ResumeParent, IInv
  <2> QED BY <1>0, <2>1, QuietGuided, ThreadCourse
<1>2. CASE p # 0
  <2>1. StepOn(t, p, run[c].at)
    BY <1>2 DEF ResumeParent
  <2>2. Elsewhere(t) /\ thread'[t].run = p /\ thread'[t].pc \in {"move", "complete"}
    BY <2>1, StepOnAt DEF IInv
  <2>3. ASSUME p = q PROVE Guided(t)'
    <3>1. c \in TokenChildren(q) /\ Inside(q, run[c].at)
      BY <1>0, <2>3 DEF TokenChildren, IInv, StepsExist, ParentInside
    <3>2. run[c].at = run[q].step /\ StepsOf(q)[run[q].step].kind = "workflow"
          /\ run[q].step \in 1..Len(StepsOf(q))
      BY <2>3, <3>1 DEF OnCourse, ChildOnCourse, Inside
    <3>3. StepsOf(q)[run[q].step].end => run[q].step = Len(StepsOf(q))
      <4>1. run[q].flow \in DOMAIN Workflows
        BY <1>0 DEF IInv, TypeOK, Run
      <4> QED BY <3>2, <4>1 DEF EndsAreAsked, StepsOf
    <3> QED BY <1>0, <2>1, <2>3, <3>2, <3>3, StepOnGuided
  <2>4. thread'[t].pc # "resume" /\ (thread'[t].run = q => Guided(t)')
    BY <2>2, <2>3
  <2> QED BY <1>0, <2>2, <2>4, ThreadCourse
<1> QED BY <1>1, <1>2

(* The move takes the only token of its run along.                         *)
LEMMA MoveCourse ==
  ASSUME NEW q, Aim(q), NEW t \in Threads, MoveRun(t)
  PROVE  OnCourse(q)'
<1> USE DEF Aim, Stage
<1> DEFINE r == thread[t].run
<1>0. /\ UNCHANGED job /\ thread[t].pc = "move" /\ q \in Runs /\ run \in [Runs -> Run]
      /\ Threads' = Threads /\ Jobs' = Jobs
  BY DEF MoveRun, At, IInv, TypeOK, Threads, Jobs
<1>1. thread'[t].run = r /\ thread'[t].pc = "insert" /\ thread'[t].next = thread[t].next
      /\ Elsewhere(t)
  BY GotoAt DEF MoveRun, IInv
<1>2. /\ \A c \in Runs \ {r} : run'[c] = run[c]
      /\ \A c \in Runs : run'[c].parent = run[c].parent /\ run'[c].status = run[c].status
      /\ r \in Runs => run'[r].step = thread[t].next
  BY <1>0 DEF MoveRun, Run
<1>3. TokenChildren(q)' \subseteq TokenChildren(q)
  BY <1>1, <1>2, ChildrenKept DEF Elsewhere, At, Threads, Jobs
<1>4. CASE r # q
  <2>1. \A u \in Threads : thread'[u] = thread[u] \/ thread'[u].run # q
    BY <1>1, <1>4 DEF Elsewhere
  <2> QED BY <1>0, <1>2, <1>3, <1>4, <2>1, CourseKept
<1>5. CASE r = q
  <2>1. t \in TokenThreads(q) /\ Sound(q)
    BY <1>0, <1>5 DEF TokenThreads, Moving, Joining, At
  <2>2. /\ TokenThreads(q) = {t} /\ TokenJobs(q) = {} /\ TokenChildren(q) = {}
        /\ Uncounted(q) = {} /\ Joiners(q) = {}
    BY <2>1, OnlyThread DEF Sound
  <2>3. ASSUME NEW j \in Jobs, job[j].run = q PROVE ~Unfinished(j)
    BY <2>2, <2>3 DEF TokenJobs, Uncounted, Unfinished
  <2>4. ASSUME NEW j \in Jobs, job'[j].run = q PROVE JobOnCourse(j)'
    BY <1>0, <2>3, <2>4 DEF JobOnCourse, Unfinished
  <2>5. ASSUME NEW u \in Threads, thread'[u].run = q PROVE Guided(u)'
    <3>1. CASE u = t
      BY <1>0, <1>1, <1>2, <1>5, <3>1 DEF Guided, At, OfJob, Deciding, Written
    <3>2. CASE u # t
      <4>1. thread'[u] = thread[u]
        BY <1>1, <3>2 DEF Elsewhere
      <4>2. thread[u].pc \notin Moving \ {"fail"}
        BY <2>2, <2>5, <3>2, <4>1 DEF TokenThreads, Joiners, At
      <4>3. thread[u].pc \notin Deciding
        <5> SUFFICES ASSUME thread[u].pc \in Deciding PROVE FALSE
          OBVIOUS
        <5>1. u \in Jobs /\ job[u].run = q
          BY <2>5, <4>1 DEF IInv, StepsExist, ThreadInside, OfJob
        <5>2. job[u].status = "running"
          BY <5>1 DEF Delivered
        <5> QED BY <2>3, <5>1, <5>2 DEF Unfinished
      <4>4. thread'[u].pc \in {"idle", "fail"}
        BY <4>1, <4>2, <4>3 DEF IInv, TypeOK, Thread
      <4> QED BY <4>4, QuietGuided
    <3> QED BY <3>1, <3>2
  <2>6. TokenChildren(q)' = {}
    BY <1>3, <2>2
  <2> QED BY <1>0, <2>4, <2>5, <2>6 DEF OnCourse
<1> QED BY <1>4, <1>5

-----------------------------------------------------------------------------
LEMMA CourseNext ==
  ASSUME EndsAreAsked, NEW q, Aim(q), Move
  PROVE  OnCourse(q)'
<1>1. ASSUME NEW j \in Jobs, JobStep(j) PROVE OnCourse(q)'
  BY <1>1, DispatchCourse, RequestCourse, OutcomeCourse, AdvanceCourse, JoinCourse, InsertCourse,
     BeginCourse
     DEF JobStep
<1>2. ASSUME NEW t \in Threads, RunStep(t) PROVE OnCourse(q)'
  BY <1>2, MoveCourse, InsertCourse, SettleCourse, ResumeCourse DEF RunStep
<1>3. ASSUME NEW j \in Jobs, \/ Claim(j) \/ Recover(j) \/ CallbackArrives(j) \/ MistakeBranch(j)
                             \/ OutcomeLost(j) \/ ExpireJob(j) \/ RetryJob(j)
      PROVE  OnCourse(q)'
  BY <1>3, QuietCourse, CallbackCourse, DispatchCourse, OutcomeCourse
<1> QED BY <1>1, <1>2, <1>3, BeginCourse, QuietCourse DEF Move

AllOnCourse == \A r \in Runs \ Loose : OnCourse(r)

LEMMA AllOnCourseNext ==
  ASSUME EndsAreAsked, IInv, IInv', Placed, AllOnCourse, [Next]_vars
  PROVE  AllOnCourse'
<1>1. CASE Next
  <2>1. Kept
    BY <1>1, StepKeeps DEF Placed
  <2>2. Loose \subseteq Loose' /\ Runs' = Runs
    BY <2>1, LooseGrows DEF Placed, Runs
  <2>3. ASSUME NEW q \in Runs, q \notin Loose' PROVE OnCourse(q)'
    <3>1. q \notin loosened'
      BY <2>2, <2>3 DEF Loose, WithParents
    <3>2. Aim(q)
      BY <2>1, <2>2, <2>3, <3>1 DEF Aim, Stage, Placed, AllOnCourse
    <3> QED BY <1>1, <3>2, CourseNext DEF Next
  <2> QED BY <2>2, <2>3 DEF AllOnCourse
<1>2. CASE UNCHANGED vars
  <2>1. UNCHANGED <<run, job, thread, loosened>>
    BY <1>2 DEF vars, historyVars
  <2>2. /\ Jobs' = Jobs /\ Threads' = Threads /\ Runs' = Runs
    BY DEF Jobs, Threads, Runs
  <2>3. Loose' = Loose
    BY <2>1, <2>2 DEF Loose, WithParents, CatchesBranches, StepsOf
  <2>4. ASSUME NEW q \in Runs \ Loose PROVE OnCourse(q)'
    <3>1. OnCourse(q)
      BY DEF AllOnCourse
    <3>2. ASSUME NEW t \in Threads, thread[t].run = q PROVE Guided(t)'
      <4>1. Guided(t)
        BY <3>1, <3>2 DEF OnCourse
      <4>2. IsFinal(q) => IsFinal(q)'
        BY <2>1 DEF IsFinal, Walked!Final
      <4>3. NextSteps(q)' = NextSteps(q)
        BY <2>1 DEF NextSteps, Walked!Successors
      <4> QED BY <2>1, <3>2, <4>1, <4>2, <4>3 DEF Guided, At, StepOf, StepsOf, Gotos, Here
    <3>3. ASSUME NEW j \in Jobs, job[j].run = q PROVE JobOnCourse(j)'
      BY <2>1, <3>1, <3>3 DEF OnCourse, JobOnCourse, Unfinished, StepOf, StepsOf
    <3>4. ASSUME NEW c \in TokenChildren(q)' PROVE ChildOnCourse(c)'
      <4>1. c \in TokenChildren(q)
        BY <2>1, <2>2 DEF TokenChildren, At
      <4> QED BY <2>1, <3>1, <4>1 DEF OnCourse, ChildOnCourse, StepsOf
    <3> QED BY <2>1, <2>2, <3>2, <3>3, <3>4 DEF OnCourse
  <2> QED BY <2>2, <2>3, <2>4 DEF AllOnCourse
<1> QED BY <1>1, <1>2

LEMMA CourseInvariant ==
  ASSUME EndsAreAsked
  PROVE  Spec => [](IInv /\ Placed /\ AllOnCourse)
<1>1. ASSUME Init PROVE AllOnCourse
  <2>1. \A t \in Threads : thread[t].pc = "idle"
    BY <1>1 DEF Init, Idle
  <2>2. \A j \in Jobs : job[j].run = 0
    BY <1>1 DEF Init, NewJob
  <2>3. \A c \in Runs : run[c].parent = 0
    BY <1>1 DEF Init, NoRun, NewRun
  <2>4. ASSUME NEW q \in Runs PROVE OnCourse(q)
    <3>1. q # 0
      BY DEF Runs
    <3>2. \A t \in Threads : Guided(t)
      BY <2>1 DEF Guided, At, OfJob, Moving
    <3>3. TokenChildren(q) = {}
      BY <2>3, <3>1 DEF TokenChildren
    <3> QED BY <2>2, <3>1, <3>2, <3>3 DEF OnCourse
  <2> QED BY <2>4 DEF AllOnCourse
<1>2. IInv /\ IInv' /\ Placed /\ AllOnCourse /\ [Next]_vars => AllOnCourse'
  BY AllOnCourseNext
<1>3. Spec => [](IInv /\ Placed)
  BY PlacedInvariant
<1> QED BY <1>1, <1>2, <1>3, PTL DEF Spec

-----------------------------------------------------------------------------
(* The refinement.  A step either leaves the three columns alone that      *)
(* WorkflowWalk knows, or writes the row of one run.                       *)
LEMMA LooseStill ==
  ASSUME \A r \in Runs : /\ run'[r].flow = run[r].flow /\ run'[r].parent = run[r].parent
                         /\ run'[r].status = "none" <=> run[r].status = "none",
         UNCHANGED loosened
  PROVE  Loose' = Loose
<1> DEFINE B == {r \in Runs : r \in loosened \/ (run[r].status # "none" /\ CatchesBranches(r))}
<1>1. \A r \in Runs : CatchesBranches(r) <=> CatchesBranches(r)'
  BY DEF CatchesBranches, StepsOf
<1>2. B' = B /\ Runs' = Runs
  BY <1>1 DEF Runs
<1>3. \A U \in SUBSET Runs : (\A c \in U : run'[c].parent # 0 => run'[c].parent \in U)
                               <=> (\A c \in U : run[c].parent # 0 => run[c].parent \in U)
  OBVIOUS
<1>4. WithParents(B)' = WithParents(B)
  <2> HIDE DEF B
  <2> QED BY <1>2, <1>3 DEF WithParents
<1> QED BY <1>4 DEF Loose

LEMMA NoRowMoves ==
  ASSUME Kept, Blank, \A r \in Runs : SameRun(r)
  PROVE  [Walked!WalkNext]_(Walked!walkVars)
<1>1. Runs' = Runs
  BY DEF Runs
<1>2. [r \in Runs |-> [status |-> run[r].status, flow |-> run[r].flow, at |-> run[r].step]]'
        = [r \in Runs |-> [status |-> run[r].status, flow |-> run[r].flow, at |-> run[r].step]]
  BY <1>1 DEF SameRun
<1>3. CASE Loose' = Loose
  BY <1>2, <1>3 DEF Walked!walkVars
<1>4. CASE Loose' # Loose
  <2>1. Loose \subseteq Loose' /\ Loose' \subseteq Runs
    BY <1>1, LooseGrows DEF Loose, WithParents
  <2>2. PICK r \in Runs : r \in Loose'
    BY <1>4, <2>1
  <2>3. Walked!Loosen(r)
    BY <1>2, <2>1, <2>2 DEF Walked!Loosen
  <2> QED BY <2>3 DEF Walked!WalkNext
<1> QED BY <1>3, <1>4

OneRow(r) ==
  /\ \A k \in Runs \ {r} : SameRun(k)
  /\ run'[r].flow = run[r].flow /\ run'[r].parent = run[r].parent

LEMMA RowMoves ==
  ASSUME NEW r \in Runs, OneRow(r), UNCHANGED loosened,
         run[r].status # "none", run'[r].status # "none"
  PROVE  /\ r \in Loose => Walked!Stray(r)
         /\ run[r].status \in {"running", "failed"} =>
              /\ run'[r].status = run[r].status /\ run'[r].step \in NextSteps(r)
                   => Walked!Advance(r)
              /\ IsFinal(r) /\ run'[r].status = "completed" /\ run'[r].step = run[r].step
                   => Walked!Finish(r)
              /\ run[r].status = "running" /\ run'[r].status = "failed"
                 /\ run'[r].step = run[r].step => Walked!Fail(r)
              /\ run[r].status = "failed" /\ run'[r].status = "running"
                 /\ run'[r].step = run[r].step => Walked!Redrive(r)
<1>1. Loose' = Loose
  BY LooseStill DEF OneRow, SameRun
<1>2. Runs' = Runs
  BY DEF Runs
<1>3. r \in Loose => Walked!Stray(r)
  BY <1>1, <1>2 DEF Walked!Stray, OneRow, SameRun
<1>4. ASSUME run[r].status \in {"running", "failed"}, run'[r].status = run[r].status,
             run'[r].step \in NextSteps(r)
      PROVE  Walked!Advance(r)
  <2>1. PICK i : i = run'[r].step
    OBVIOUS
  <2>2. i \in NextSteps(r)
    BY <1>4, <2>1
  <2> DEFINE W == [k \in Runs |-> [status |-> run[k].status, flow |-> run[k].flow,
                                   at |-> run[k].step]]
  <2>3. W[r].status = run[r].status /\ W[r].flow = run[r].flow /\ W[r].at = run[r].step
    OBVIOUS
  <2>4. W' = [W EXCEPT ![r].status = W[r].status, ![r].at = i]
    BY <1>2, <1>4, <2>1 DEF OneRow, SameRun
  <2>5. i \in Walked!Successors(W[r].flow, W[r].at)
    <3> HIDE DEF W
    <3> QED BY <2>2, <2>3 DEF NextSteps
  <2>6. Walked!Unfinished(r)
    BY <1>4 DEF Walked!Unfinished
  <2> QED BY <1>1, <2>4, <2>5, <2>6 DEF Walked!Advance, Walked!Put
<1>5. ASSUME run[r].status \in {"running", "failed"}, IsFinal(r), run'[r].status = "completed",
             run'[r].step = run[r].step
      PROVE  Walked!Finish(r)
  <2>1. Walked!Put(r, "completed", [k \in Runs |-> [status |-> run[k].status, flow |-> run[k].flow,
                                                    at |-> run[k].step]][r].at)
    BY <1>1, <1>2, <1>5 DEF Walked!Put, OneRow, SameRun
  <2>2. Walked!Unfinished(r)
    BY <1>5 DEF Walked!Unfinished
  <2>3. Walked!Final(run[r].flow, run[r].step)
    BY <1>5 DEF IsFinal
  <2> QED BY <2>1, <2>2, <2>3 DEF Walked!Final, Walked!Finish, Walked!Put
<1>6. ASSUME run[r].status = "running", run'[r].status = "failed", run'[r].step = run[r].step
      PROVE  Walked!Fail(r)
  BY <1>1, <1>2, <1>6 DEF Walked!Fail, Walked!Put, OneRow, SameRun
<1>7. ASSUME run[r].status = "failed", run'[r].status = "running", run'[r].step = run[r].step
      PROVE  Walked!Redrive(r)
  BY <1>1, <1>2, <1>7 DEF Walked!Redrive, Walked!Put, OneRow, SameRun
<1> QED BY <1>3, <1>4, <1>5, <1>6, <1>7

(* A thread that works on a run that is not loose finds it unfinished.     *)
LEMMA FoundUnfinished ==
  ASSUME IInv, Placed, NEW t \in Threads, thread[t].run \notin Loose,
         At(t, "move") \/ At(t, "complete") \/ At(t, "fail")
  PROVE  run[thread[t].run].status \in {"running", "failed"}
<1> DEFINE r == thread[t].run
<1>1. r \in Runs /\ run[r].status # "none" /\ run \in [Runs -> Run]
  BY DEF At, IInv, TypeOK, StepsExist, ThreadInside, Inside
<1>2. Ended(r)
  BY <1>1 DEF Placed, Sound
<1>3. ~At(t, "fail") => t \in TokenThreads(r) /\ ~At(t, "resume")
  BY DEF TokenThreads, Moving, Joining, At
<1>4. run[r].status # "completed"
  BY <1>2, <1>3, NotEnded
<1> QED BY <1>1, <1>4 DEF Run, RunStatus

LEMMA MoveWalks ==
  ASSUME IInv, Placed, AllOnCourse, NEW t \in Threads, MoveRun(t) \/ CompleteRun(t)
  PROVE  Walked!WalkNext
<1>0. /\ At(t, "move") \/ At(t, "complete")
      /\ thread[t].run \in Runs /\ run[thread[t].run].status # "none"
  BY DEF MoveRun, CompleteRun, At, IInv, StepsExist, ThreadInside, Inside
<1> PICK r \in Runs : r = thread[t].run
  BY <1>0
<1>1. run \in [Runs -> Run] /\ run[r].status # "none"
  BY <1>0 DEF IInv, TypeOK
<1>2. r \notin Loose => run[r].status \in {"running", "failed"} /\ Guided(t)
  BY <1>0, FoundUnfinished DEF AllOnCourse, OnCourse
<1>3. CASE MoveRun(t)
  <2>1. /\ OneRow(r) /\ UNCHANGED loosened
        /\ run'[r].status = run[r].status /\ run'[r].step = thread[t].next
    BY <1>1, <1>3 DEF MoveRun, historyVars, OneRow, SameRun, Run
  <2>2. r \notin Loose => thread[t].next \in NextSteps(r)
    BY <1>2, <1>3 DEF MoveRun, Guided
  <2> QED BY <1>1, <1>2, <2>1, <2>2, RowMoves DEF Walked!WalkNext
<1>4. CASE CompleteRun(t)
  <2>1. /\ OneRow(r) /\ UNCHANGED loosened
        /\ run'[r].status = "completed" /\ run'[r].step = run[r].step
    BY <1>1, <1>4 DEF CompleteRun, historyVars, OneRow, SameRun, Run
  <2>2. r \notin Loose => IsFinal(r)
    BY <1>2, <1>4 DEF CompleteRun, Guided
  <2> QED BY <1>1, <1>2, <2>1, <2>2, RowMoves DEF Walked!WalkNext
<1> QED BY <1>3, <1>4

LEMMA FailWalks ==
  ASSUME IInv, Placed, Kept, NEW t \in Threads, FailRun(t)
  PROVE  [Walked!WalkNext]_(Walked!walkVars)
<1>0. At(t, "fail") /\ thread[t].run \in Runs /\ run[thread[t].run].status # "none"
  BY DEF FailRun, At, IInv, StepsExist, ThreadInside, Inside
<1> PICK r \in Runs : r = thread[t].run
  BY <1>0
<1>1. run \in [Runs -> Run] /\ run[r].status # "none"
  BY <1>0 DEF IInv, TypeOK
<1>2. /\ OneRow(r) /\ UNCHANGED loosened
      /\ run'[r].status = "failed" /\ run'[r].step = run[r].step
  BY <1>1 DEF FailRun, historyVars, OneRow, SameRun, Run
<1>3. r \notin Loose => run[r].status \in {"running", "failed"}
  BY <1>0, FoundUnfinished
<1>4. CASE r \in Loose \/ run[r].status = "running"
  BY <1>1, <1>2, <1>4, RowMoves DEF Walked!WalkNext
<1>5. CASE run[r].status = "failed"
  <2>1. \A k \in Runs : SameRun(k)
    BY <1>2, <1>5 DEF OneRow, SameRun
  <2> QED BY <2>1, NoRowMoves DEF Placed
<1> QED BY <1>3, <1>4, <1>5

LEMMA RedriveWalks ==
  ASSUME IInv, NEW r \in Runs, Redrive(r)
  PROVE  Walked!WalkNext
<1>1. /\ OneRow(r) /\ UNCHANGED loosened /\ run[r].status = "failed"
      /\ run'[r].status = "running" /\ run'[r].step = run[r].step
  BY DEF Redrive, Call, OneRow, SameRun, IInv, TypeOK, Run
<1>2. Walked!Redrive(r)
  BY <1>1, RowMoves
<1> QED BY <1>2 DEF Walked!WalkNext

LEMMA BeginWalks ==
  ASSUME IInv, IInv', Kept, Blank, NEW t, NEW f, NEW p, NEW i, InsertRun(t, f, p, i)
  PROVE  Walked!WalkNext
<1>1. PICK c \in FreeRuns : run' = [run EXCEPT ![c] = NewRun(f, p, i)]
  BY DEF InsertRun
<1>2. c \in Runs /\ run \in [Runs -> Run] /\ run[c].status = "none" /\ Runs' = Runs
  BY DEF FreeRuns, IInv, TypeOK, Runs
<1>3. /\ run'[c].status = "running" /\ run'[c].flow = f /\ run'[c].step = 1
      /\ \A k \in Runs \ {c} : run'[k] = run[k]
  BY <1>1, <1>2 DEF NewRun
<1>4. f \in DOMAIN Workflows
  BY <1>2, <1>3 DEF IInv, TypeOK, Run
<1>5. Loose \subseteq Loose'
  BY LooseGrows
<1>6. Walked!Begin(c)
  BY <1>2, <1>3, <1>4, <1>5 DEF Walked!Begin
<1> QED BY <1>2, <1>6 DEF Walked!WalkNext

LEMMA StepWalks ==
  ASSUME IInv, IInv', Placed, AllOnCourse, Next
  PROVE  [Walked!WalkNext]_(Walked!walkVars)
<1>0. Kept /\ Blank /\ run \in [Runs -> Run]
  BY StepKeeps DEF Placed, IInv, TypeOK
<1>1. CASE \A r \in Runs : SameRun(r)
  BY <1>0, <1>1, NoRowMoves
<1>2. CASE UNCHANGED run
  BY <1>1, <1>2 DEF SameRun
<1>3. ASSUME NEW j \in Jobs, JobStep(j) PROVE [Walked!WalkNext]_(Walked!walkVars)
  <2>1. CASE SetUpBranches(j) \/ CountBranch(j) \/ ReadCount(j) \/ MergeBranches(j)
    BY <1>1, <2>1, JoinColumns
  <2>2. CASE LaunchChild(j)
    BY <1>0, <2>2, BeginWalks DEF LaunchChild
  <2>3. CASE \/ Dispatch(j) \/ Request(j) \/ WriteOutcome(j) \/ Advance(j) \/ Choose(j) \/ PassWait(j)
             \/ InsertBranch(j) \/ AwaitCallback(j)
    BY <1>2, <2>3 DEF Dispatch, Request, WriteOutcome, Advance, Choose, PassWait, InsertBranch,
                      AwaitCallback
  <2> QED BY <1>3, <2>1, <2>2, <2>3 DEF JobStep
<1>4. ASSUME NEW t \in Threads, RunStep(t) PROVE [Walked!WalkNext]_(Walked!walkVars)
  <2>1. CASE InsertNext(t) \/ ResumeParent(t)
    BY <1>2, <2>1 DEF InsertNext, ResumeParent
  <2> QED BY <1>0, <1>4, <2>1, MoveWalks, FailWalks DEF RunStep
<1>5. ASSUME NEW j \in Jobs, \/ Claim(j) \/ Recover(j) \/ CallbackArrives(j) \/ MistakeBranch(j)
                             \/ OutcomeLost(j) \/ ExpireJob(j) \/ RetryJob(j)
      PROVE  [Walked!WalkNext]_(Walked!walkVars)
  BY <1>2, <1>5 DEF Claim, Recover, CallbackArrives, MistakeBranch, OutcomeLost, ExpireJob, RetryJob
<1>6. CASE RedriveJobs \/ Crash \/ \E t \in Threads : Abandon(t)
  BY <1>2, <1>6 DEF RedriveJobs, Crash, Abandon
<1>7. ASSUME NEW r \in Runs, TimeoutPasses(r) PROVE [Walked!WalkNext]_(Walked!walkVars)
  <2>1. \A c \in Runs : SameRun(c)
    BY <1>0, <1>7 DEF TimeoutPasses, SameRun, Run
  <2> QED BY <1>1, <2>1
<1>8. ASSUME NEW r \in Runs, Redrive(r) PROVE [Walked!WalkNext]_(Walked!walkVars)
  BY <1>8, RedriveWalks
<1>9. ASSUME NEW f \in Roots, StartWorkflow(f) PROVE [Walked!WalkNext]_(Walked!walkVars)
  BY <1>0, <1>9, BeginWalks DEF StartWorkflow
<1> QED BY <1>3, <1>4, <1>5, <1>6, <1>7, <1>8, <1>9 DEF Next, Move

(* For any definitions that Config::validate takes, of which `end` is not  *)
(* asked of a wait or sub-workflow step in the middle, and however many    *)
(* runs, jobs, faults and calls there are: every update of workflow_runs   *)
(* takes its run along an edge of the definition, fails it, completes it   *)
(* at a final step or redrives it, and what is completed stays so.         *)
THEOREM WalkImplemented ==
  ASSUME EndsAreAsked
  PROVE  Spec => ImplementsWalk
<1>1. ASSUME Init PROVE Walked!WalkInit
  <2>1. \A r \in Runs : run[r].status = "none" /\ r \notin loosened
    BY <1>1 DEF Init, NoRun, NewRun
  <2>2. Loose = {}
    BY <2>1 DEF Loose, WithParents
  <2> QED BY <2>1, <2>2 DEF Walked!WalkInit
<1>2. ASSUME UNCHANGED vars PROVE UNCHANGED Walked!walkVars
  <2>1. UNCHANGED <<run, loosened>> /\ Runs' = Runs
    BY <1>2 DEF vars, historyVars, Runs
  <2>2. Loose' = Loose
    BY <2>1, LooseStill
  <2> QED BY <2>1, <2>2 DEF Walked!walkVars
<1>3. IInv /\ IInv' /\ Placed /\ AllOnCourse /\ [Next]_vars
        => [Walked!WalkNext]_(Walked!walkVars)
  BY <1>2, StepWalks
<1>4. Spec => [](IInv /\ Placed /\ AllOnCourse)
  BY CourseInvariant
<1> QED BY <1>1, <1>3, <1>4, PTL DEF Spec, ImplementsWalk, Walked!WalkSpec

(* A completed run is never written again: update_workflow_run_step,       *)
(* complete_workflow_run, fail_workflow_run, redrive and the statements of *)
(* the join name their run by id alone, and none of them finds it          *)
(* completed.  Excepted are loose runs.                                    *)
THEOREM CompletedStays ==
  Spec => [][\A r \in Runs \ Loose : run[r].status = "completed" => run'[r] = run[r]]_vars
<1>1. ASSUME IInv, Placed, Next, NEW r \in Runs \ Loose, run[r].status = "completed"
      PROVE  run'[r] = run[r]
  <2>0. run \in [Runs -> Run] /\ Ended(r)
    BY <1>1 DEF IInv, TypeOK, Placed, Sound
  <2>1. ASSUME NEW j \in Jobs, thread[j].pc \in OfJob \cap Joining PROVE job[j].run # r
    <3> SUFFICES ASSUME job[j].run = r PROVE FALSE
      OBVIOUS
    <3>1. j \in Joiners(r)
      BY <1>1, <2>1, JobStepIsStep DEF Joiners, Threads
    <3> QED BY <1>1, <2>0, <3>1, NotEnded
  <2>2. ASSUME NEW t \in Threads, At(t, "move") \/ At(t, "complete") \/ At(t, "fail")
        PROVE  thread[t].run # r
    BY <1>1, <2>2, FoundUnfinished
  <2>3. ASSUME NEW j \in Jobs, JobStep(j) PROVE run'[r] = run[r]
    <3>1. CASE SetUpBranches(j) \/ CountBranch(j) \/ ReadCount(j) \/ MergeBranches(j)
      <4>1. thread[j].pc \in OfJob \cap Joining
        BY <3>1 DEF SetUpBranches, CountBranch, ReadCount, MergeBranches, At, OfJob, Joining
      <4>2. job[j].run # r
        BY <2>1, <4>1
      <4> QED BY <2>0, <3>1, <4>2
              DEF SetUpBranches, CountBranch, ReadCount, MergeBranches, SetParallel
    <3>2. CASE LaunchChild(j)
      BY <1>1, <2>0, <3>2 DEF LaunchChild, InsertRun, FreeRuns
    <3>3. CASE \/ Dispatch(j) \/ Request(j) \/ WriteOutcome(j) \/ Advance(j) \/ Choose(j)
               \/ PassWait(j) \/ InsertBranch(j) \/ AwaitCallback(j)
      BY <3>3 DEF Dispatch, Request, WriteOutcome, Advance, Choose, PassWait, InsertBranch,
                  AwaitCallback
    <3> QED BY <2>3, <3>1, <3>2, <3>3 DEF JobStep
  <2>4. ASSUME NEW t \in Threads, RunStep(t) PROVE run'[r] = run[r]
    <3>1. CASE MoveRun(t) \/ CompleteRun(t) \/ FailRun(t)
      <4>1. thread[t].run # r
        BY <2>2, <3>1 DEF MoveRun, CompleteRun, FailRun
      <4> QED BY <2>0, <3>1, <4>1 DEF MoveRun, CompleteRun, FailRun
    <3>2. CASE InsertNext(t) \/ ResumeParent(t)
      BY <3>2 DEF InsertNext, ResumeParent
    <3> QED BY <2>4, <3>1, <3>2 DEF RunStep
  <2>5. ASSUME NEW c \in Runs, TimeoutPasses(c) \/ Redrive(c) PROVE run'[r] = run[r]
    BY <1>1, <2>0, <2>5 DEF TimeoutPasses, Redrive
  <2>6. ASSUME NEW f \in Roots, StartWorkflow(f) PROVE run'[r] = run[r]
    BY <1>1, <2>0, <2>6 DEF StartWorkflow, InsertRun, FreeRuns
  <2>7. CASE UNCHANGED run
    BY <2>7
  <2>8. ASSUME NEW j \in Jobs, \/ Claim(j) \/ Recover(j) \/ CallbackArrives(j) \/ MistakeBranch(j)
                               \/ OutcomeLost(j) \/ ExpireJob(j) \/ RetryJob(j)
        PROVE  UNCHANGED run
    BY <2>8 DEF Claim, Recover, CallbackArrives, MistakeBranch, OutcomeLost, ExpireJob, RetryJob
  <2>9. ASSUME RedriveJobs \/ Crash \/ \E t \in Threads : Abandon(t) PROVE UNCHANGED run
    BY <2>9 DEF RedriveJobs, Crash, Abandon
  <2> QED BY <1>1, <2>3, <2>4, <2>5, <2>6, <2>7, <2>8, <2>9 DEF Next, Move
<1>2. ASSUME IInv, Placed, [Next]_vars
      PROVE  [\A r \in Runs \ Loose : run[r].status = "completed" => run'[r] = run[r]]_vars
  BY <1>1, <1>2
<1>3. Spec => [](IInv /\ Placed)
  BY PlacedInvariant
<1> QED BY <1>2, <1>3, PTL DEF Spec
=============================================================================
