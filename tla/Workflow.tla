------------------------------ MODULE Workflow ------------------------------
(***************************************************************************)
(* The workflow engine of qhook (queue.rs, deliver_job and the handlers it *)
(* calls): a run walks the steps of its definition, one row of the `jobs`  *)
(* table per step, or one per branch of a parallel or map step; a callback *)
(* step waits for a request to the API and a sub-workflow step for a run   *)
(* of its own.                                                             *)
(*                                                                         *)
(* Whoever moves a run (the delivery task of a job, the API request of a   *)
(* callback, the ingest request that starts it) executes its SQL           *)
(* statements one by one.  Such a thread is named after the job it works   *)
(* for; its pc is the next statement.  Nothing ties the statements         *)
(* together, so an error or a crash between two of them ends the thread    *)
(* there, and nobody takes over once the job's outcome has been written.   *)
(*                                                                         *)
(* Claims and recovery of the rows are module Delivery's: here a row is    *)
(* claimed in one step and put back only when its task is gone.  Payloads  *)
(* are left out, what they decide (a choice, a number of items) is chosen. *)
(***************************************************************************)
EXTENDS Naturals, FiniteSets, Sequences

CONSTANTS
  Workflows,       (* config.workflows: the steps of each definition, a       *)
                   (* function from names to sequences of step records        *)
  Roots,           (* the definitions that events start                       *)
  Timed,           (* the definitions with a `timeout`                        *)
  MaxRuns,         (* bound on the runs                                       *)
  MaxJobs,         (* bound on the jobs                                       *)
  MaxStarts,       (* bound on the runs started by events                     *)
  ItemCounts,      (* how many items a map step may find                      *)
  MaxFaults,       (* bound on errors, crashes, expiries and races of D1      *)
  MaxCalls         (* bound on operator calls                                 *)

ErrorType == {"timeout", "5xx", "4xx", "network"}
Kind == {"http", "choice", "parallel", "map", "wait", "callback", "workflow"}

(* StepConfig; 0 and "" stand for an absent option.                        *)
Step == [kind : Kind, end : BOOLEAN, max : Nat, retry : SUBSET (ErrorType \cup {"all"}),
         catch : Seq([errors : SUBSET (ErrorType \cup {"all"}), goto : Nat \ {0}]),
         carryOn : BOOLEAN, choices : SUBSET (Nat \ {0}), default : Nat,
         branches : Nat, child : STRING]

(* What Config::validate accepts: every goto leads to a step, a choice has *)
(* something to choose, and only direct recursion is refused.              *)
StepAccepted(f, s) ==
  LET inside == 1..Len(Workflows[f])
  IN  /\ \A c \in 1..Len(s.catch) : s.catch[c].goto \in inside
      /\ s.choices \subseteq inside /\ s.default \in inside \cup {0}
      /\ s.kind = "choice" => s.choices # {}
      /\ s.kind = "parallel" => s.branches > 0
      /\ s.kind = "workflow" => s.child \in DOMAIN Workflows \ {f}

Accepted(f) ==
  /\ Workflows[f] # <<>>
  /\ \A i \in 1..Len(Workflows[f]) : StepAccepted(f, Workflows[f][i])

ASSUME DefinitionsAssumption ==
  /\ DOMAIN Workflows # {}
  /\ Roots \subseteq DOMAIN Workflows /\ Timed \subseteq DOMAIN Workflows
  /\ \A f \in DOMAIN Workflows : Accepted(f)

ASSUME BoundsAssumption ==
  /\ Workflows \in [DOMAIN Workflows -> Seq(Step)]
  /\ MaxRuns \in Nat /\ MaxJobs \in Nat
  /\ MaxStarts \in Nat /\ MaxFaults \in Nat /\ MaxCalls \in Nat
  /\ ItemCounts \subseteq Nat

VARIABLES
  run,       (* workflow_runs                                                 *)
  job,       (* the jobs with a workflow_run_id                               *)
  thread,    (* who executes the statements for a job; thread 0 is the ingest *)
  started,   (* runs started by events so far                                 *)
  redriving, (* the run of a `workflow-runs redrive` under way, or 0          *)
  dropped,   (* history: runs whose only thread was lost, or whose job was    *)
  loosened,  (* history: runs that went on although a write had failed, or    *)
             (* whose branches were counted at the same time                  *)
  d1,        (* the database is D1, which has no transactions                 *)
  faults,    (* errors, crashes, expiries and races of D1 so far              *)
  calls      (* operator calls so far                                         *)

historyVars == <<dropped, loosened, faults, calls>>
vars == <<run, job, thread, started, redriving, historyVars, d1>>

-----------------------------------------------------------------------------

(* Ulids, in the order in which they are made.                             *)
Runs == 1..MaxRuns
Jobs == 1..MaxJobs

RunStatus == {"none", "running", "completed", "failed"}
JobStatus == {"none", "available", "retryable", "running", "completed", "dead", "waiting"}

(* current_step, parallel_count, parallel_completed, the parent's run and  *)
(* step index, and whether timeout_at has passed.                          *)
Run == [status : RunStatus, flow : DOMAIN Workflows, step : Nat, count : Nat,
        done : Nat, parent : Runs \cup {0}, at : Nat, late : BOOLEAN]
Job == [status : JobStatus, run : Runs \cup {0}, step : Nat, branch : BOOLEAN,
        attempt : Nat]

(* The writes of a job's outcome, with the status each of them sets.       *)
Written == [mark |-> "completed", succeed |-> "completed", continue |-> "completed",
            catch |-> "completed", retry |-> "retryable", stop |-> "dead",
            expire |-> "dead"]
Deciding == {"start", "request"} \cup DOMAIN Written
Moving == {"choose", "setup", "fan", "pass", "callback", "child", "advance", "count",
           "tally", "merge", "move", "insert", "complete", "resume", "fail"}
Thread == [pc : {"idle"} \cup Deciding \cup Moving, run : Runs \cup {0}, next : Nat]

Threads == Jobs \cup {0}
Idle == [pc |-> "idle", run |-> 0, next |-> 0]

At(t, pc) == thread[t].pc = pc
Goto(t, pc) == thread' = [thread EXCEPT ![t].pc = pc]
End(t) == thread' = [thread EXCEPT ![t] = Idle]
SetThread(t, pc, r, i) ==
  thread' = [thread EXCEPT ![t] = [pc |-> pc, run |-> r, next |-> i]]

Fault(lost, loose) ==
  /\ faults < MaxFaults
  /\ faults' = faults + 1
  /\ dropped' = dropped \cup lost
  /\ loosened' = loosened \cup loose
  /\ UNCHANGED calls
Call ==
  /\ calls < MaxCalls
  /\ calls' = calls + 1
  /\ UNCHANGED <<dropped, loosened, faults>>

StepsOf(r) == Workflows[run[r].flow]
StepOf(j) == StepsOf(job[j].run)[job[j].step]

IsFirst(i, S) == \A k \in S : i <= k
FreeRuns == {r \in Runs : run[r].status = "none"}
FreeJobs == {j \in Jobs : job[j].status = "none"}

NewRun(flow, parent, at) ==
  [status |-> "running", flow |-> flow, step |-> 1, count |-> 0, done |-> 0,
   parent |-> parent, at |-> at, late |-> FALSE]
NewJob(status, r, i, branch) ==
  [status |-> status, run |-> r, step |-> i, branch |-> branch, attempt |-> 0]

InsertJob(status, r, i, branch) ==
  \E j \in FreeJobs :
    /\ IsFirst(j, FreeJobs)
    /\ job' = [job EXCEPT ![j] = NewJob(status, r, i, branch)]
InsertRun(t, flow, parent, at) ==
  \E r \in FreeRuns :
    /\ IsFirst(r, FreeRuns)
    /\ run' = [run EXCEPT ![r] = NewRun(flow, parent, at)]
    /\ SetThread(t, "insert", r, 1)

-----------------------------------------------------------------------------
(* Starting a run, and the claim of a job.                                 *)

(* start_workflow; its create_step_job is InsertNext by thread 0.          *)
StartWorkflow(flow) ==
  /\ At(0, "idle") /\ started < MaxStarts
  /\ started' = started + 1
  /\ InsertRun(0, flow, 0, 0)
  /\ UNCHANGED <<job, redriving, historyVars>>

Claim(j) ==
  /\ job[j].status \in {"available", "retryable"} /\ At(j, "idle")
  /\ job' = [job EXCEPT ![j].status = "running", ![j].attempt = @ + 1]
  /\ SetThread(j, "start", job[j].run, 0)
  /\ UNCHANGED <<run, started, redriving, historyVars>>

(* Mutant of Recover: a row without attempts left is not put back.         *)
RecoverWithin(j) ==
  /\ job[j].status = "running" /\ At(j, "idle") /\ job[j].attempt < StepOf(j).max
  /\ job' = [job EXCEPT ![j].status = "retryable"]
  /\ UNCHANGED <<run, thread, started, redriving, historyVars>>

(* recover_stale_jobs, once the task is gone (module Delivery has the rest). *)
Recover(j) ==
  /\ job[j].status = "running" /\ At(j, "idle")
  /\ job' = [job EXCEPT ![j].status = "retryable"]
  /\ UNCHANGED <<run, thread, started, redriving, historyVars>>

(* deliver_job: the timeout comes first; a branch, and a step of no other  *)
(* kind, is requested over HTTP.                                           *)
Dispatch(j) ==
  /\ At(j, "start")
  /\ Goto(j, IF run[job[j].run].late THEN "expire"
             ELSE IF job[j].branch \/ StepOf(j).kind = "http" THEN "request"
             ELSE "mark")
  /\ UNCHANGED <<run, job, started, redriving, historyVars>>

(* The query for branch_name fails: a branch passes for its parallel step. *)
(* (An item of a map step would count as an empty map, and is left out.)   *)
MistakeBranch(j) ==
  /\ At(j, "start") /\ ~run[job[j].run].late
  /\ job[j].branch /\ StepOf(j).kind = "parallel"
  /\ Goto(j, "mark")
  /\ Fault({}, {job[j].run})
  /\ UNCHANGED <<run, job, started, redriving>>

-----------------------------------------------------------------------------
(* The answer of the step's URL, and the write of the job's outcome.       *)

(* error_type_matches                                                      *)
Matches(errors, e) == e \in errors \/ "all" \in errors

Catching(s, e) == {c \in 1..Len(s.catch) : Matches(s.catch[c].errors, e)}

(* handle_workflow_step_failure: retry, the first catch rule that matches, *)
(* on_failure, in this order.                                              *)
Fails(j, e) ==
  LET s == StepOf(j)
  IN  IF Matches(s.retry, e) /\ job[j].attempt < s.max THEN Goto(j, "retry")
      ELSE IF Catching(s, e) # {}
      THEN \E c \in Catching(s, e) :
             /\ IsFirst(c, Catching(s, e))
             /\ SetThread(j, "catch", job[j].run, s.catch[c].goto)
      ELSE Goto(j, IF s.carryOn THEN "continue" ELSE "stop")

(* deliver_workflow_step and the record of the attempt.                    *)
Request(j) ==
  /\ At(j, "request")
  /\ Goto(j, "succeed") \/ \E e \in ErrorType : Fails(j, e)
  /\ UNCHANGED <<run, job, started, redriving, historyVars>>

(* Which statement follows the outcome.                                    *)
Follow(j) ==
  CASE At(j, "catch") -> "move"
    [] thread[j].pc \in {"stop", "expire"} -> "fail"
    [] thread[j].pc \in {"succeed", "continue"} ->
         IF job[j].branch THEN "count" ELSE "advance"
    [] OTHER -> CASE StepOf(j).kind = "choice" -> "choose"
                  [] StepOf(j).kind \in {"parallel", "map"} -> "setup"
                  [] StepOf(j).kind = "wait" -> "pass"
                  [] StepOf(j).kind = "callback" -> "callback"
                  [] OTHER -> "child"

(* mark_job_completed, mark_job_retryable, mark_job_dead                   *)
WriteOutcome(j) ==
  /\ thread[j].pc \in DOMAIN Written
  /\ job' = [job EXCEPT ![j].status = Written[thread[j].pc]]
  /\ IF At(j, "retry") THEN End(j) ELSE Goto(j, Follow(j))
  /\ UNCHANGED <<run, started, redriving, historyVars>>

(* The write fails, which these four only log: the row stays running, to   *)
(* be delivered again, and the run moves on all the same.                  *)
OutcomeLost(j) ==
  /\ thread[j].pc \in {"succeed", "continue", "stop", "expire"}
  /\ Goto(j, Follow(j))
  /\ Fault({}, {job[j].run})
  /\ UNCHANGED <<run, job, started, redriving>>

-----------------------------------------------------------------------------
(* Where a run goes from a step.                                           *)

(* To the next step of the definition, or to the end of it.                *)
StepOn(t, r, i) ==
  IF i < Len(StepsOf(r)) THEN SetThread(t, "move", r, i + 1)
  ELSE SetThread(t, "complete", r, 0)

(* Mutant of StepOnOrEnd: `end` is not asked for.                          *)
StepOnAnyway(t, r, i) == StepOn(t, r, i)

(* The same, unless the step says `end: true`.                             *)
StepOnOrEnd(t, r, i) ==
  IF StepsOf(r)[i].end THEN SetThread(t, "complete", r, 0) ELSE StepOn(t, r, i)

(* handle_workflow_step_success, for a step that has no branches.          *)
Advance(j) ==
  /\ At(j, "advance")
  /\ IF run[job[j].run].late THEN Goto(j, "fail")
     ELSE StepOnOrEnd(j, job[j].run, job[j].step)
  /\ UNCHANGED <<run, job, started, redriving, historyVars>>

(* handle_choice_step: the payload decides; without a match or a default   *)
(* the run fails.                                                          *)
Choose(j) ==
  /\ At(j, "choose")
  /\ \/ \E i \in StepOf(j).choices : SetThread(j, "move", job[j].run, i)
     \/ StepOf(j).default # 0 /\ SetThread(j, "move", job[j].run, StepOf(j).default)
     \/ StepOf(j).default = 0 /\ Goto(j, "fail")
  /\ UNCHANGED <<run, job, started, redriving, historyVars>>

(* handle_wait_step asks for neither `end` nor the timeout; the delay of   *)
(* the next job is left out.                                               *)
PassWait(j) ==
  /\ At(j, "pass")
  /\ StepOn(j, job[j].run, job[j].step)
  /\ UNCHANGED <<run, job, started, redriving, historyVars>>

-----------------------------------------------------------------------------
(* Parallel and map steps.                                                 *)

(* set_parallel_state, and clear_parallel_state with no branches.          *)
SetParallel(r, n) == run' = [run EXCEPT ![r].count = n, ![r].done = 0]

(* A map without items continues with an empty table of workflows, and     *)
(* returns.                                                                *)
SetUpBranches(j) ==
  /\ At(j, "setup")
  /\ \E n \in IF StepOf(j).kind = "map" THEN ItemCounts ELSE {StepOf(j).branches} :
       IF n = 0 THEN End(j) /\ UNCHANGED run
       ELSE /\ SetParallel(job[j].run, n)
            /\ SetThread(j, "fan", job[j].run, n)
  /\ UNCHANGED <<job, started, redriving, historyVars>>

(* insert_branch_job; thread.next counts the branches still to be inserted. *)
InsertBranch(j) ==
  /\ At(j, "fan")
  /\ InsertJob("available", job[j].run, job[j].step, TRUE)
  /\ IF thread[j].next = 1 THEN End(j)
     ELSE thread' = [thread EXCEPT ![j].next = @ - 1]
  /\ UNCHANGED <<run, started, redriving, historyVars>>

(* Mutants of IsLast: the comparison is one off, either way.               *)
IsLastNever(done, count) == done > count
IsLastEarly(done, count) == done + 1 >= count

IsLast(done, count) == done >= count

(* increment_parallel_completed, and the comparison with what it returns:  *)
(* one statement or transaction, but two statements on D1, between which   *)
(* another branch may be counted.                                          *)
CountBranch(j) ==
  LET r == job[j].run
      done == run[r].done + 1
      tallying == {k \in Jobs : At(k, "tally") /\ thread[k].run = r}
  IN  /\ At(j, "count")
      /\ run' = [run EXCEPT ![r].done = done]
      /\ IF d1 THEN Goto(j, "tally")
         ELSE IF IsLast(done, run[r].count) THEN Goto(j, "merge") ELSE End(j)
      /\ IF tallying = {} THEN UNCHANGED historyVars ELSE Fault({}, {r})
      /\ UNCHANGED <<job, started, redriving>>

ReadCount(j) ==
  /\ At(j, "tally")
  /\ LET r == job[j].run
     IN  IF IsLast(run[r].done, run[r].count) THEN Goto(j, "merge") ELSE End(j)
  /\ UNCHANGED <<run, job, started, redriving, historyVars>>

(* get_branch_outputs, clear_parallel_state                                *)
MergeBranches(j) ==
  LET r == job[j].run
  IN  /\ At(j, "merge")
      /\ SetParallel(r, 0)
      /\ StepOnOrEnd(j, r, job[j].step)
      /\ UNCHANGED <<job, started, redriving, historyVars>>

-----------------------------------------------------------------------------
(* Callbacks and sub-workflows.                                            *)

(* insert_callback_job: due in the year 9999, and never claimed.           *)
InsertCallback(j) == InsertJob("waiting", job[j].run, job[j].step, FALSE)

(* handle_callback_step                                                    *)
AwaitCallback(j) ==
  /\ At(j, "callback")
  /\ InsertCallback(j)
  /\ End(j)
  /\ UNCHANGED <<run, started, redriving, historyVars>>

(* Mutant of CallbackArrives: a job that was resumed is resumed again.     *)
CallbackArrivesAgain(j) ==
  /\ job[j].status \in {"waiting", "completed"} /\ At(j, "idle")
  /\ StepOf(j).kind = "callback"
  /\ job' = [job EXCEPT ![j].status = "completed"]
  /\ StepOnOrEnd(j, job[j].run, job[j].step)
  /\ UNCHANGED <<run, started, redriving, historyVars>>

(* resume_callback_job: one UPDATE, so that only one request resumes a job. *)
ResumeJob(j) ==
  /\ job[j].status = "waiting"
  /\ job' = [job EXCEPT ![j].status = "completed"]

(* handle_callback and resume_callback; the timeout is not asked for.      *)
CallbackArrives(j) ==
  /\ At(j, "idle") /\ ResumeJob(j)
  /\ StepOnOrEnd(j, job[j].run, job[j].step)
  /\ UNCHANGED <<run, started, redriving, historyVars>>

(* handle_subworkflow_step: insert_sub_workflow_run, without a timeout; the *)
(* child's first job is the thread's next statement.                       *)
LaunchChild(j) ==
  /\ At(j, "child")
  /\ InsertRun(j, StepOf(j).child, job[j].run, job[j].step)
  /\ UNCHANGED <<job, started, redriving, historyVars>>

-----------------------------------------------------------------------------
(* The statements that move a run, whoever executes them: none of them     *)
(* looks at the run's status.                                              *)

(* update_workflow_run_step                                                *)
MoveRun(t) ==
  /\ At(t, "move")
  /\ run' = [run EXCEPT ![thread[t].run].step = thread[t].next]
  /\ Goto(t, "insert")
  /\ UNCHANGED <<job, started, redriving, historyVars>>

(* insert_workflow_job                                                     *)
InsertNext(t) ==
  /\ At(t, "insert")
  /\ InsertJob("available", thread[t].run, thread[t].next, FALSE)
  /\ End(t)
  /\ UNCHANGED <<run, started, redriving, historyVars>>

(* complete_workflow_run                                                   *)
CompleteRun(t) ==
  /\ At(t, "complete")
  /\ run' = [run EXCEPT ![thread[t].run].status = "completed"]
  /\ Goto(t, "resume")
  /\ UNCHANGED <<job, started, redriving, historyVars>>

(* resume_parent_workflow, which calls itself for the parent's parent; the *)
(* `end` of the parent's step is not asked for.                            *)
ResumeParent(t) ==
  /\ At(t, "resume")
  /\ LET r == thread[t].run
     IN  IF run[r].parent = 0 THEN End(t)
         ELSE StepOn(t, run[r].parent, run[r].at)
  /\ UNCHANGED <<run, job, started, redriving, historyVars>>

(* fail_workflow_run                                                       *)
FailRun(t) ==
  /\ At(t, "fail")
  /\ run' = [run EXCEPT ![thread[t].run].status = "failed"]
  /\ End(t)
  /\ UNCHANGED <<job, started, redriving, historyVars>>

-----------------------------------------------------------------------------
(* Time, errors, crashes and operators.                                    *)

TimeoutPasses(r) ==
  /\ run[r].status = "running" /\ run[r].parent = 0
  /\ run[r].flow \in Timed /\ ~run[r].late
  /\ run' = [run EXCEPT ![r].late = TRUE]
  /\ UNCHANGED <<job, thread, started, redriving, historyVars>>

(* A run whose thread is lost after the outcome has nobody to move it.     *)
LostBy(T) == {thread[t].run : t \in {u \in T : thread[u].pc \in Moving}}

(* A statement returns an error that ends the handler (`?`, or a log and a *)
(* return); or the client of an API request is gone.                       *)
Abandon(t) ==
  /\ thread[t].pc \notin {"idle", "start", "succeed", "continue", "stop", "expire"}
  /\ End(t)
  /\ Fault(LostBy({t}), {})
  /\ UNCHANGED <<run, job, started, redriving>>

Crash ==
  /\ thread' = [t \in Threads |-> Idle]
  /\ Fault(LostBy(Threads), {})
  /\ UNCHANGED <<run, job, started, redriving>>

(* expire_old_jobs: delivery.event_ttl kills a job that waits, not its run. *)
ExpireJob(j) ==
  /\ job[j].status \in {"available", "retryable"}
  /\ job' = [job EXCEPT ![j].status = "dead"]
  /\ Fault({job[j].run}, {})
  /\ UNCHANGED <<run, thread, started, redriving>>

(* retry_job, from `jobs retry` or the API: the run's status stays.        *)
RetryJob(j) ==
  /\ job[j].status \in {"dead", "retryable"}
  /\ job' = [job EXCEPT ![j].status = "available", ![j].attempt = 0]
  /\ Call
  /\ UNCHANGED <<run, thread, started, redriving>>

(* `workflow-runs redrive`: redrive_workflow_run, then the list of dead    *)
(* jobs, of which the first hundred may leave out some of this run, and    *)
(* their retries.                                                          *)
Redrive(r) ==
  /\ redriving = 0 /\ run[r].status = "failed"
  /\ run' = [run EXCEPT ![r].status = "running"]
  /\ redriving' = r
  /\ Call
  /\ UNCHANGED <<job, thread, started>>

DeadJobs(r) == {j \in Jobs : job[j].run = r /\ job[j].status = "dead"}

RedriveJobs ==
  /\ redriving # 0
  /\ \E S \in SUBSET DeadJobs(redriving) :
       /\ job' = [j \in Jobs |-> IF j \in S
                                 THEN [job[j] EXCEPT !.status = "available", !.attempt = 0]
                                 ELSE job[j]]
       /\ dropped' = IF S = DeadJobs(redriving) /\ S # {} THEN dropped
                     ELSE dropped \cup {redriving}
  /\ redriving' = 0
  /\ UNCHANGED <<run, thread, started, loosened, faults, calls>>

-----------------------------------------------------------------------------

NoRun == [NewRun(CHOOSE f \in DOMAIN Workflows : TRUE, 0, 0) EXCEPT !.status = "none"]

Init ==
  /\ run = [r \in Runs |-> NoRun]
  /\ job = [j \in Jobs |-> NewJob("none", 0, 0, FALSE)]
  /\ thread = [t \in Threads |-> Idle]
  /\ started = 0 /\ redriving = 0
  /\ dropped = {} /\ loosened = {} /\ faults = 0 /\ calls = 0
  /\ d1 \in BOOLEAN

(* The statement a thread executes next.                                   *)
JobStep(j) ==
  \/ Dispatch(j) \/ Request(j) \/ WriteOutcome(j)
  \/ Advance(j) \/ Choose(j) \/ PassWait(j)
  \/ SetUpBranches(j) \/ InsertBranch(j) \/ CountBranch(j) \/ ReadCount(j)
  \/ MergeBranches(j)
  \/ AwaitCallback(j) \/ LaunchChild(j)

RunStep(t) ==
  MoveRun(t) \/ InsertNext(t) \/ CompleteRun(t) \/ ResumeParent(t) \/ FailRun(t)

Move ==
  \/ \E f \in Roots : StartWorkflow(f)
  \/ \E j \in Jobs : Claim(j) \/ Recover(j) \/ JobStep(j) \/ CallbackArrives(j)
  \/ \E t \in Threads : RunStep(t)
  \/ \E r \in Runs : TimeoutPasses(r)
  \/ \E j \in Jobs : MistakeBranch(j) \/ OutcomeLost(j) \/ ExpireJob(j) \/ RetryJob(j)
  \/ \E t \in Threads : Abandon(t)
  \/ Crash
  \/ \E r \in Runs : Redrive(r)
  \/ RedriveJobs

Next == Move /\ UNCHANGED d1

Spec == Init /\ [][Next]_vars

(* The poll loop claims what is due and recovers what is left, a task goes *)
(* on until its next await returns (reqwest and the pool have timeouts),   *)
(* and the operator's command runs to its end.  Nothing says that a        *)
(* callback comes.                                                         *)
Fairness ==
  /\ \A j \in Jobs : /\ WF_vars(Claim(j) /\ UNCHANGED d1)
                     /\ WF_vars(Recover(j) /\ UNCHANGED d1)
                     /\ WF_vars(JobStep(j) /\ UNCHANGED d1)
  /\ \A t \in Threads : WF_vars(RunStep(t) /\ UNCHANGED d1)
  /\ WF_vars(RedriveJobs /\ UNCHANGED d1)

FairSpec == Spec /\ Fairness

-----------------------------------------------------------------------------
(* Properties.                                                             *)

(* Type invariant: the columns of runs and jobs, and the threads, range    *)
(* over what the statements of db.rs can write.                            *)
TypeOK ==
  /\ run \in [Runs -> Run]
  /\ job \in [Jobs -> Job]
  /\ thread \in [Threads -> Thread]
  /\ started \in 0..MaxStarts
  /\ redriving \in Runs \cup {0}
  /\ dropped \subseteq Runs \cup {0} /\ loosened \subseteq Runs \cup {0}
  /\ faults \in 0..MaxFaults /\ calls \in 0..MaxCalls
  /\ d1 \in BOOLEAN

(* No statement names a row or a step that is not there: `steps[next_index]` *)
(* would panic in the task and strand its run (queue.rs, the handlers of   *)
(* deliver_job; db.rs, get_parent_workflow_run).  A job belongs to a run   *)
(* and to a step of its definition, so does the step a thread goes to, and *)
(* so does the step to which a child run returns; only a sub-workflow step *)
(* launches a child.                                                       *)
Inside(r, i) == r \in Runs /\ run[r].status # "none" /\ i \in 1..Len(StepsOf(r))
OfJob == Deciding \cup {"choose", "setup", "fan", "pass", "callback", "child",
                        "advance", "count", "tally", "merge"}

JobInside(j) == job[j].status # "none" => Inside(job[j].run, job[j].step)
ParentInside(r) == run[r].parent # 0 => Inside(run[r].parent, run[r].at)
ThreadInside(t) ==
  /\ ~At(t, "idle") => Inside(thread[t].run, 1)
  /\ thread[t].pc \in {"catch", "move", "insert"} => Inside(thread[t].run, thread[t].next)
  /\ thread[t].pc \in OfJob =>
       t \in Jobs /\ job[t].status # "none" /\ job[t].run = thread[t].run
  /\ At(t, "mark") => StepOf(t).kind # "http"
  /\ At(t, "child") => StepOf(t).kind = "workflow"
  /\ At(t, "fan") => thread[t].next > 0

StepsExist ==
  /\ \A j \in Jobs : JobInside(j)
  /\ \A r \in Runs : ParentInside(r)
  /\ \A t \in Threads : ThreadInside(t)

(* Where a run stands: a job that is due, being delivered or waiting for   *)
(* its callback; a thread that moves the run; a child run; or all the      *)
(* branches of a step together with the threads that set them up and join  *)
(* them.                                                                   *)
Live == {"available", "retryable", "running", "waiting"}
Joining == {"setup", "fan", "count", "tally", "merge"}

StepJobs(r) == {j \in Jobs : job[j].run = r /\ job[j].status \in Live /\ ~job[j].branch}
BranchJobs(r) == {j \in Jobs : job[j].run = r /\ job[j].status \in Live /\ job[j].branch}
Movers(r) ==
  {t \in Threads : thread[t].run = r /\ thread[t].pc \in Moving \ (Joining \cup {"fail"})}
Joiners(r) == {t \in Threads : thread[t].run = r /\ thread[t].pc \in Joining}
Children(r) ==
  {c \in Runs : /\ run[c].parent = r
                /\ run[c].status = "running" \/ \E t \in Threads : At(t, "resume")
                                                                   /\ thread[t].run = c}
Join(r) == IF BranchJobs(r) \cup Joiners(r) = {} THEN 0 ELSE 1
Positions(r) ==
  Cardinality(StepJobs(r)) + Cardinality(Movers(r)) + Cardinality(Children(r)) + Join(r)

(* A branch whose error is caught takes its run elsewhere, while the other *)
(* branches go on and count.                                               *)
CatchesBranches(r) ==
  \E i \in 1..Len(StepsOf(r)) :
    StepsOf(r)[i].kind \in {"parallel", "map"} /\ StepsOf(r)[i].catch # <<>>

(* The least set that contains S and, with a run, the run it is a child of. *)
WithParents(S) ==
  {r \in Runs : \A U \in SUBSET Runs :
     S \subseteq U /\ (\A c \in U : run[c].parent # 0 => run[c].parent \in U) => r \in U}

(* A run that went on although a write had failed, whose branches were     *)
(* counted at the same time on D1, or which may be taken out of a step     *)
(* with branches, and the parents it may have resumed twice.               *)
Loose ==
  WithParents({r \in Runs : r \in loosened \/ (run[r].status # "none" /\ CatchesBranches(r))})

(* However deliveries, crashes, redrives, callbacks and child runs are     *)
(* interleaved, a run is at one place of its definition: no step is in     *)
(* progress twice, nor two steps at once (queue.rs, the handlers of        *)
(* deliver_job).  Excepted are runs that went on after a failed write or a *)
(* race of D1, and definitions that catch the errors of branches.          *)
OnePosition == \A r \in Runs \ Loose : Positions(r) <= 1

(* A run that is running can be moved by someone, or by the end of a       *)
(* redrive, or what took that away is on record: an error or a crash       *)
(* between two statements, a TTL expiry, a redrive without its job, or a   *)
(* child run that failed or was itself lost (queue.rs, resume_parent_      *)
(* workflow is reached only by a run that completes).                      *)
FailedChildren(r) == {c \in Runs : run[c].parent = r /\ run[c].status = "failed"}
Lost == WithParents({r \in Runs : r \in dropped \cup Loose \/ FailedChildren(r) # {}})

StrandedIsExplained ==
  \A r \in Runs : run[r].status = "running" =>
    \/ Positions(r) > 0 \/ redriving = r \/ r \in Lost
    \/ \E t \in Threads : At(t, "fail") /\ thread[t].run = r

(* The outputs of a parallel or map step are merged when every one of its  *)
(* branches has completed, and each was counted once: no branch is still   *)
(* to be inserted, retried or delivered (queue.rs, handle_branch_          *)
(* completion; db.rs, increment_parallel_completed and set_parallel_state). *)
AllJoined(j) ==
  LET r == job[j].run
      branches == {k \in Jobs : job[k].run = r /\ job[k].branch /\ job[k].step = job[j].step}
  IN  /\ \A k \in branches : job[k].status = "completed"
      /\ Cardinality(branches) >= run[r].count
      /\ run[r].done = run[r].count

JoinIsComplete ==
  \A j \in Jobs : At(j, "merge") /\ job[j].run \notin Loose => AllJoined(j)

(* The same where branches have a catch, as docs/guides/workflows.md:168   *)
(* says of every parallel step.                                            *)
CaughtJoinIsComplete ==
  \A j \in Jobs : At(j, "merge") /\ job[j].run \notin loosened => AllJoined(j)

(* Whoever counts the last branch advances the run, and nobody else: the   *)
(* comment in db.rs, increment_parallel_completed, on concurrent branches. *)
OneMerge ==
  \A j, k \in Jobs :
    At(j, "merge") /\ At(k, "merge") /\ job[j].run = job[k].run => j = k

(* The engine keeps the promise of WorkflowWalk (docs/guides/workflows.md): *)
(* every update of workflow_runs moves the run along its definition, fails *)
(* it, completes it at a final step or redrives it, and a completed run is *)
(* never written again although complete and fail name it by id alone.     *)
Walked == INSTANCE WorkflowWalk WITH
  walk <- [r \in Runs |-> [status |-> run[r].status, flow |-> run[r].flow,
                           at |-> run[r].step]],
  loose <- Loose

ImplementsWalk == Walked!WalkSpec

(* A run that is running settles, unless its only thread was lost or it    *)
(* waits for a callback, its own or that of a child run.                   *)
Waits == WithParents({r \in Runs : \E j \in Jobs : job[j].run = r /\ job[j].status = "waiting"})

RunsSettle ==
  \A r \in Runs : run[r].status = "running" ~>
                    run[r].status # "running" \/ r \in Lost \cup Waits
=============================================================================
