-------------------------------- MODULE Cron --------------------------------
(***************************************************************************)
(* The cron scheduler (cron.rs): one task that sleeps until the earliest   *)
(* next occurrence, then goes through its sources and fires the ones that  *)
(* are due, statement by statement.  What it has fired is in memory only.  *)
(*                                                                         *)
(* Time is a number of ticks; occurrences fall on whole seconds, the task  *)
(* wakes up, works and is restarted at any tick, as late as may be.  The   *)
(* clock does not go back.                                                 *)
(***************************************************************************)
EXTENDS Integers, FiniteSets

CONSTANTS
  Schedule,     (* the occurrences of each cron source: a function to sets    *)
                (* of ticks                                                   *)
  Second,       (* ticks in a second                                          *)
  Minute,       (* ticks in a minute                                          *)
  MaxClock,     (* bound on time                                              *)
  MaxOutages    (* bound on crashes and failed statements                     *)

ASSUME CronAssumption ==
  /\ Second \in Nat \ {0} /\ Minute \in Nat \ {0} /\ Minute % Second = 0
  /\ MaxClock \in Nat /\ MaxOutages \in Nat
  /\ \A s \in DOMAIN Schedule : \A o \in Schedule[s] : o \in Nat /\ o % Second = 0

VARIABLES
  clock,
  cron,        (* what the task does: down, plan, asleep, pass, fire           *)
  fireAt,      (* when it wakes up                                             *)
  awake,       (* `now` of the pass through the sources                        *)
  due,         (* the sources the pass has not come to                         *)
  lastFired,   (* last_fired, or -1                                            *)
  outages,     (* crashes and failed statements so far                         *)
  born,        (* history: when this task began to plan                        *)
  passes,      (* history: `now` of the passes of this task                    *)
  fires        (* history: which source fired, looking how far back, and when  *)

cronVars ==
  <<clock, cron, fireAt, awake, due, lastFired, outages, born, passes, fires>>

Sources == DOMAIN Schedule

(* find_next_occurrence, which excludes the time it is given; 0 is none.   *)
Later(s, t) == {o \in Schedule[s] : o > t}
NextOccurrence(O) == IF O = {} THEN 0 ELSE CHOOSE o \in O : \A k \in O : o <= k

MinuteOf(t) == t \div Minute

-----------------------------------------------------------------------------

(* Time passes, also within a pass and between the rows of a tick.         *)
TimePasses ==
  /\ clock < MaxClock
  /\ clock' = clock + 1
  /\ UNCHANGED <<cron, fireAt, awake, due, lastFired, outages, born, passes, fires>>

(* The loop's first half: the earliest occurrence after now; without one   *)
(* the scheduler stops.                                                    *)
Plan ==
  LET next == NextOccurrence(UNION {Later(s, clock) : s \in Sources})
  IN  /\ fireAt' = next
      /\ cron' = IF next = 0 THEN "stopped" ELSE "asleep"
      /\ UNCHANGED <<clock, awake, due, outages, fires>>

(* run is spawned: nothing has been fired as far as it knows.              *)
StartScheduler ==
  /\ cron = "down"
  /\ born' = clock
  /\ lastFired' = [s \in Sources |-> -1]
  /\ passes' = {}
  /\ Plan

PlanNext ==
  /\ cron = "plan"
  /\ Plan
  /\ UNCHANGED <<born, lastFired, passes>>

(* The sleep ends, on time or late.                                        *)
Wake ==
  /\ cron = "asleep" /\ clock >= fireAt
  /\ cron' = "pass"
  /\ awake' = clock
  /\ passes' = passes \cup {clock}
  /\ due' = Sources
  /\ UNCHANGED <<clock, fireAt, lastFired, outages, born, fires>>

(* Mutant of Base: two seconds instead of one.                             *)
BaseWide(s) == IF lastFired[s] = -1 THEN awake - 2 * Second ELSE lastFired[s]

(* How far back a source is looked after: to its last firing, or within a  *)
(* second.                                                                 *)
Base(s) == IF lastFired[s] = -1 THEN awake - Second ELSE lastFired[s]

(* A source is due when an occurrence has passed, and it has not fired in  *)
(* this minute.                                                            *)
IsDue(s) ==
  /\ \E o \in Later(s, Base(s)) : o <= awake
  /\ lastFired[s] = -1 \/ MinuteOf(lastFired[s]) # MinuteOf(awake)

CheckSource(s) ==
  /\ cron = "pass" /\ s \in due
  /\ due' = due \ {s}
  /\ IF IsDue(s)
     THEN /\ cron' = "fire"
          /\ lastFired' = [lastFired EXCEPT ![s] = awake]
          /\ fires' = fires \cup {[source |-> s, from |-> Base(s), to |-> awake]}
     ELSE UNCHANGED <<cron, lastFired, fires>>
  /\ UNCHANGED <<clock, fireAt, awake, outages, born, passes>>

(* fire_cron_event has inserted the event, and each job and run by itself. *)
EndTick ==
  /\ cron = "fire"
  /\ cron' = "pass"
  /\ UNCHANGED <<clock, fireAt, awake, due, lastFired, outages, born, passes, fires>>

(* Mutant of TickFails: the error ends the pass.                           *)
TickFailsAll ==
  /\ cron = "fire" /\ outages < MaxOutages
  /\ outages' = outages + 1
  /\ cron' = "pass" /\ due' = {}
  /\ UNCHANGED <<clock, fireAt, awake, lastFired, born, passes, fires>>

(* One of its statements fails: the rest of the tick is given up, and      *)
(* logged.                                                                 *)
TickFails ==
  /\ cron = "fire" /\ outages < MaxOutages
  /\ outages' = outages + 1
  /\ cron' = "pass"
  /\ UNCHANGED <<clock, fireAt, awake, due, lastFired, born, passes, fires>>

EndPass ==
  /\ cron = "pass" /\ due = {}
  /\ cron' = "plan"
  /\ UNCHANGED <<clock, fireAt, awake, due, lastFired, outages, born, passes, fires>>

(* A crash, or the shutdown that the sleep is interrupted by.              *)
StopScheduler ==
  /\ cron # "down" /\ outages < MaxOutages
  /\ outages' = outages + 1
  /\ cron' = "down"
  /\ due' = {}
  /\ UNCHANGED <<clock, fireAt, awake, lastFired, born, passes, fires>>

-----------------------------------------------------------------------------

CronInit ==
  /\ clock = 0 /\ cron = "down" /\ fireAt = 0 /\ awake = 0
  /\ due = {}
  /\ lastFired = [s \in Sources |-> -1]
  /\ outages = 0 /\ born = 0 /\ passes = {} /\ fires = {}

CronNext ==
  \/ TimePasses \/ StartScheduler \/ PlanNext \/ Wake \/ EndTick \/ TickFails
  \/ EndPass \/ StopScheduler
  \/ \E s \in Sources : CheckSource(s)

CronSpec == CronInit /\ [][CronNext]_cronVars

-----------------------------------------------------------------------------
(* Properties.                                                             *)

Covers(f, s, o) == f.source = s /\ f.from < o /\ o <= f.to

(* No occurrence is fired twice, by one process or by one that replaces    *)
(* it, although the replacement has forgotten what was fired (cron.rs, the *)
(* second before now that a source without a last firing looks back).      *)
FiresOnce ==
  \A s \in Sources : \A o \in Schedule[s] :
    Cardinality({f \in fires : Covers(f, s, o)}) <= 1

(* The source has a five-field schedule, which falls on whole minutes.     *)
OnTheMinute(s) == \A o \in Schedule[s] : o % Minute = 0

(* An occurrence of a five-field schedule is fired by the first pass that  *)
(* comes within a second of it and, once its source has fired, by the      *)
(* first pass however late: the sleep may end late, other sources may take *)
(* their time or fail, and the next occurrence is computed after that.     *)
Caught(s, o) ==
  \/ \E p \in passes : o <= p /\ p < o + Second
  \/ \E f \in fires : f.source = s /\ born < f.to /\ f.to < o

DueIsFired ==
  cron = "asleep" =>
    \A s \in Sources : OnTheMinute(s) => \A o \in Schedule[s] :
      (\E p \in passes : o <= p) /\ born < o /\ Caught(s, o)
        => \E f \in fires : Covers(f, s, o)
=============================================================================
