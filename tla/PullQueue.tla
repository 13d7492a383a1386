------------------------------ MODULE PullQueue ------------------------------
(***************************************************************************)
(* A pull queue of qhook: consumers receive messages over HTTP, ack or     *)
(* nack them by id, and a message that is neither becomes visible again    *)
(* after the queue's visibility_timeout (here StaleAfter).  A message is a *)
(* row of the `jobs` table; there is no receipt: an ack or a nack acts on  *)
(* whichever delivery of the message is under way when it arrives.         *)
(*                                                                         *)
(* Every SQL statement is one atomic step.  An ack or nack of several ids  *)
(* runs one such statement (or two) per id, and is several steps here.     *)
(***************************************************************************)
EXTENDS JobTable

CONSTANTS
  Consumers,       (* the clients of the queue, each with one request at a time *)
  Batch,           (* the `batch` parameter of a receive                        *)
  RetryDelays,     (* the delays a nack can compute: 30 s * 2^attempt, at most  *)
                   (* an hour, with jitter                                      *)
  AtomicFetch,     (* TRUE: Postgres claims in the fetch; FALSE: SQLite/MySQL   *)
  Orderly,         (* TRUE: consumers settle what they hold within the timeout, *)
                   (* once                                                      *)
  MaxDisturbances, (* bound on lost calls, DB errors and operator calls         *)
  HistoryCap       (* where the history counters saturate                       *)

ASSUME PullQueueAssumption ==
  /\ Batch \in Nat \ {0}
  /\ RetryDelays \subseteq Nat \ {0}
  /\ AtomicFetch \in BOOLEAN /\ Orderly \in BOOLEAN
  /\ MaxDisturbances \in Nat
  /\ HistoryCap \in Nat

VARIABLES
  held,      (* the messages a consumer has received and not yet settled        *)
  since,     (* ticks since it received them, saturating at StaleAfter          *)
  picked,    (* SQLite: rows its receive has selected and not yet claimed       *)
  nacking,   (* its nack, between the SELECT and the UPDATE                     *)
  disturbed, (* lost calls, DB errors and operator calls so far                 *)
  delivered, (* history: receives of the message since its counter was reset    *)
  granted    (* history: times it was put back without a nack                   *)

consumerVars == <<held, since, picked, nacking>>
historyVars == <<delivered, granted>>
vars == <<rowVars, consumerVars, disturbed, historyVars>>

NoNack == [msg |-> "none"]
Nack == [msg : Jobs, seen : Nat]

Disturb == disturbed < MaxDisturbances /\ disturbed' = disturbed + 1
Undisturbed == UNCHANGED disturbed

(* A consumer has a message until its ack or nack has taken effect.        *)
Nacking(c, m) == nacking[c] # NoNack /\ nacking[c].msg = m
Has(c, m) == m \in held[c] \/ Nacking(c, m)

-----------------------------------------------------------------------------
Insert(m) ==
  /\ InsertRow(m)
  /\ UNCHANGED <<consumerVars, disturbed, historyVars>>

(* fetch_queue_messages.  S is claimed by statement and on its way to c.   *)
Deliver(c, S) ==
  /\ ClaimRows(S)
  /\ held' = [held EXCEPT ![c] = @ \cup S]
  /\ since' = [since EXCEPT ![c] = [m \in Jobs |-> IF m \in S THEN 0 ELSE @[m]]]
  /\ delivered' = [m \in Jobs |-> IF m \in S THEN Bump(delivered[m], HistoryCap)
                                            ELSE delivered[m]]

(* Postgres: one UPDATE ... RETURNING.  The others: a SELECT ...           *)
Receive(c) ==
  /\ picked[c] = {} /\ Due # {}
  /\ \E S \in SUBSET Due :
       /\ Cardinality(S) = Lower(Batch, Cardinality(Due))
       /\ IF AtomicFetch
          THEN Deliver(c, S) /\ UNCHANGED picked
          ELSE /\ picked' = [picked EXCEPT ![c] = S]
               /\ UNCHANGED <<status, attempt, timer, held, since, delivered>>
  /\ UNCHANGED <<age, nacking, disturbed, granted>>

(* ... and then mark_job_running row by row; a row somebody else claimed   *)
(* meanwhile is left out of the response.                                  *)
ClaimPicked(c, m) ==
  /\ m \in picked[c]
  /\ picked' = [picked EXCEPT ![c] = @ \ {m}]
  /\ IF status[m] \in Waiting THEN Deliver(c, {m})
     ELSE UNCHANGED <<status, attempt, timer, held, since, delivered>>
  /\ UNCHANGED <<age, nacking, disturbed, granted>>

(* The receive or the consumer dies: whatever was claimed for it is known  *)
(* to nobody.  A nack it had sent may or may not go on.                    *)
Forget(c) ==
  /\ held[c] # {} \/ picked[c] # {} \/ nacking[c] # NoNack
  /\ held' = [held EXCEPT ![c] = {}]
  /\ picked' = [picked EXCEPT ![c] = {}]
  /\ \/ UNCHANGED nacking
     \/ nacking' = [nacking EXCEPT ![c] = NoNack]
  /\ Disturb
  /\ UNCHANGED <<rowVars, since, historyVars>>

(* The answer to an ack or nack arrives, or is lost and the consumer may   *)
(* send the call again.                                                    *)
Settle(c, m) ==
  \/ held' = [held EXCEPT ![c] = @ \ {m}] /\ Undisturbed
  \/ ~Orderly /\ UNCHANGED held /\ Disturb

(* ack_queue_messages, for one id.                                         *)
Ack(c, m) ==
  /\ m \in held[c]
  /\ IF status[m] = "running" THEN WriteRow(m, "completed", 0)
                              ELSE UNCHANGED <<status, timer>>
  /\ Settle(c, m)
  /\ UNCHANGED <<attempt, age, since, picked, nacking, historyVars>>

(* nack_queue_messages, for one id: the SELECT ...                         *)
NackRead(c, m) ==
  /\ m \in held[c] /\ nacking[c] = NoNack
  /\ nacking' = IF status[m] = "running"
                THEN [nacking EXCEPT ![c] = [msg |-> m, seen |-> attempt[m]]]
                ELSE nacking
  /\ Settle(c, m)
  /\ UNCHANGED <<rowVars, since, picked, historyVars>>

(* Mutant of NackApplies: the UPDATE goes by id alone. *)
NackAppliesById(m) == status[m] \notin {"none", "purged"}

(* ... WHERE id = m AND status = 'running'                                 *)
NackApplies(m) == status[m] = "running"

(* Mutants of Spent: the comparison is one off, either way. *)
SpentLate(seen) == seen > MaxAttempts
SpentEarly(seen) == seen + 1 >= MaxAttempts

(* Unlike handle_failure, a nack reads the count after the claim.          *)
Spent(seen) == seen >= MaxAttempts

(* ... and the UPDATE, with the attempt count the SELECT has read.         *)
NackWrite(c) ==
  /\ nacking[c] # NoNack
  /\ nacking' = [nacking EXCEPT ![c] = NoNack]
  /\ LET m == nacking[c].msg
     IN  \/ NackApplies(m) /\ Spent(nacking[c].seen) /\ WriteRow(m, "dead", 0)
         \/ /\ NackApplies(m) /\ ~Spent(nacking[c].seen)
            /\ \E d \in RetryDelays : WriteRow(m, "retryable", d)
         \/ ~NackApplies(m) /\ UNCHANGED <<status, timer>>
  /\ UNCHANGED <<attempt, age, held, since, picked, disturbed, historyVars>>

(* The UPDATE fails with a database error: the message stays in flight.    *)
NackFails(c) ==
  /\ nacking[c] # NoNack
  /\ nacking' = [nacking EXCEPT ![c] = NoNack]
  /\ Disturb
  /\ UNCHANGED <<rowVars, held, since, picked, historyVars>>

-----------------------------------------------------------------------------
(* The worker's side: recover_expired_queue_messages every 10 s, and the   *)
(* two statements of hourly maintenance that concern queue rows.           *)

Grant(S) ==
  granted' = [m \in Jobs |-> IF m \in S THEN Bump(granted[m], HistoryCap) ELSE granted[m]]

RecoverExpired ==
  /\ Stale # {}
  /\ WriteRows(Stale, "retryable")
  /\ Grant(Stale)
  /\ UNCHANGED <<attempt, age, consumerVars, disturbed, delivered>>

CleanupOld ==
  /\ PurgeOldRows
  /\ UNCHANGED <<attempt, age, consumerVars, disturbed, historyVars>>

ExpireOld ==
  /\ ExpireRows
  /\ UNCHANGED <<attempt, age, consumerVars, disturbed, historyVars>>

-----------------------------------------------------------------------------
(* Operators: `queues retry` (one message, or every dead one), `jobs retry` *)
(* without an id, `queues drain`.                                           *)

ResetMessages(S) ==
  /\ S # {}
  /\ ResetRows(S)
  /\ delivered' = [m \in Jobs |-> IF m \in S THEN 0 ELSE delivered[m]]
  /\ granted' = [m \in Jobs |-> IF m \in S THEN 0 ELSE granted[m]]
  /\ Disturb
  /\ UNCHANGED <<age, consumerVars>>

RetryMessage(m) == status[m] \in Retriable /\ ResetMessages({m})

DeadMessages == {m \in Jobs : status[m] = "dead"}

RetryAll == ResetMessages(DeadMessages)

RetryDead ==
  /\ DeadMessages # {}
  /\ WriteRows(DeadMessages, "available")
  /\ Grant(DeadMessages)
  /\ Disturb
  /\ UNCHANGED <<attempt, age, consumerVars, delivered>>

Drain ==
  /\ WriteRows({m \in Jobs : status[m] # "none"}, "purged")
  /\ Disturb
  /\ UNCHANGED <<attempt, age, consumerVars, historyVars>>

-----------------------------------------------------------------------------
(* Orderly consumers let no message lapse while they have it.              *)
Tick ==
  /\ Orderly => \A c \in Consumers, m \in Jobs : Has(c, m) => since[c][m] + 1 < StaleAfter
  /\ TableTick
  /\ since' = [c \in Consumers |-> [m \in Jobs |->
                 IF Has(c, m) THEN Bump(since[c][m], StaleAfter) ELSE since[c][m]]]
  /\ UNCHANGED <<held, picked, nacking, disturbed, historyVars>>

Init ==
  /\ TableInit
  /\ held = [c \in Consumers |-> {}]
  /\ since = [c \in Consumers |-> [m \in Jobs |-> 0]]
  /\ picked = [c \in Consumers |-> {}]
  /\ nacking = [c \in Consumers |-> NoNack]
  /\ disturbed = 0
  /\ delivered = [m \in Jobs |-> 0]
  /\ granted = [m \in Jobs |-> 0]

ConsumerNext(c) ==
  \/ Receive(c)
  \/ \E m \in Jobs : ClaimPicked(c, m) \/ Ack(c, m) \/ NackRead(c, m)
  \/ NackWrite(c)
  \/ NackFails(c)
  \/ Forget(c)

Next ==
  \/ \E c \in Consumers : ConsumerNext(c)
  \/ \E m \in Jobs : Insert(m) \/ RetryMessage(m)
  \/ RecoverExpired
  \/ CleanupOld
  \/ ExpireOld
  \/ RetryAll
  \/ RetryDead
  \/ Drain
  \/ Tick

Spec == Init /\ [][Next]_vars

(* Fairness.  The server finishes the requests it has begun and its ticker *)
(* recovers lapsed messages; consumers keep receiving (the others may be   *)
(* served first, hence strong fairness) and answer each message some way.  *)
ServerFairness ==
  /\ WF_vars(RecoverExpired)
  /\ WF_vars(Tick)
  /\ \A c \in Consumers :
       /\ WF_vars(\E m \in Jobs : ClaimPicked(c, m))
       /\ WF_vars(NackWrite(c))

ConsumerFairness ==
  \A c \in Consumers :
    /\ SF_vars(Receive(c))
    /\ WF_vars(\E m \in Jobs : Ack(c, m) \/ NackRead(c, m))

FairSpec == Spec /\ ServerFairness /\ ConsumerFairness

-----------------------------------------------------------------------------
(* Properties.                                                             *)

(* Type invariant. *)
TypeOK ==
  /\ TableTypeOK
  /\ held \in [Consumers -> SUBSET Jobs]
  /\ since \in [Consumers -> [Jobs -> 0..StaleAfter]]
  /\ picked \in [Consumers -> SUBSET Jobs]
  /\ nacking \in [Consumers -> Nack \cup {NoNack}]
  /\ disturbed \in 0..MaxDisturbances
  /\ delivered \in [Jobs -> 0..HistoryCap]
  /\ granted \in [Jobs -> 0..HistoryCap]

(* A message is invisible to others for the visibility timeout: no two     *)
(* consumers have it who both received it less than a timeout ago          *)
(* (docs/guides/pull-mode-queues.md, "Visibility Timeout").                *)
InvisibleToOthers ==
  \A c, d \in Consumers : c # d =>
    \A m \in held[c] \cap held[d] : ~(since[c][m] < StaleAfter /\ since[d][m] < StaleAfter)

(* With orderly consumers that promise is kept, and whoever has a message  *)
(* has it alone and finds its row still running: an ack or nack, which     *)
(* names only the message, then acts on the sender's own delivery.         *)
HolderOwns ==
  Orderly => \A c \in Consumers, m \in Jobs : Has(c, m) =>
    /\ status[m] \in {"running", "purged"}
    /\ \A d \in Consumers : Has(d, m) => d = c

(* An acked message is gone for good, whoever nacks, recovers or retries   *)
(* it afterwards: every later statement asks for the status it expects.    *)
AckedIsFinal ==
  [][\A m \in Jobs : status[m] = "completed" => status'[m] \in {"completed", "purged"}]_vars

(* Deliveries of a message exceed max_attempts only by the times it lapsed, *)
(* however stale the nacks that race with its later deliveries.             *)
DeliveryBudget ==
  disturbed = 0 => \A m \in Jobs : delivered[m] <= MaxAttempts + granted[m]

(* Nothing orderly consumers nack is dead-lettered early, even when an     *)
(* operator resets the counter between their calls.                        *)
DeadIsSpent ==
  Orderly => \A m \in Jobs : status[m] = "dead" => attempt[m] = MaxAttempts \/ TtlExpired(m)

(* A message never stays in flight: whatever its consumer does or loses,   *)
(* it is settled or visible again some day.                                *)
InvisibleIsTemporary ==
  \A m \in Jobs : status[m] = "running" ~> status[m] # "running"

(* With orderly consumers every message is acked or dead-lettered.         *)
EventuallySettled ==
  \A m \in Jobs : status[m] \in Waiting \cup {"running"} ~> status[m] \in Settled \cup {"purged"}
=============================================================================
