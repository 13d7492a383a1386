----------------------------- MODULE MCServices -----------------------------
(* Instances for TLC of the components around the queue, which share no    *)
(* state: a behaviour picks one of them and leaves the others alone.       *)
EXTENDS CircuitBreaker, Endpoints, Cron, RateLimiter, Listing, Server, Migration,
        Sns

VARIABLE service

(* Every hour, every minute, and every few seconds.                        *)
Schedules == [hourly |-> {12}, minutely |-> {6, 12}, often |-> {2, 4}]

(* A signed message of each kind, one of a source with skip_verify, and     *)
(* those that are turned away.                                             *)
Signed == [kind |-> "Notification", cert |-> "sns", checked |-> TRUE, signed |-> TRUE,
           confirmable |-> FALSE]
Unsigned == [Signed EXCEPT !.signed = FALSE]
SomeEnvelopes ==
  {Signed, Unsigned,
   [Signed EXCEPT !.kind = "SubscriptionConfirmation", !.confirmable = TRUE],
   [Signed EXCEPT !.kind = "SubscriptionConfirmation"],
   [Unsigned EXCEPT !.kind = "UnsubscribeConfirmation", !.checked = FALSE],
   [Signed EXCEPT !.kind = "other"],
   [Signed EXCEPT !.cert = "elsewhere"]}

Services ==
  {"breaker", "endpoints", "cron", "limiter", "listing", "server", "migration", "sns"}

ServicesInit ==
  /\ service \in Services
  /\ Init /\ EndpointInit /\ CronInit /\ LimiterInit /\ ListingInit /\ ServerInit
  /\ MigrationInit /\ SnsInit
  /\ service # "server" => scheduler = "done"
  /\ service # "migration" => schema = {}
  /\ service # "sns" => \A m \in SnsMessages : envelope[m] = Unsigned

Idle(others) == UNCHANGED <<service, others>>

ServicesNext ==
  \/ /\ service = "breaker" /\ Next
     /\ Idle(<<endpointVars, cronVars, limiterVars, listingVars, serverVars, migrationVars, snsVars>>)
  \/ /\ service = "endpoints" /\ EndpointNext
     /\ Idle(<<vars, cronVars, limiterVars, listingVars, serverVars, migrationVars, snsVars>>)
  \/ /\ service = "cron" /\ CronNext
     /\ Idle(<<vars, endpointVars, limiterVars, listingVars, serverVars, migrationVars, snsVars>>)
  \/ /\ service = "limiter" /\ LimiterNext
     /\ Idle(<<vars, endpointVars, cronVars, listingVars, serverVars, migrationVars, snsVars>>)
  \/ /\ service = "listing" /\ ListingNext
     /\ Idle(<<vars, endpointVars, cronVars, limiterVars, serverVars, migrationVars, snsVars>>)
  \/ /\ service = "server" /\ ServerNext
     /\ Idle(<<vars, endpointVars, cronVars, limiterVars, listingVars, migrationVars, snsVars>>)
  \/ /\ service = "migration" /\ MigrationNext
     /\ Idle(<<vars, endpointVars, cronVars, limiterVars, listingVars, serverVars, snsVars>>)
  \/ /\ service = "sns" /\ SnsNext
     /\ Idle(<<vars, endpointVars, cronVars, limiterVars, listingVars, serverVars, migrationVars>>)

servicesVars ==
  <<service, vars, endpointVars, cronVars, limiterVars, listingVars, serverVars,
    migrationVars, snsVars>>

(* The fairness of CircuitBreaker and Server, in their own behaviours.      *)
Breaker(A) == service = "breaker" /\ A
Running(A) == service = "server" /\ Alive /\ A

ServicesFairness ==
  /\ WF_vars(Breaker(Tick))
  /\ \A t \in Tasks : WF_vars(Breaker(TaskNext(t)))
  /\ WF_serverVars(Running(WorkerSignalled \/ WorkerDrained \/ DrainTimesOut))
  /\ WF_serverVars(Running(EndSchedulerPass))
  /\ SF_serverVars(Running(SchedulerSignalled))
  /\ WF_serverVars(Running(StopServer \/ JoinWorker \/ ExitProcess))

ServicesSpec ==
  /\ ServicesInit /\ [][ServicesNext]_servicesVars
  /\ ServicesFairness
=============================================================================
