\* Each service by itself: one endpoint and two requests at a time; three
\* schedules over two and a third minutes of three seconds each; two windows
\* and more; four rows and pages of two; three requests and two deliveries; two
\* tasks at a breaker; two processes that start, of which one may be cut off;
\* two messages of SNS, delivered twice at most, and two failures.
CONSTANTS
  MaxEndpoints = 1
  Clients = {c1, c2}
  EventTypes = {"order"}
  SkipVerification = FALSE
  MaxSecrets = 3
  MaxOutbound = 1
  MaxPatches = 1
  Schedule <- Schedules
  Second = 2
  Minute = 6
  MaxClock = 14
  MaxOutages = 1
  Addresses = {a1, a2}
  Limit = 2
  MaxEntries = 1
  Window = 2
  KeepFor = 3
  MaxNow = 5
  MaxId = 4
  PageLimit = 2
  TailLimit = 2
  MaxChanges = 1
  Inbound = {r1, r2, r3}
  MaxInbound = 2
  Deliveries = {d1, d2}
  Starters = {s1, s2}
  MySql = FALSE
  MaxMigrationFaults = 1
  Tasks = {t1, t2}
  Threshold = 2
  Cooldown = 2
  Deadline = 1
  MaxDisturbances = 1
  SnsMessages = {m1, m2}
  Envelopes <- SomeEnvelopes
  SnsUrls = {"sns"}
  CertTtl = 2
  MaxTries = 2
  MaxSnsFaults = 2
SPECIFICATION ServicesSpec
INVARIANTS
  FlagHasOwner SingleTimelyProbe OpenIsSpent
  SchemaIsExplained RotationTakesEffect DeletedGetsNothing FiresOnce
  DueIsFired BurstBounded PagesAreComplete TailSkipsNothing
PROPERTIES
  FailureEndsHalfOpen CellsAgreeAgain ProbedUnlessLost SignalDrains NothingSpoiltForLong
CHECK_DEADLOCK FALSE
