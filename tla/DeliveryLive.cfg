\* One process whose deliveries may outlive the stale threshold.
CONSTANTS
  Jobs = {j1}
  Workers = {w1}
  Permits = {p1, p2}
  BatchSize = 1
  MaxAttempts = 2
  StaleAfter = 1
  Retention = 0
  EventTtl = 0
  CircuitDelay = 1
  RetryDelays = {1}
  TaskDeadline = 0
  Timely = FALSE
  AtomicFetch = FALSE
  HasBreaker = FALSE
  MaxDisturbances = 1
  HistoryCap = 0
SPECIFICATION FairSpec
INVARIANTS CompletedWasAnswered NoStrandedRow
PROPERTY EventuallySettled
