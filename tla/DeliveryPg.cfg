\* Two Postgres processes and one job, or one process that has a permit for one
\* of its two jobs; timely deliveries.
CONSTANTS
  Jobs = {j1, j2}
  Workers = {w1, w2}
  Permits = {p1}
  BatchSize = 1
  MaxAttempts = 2
  StaleAfter = 2
  Retention = 1
  EventTtl = 2
  CircuitDelay = 1
  RetryDelays = {1}
  TaskDeadline = 1
  Timely = TRUE
  AtomicFetch = TRUE
  HasBreaker = TRUE
  MaxDisturbances = 2
  HistoryCap = 4
SPECIFICATION Spec
SYMMETRY Symmetry
CONSTRAINT Scope
INVARIANTS SingleFlight AttemptBudget DeadIsSpent
PROPERTIES ImplementsLifecycle NoRedelivery
