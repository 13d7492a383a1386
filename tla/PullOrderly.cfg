\* Orderly consumers of a SQLite queue, with lost receives, errors and an operator.
CONSTANTS
  Jobs = {m1, m2}
  Consumers = {c1, c2}
  Batch = 2
  MaxAttempts = 2
  StaleAfter = 2
  Retention = 0
  EventTtl = 0
  RetryDelays = {1}
  AtomicFetch = FALSE
  Orderly = TRUE
  MaxDisturbances = 1
  HistoryCap = 0
SPECIFICATION FairSpec
INVARIANTS HolderOwns DeadIsSpent
PROPERTY EventuallySettled
