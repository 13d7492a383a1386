\* Consumers that outlive the visibility timeout and repeat their calls, and a TTL.
CONSTANTS
  Jobs = {m1}
  Consumers = {c1, c2}
  Batch = 1
  MaxAttempts = 2
  StaleAfter = 1
  Retention = 0
  EventTtl = 3
  RetryDelays = {1}
  AtomicFetch = TRUE
  Orderly = FALSE
  MaxDisturbances = 1
  HistoryCap = 6
SPECIFICATION FairSpec
INVARIANT DeliveryBudget
PROPERTIES AckedIsFinal InvisibleIsTemporary
