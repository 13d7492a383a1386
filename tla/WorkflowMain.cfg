\* One run of each definition, with errors, crashes and an operator.
CONSTANTS
  Workflows <- Definitions
  Roots <- MainRoots
  Timed <- MainTimed
  MaxRuns = 2
  MaxJobs = 6
  MaxStarts = 1
  ItemCounts = {1, 2}
  MaxFaults = 1
  MaxCalls = 1
SPECIFICATION FairSpec
INVARIANTS OnePosition StrandedIsExplained JoinIsComplete
PROPERTIES ImplementsWalk RunsSettle
CHECK_DEADLOCK FALSE
