\* One run whose first step has branches with a catch; nothing goes wrong
\* but the requests.
CONSTANTS
  Workflows <- Escaping
  Roots <- ForkRoots
  Timed <- Untimed
  MaxRuns = 1
  MaxJobs = 6
  MaxStarts = 1
  ItemCounts = {1}
  MaxFaults = 0
  MaxCalls = 0
SPECIFICATION Spec
INVARIANTS CaughtJoinIsComplete
CHECK_DEADLOCK FALSE
