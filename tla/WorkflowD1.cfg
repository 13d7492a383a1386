\* One run with two branches; nothing goes wrong but a race, on D1.
CONSTANTS
  Workflows <- Definitions
  Roots <- ForkRoots
  Timed <- Untimed
  MaxRuns = 1
  MaxJobs = 5
  MaxStarts = 1
  ItemCounts = {1}
  MaxFaults = 1
  MaxCalls = 0
SPECIFICATION Spec
INVARIANTS OneMerge
CHECK_DEADLOCK FALSE
