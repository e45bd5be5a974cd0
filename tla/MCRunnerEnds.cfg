CONSTANTS
  MaxTasks = 3
  MaxParallel = 2
  InitialCounts = {0}
  MaxGeneration = 1
  MaxReservations = 2
  AllocationPolicies = {"deterministic", "llm_scheduler"}
  MaxAttempts = 1
  BacklogLimit = 1
  MaxFaults = 1
SPECIFICATION MCFairRunnerSpec
INVARIANTS ClosesOut
PROPERTIES RunEnds
CHECK_DEADLOCK FALSE
