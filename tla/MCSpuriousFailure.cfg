CONSTANTS
  MaxTasks = 2
  MaxParallel = 2
  InitialCounts = {1}
  MaxGeneration = 2
  MaxReservations = 3
  AllocationPolicies = {"llm_scheduler"}
  MaxAttempts = 2
  BacklogLimit = 1
  MaxFaults = 0
SPECIFICATION RunnerSpec
INVARIANTS NoSpuriousFailure
CHECK_DEADLOCK FALSE
