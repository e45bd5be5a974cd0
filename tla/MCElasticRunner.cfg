CONSTANTS
  MaxTasks = 2
  MaxParallel = 2
  InitialCounts = {1, 2}
  MaxGeneration = 3
  MaxReservations = 2
  AllocationPolicies = {"agent", "llm_scheduler"}
  MaxAttempts = 2
  BacklogLimit = 1
  MaxFaults = 2
SPECIFICATION MCSmallSpec
INVARIANTS AttemptCap OneProof NoIdleSlot
PROPERTIES UsesScheduler
CHECK_DEADLOCK FALSE
