CONSTANTS
  MaxTasks = 2
  MaxParallel = 2
  InitialCounts = {0, 1, 2}
  MaxGeneration = 3
  MaxReservations = 2
SPECIFICATION MCSpec
PROPERTIES PoolSpec NoOvertaking
CHECK_DEADLOCK FALSE
