SPECIFICATION MCSpec
CONSTANTS
  Calls = {f1, d1}
  Direct = {d1}
  Formal = {f1}
  Jobs = {j1}
  NoJob = NoJob
  Capacity = 1
  MaxResubmits = 1
  Coalesce = TRUE
  Checks = {1, 2}
  Notes = {n1}
  MaxCalls = 1
  NoOne = NoOne
  Coders = {a1, a2}
  JudgeSlots = 1
  RestartLimit = 1
  BaseDelay = 1
  LifeHorizon = 4
INVARIANTS
  StartsClean
PROPERTIES
  CloseEnds
  EveryCallReturns
  NoCommitAfterExit
  ExitCompletes
  PermitReturns
  EverySolverReturns
CHECK_DEADLOCK FALSE
