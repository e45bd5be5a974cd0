SPECIFICATION MCSpec
CONSTANTS
  Calls = {p1, f1, d1}
  Direct = {d1}
  Formal = {f1}
  Jobs = {j1, j2}
  NoJob = NoJob
  Capacity = 2
  MaxResubmits = 0
  Coalesce = TRUE
SYMMETRY JobSymmetry
INVARIANTS
  JobsCovered
  ReleaseOwed
  CleanClose
  ReleasedAfterReceipt
PROPERTIES
  PoolSpec
CHECK_DEADLOCK FALSE
