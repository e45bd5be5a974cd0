SPECIFICATION Spec
CONSTANTS
  Calls = {p1, p2}
  Direct = {}
  Formal = {}
  Jobs = {j1}
  NoJob = NoJob
  Capacity = 2
  MaxResubmits = 0
  Coalesce = TRUE
INVARIANTS
  NoLostRelease
CHECK_DEADLOCK FALSE
