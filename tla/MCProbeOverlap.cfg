SPECIFICATION SessionSpec
CONSTANTS
  Checks = {c1, c2, c3}
  Notes = {}
  MaxCalls = 2
  NoOne = NoOne
INVARIANTS
  OneProbeInFlight
CHECK_DEADLOCK FALSE
