SPECIFICATION CodingSpec
CONSTANTS
  Coders = {a1, a2}
  JudgeSlots = 1
INVARIANT UnboundIsLatched
CHECK_DEADLOCK FALSE
