SPECIFICATION CloseoutSpec
CONSTANTS
  RunTasks = {t1}
  Proofs = {p1}
  EpisodeLimit = 1
  RefillLimit = 0
INVARIANT CreditedIsFrozen
CHECK_DEADLOCK FALSE
