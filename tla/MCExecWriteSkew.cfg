CONSTANTS
  Checks = {c1, c2}
  Workers = {w1, w2}
  NoWorker = NoWorker
  MaxAttempts = 2
  MaxStalls = 1
  StallAfterLease = TRUE
  MaxGeneration = 0
  FaultBudget <- NoFaults
SPECIFICATION Spec
INVARIANT BatchFollowsChecks
CHECK_DEADLOCK FALSE
