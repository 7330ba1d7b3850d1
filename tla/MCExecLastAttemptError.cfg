CONSTANTS
  Checks = {c1}
  Workers = {w1}
  NoWorker = NoWorker
  MaxAttempts = 2
  MaxStalls = 1
  StallAfterLease = TRUE
  MaxGeneration = 0
  FaultBudget <- OneError
SPECIFICATION Spec
INVARIANT ProcessingIsCovered
CHECK_DEADLOCK FALSE
