CONSTANTS
  Checks = {c1}
  Workers = {w1}
  NoWorker = NoWorker
  MaxAttempts = 2
  MaxStalls = 1
  StallAfterLease = TRUE
  MaxGeneration = 1
  FaultBudget <- LossAndCrash
SPECIFICATION FairSpec
INVARIANTS ProcessingIsCovered QueuedIsRecoverable
PROPERTIES ChecksSettle
CHECK_DEADLOCK FALSE
