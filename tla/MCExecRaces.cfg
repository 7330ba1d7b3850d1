CONSTANTS
  Checks = {c1, c2}
  Workers = {w1, w2}
  NoWorker = NoWorker
  MaxAttempts = 2
  MaxStalls = 1
  StallAfterLease = FALSE
  MaxGeneration = 1
  FaultBudget <- StallAndError
SPECIFICATION Spec
CONSTRAINT OneCheckOrOneSlot
SYMMETRY Symmetry
INVARIANTS TypeOK ResultIsLastAttempts NoDuplicateRequest CancelReachesQueuedChecks QueuedIsNotDone
PROPERTIES FinishedRowsStay ImplementsLifecycle CancelledIsFinal
CHECK_DEADLOCK FALSE
