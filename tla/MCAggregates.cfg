CONSTANTS
  Checks = {c1, c2, c3}
  MaxRetries = 2
SPECIFICATION Spec
SYMMETRY CheckSymmetry
INVARIANTS TypeOK FinishedBatchIsExact SuccessesAreReal BatchFollowsChecks
PROPERTY ReopenedWithItsChecks
CHECK_DEADLOCK FALSE
