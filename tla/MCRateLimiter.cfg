CONSTANTS
  Callers = {c1, c2, c3}
  Parts = 2
  Refill = 1
  TicksPerSecond = 4
  KeyTTL = 5
  MaxDelay = 1
  MaxLost = 1
  MaxTime = 7
SPECIFICATION Spec
SYMMETRY CallerSymmetry
INVARIANT GrantsBounded
PROPERTY TokensComeBack
CHECK_DEADLOCK FALSE
