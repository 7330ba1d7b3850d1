CONSTANTS
  Callers = {c1, c2, c3}
  Parts = 2
  Refill = 1
  TicksPerSecond = 4
  KeyTTL = 5
  MaxDelay = 1
  MaxLost = 0
  MaxTime = 6
SPECIFICATION Spec
SYMMETRY CallerSymmetry
INVARIANT LimitIsGlobal
CHECK_DEADLOCK FALSE
