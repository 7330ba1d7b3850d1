SPECIFICATION Spec
CONSTANTS
  Readers = {r1, r2}
  Writers = {w1, w2}
  Ttl = 3
  MaxRead = 2
  MaxWrites = 3
SYMMETRY Symmetry
INVARIANTS
  StalenessBounded
  StaleHasReason
CHECK_DEADLOCK FALSE
