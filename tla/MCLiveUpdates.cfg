CONSTANTS
  Checks = {c1, c2}
  Workers = {w1, w2}
  MaxWrites = 2
  MaxDrops = 1
SPECIFICATION Spec
SYMMETRY Symmetry
INVARIANTS TypeOK NothingMissed CurrentIsComing
CHECK_DEADLOCK FALSE
