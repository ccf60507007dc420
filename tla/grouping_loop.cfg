SPECIFICATION Spec
CONSTANTS
  N = 4
  Breakers = {b1, b2, b3}
INVARIANTS
  LoopComputesGrouping
CHECK_DEADLOCK FALSE
