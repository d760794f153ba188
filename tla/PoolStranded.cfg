SPECIFICATION Spec
CONSTANTS
  N = 2
  Conns = {k1, k2}
  Outcomes = {"keep", "close"}
  Failing <- Nobody
  Crashing <- Nobody
  Interrupts <- Nobody
  PipeCap = 2
INVARIANTS
  NothingStranded
CHECK_DEADLOCK FALSE
