SPECIFICATION Spec
CONSTANTS
  N = 2
  Conns = {k1, k2}
  Outcomes = {"keep", "close"}
  Failing <- Anybody
  Crashing <- AnyChild
  Interrupts <- JustKill
  PipeCap = 1
PROPERTIES
  ParentTerminates
  OldestIsAccepted
CHECK_DEADLOCK FALSE
