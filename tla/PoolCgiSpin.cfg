SPECIFICATION Spec
CONSTANTS
  N = 1
  Conns = {k1}
  Outcomes = {"keep", "close", "fork"}
  Failing <- Nobody
  Crashing <- Nobody
  Interrupts <- KillOrCtrlC
  PipeCap = 1
PROPERTIES
  ParentTerminates
CHECK_DEADLOCK FALSE
