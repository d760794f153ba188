SPECIFICATION Spec
CONSTANTS
  N = 2
  Conns = {k1, k2}
  Outcomes = {"keep", "close", "fork"}
  Failing <- Anybody
  Crashing <- FirstChild
  Interrupts <- KillOrCtrlC
  PipeCap = 2
SYMMETRY Clients
INVARIANTS
  TypeOK
  NoOrphans
  EveryDeathNoticed
  SignalBytesHaveEdge
  TokensBacked
  FullPipeHasEdge
  Balanced
CHECK_DEADLOCK FALSE
