SPECIFICATION Spec
CONSTANTS
  PoolSize = 8
  MaxFromPool = 4
  SkipAfter = 0
  Probes = 0
  Sizes = {3, 4, 5}
  Chunks = {c1, c2, c3}
  Null = Null
  MaxBlocks = 4
  MaxOverrun = 7
SYMMETRY Heap
INVARIANTS
  StaysInBlock
CHECK_DEADLOCK FALSE
