SPECIFICATION Spec
CONSTANTS
  NumWorkers = 2
  NumJobs = 1
  Spurious = 0
  StrayReads = {}
INVARIANTS
  WalksLiveNodes
CHECK_DEADLOCK FALSE
