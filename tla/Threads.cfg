SPECIFICATION Spec
CONSTANTS
  NumWorkers = 3
  NumJobs = 2
  Spurious = 1
  StrayReads = {"null", "wild"}
INVARIANTS
  TypeOK
  RunOnce
  NoneLost
  WorkConserving
  MarksLiveNode
  NobodySleepsOn
PROPERTIES
  ImplementsJobStack
  ShutdownEnds
  JobsGetRun
CHECK_DEADLOCK FALSE
