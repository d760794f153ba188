SPECIFICATION Spec
CONSTANTS
  Threads = {t1, t2}
  Loops = 3
  Adds = 2
INVARIANTS
  TypeOK
  OwnerIsAlone
  PrintsRight
PROPERTIES
  ImplementsCounter
  TestsEnd
CHECK_DEADLOCK FALSE
