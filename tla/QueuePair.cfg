SPECIFICATION WholeSpec
CONSTANTS
  Pushers = {a}
  Poppers = {b}
  Count = 3
  Rounds = 2
  Node = {n1, n2, n3, n4}
  Null = Null
  Wild = Wild
  Leftovers = {Null, Wild}
INVARIANTS
  TypeOK
  NoDanglingAccess
  ChainLinked
  TestsLeaveEmpty
PROPERTIES
  ImplementsFifo
  ListImplementsFifo
  RoundsEnd
CHECK_DEADLOCK FALSE
