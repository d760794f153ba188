SPECIFICATION Spec
CONSTANTS
  BUFFER_SIZE = 5
  MaxStream = 5
INVARIANTS
  TypeOK
  FindsRequest
  DropsOnlyLineless
  SleepsOnNothing
PROPERTIES
  TestClientEnds
CHECK_DEADLOCK FALSE
