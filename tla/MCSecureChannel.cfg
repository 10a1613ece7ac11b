SPECIFICATION Spec
CONSTANTS
  Handshake = 2
  Body = 6
  QueueCap = 1
  Wire = 8
  MaxCalls = 3
INVARIANTS
  InOrder
  ClosesForAReason
PROPERTIES
  AllArrives
CHECK_DEADLOCK FALSE
