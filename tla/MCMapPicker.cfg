SPECIFICATION Spec
CONSTANTS
  a = a  b = b  c = c
  Places = {a, b, c}
  Default = a
  AtPoint <- MCAtPoint
  NULL = NULL
  MaxMoves = 1
INVARIANTS
  TypeOK AddressFollows PositionAtPoint
PROPERTIES
  PositionCatchesUp
CHECK_DEADLOCK FALSE
