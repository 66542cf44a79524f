SPECIFICATION Spec
CONSTANTS
  Processes = {p1, p2}
  Ids = {a, b}
  MaxInode = 5
  Unknown = Unknown
  MaxFaults = 1
  MaxOperator = 1
CHECK_DEADLOCK FALSE
INVARIANTS RunningIsReachable NothingLeftBehind LeftoversDoNotBlock
PROPERTY ForeignIsKept
