SPECIFICATION WriterSpec
CONSTANTS
  Sensors = {a, b}
  Limit = 3
  QueueCapacity = 2
  Sizes = {1, 2}
  MaxFileBytes = 5
INVARIANTS
  EverySelectionAccounted
  LinesInOrder
PROPERTY
  CallsReturn
CHECK_DEADLOCK FALSE
