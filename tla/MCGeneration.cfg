SPECIFICATION Spec
CONSTANT
  MaxRotation = 5
INVARIANTS
  BatchesInOrder
  TroubleIsReported
PROPERTIES
  ShutdownReturns
  ImplementsBatchSource
CHECK_DEADLOCK FALSE
