SPECIFICATION Spec
CONSTANTS
  MaxFrames = 1
  MaxTime = 2
  MaxRounds = 3
  MaxRuns = 2
INVARIANTS
  NoFalseClockError
  StatusesAreOneCut
  FilesArePair
  NeverSilentlyStopped
PROPERTIES
  QuietAfterClose
  StatusNeverGoesBack
  CloseReturns
CHECK_DEADLOCK FALSE
