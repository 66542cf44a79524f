SPECIFICATION Spec
CONSTANTS
  MaxSequence = 4
  MaxCount = 4
  InitialDelay = 1
  MaxDelay = 6
INVARIANTS
  EveryRecordAccounted
  InOrderOnce
  DelayFollowsFailures
PROPERTY
  NeverGivesUp
CHECK_DEADLOCK FALSE
