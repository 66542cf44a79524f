SPECIFICATION Spec
CONSTANTS
  Readers = {r1, r2}
  Writers = {w1, w2}
  Items = {f, g}
  NoItem = none
  MaxSerial = 3
INVARIANTS
  TypeOK
  RingIsNewestWindow
  ExactLoss
  NoLostWakeup
PROPERTY
  ImplementsRetainedLog
