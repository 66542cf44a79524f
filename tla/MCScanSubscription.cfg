SPECIFICATION LaneSpec
CONSTANTS
  Clients = {c1, c2, c3}
  MaxSubscribers = 2
  MaxCount = 3
  MaxFrames = 5
  MaxOpened = 4
SYMMETRY Symmetry
INVARIANTS
  SlotsConserved
  LossConserved
