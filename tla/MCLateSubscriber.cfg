SPECIFICATION LaneSpec
CONSTANTS
  Clients = {c1}
  MaxSubscribers = 1
  MaxCount = 9
  MaxFrames = 3
  MaxOpened = 1
INVARIANT
  OnlyFramesSinceSubscription
