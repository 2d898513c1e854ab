SPECIFICATION RailFairSpec
CONSTANTS
  replay = replay
  live = live
  Lanes <- MCLanes
  None = None
  StaleThreshold = 2
  FirstRev <- MCFirstRev
  MaxAge = 6
  MaxFrames = 1
  MaxWire = 2
INVARIANTS StallIsReal
PROPERTIES StallIsSaid ToggleCatchesUp
CHECK_DEADLOCK FALSE
