SPECIFICATION DemoFairSpec
CONSTANTS
  replay = replay
  d1 = d1
  d2 = d2
  Nil = Nil
  Sessions = {replay}
  Drivers = {d1, d2}
  Data <- MCData
  MaxMessages = 2
  LoopRewind = 1
  Clip <- MCClip
  MaxStall = 1
  MaxLaps = 3
INVARIANTS DemoTypeOK LapSoFar
PROPERTIES NoFrameDropped LeftAloneLoops
CHECK_DEADLOCK FALSE
