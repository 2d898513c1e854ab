SPECIFICATION FairSpec
CONSTANTS
  replay = replay
  live = live
  d1 = d1
  d2 = d2
  b1 = b1
  c1 = c1
  c2 = c2
  Nil = Nil
  Sessions = {replay, live}
  Drivers = {d1, d2}
  Data <- MCData
  MaxMessages = 2
  LoopRewind = 5
  Browsers = {b1}
  Conns = {c1}
  SendBuffer = 2
  Initial <- MCInitial
  FrameBodies <- MCBodies
  Others <- MCOthers
  MaxOps = 4
  MaxSnapshots = 3
INVARIANTS TypeOK BoardWasTheHubs BrowserCatchesUp
PROPERTIES NeverStalls
CHECK_DEADLOCK FALSE
