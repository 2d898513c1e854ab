SPECIFICATION FairSpec
CONSTANTS
  replay = replay
  live = live
  d1 = d1
  d2 = d2
  Nil = Nil
  Sessions = {replay, live}
  Drivers = {d1, d2}
  Data <- MCData
  Clip <- MCClip
  Wallclock = {}
  PythonClip = {}
  MaxMessages = 2
  LoopRewind = 5
  Subs = {0, 1}
  MaxRev = 3
  Faults = {}
  InitSession = replay
  Sources = {replay, live}
INVARIANTS HubCatchesUp
PROPERTIES FramesArrive SupersededExit
CHECK_DEADLOCK FALSE
