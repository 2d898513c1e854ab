SPECIFICATION Spec
CONSTANTS
  replay = replay
  live = live
  d1 = d1
  d2 = d2
  Nil = Nil
  Sessions = {replay, live}
  Drivers = {d1, d2}
  Data <- MCData
  Clip <- MCClip
  Wallclock = {replay}
  PythonClip = {live}
  MaxMessages = 2
  LoopRewind = 5
  Subs = {0, 1}
  MaxRev = 2
  Faults = {"crash", "set", "publish", "drop", "gateway", "restart"}
  InitSession = replay
  Sources = {replay, live}
INVARIANTS LaneIsolation RestartNeverReemits
PROPERTIES ImplementsBoard
CHECK_DEADLOCK FALSE
