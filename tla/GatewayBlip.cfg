SPECIFICATION Spec
CONSTANTS
  replay = replay
  live = live
  d1 = d1
  d2 = d2
  Nil = Nil
  Sessions = {replay, live}
  Drivers = {d1, d2}
  Data <- MCData
  Clip <- MCClip
  Wallclock = {}
  PythonClip = {}
  MaxMessages = 2
  LoopRewind = 5
  Subs = {0, 1}
  MaxRev = 2
  Faults = {"drop"}
  InitSession = replay
  Sources = {replay, live}
INVARIANTS BlipHeals
CHECK_DEADLOCK FALSE
