SPECIFICATION FairSpec
CONSTANTS
  replay = replay
  live = live
  d1 = d1
  d2 = d2
  Nil = Nil
  Sessions = {replay, live}
  AllowedSessions = {replay, live}
  Drivers = {d1, d2}
  Data <- MCData
  Clip <- MCClip
  Wallclock = {}
  PythonClip = {}
  MaxMessages = 2
  LoopRewind = 5
  Subs = {1, 2}
  MaxRev = 2
  Faults = {"gateway", "drop"}
INVARIANTS OneHub HubsCatchUp
PROPERTIES Answered
CHECK_DEADLOCK FALSE
