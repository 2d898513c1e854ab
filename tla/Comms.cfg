SPECIFICATION FairSpec
CONSTANTS
  Null = Null
  Recorded <- MCRecorded
  Transmitted <- MCTransmitted
  HistoryMax = 2
  Tolerance = 0
  MaxClock = 3
  MaxSnapshots = 2
  MaxQueue = 2
INVARIANTS FiredExactlyOnce BannerIsHeard
PROPERTIES QueueMoves
CHECK_DEADLOCK FALSE
