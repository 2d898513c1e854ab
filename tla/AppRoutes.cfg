SPECIFICATION Spec
CONSTANTS
  Nil = Nil
  Upper <- MCUpper
  WellFormed <- MCWellFormed
  SESSIONS <- MCSessions
  Trace <- MCTrace
  Code <- MCCode
  Outline <- MCOutline
  LoopTail = 1
  BoardCars <- MCBoardCars
  Hashes <- MCHashes
INVARIANTS SharedPair OnTheTrack UrlNamesSelection
PROPERTIES SelectionStands LinkMoves
CHECK_DEADLOCK FALSE
