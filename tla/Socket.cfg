SPECIFICATION FairSpec
CONSTANTS
  Lanes = {la, lb}
  Board = board
  Watchers = {va, vb}
  Conns = {c1, c2}
  Sockets = {w1, w2}
  Null = Null
  MaxAttempts = 3
INVARIANTS OneWayOn SharedLane StatusTruthful
PROPERTIES BudgetEnds Heals
CHECK_DEADLOCK FALSE
