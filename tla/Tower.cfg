SPECIFICATION TowerSpec
CONSTANTS
  Nil = Nil
  Infinity = 1000000
  GapWindow = 3
  Hysteresis = 150
  MaxHistory = 2
  race = race
  practice = practice
  Sessions = {race, practice}
  Feed <- MCFeed
  Stints <- MCStints
  MaxFrames = 4
INVARIANTS GreenIsEarned ColumnsAgree ChartFresh NoBleed
CHECK_DEADLOCK FALSE
