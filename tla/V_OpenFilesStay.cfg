SPECIFICATION Spec
CONSTANTS
  Types = {1}
  Modes = {"time"}
  Leftovers <- MCLeftovers
  Horizon = 1
  DayLength = 2
  CountLimit = 1
  TypeLimit = 2
  AllLimit = 2
  OrderlyUse = TRUE
  MaxRefused = 1
  LastMoment = 4
  MaxLives = 1
INVARIANTS OpenFilesStay
CHECK_DEADLOCK FALSE
