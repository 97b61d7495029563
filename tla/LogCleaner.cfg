SPECIFICATION Spec
CONSTANTS
  Types = {1}
  Modes = {"append", "time"}
  Leftovers <- MCLeftovers
  Horizon = 1
  DayLength = 2
  CountLimit = 1
  TypeLimit = 2
  AllLimit = 3
  OrderlyUse = TRUE
  MaxRefused = 2
  LastMoment = 3
  MaxLives = 2
INVARIANTS KeepsOpenFiles LimitsHold EveryLifeCleans
PROPERTIES StopReturns
CHECK_DEADLOCK FALSE
