SPECIFICATION Spec
CONSTANTS
  Callers = {c1, c2}
  Writers = {}
  FileOrder <- MCFileOrder
  Main = "main"
  SwitchOrder <- MCSwitchOrder
  Console = "console"
  Info = "info"
  MountMain = TRUE
  Options <- MCOptions
  OrderlyUse = FALSE
  MaxCalls = 3
INVARIANTS LevelsAgree
CHECK_DEADLOCK FALSE
