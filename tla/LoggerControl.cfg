SPECIFICATION Spec
CONSTANTS
  Callers = {c1, c2}
  Writers = {w1}
  FileOrder <- MCFileOrder
  Main = "main"
  SwitchOrder <- MCSwitchOrder
  Console = "console"
  Info = "info"
  MountMain = TRUE
  Options <- MCOptions
  OrderlyUse = TRUE
  MaxCalls = 5
INVARIANTS TypeOK OneLivePerType LevelsAgree OneView Reaches
PROPERTIES CloseReleases FilesFollowLevel CallsReturn
CHECK_DEADLOCK FALSE
