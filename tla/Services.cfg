SPECIFICATION ServicesSpec
CONSTANTS
  Callers = {c1, c2}
  Cwd = 1
  Offers <- MCOffers
  Tunings <- MCTunings
  MaxCalls = 3
  LogCallers = {c1, c2}
  FileTypes = {"info", "main"}
  QueueTypes = {"console"}
  Main = "main"
  Console = "console"
  Info = "info"
  Trace = "trace"
  Levels = {"console", "info"}
  ChannelNames = {"x"}
  Mountings <- MCMountings
  Escaping = {2}
  CallsMade <- MCCalls
  Objects = {1, 2, 3, 4, 5, 6}
  QueueCap = 1
  MaxLogged = 2
  Writers = {w1, w2}
  Readers = {g1}
  Resetters = {r1}
  CountedTypes <- MCCountedTypes
  MaxLines = 2
  MaxVisits = 1
  MaxUploads = 2
INVARIANTS
  LinesAreTheirOwn
  OneOwner
  CountsAgree
  UploadOkMeansStored
  RunsAsConfigured
\* Calls are made, lines counted and files sent up to a bound.
CHECK_DEADLOCK FALSE
