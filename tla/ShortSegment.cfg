SPECIFICATION Spec
CONSTANTS
  WINDOW_SIZE = 26
  FileSize = 3
  MAXTRIES = 4
  WindowSumsToZero = FALSE
  null = null
  FwdFaults = {"lose"}
  RevFaults = {}
  MaxFaults = 1
  MaxInFlight = 1
INVARIANT
  GivesUpOnlyAfterMaxTries
CHECK_DEADLOCK FALSE
