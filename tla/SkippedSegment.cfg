SPECIFICATION Spec
CONSTANTS
  WINDOW_SIZE = 26
  FileSize = 4
  MAXTRIES = 3
  WindowSumsToZero = TRUE
  null = null
  FwdFaults = {"duplicate"}
  RevFaults = {}
  MaxFaults = 1
  MaxInFlight = 2
INVARIANT
  WrittenIsPrefix
CHECK_DEADLOCK FALSE
