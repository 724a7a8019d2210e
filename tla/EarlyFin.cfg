SPECIFICATION Spec
CONSTANTS
  WINDOW_SIZE = 26
  FileSize = 6
  MAXTRIES = 4
  WindowSumsToZero = FALSE
  null = null
  FwdFaults = {"lose"}
  RevFaults = {"duplicate"}
  MaxFaults = 3
  MaxInFlight = 1
INVARIANT
  SuccessMeansAllSent
CHECK_DEADLOCK FALSE
