SPECIFICATION Spec
CONSTANTS
  WINDOW_SIZE = 26
  FileSize = 4
  MAXTRIES = 3
  WindowSumsToZero = FALSE
  null = null
  FwdFaults = {"lose"}
  RevFaults = {}
  MaxFaults = 1
  MaxInFlight = 2
INVARIANT
  SuccessMeansDelivered
CHECK_DEADLOCK FALSE
