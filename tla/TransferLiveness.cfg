SPECIFICATION FairSpec
CONSTANTS
  WINDOW_SIZE = 26
  FileSize = 6
  MAXTRIES = 5
  WindowSumsToZero = FALSE
  null = null
  FwdFaults = {"lose", "sum"}
  RevFaults = {}
  MaxFaults = 4
  MaxInFlight = 1
PROPERTY
  TransferCompletes
CHECK_DEADLOCK FALSE
