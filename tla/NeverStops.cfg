SPECIFICATION FairSpec
CONSTANTS
  WINDOW_SIZE = 26
  FileSize = 6
  MAXTRIES = 4
  WindowSumsToZero = FALSE
  null = null
  FwdFaults = {"num"}
  RevFaults = {"duplicate"}
  MaxFaults = 2
  MaxInFlight = 1
PROPERTY
  SenderStops
CHECK_DEADLOCK FALSE
