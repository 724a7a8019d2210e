SPECIFICATION FairSpec
CONSTANTS
  WINDOW_SIZE = 26
  FileSize = 4
  MAXTRIES = 3
  WindowSumsToZero = FALSE
  null = null
  FwdFaults = {}
  RevFaults = {"lose"}
  MaxFaults = 1
  MaxInFlight = 1
PROPERTY
  HandshakeCompletes
CHECK_DEADLOCK FALSE
