SPECIFICATION Spec
CONSTANTS
  WINDOW_SIZE = 26
  FileSize = 7
  MAXTRIES = 4
  WindowSumsToZero = FALSE
  null = null
  FwdFaults = {"lose", "duplicate", "sum", "num"}
  RevFaults = {"lose", "duplicate"}
  MaxFaults = 2
  MaxInFlight = 3
INVARIANTS
  TypeOK
  WrittenIsPrefix
  AckMeansStored
  OneOutstanding
  ReceiverEndsAfterFin
  IInv
PROPERTY
  StopAndWaitSpec
CHECK_DEADLOCK FALSE
