SPECIFICATION FairSpec
CONSTANTS
  speed = 4000
  ether = 10000
  delay = 4
  inQBufSize = 7
  calcMode = 0
  Word = 1073741824
  Lossy = TRUE
  Reorder = FALSE
  MaxQSize = 2048
  srceHost <- MCSrceHost
  Senders <- MCSenders
  Sizes = {1, 3, 8}
  MaxPackets = 3
  LastArrival = 3
  MaxTime = 17
  MaxSignals = 1
INVARIANTS TypeOK TimersMatchQueue QUsedIsBytesQueued StatisticsAddUp MinimumDelay LongRunSpeed AtMostOneLeft
PROPERTIES DelayLineSpec PacketsLeave
CHECK_DEADLOCK FALSE
