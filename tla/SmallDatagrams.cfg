SPECIFICATION FairSpec
CONSTANTS
  speed = 4000
  ether = 10000
  delay = 2
  inQBufSize = 2
  calcMode = 1
  Word = 1073741824
  Lossy = TRUE
  Reorder = TRUE
  MaxQSize = 2
  srceHost <- MCSrceHost
  Senders <- MCSenders
  Sizes = {0, 1}
  MaxPackets = 3
  LastArrival = 3
  MaxTime = 9
  MaxSignals = 1
INVARIANTS  TimersInOrder SentWereReceived
PROPERTY FlushEnds
CHECK_DEADLOCK FALSE
