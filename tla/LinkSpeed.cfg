SPECIFICATION Spec
CONSTANTS
  speed = 4000
  ether = 10000
  delay = 0
  inQBufSize = 7
  calcMode = 0
  Word = 1073741824
  Lossy = FALSE
  Reorder = FALSE
  MaxQSize = 2048
  srceHost <- AnyPort
  Senders <- MCSenders
  Sizes = {1}
  MaxPackets = 3
  LastArrival = 3
  MaxTime = 6
  MaxSignals = 0
INVARIANT LinkSpeed
CHECK_DEADLOCK FALSE
