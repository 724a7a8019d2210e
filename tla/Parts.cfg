SPECIFICATION Spec
CONSTANTS
  Items = {a, b}
  NULL = NULL
  Nodes = {n1, n2, n3, n4}
  Capacity = 3
  MaxAdds = 5
  Clients = {c1, c2}
  Nobody = nobody
  Fds = {0, 3}
  TQEs = {t1, t2}
  Delays = {0, 1}
  Intervals = {0, 1}
  MaxCalls = 3
  MaxTicks = 2
  Flags = {"m", "v", "h", "z"}
  TakeArgument = {"p", "i", "o", "d", "s", "e", "q", "B", "L", "O", "C", "U"}
  NumberOf <- MCNumberOf
  FractionOf <- MCFractionOf
  AddressOf <- MCAddressOf
  Localhost = 1
  INADDR_ANY = 0
  INADDR_NONE = 99999
  CommandLines <- MCCommandLines
  MaxInterrupts = 2
  Second = 1000000
  Word = 1073741824
  LinkOptions <- MCLinkOptions
  Loads = {1, 125, 1000, 16384}
  Pauses = {0, 1, 500000, 2000000}
  MaxLoads = 3
  Ints = 2048
  RandMaxes = {3, 31, 1023}
  ErrorOptions <- MCErrorOptions
  PacketSizes = {1, 2, 12}
  MaxPacketsSent = 2
  MaxCorruptBits = 2
  tick = 7
  UsecPerSec = 1000000
  Granule = 1000
  Waits = {1, 3}
  MaxCount = 21
  Byte = 4
  SumAt = 3
  Segments <- MCSegments
  MaxSegments = 2
  MaxDamages = 2
INVARIANTS
  ListIsSequence TQEsInOneList DescriptorsHaveHandlers
  GetoptFindsOptions OptionsWithinLimits ClosedQueueIsNotFlushed
  AssertionsHold GilbertModel BitErrorsHitPacket ReadingIsTrue
  DamagedWordIsSeen
PROPERTIES
  FifoSpec TimerServiceSpec LinkSpec StopsOnlyWhenIdle InterruptStopsLoop
CHECK_DEADLOCK FALSE
