SPECIFICATION FairAllSpec
CONSTANTS
  a = a
  b = b
  NoMap = NoMap
  Maps <- TwoMaps
  IdOf <- Submitted
  Ptrs <- TwoPtrs
  Precedes <- PathFirstIdLast
  Unreliable <- NoneUnreliable
  MaxProcs = 1
  Patient = TRUE
  RetryInitial = 2
  RetryMax = 2
  PollGaps <- EveryTick
  Parts = {"session"}
  Bad = Bad
  None = None
  Files = {}
  Searches = {}
  Wild = Wild
  Chunk = 3
  Looks = {}
  Null = Null
  Torn = Torn
  MaxErrors = 2
  ErrorBound = 9
  MaxRows = 2
  Songs = {}
  LiveTimes = {}
PROPERTIES
  MapConverges
