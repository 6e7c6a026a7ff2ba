SPECIFICATION AllSpec
CONSTANTS
  a = a
  b = b
  NoMap = NoMap
  Maps <- TwoMaps
  IdOf <- SecondUnsubmitted
  Ptrs <- OnePtr
  Precedes <- AnyOrder
  Unreliable <- SecondUnreliable
  MaxProcs = 2
  Patient = FALSE
  RetryInitial = 2
  RetryMax = 2
  PollGaps <- EveryTick
  Parts = {"session", "file", "scan", "reads"}
  Bad = Bad
  None = None
  Files <- FewFiles
  Searches <- FewSearches
  Wild = Wild
  Chunk = 3
  Looks <- FewLooks
  Null = Null
  Torn = Torn
  MaxErrors = 2
  ErrorBound = 9
  MaxRows = 2
  Songs <- FewSongs
  LiveTimes = {0, 12}
INVARIANTS
  BeatmapIsWhole
  RecordOfTheMods
  PatternIsFound
  GameIsRead
