SPECIFICATION PartsSpec
CONSTANTS
  Threads = {poller, worker}
  Tails = {page}
  Capacity = 3
  Channel = 2
  Limit = 2
  MaxEntries = 6
  MaxFiles = 2
  MaxDays = 4
  MaxLines = 5
  Folders = {overlay}
  Requests = {r1, r2}
  MaxChanges = 2
  Packets = {p1, p2}
  Lists = {all, flat, nested}
  Unfiltered = all
  NestedLists = {nested}
  NotAList = NotAList
  None = None
  MaxPackets = 2
  MaxMessages = 2
  MaxFailures = 1
  MaxProcesses = 3
  MaxWorkers = 2
  Attempts = 2
  MaxEdits = 4
CHECK_DEADLOCK FALSE
INVARIANTS
  NothingIsMissed
  LogIsKept
  AnswerIsOfItsTime
PROPERTIES
  FramesFitTheList
  LatestIsShown
  EachIsListed
