SPECIFICATION AllSpec
CONSTANTS
  Maps = {a, b}
  Mods = {hd, dt}
  Unreadable = {b}
  None = None
  Starts = {"select", "play"}
  MaxMoves = 5
  MaxFailures = 1
  Curves <- ThreeCurves
  MaxPassed = 5
  MaxCount = 32767
  Hits = {0, 1, 8, 250}
  ObjectTotals = {0, 12, 300}
INVARIANTS
  PpAgrees
  NothingLeaks
  SettlesInTwoPolls
  CursorIsFresh
  PlayIsScored
PROPERTIES
  AttemptIsItsOwn
