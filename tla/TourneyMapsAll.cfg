SPECIFICATION TourneySpec
CONSTANTS
  a = a
  b = b
  NoMap = NoMap
  Clients = {1, 2}
  Maps = {a, b}
  Mods = {NM, HR}
  NoMod = NM
  Readable = {a, b}
  Precedes <- IdLast
  Patient = TRUE
  MaxHits = 1
  MaxMoves = 5
  MaxFailures = 1
  manager = manager
  first = first
  second = second
  Procs = {manager, first, second}
  Slot <- Slots
  Manager = manager
  Players = {}
  None = None
  ArgsFail = FALSE
  Room = 1
  MaxChanges = 0
  MaxLosses = 0
  Halves = {"maps"}
INVARIANTS
  StatsOfTheMap
  PpOfThePlay
PROPERTIES
  MapsAreShown
