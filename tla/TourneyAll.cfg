SPECIFICATION TourneySpec
CONSTANTS
  a = a
  b = b
  NoMap = NoMap
  Clients = {1}
  Maps = {a}
  Mods = {NM}
  NoMod = NM
  Readable = {a}
  Precedes = {}
  Patient = TRUE
  MaxHits = 0
  MaxMoves = 0
  MaxFailures = 0
  manager = manager
  first = first
  second = second
  Procs = {manager, first, second}
  Slot <- Slots
  Manager = manager
  Players = {ann, bob}
  None = None
  ArgsFail = FALSE
  Room = 2
  MaxChanges = 3
  MaxLosses = 1
  Halves = {"clients"}
INVARIANTS
  UserOfThePointer
PROPERTIES
  ChatIsOfTheChannel
  EveryoneIsServed
