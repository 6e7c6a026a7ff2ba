SPECIFICATION AllSpec
CONSTANTS
  None = None
  NaN = NaN
  Procs = {player, manager, spectator}
  TourneyArgs = {manager, spectator}
  Modes = {"auto", "solo"}
  MaxMoves = 5
  MaxFailures = 2
INVARIANTS
  FlagOfTheSession
  GamesAreReportedAlike
  RequestsAreServed
PROPERTIES
  EachIsServed
