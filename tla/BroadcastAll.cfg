SPECIFICATION AllSpec
CONSTANTS
  s1 = s1
  s2 = s2
  Null = Null
  c1 = c1
  c2 = c2
  None = None
  Clients = {c1, c2}
  DeltaClients = {c2}
  Packets <- MCPackets
  First <- MCFirst
  WithNaN <- MCWithNaN
  Keys <- MCKeys
  Scalars = {s1, s2}
  Depth = 2
  Samples <- MCSamples
  SampleLists <- MCLists
  Nesting = 1
  EarlyClients = FALSE
  MaxMoves = 4
  MaxRuns = 2
INVARIANTS
  FramesGiveThePacket
PROPERTIES
  ShowsWholePackets
  EndsOnTheGame
  NotReadyOnceGone
