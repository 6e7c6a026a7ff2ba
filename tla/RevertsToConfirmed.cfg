SPECIFICATION PartsSpec
CONSTANTS
  Keys = {k1, k2}
  Values = {v1, v2}
  Bad = Bad
  MaxSaves = 1
  MaxProbes = 1
  Files = {f1, f2}
  Levels = {info, warn}
  All = All
  Recent = 1
  MaxRows = 2
  MaxLogged = 3
  MaxPageClicks = 3
  Endpoints = {e1, e2}
  Growing = {e2}
  Nothing = Nothing
  MaxVersions = 2
  MaxFetches = 3
CHECK_DEADLOCK FALSE
INVARIANT RevertsToConfirmed
