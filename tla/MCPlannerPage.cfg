SPECIFICATION FairSpec
CONSTANTS
  NULL = NULL
  Half = Half
  Garbled = Garbled
  west = west
  east = east
  Regions = {west, east}
  Packs <- MCPacks
  Configs <- MCConfigs
  PackFormat = 1
  AtFirst <- MCAtFirst
  Points <- MCPoints
  Positions <- MCPositions
  Settings = {0, 1}
  MaxDisturbances = 4
INVARIANTS
  OnlyPinnedServed
  PreflightAgrees
  ShownIsAsked
  HeldAsWanted
PROPERTIES
  ComesUp
\* The bounded disturbances leave a page and a service with nothing to do.
CHECK_DEADLOCK FALSE
