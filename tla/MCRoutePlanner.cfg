SPECIFICATION FairSpec
CONSTANTS
  NULL = NULL
  MaxOffset = 30
  MaxWalkSteps = 4
  Residential = 6
  Cfg <- MCCfg
  Secondary = 3
  DefaultSpeed <- MCSpeed
  DefaultLanes <- MCLanes
  Networks <- MCNetworks
  Plans <- MCPlans
  Reroutes <- MCReroutes
  Problems = {}
INVARIANTS
  SearchIsExact
  ReachedAreFollowed
  WithinBudget
  OnlyTaggedCounts
  StreetAgrees
PROPERTIES
  Answered
CHECK_DEADLOCK FALSE
