SPECIFICATION Spec
CONSTANTS
  NULL = NULL
  MaxOffset = 30
  MaxWalkSteps = 4
  Residential = 6
  Cfg <- MCCfg
  Secondary = 3
  DefaultSpeed <- MCSpeed
  DefaultLanes <- MCLanes
  Networks <- MCNetworks
  Plans <- MCPlans
  Reroutes <- MCReroutes
  Problems = {}
INVARIANTS
  SafeLabelDeserved
CHECK_DEADLOCK FALSE
