\* Driving up and down six places of a line, while storage fails
\* and the wall clock is set back.
SPECIFICATION Spec
CONSTANTS
  k0 = k0
  k1 = k1
  NULL = NULL
  End = End
  Distance <- LineDistance
  Trim = 2
  MaxAccuracy = 1
  MinFixInterval = 1
  MaxSpeed = 3
  SealInterval = 1
  MaxFixesPerChunk = 1
  MaxSeq = 4
  Tokens = {k0}
  Trips = {1}
  Routes <- BranchingRoutes
  Destinations = {4}
  Fixes <- Wander
  MaxClock = 1
  MaxEffective = 1
  MaxCrashes = 0
  ClockSteps = TRUE
  StorageFails = TRUE
INVARIANTS
  TypeOK
  HeldBack
  SentIsDurable
  BodiesAreValid
  ChunksInOrder
\* The bounded clock, trips and crashes leave a device with nothing to do.
CHECK_DEADLOCK FALSE
