\* Two trips: races of operations, drain, timer and kills.
SPECIFICATION Spec
CONSTANTS
  k0 = k0
  k1 = k1
  NULL = NULL
  End = End
  Distance <- LineDistance
  Trim = 0
  MaxAccuracy = 1
  MinFixInterval = 1
  MaxSpeed = 2
  SealInterval = 0
  MaxFixesPerChunk = 1
  MaxSeq = 4
  Tokens = {k0}
  Trips = {1, 2}
  Routes <- ShortRoute
  Destinations = {NULL}
  Fixes <- OneFix
  MaxClock = 0
  MaxEffective = 1
  MaxCrashes = 1
  ClockSteps = FALSE
  StorageFails = FALSE
INVARIANTS
  KilledAppLosesNothing
  TracesForgotten
  ChunksBeforeEnd
  NoArtifactBeforeFixes
  NoPartSealedTwice
PROPERTIES
  NothingAfterEnd
\* The bounded clock, trips and crashes leave a device with nothing to do.
CHECK_DEADLOCK FALSE
