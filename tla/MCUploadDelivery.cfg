\* Device, network and one worker, under fairness.
SPECIFICATION UploadFairSpec
CONSTANTS
  k0 = k0
  k1 = k1
  w0 = w0
  w1 = w1
  NULL = NULL
  End = End
  Distance <- LineDistance
  Trim = 0
  MaxAccuracy = 1
  MinFixInterval = 1
  MaxSpeed = 2
  SealInterval = 0
  MaxFixesPerChunk = 1
  MaxSeq = 1
  Tokens = {k0}
  Trips = {1}
  Routes <- ShortRoute
  Destinations = {NULL}
  Fixes <- OneFix
  MaxClock = 0
  MaxEffective = 0
  MaxCrashes = 0
  ClockSteps = FALSE
  StorageFails = FALSE
  Workers = {w0}
  Retention = 0
  MaxServerClock = 0
PROPERTIES
  Delivered
\* The bounded clock, trips and crashes leave a device with nothing to do.
CHECK_DEADLOCK FALSE
