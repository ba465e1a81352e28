\* Device, network and two workers: lost answers, late requests, kills.
SPECIFICATION UploadSpec
CONSTANTS
  k0 = k0
  k1 = k1
  w0 = w0
  w1 = w1
  NULL = NULL
  End = End
  Distance <- LineDistance
  Trim = 0
  MaxAccuracy = 1
  MinFixInterval = 1
  MaxSpeed = 2
  SealInterval = 0
  MaxFixesPerChunk = 1
  MaxSeq = 1
  Tokens = {k0}
  Trips = {1}
  Routes <- ShortRoute
  Destinations = {NULL}
  Fixes <- OneFix
  MaxClock = 0
  MaxEffective = 0
  MaxCrashes = 1
  ClockSteps = FALSE
  StorageFails = FALSE
  Workers = {w0, w1}
  Retention = 0
  MaxServerClock = 0
INVARIANTS
  EveryRetryIsAReplay
  EndMeansComplete
PROPERTIES
  NothingIsDropped
\* The bounded clock, trips and crashes leave a device with nothing to do.
CHECK_DEADLOCK FALSE
