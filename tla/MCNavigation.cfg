\* Sessions, replans, fixes and answers, in any order and at any moment.
SPECIFICATION Spec
CONSTANTS
  f1 = f1
  f2 = f2
  s1 = s1
  onF = onF
  onS = onS
  end = end
  NULL = NULL
  Routes <- MCRoutes
  Level <- MCLevel
  Off <- MCOff
  Places = {onF, onS, end}
  Destinations = {end}
  Hysteresis = 2
  MaxCalls = 2
  Overlaps = TRUE
  Replans = TRUE
  Prompt = FALSE
SYMMETRY Symmetry
INVARIANTS
  TypeOK
  HeardIsCurrent
  RecordsOnlySessions
  GuardIsReleased
\* With MaxCalls requests in the air, effects that send one more are cut off.
CHECK_DEADLOCK FALSE
