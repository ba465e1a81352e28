\* A server that answers before the next fix, and React is always done first.
SPECIFICATION Spec
CONSTANTS
  f1 = f1
  f2 = f2
  s1 = s1
  onF = onF
  onS = onS
  end = end
  NULL = NULL
  Routes <- MCRoutes
  Level <- MCLevel
  Off <- MCOff
  Places = {onF, onS, end}
  Destinations = {end}
  Hysteresis = 3
  MaxCalls = 2
  Overlaps = FALSE
  Replans = FALSE
  Prompt = TRUE
SYMMETRY Symmetry
INVARIANTS
  RetryIsHeard
\* With MaxCalls requests in the air, effects that send one more are cut off.
CHECK_DEADLOCK FALSE
