\* Two testers and one trip: ownership, replay, conflict, refusal, revocation,
\* kills and the purge, whose limit is met under fairness.
SPECIFICATION FairSpec
CONSTANTS
  b0 = b0
  b1 = b1
  b2 = b2
  k0 = k0
  k1 = k1
  w0 = w0
  t0 = t0
  NULL = NULL
  End = End
  Tokens = {k0, k1}
  Trips = {t0}
  Seqs = {0}
  Bodies = {b0, b1, b2}
  Accepts <- AcceptsTwo
  Workers = {w0}
  Retention = 0
  MaxClock = 1
INVARIANTS TypeOK AckedIsHeld NothingPurgedEarly
PROPERTIES AppendOnly Implements EveryTraceExpires
