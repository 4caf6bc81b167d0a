SPECIFICATION LimiterSpec
CONSTANTS
  p1 = p1
  p2 = p2
  r1 = r1
  r2 = r2
  r3 = r3
  r4 = r4
  None = None
  Project <- TwoProjects
  Request <- FourRequests
  EventsPerMinute = 50
  Burst = 2
  Second = 2
  MaxTime = 5
SYMMETRY Symmetry
CHECK_DEADLOCK FALSE
INVARIANTS
  LimiterTypeOK
  WindowBound
  NeverLockedOut
  RetryAfterExact
