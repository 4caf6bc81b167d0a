SPECIFICATION Safety
CONSTANTS
  w1 = w1
  w2 = w2
  k1 = k1
  k2 = k2
  None = None
  Worker <- OneWorker
  Key <- OneKey
  Job <- TwoJobs
  Skew <- ClockSkew
  MaxTime = 2
  MaxAttempts = 2
INVARIANTS
  SeenInOrder
  BackoffRespected
PROPERTIES
  LastSeenAdvances
