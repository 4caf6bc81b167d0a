SPECIFICATION Spec
CONSTANTS
  w1 = w1
  w2 = w2
  k1 = k1
  k2 = k2
  None = None
  Worker <- TwoWorkers
  Key <- TwoKeys
  Job <- TwoJobs
  Skew <- NoSkew
  MaxTime = 0
  MaxAttempts = 1
INVARIANTS
  TypeOK
  NothingLostOrRepeated
  ResolvedAtIffResolved
  CountIsEvents
  SampleIsLatest
  StagedIsCurrent
PROPERTIES
  ImplementsLedger
  EveryEventRecorded
