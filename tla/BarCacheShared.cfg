SPECIFICATION FairSpec
CONSTANTS
  None = None
  Procs = {p1, p2}
  Horizon = 2
  FirstClock = 1
  Lookbacks = {0, 1}
  BucketSize = 2
INVARIANTS
  LockHasAWriter
PROPERTIES
  ImplementsStore SyncEnds
