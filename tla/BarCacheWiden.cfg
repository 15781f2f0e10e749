SPECIFICATION Spec
CONSTANTS
  None = None
  Procs = {p1}
  Horizon = 3
  FirstClock = 1
  Lookbacks = {0, 1, 5}
  BucketSize = 2
INVARIANT
  DeriveCatchesUp
