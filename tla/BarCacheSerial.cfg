SPECIFICATION Spec
CONSTANTS
  None = None
  Procs = {p1}
  Horizon = 5
  FirstClock = 1
  Lookbacks = {0, 1, 5}
  BucketSize = 2
INVARIANTS
  OnlyLastIsForming NoHole InnerBucketsCurrent
