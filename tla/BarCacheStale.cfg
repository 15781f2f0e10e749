SPECIFICATION Spec
CONSTANTS
  None = None
  Procs = {p1, p2}
  Horizon = 3
  FirstClock = 1
  Lookbacks = {0, 1}
  BucketSize = 2
PROPERTY
  FinalStays
SYMMETRY
  Interchangeable
