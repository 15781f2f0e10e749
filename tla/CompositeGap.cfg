SPECIFICATION Spec
CONSTANTS
  None = None
  Members = {"a", "b", "c"}
  Trees <- TestTrees
  FrameOf <- TestFrames
  WindowBars = 2
  MaxCasts = 3
  Opens <- TestOpens
  Closes <- TestCloses
  SessionOf <- TestSessions
  BaseStep = 2
  PeriodEnd <- TestPeriods
  FirstTest = 2
  LastTest = 6
INVARIANT
  VotesLiveByBars
