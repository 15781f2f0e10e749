SPECIFICATION FairSpec
CONSTANTS
  None = None
  Plays = {1}
  Symbols = {1, 2}
  Priority <- OnePlay
  MaxOpen = 1
  StartingEquity = 100
  RiskNum = 1
  RiskDen = 4
  Slip = 2
  FeePerFill = 1
  FeePerShare = 0
  Sessions = {1, 2}
  TicksPerDay = 100
  OpenTs <- FlatOpenTs
  CloseTs <- FlatCloseTs
  NTest = 3
  Bars <- MixedBars
  SignalShapes <- MixedShapes
  Decisions <- MixedDecisions
  MaxSignals = 3
INVARIANTS
  CashConserved CapacityIsInOrder RefusalsAreTimely
PROPERTIES
  ImplementsLifecycle
