SPECIFICATION FairSpec
CONSTANTS
  None = None
  Plays = {1}
  Symbols = {1}
  Priority <- OnePlay
  MaxOpen = 1
  StartingEquity = 194
  RiskNum = 1
  RiskDen = 4
  Slip = 2
  FeePerFill = 1
  FeePerShare = 1
  Sessions = {1, 4}
  TicksPerDay = 100
  OpenTs <- EdgeOpenTs
  CloseTs <- EdgeCloseTs
  NTest = 4
  Bars <- EdgeBars
  SignalShapes <- EdgeShapes
  Decisions <- EdgeDecisions
  MaxSignals = 2
INVARIANTS
  SettledIsTPlusOne ExcursionCoversExit CallerKeepsOrder
  ResultReconciles ResultNeverRefused
PROPERTIES
  LiquidationIsMarked
