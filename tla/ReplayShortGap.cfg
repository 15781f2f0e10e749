SPECIFICATION FairSpec
CONSTANTS
  None = None
  Plays = {1}
  Symbols = {1}
  Priority <- OnePlay
  MaxOpen = 2
  StartingEquity = 100
  RiskNum = 1
  RiskDen = 5
  Slip = 1
  FeePerFill = 1
  FeePerShare = 0
  Sessions = {1, 2, 3, 4}
  TicksPerDay = 100
  OpenTs <- DailyOpenTs
  CloseTs <- DailyCloseTs
  NTest = 4
  Bars <- GapBars
  SignalShapes <- GapShapes
  Decisions <- GapDecisions
  MaxSignals = 3
INVARIANT
  SettledNonnegative
