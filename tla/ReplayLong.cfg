SPECIFICATION FairSpec
CONSTANTS
  None = None
  Plays = {1, 2}
  Symbols = {1}
  Priority <- PlaysByPriority
  MaxOpen = 2
  StartingEquity = 100
  RiskNum = 1
  RiskDen = 5
  Slip = 1
  FeePerFill = 1
  FeePerShare = 0
  Sessions = {1, 2, 5}
  TicksPerDay = 100
  OpenTs <- TailOpenTs
  CloseTs <- TailCloseTs
  NTest = 3
  Bars <- LongBars
  SignalShapes <- LongShapes
  Decisions <- LongDecisions
  MaxSignals = 3
INVARIANTS
  TypeOK SignalsAccounted NoGapAtProtect ReplayNeverAborts
PROPERTIES
  EverySignalResolves
