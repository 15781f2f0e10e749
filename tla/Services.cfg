SPECIFICATION MCSpec
CONSTANTS
  None = None
  Own = Own
  Condition = Condition
  NaN = NaN
  Bodies <- TestBodies
  Charges = {0, 2}
  Candidates <- TestCandidates
  Valid = {"spoiled", "unwelcome", "rewritten", "good"}
  Normalized <- TestNormalized
  Welcome = {"bad", "spoiled", "rewritten", "good"}
  MaxRetries = 2
  Symbols = {1, 2, 3}
  Liquid = {1, 3}
  Lists <- SyncLists
  Upper <- SyncNames
  Horizon = 3
  MaxSymbols = 2
  PageSize = 3
  Max429Retries = 1
  Terms <- TestTerms
  Behaviours <- TestBehaviours
  FrameSizes = {1, 4, 6}
  ProbeCount = 2
  MaxArgSets = 6
  Plays <- BoundaryPlays
  FirstCloses = {20}
  Bars <- BoundaryBars
  CloseTs <- BoundaryCloses
  BaseStep = 1
  Slip = 1
  BaseLen = 1
  HourLen = 2
  BucketLen = 4
  DayLen = 12
  Change = 19
  Shift <- ClockShift
  Calls <- ReplayCalls
  SymbolOf <- Spellings
  Supplies <- BarSupplies
  OpenOffset = 4
  WeekLen = 2
  Monday = 1
  Prints <- PremarketPrints
  WeekLabels <- CachedWeeks
  Ranges <- BoundaryRanges
  Returns <- BoundaryReturns
  Decisions <- BoundaryDecisions
  Cases <- LensCases
  Answers <- MarginAnswers
  Horizons <- TwoHorizons
  MinPairs = 3
  Screens <- TestScreens
  Expressions <- TestExpressions
  HeightOf <- TestHeights
  Watchlists <- TestWatchlists
  NamedLists <- TestNamedLists
  TickerOf <- ScreenNames
  Tickers = {1, 2, 3}
  Cap = 2
  Facts = {"x", "y"}
  FactSheets <- TestSheets
  Providers = {"1h", "1d"}
  TermNames = {"t"}
  Readings <- TestReadings
  BarCounts = {2, 20}
  MinLookback = 3
  Objects = {1, 2, 3, 4, 5, 6}
  NameOf <- TestNameOf
  DigestOf <- TestDigestOf
  Composites = {1, 2, 4}
  GrammarOf <- TestGrammars
  BoundSpec <- TestSpecs
  Bundles <- TestBundles
  Requests <- TestRequests
  Settings <- TestSettings
  DepthOf <- TestDepths
INVARIANTS
  BillIsSound
  AttemptsAreCalls
  ResultIsUsable
  ReturnedIsCurrent
  CheckedIsCausal
  VerdictIsDeserved
  FrozenIsClosed
  RuntimeStaysInClosure
  ReadsAreScheduled
  LiveDoorAgrees
  EstimatesCompare
  ManagedWithinLevels
PROPERTIES
  WritesAreWhole
  HolesNeedADetachedWindow
  CallsEnd
  SettledAsEvaluated
  StaleRowsSaySo
