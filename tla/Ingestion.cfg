SPECIFICATION MCSpec
CONSTANTS
  Symbols = {"s"}
  Underlyings = {"u"}
  Grid = 2
  PageBars = 2
  MinCandles = 2
  FeatureWindow = 3
  Windows <- MCWindows
  Histories <- MCHistories
  Findings <- MCFindings
  Callers = {"warmup", "poll"}
  RateInterval = 2
  RetryBase = 1
  MaxRetries = 2
  Horizon = 6
  LiveSymbols <- MCLiveSymbols
  TickRuns = {"run", "final"}
  QuoteRuns = {"run", "final"}
  FlowPolls = {"p", "q"}
  MaxDelay = 1
  MaxTrades = 2
  MaxQuotes = 2
  MaxVersions = 2
  MaxBar = 2
  WarmBars = 2
  MaxSlots = 3
  MaxOi = 2
INVARIANTS BackfillIsSound FeaturesAreEarned VenueSeesOneClient NothingLostQuietly RowsConverge
PROPERTIES LiveSettles
CHECK_DEADLOCK FALSE
