SPECIFICATION MCSpec
CONSTANTS
  a = a  b = b  x = x  y = y
  Symbols = {a, b}
  Strategies = {x, y}
  Brokers = {"paper", "simulated", "real"}
  Prices = {1, 2}
  Notionals = {2}
  MaxPosition = 2
  MaxStrategy = 3
  MaxPortfolio = 4
  Lot = 2
  MinTrade = 2
  MaxOverfill = 1
  Rests = {TRUE, FALSE}
  Delays = {TRUE, FALSE}
  FailedParts = {"none", "torn", "whole"}
  TornParts = {"torn", "whole", "line"}
  MaxIntents = 3
  MaxLines = 3
  MaxVenueOrders = 2
  Traded = a
  Trader = x
  VenueIntents = 2
  VenueLines = 2
  QuoteSymbols <- MCQuoteSymbols
  Refreshes = {1, 2}
  MaxAge = 1
  PollEvery = 2
  MaxLatency = 1
  QuoteHorizon = 8
  MaxFeeds = 1
  Held = {a, b}
  FillPrices = {2, 9}
  FillQtys = {1, 2}
  InitialCash = 9
  Cent = 3
  DrawdownUnits = 10
  MaxFills = 3
  MaxRows = 2
  AllocSymbols = {a, b}
  AllocStrategies = {1, 2}
  Snapshots = {1}
  Confidences = {1, 2}
  Capital <- MCCapital
  ConfidenceUnit = 2
  NetDeadband = 1
  MaxDecisions = 3
INVARIANTS BooksReconcile LosesAtMostTwo VenueAgrees MarkAgesOut LedgerSound AllocationSound
PROPERTIES WithinApproval
