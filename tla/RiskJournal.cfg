SPECIFICATION MCSpec
CONSTANTS
  Symbols = {"a", "b"}
  Limits <- SmallLimits
  Leverage = 2
  Cent = 2
  Ratio = 1
  Equities = {0, 4, 6}
  InitialCash = 6
  Proposals <- SmallProposals
  HealthFaults = {"MARKET_DATA_STALE"}
  FailedParts = {"none", "torn", "whole"}
  TornParts = {"torn", "whole", "line"}
  MaxLines = 4
INVARIANTS ApprovedWithinLimits JournalIsTruth HaltSurvives
