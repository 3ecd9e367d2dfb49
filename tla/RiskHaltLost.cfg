SPECIFICATION MCSpec
CONSTANTS
  Symbols = {"a"}
  Limits <- SmallLimits
  Leverage = 2
  Cent = 2
  Ratio = 1
  Equities = {4, 6}
  InitialCash = 6
  Proposals <- SmallProposals
  HealthFaults = {}
  FailedParts = {"none"}
  TornParts = {"line"}
  MaxLines = 4
INVARIANT ApprovedAfterReset
