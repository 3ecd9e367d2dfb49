SPECIFICATION FairSpec
CONSTANTS
  Symbols = {1, 2}
  Times = {1}
  Contents <- SmallContents
  Versions <- SmallVersions
  Backends = {"inprocess", "redis", "bullmq"}
  ScanLimit = 3
  MaxChanges = 2
  MaxFaults = 1
  MaxInFlight = 2
INVARIANTS TableIsTrue
PROPERTIES ImplementsLedger CurrentRowStays TableCatchesUp
CHECK_DEADLOCK FALSE
