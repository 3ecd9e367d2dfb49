SPECIFICATION FairSpec
CONSTANTS
  Infra = {"database"}
  Streams = {"execution"}
  ProbeResults <- FaultyInfra
  FlakyReads = {}
  MaxOpenIncidents = 1
  Crashes = TRUE
INVARIANTS OrderOnlyWhenHealthy ProtectedHasIncident
PROPERTIES RecordsExact RuntimeSettles
