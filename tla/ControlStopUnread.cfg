SPECIFICATION Spec
CONSTANTS
  Infra = {"database"}
  Streams = {"execution"}
  ProbeResults <- ReliableDb
  FlakyReads = {"kill"}
  MaxOpenIncidents = 1
  Crashes = FALSE
PROPERTIES StoppedIsSticky
