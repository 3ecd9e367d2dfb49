SPECIFICATION Spec
CONSTANTS
  Infra = {"database", "redis"}
  Streams = {"features", "execution"}
  ProbeResults <- ReliableDb
  FlakyReads = {"features"}
  MaxOpenIncidents = 2
  Crashes = FALSE
INVARIANTS VerdictEnforced
PROPERTIES StateHolds
