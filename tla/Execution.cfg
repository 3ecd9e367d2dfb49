SPECIFICATION MCSpec
CONSTANTS
  Intents <- SmallIntents
  Quantities = {0, 1, 2, 5}
  MaxEvents = 12
  Kinds = {"PAPER", "NULL"}
INVARIANTS LegalLife PositionFromEntry SessionMirrorsCore ShutdownEnds
PROPERTIES ExposureNeverGrows
CHECK_DEADLOCK FALSE
