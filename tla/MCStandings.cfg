SPECIFICATION StandingsSpec
CONSTANT
  Layouts <- MCLayouts
INVARIANTS
  RankedByTheRegulation
  KeyAgreesWithSeeding
PROPERTIES
  BetterResultNeverLowers
CHECK_DEADLOCK FALSE
