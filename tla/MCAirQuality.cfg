SPECIFICATION Spec
CONSTANTS
  Unit = 2
  Readings <- MCReadings
  NULL = NULL
INVARIANTS
  TypeOK ColourOfReading CardHonest
CHECK_DEADLOCK FALSE
