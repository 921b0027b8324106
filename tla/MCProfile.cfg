SPECIFICATION Spec
CONSTANTS
  Texts = {"Ann", "Bob"}
  NULL = NULL
  MaxPending = 2
INVARIANTS
  TypeOK NoBlindSave DocumentComplete DetailUpToDate
CHECK_DEADLOCK FALSE
