SPECIFICATION Spec
CONSTANTS
  Codes = {"th", "en", "ja"}
  NULL = NULL
  MaxPending = 4
INVARIANTS
  TypeOK SettledAgree
PROPERTIES
  IsWriteBehind ChoicePersisted StartCompletes
