SPECIFICATION Spec
CONSTANTS
  Codes = {"th", "en", "ja"}
  NULL = NULL
  MaxPending = 4
INVARIANT DefaultLanguageApplied
