SPECIFICATION Spec
INVARIANTS
  TypeOK CompleteInLoop NothingLeft
PROPERTIES
  CloseQuits WindowShown
CHECK_DEADLOCK FALSE
