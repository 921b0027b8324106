SPECIFICATION Spec
CONSTANTS
  Users = {alice}
  NULL = NULL
  MaxRequests = 2
  MaxFetches = 1
  MaxEvents = 2
  MaxDepth = 3
PROPERTIES
  RootCatchesUp
