SPECIFICATION Spec
CONSTANTS
  Users = {alice, bob}
  NULL = NULL
  MaxRequests = 2
  MaxFetches = 2
  MaxEvents = 1
  MaxDepth = 3
SYMMETRY Accounts
INVARIANTS
  TypeOK SheetOnTop RootFollowsUser NoPrivatePageLeft ProfileOfUser
