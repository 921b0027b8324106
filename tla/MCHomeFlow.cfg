SPECIFICATION Spec
CONSTANTS
  Keys = {k1, k2, k3, k4, k5, k6, k7}
  MaxTaps = 3
  MaxDepth = 5
INVARIANTS
  TypeOK NoFormBeneathList ListShowsWrites BarOnlyAtBottom
PROPERTIES
  StrandedOnList
