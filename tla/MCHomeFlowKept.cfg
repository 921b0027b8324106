SPECIFICATION Spec
CONSTANTS
  Keys = {k1, k2, k3, k4, k5, k6, k7}
  MaxTaps = 1
  MaxDepth = 5
PROPERTY ListPageKept
