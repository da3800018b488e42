SPECIFICATION Spec
CONSTANTS
  k1 = k1  k2 = k2
  NoKey = NoKey
  Key = {k1, k2}
  MaxAttempts = 1
  MaxStops = 1
SYMMETRY Symmetry
INVARIANT CancelStops
CHECK_DEADLOCK FALSE
