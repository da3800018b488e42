SPECIFICATION Spec
CONSTANTS
  k1 = k1  k2 = k2
  NoKey = NoKey
  Key = {k1, k2}
  MaxAttempts = 3
  MaxStops = 2
SYMMETRY Symmetry
INVARIANT TypeOK
INVARIANT NoOrphan
INVARIANT StopsForGood
PROPERTY KeptWhileWanted
CHECK_DEADLOCK FALSE
