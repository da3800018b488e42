SPECIFICATION Spec
CONSTANTS
  c1 = c1  c2 = c2  s1 = s1  s2 = s2
  Conv = {c1, c2}
  Slot = {s1}
  Copies = {1}
  ClockSkew = 0
  MaxClock = 2
  MaxSends = 2
  MaxArrivals = 3
  MaxExits = 1
SYMMETRY Symmetry
INVARIANT UnreadMatchesRows
INVARIANT ReadClears
