SPECIFICATION Spec
CONSTANTS
  c1 = c1  c2 = c2  s1 = s1  s2 = s2
  Conv = {c1}
  Slot = {s1, s2}
  Copies = {1}
  ClockSkew = 1
  MaxClock = 1
  MaxSends = 2
  MaxArrivals = 3
  MaxExits = 0
SYMMETRY Symmetry
INVARIANT BadgeFresh
INVARIANT UnreadNeverInvented
