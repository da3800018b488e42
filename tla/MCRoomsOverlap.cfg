SPECIFICATION Spec
CONSTANTS
  a = a  b = b  r1 = r1  r2 = r2  s1 = s1  s2 = s2
  Node = {a, b}
  Users = {a, b}
  Room = {r1}
  Slot = {s1, s2}
  Overlap = {a}
  MaxOps = 2
  MaxDrops = 1
  MaxExpiries = 0
  MaxExits = 0
SYMMETRY Symmetry
INVARIANT TypeOK
INVARIANT MembershipKept
INVARIANT NeverJoinedByOthers
 
