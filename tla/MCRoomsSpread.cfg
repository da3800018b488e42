SPECIFICATION FairSpec
CONSTANTS
  a = a  b = b  r1 = r1  r2 = r2  s1 = s1  s2 = s2
  Node = {a, b}
  Users = {a}
  Room = {r1}
  Slot = {s1, s2}
  Overlap = {}
  MaxOps = 2
  MaxDrops = 0
  MaxExpiries = 1
  MaxExits = 1
PROPERTY MembersFound
PROPERTY EmptyRoomsFade
