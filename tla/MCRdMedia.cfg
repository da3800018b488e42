SPECIFICATION Spec
CONSTANTS
  SvcConn = {c1, c2}
  SvcCursor = {k1, k2}
  SvcNone = none
  VConn = {c1, c2}
  VNobody = nobody
  VMaxUnruly = 2
INVARIANTS SvcSafe VSafe
PROPERTIES SvcProgress VProgress
CHECK_DEADLOCK FALSE
