SPECIFICATION Spec
CONSTANTS
  Stop = {s1, s2}
  LcMaxFails = 2
  RaPeer = {p1, p2}
  RaMaxFails = 2
  Dialog = {d1, d2}
  NoDialog = NoDialog
  UpMaxFails = 2
  CfOp = {o1, o2, o3}
  CfMaxCrashes = 2
  VaServer <- Servers
  VaBits = 3
  VaTunnel = {t1, t2}
  InConn = {c1, c2}
  InKey = {k}
  InNoKey = none
  InShows = {c2}
  InMaxEvents = 2
  InMaxCalls = 2
INVARIANTS LcSafe RaSafe UpSafe  VaSafe InSafe
PROPERTIES StartedListens LeftKeysReleased
CHECK_DEADLOCK FALSE
