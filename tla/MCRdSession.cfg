SPECIFICATION Spec
CONSTANTS
  LgConn = {c1, c2}
  LgMaxTries = 2
  LgFailLimit = 0
  LgMinuteLimit = 0
  Display = {d0, d1}
  Primary = d0
  OneWay = FALSE
  TfFiles = 2
  TfBlocks = 2
  TfMaxJobs = 2
  TfMaxBreaks = 3
  TmMaxId = 3
  TmMaxSessions = 2
  TmMaxConn = 2
  TmMaxEvents = 2
  TmChannel = 1
  TmAttempts = 2
  TmMaxFails = 1
INVARIANTS  SubSafe  
   
CHECK_DEADLOCK FALSE
