SPECIFICATION FairSpec
CONSTANTS
  Modulus = 8
  Procs = {p, q}
  Alarm = Alarm
  None = None
  MaxReq = 2
  MaxAlarm = 1
  Strictness = {TRUE, FALSE}
  SaysRej = FALSE
  Timeout = 5
  RetxDelay = 2
  Extension = 2
  MaxRetx = 3
  DrainBudget = 2
  Late = FALSE
  WireCap = 2
  MaxLoss = 2
  MaxRestart = 0
INVARIANTS
  ExecutedAtMostOnce
  NoFrameReject
PROPERTIES
  AckedNotReexecuted
  
CHECK_DEADLOCK TRUE
