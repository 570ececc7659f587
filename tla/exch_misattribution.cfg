SPECIFICATION Spec
CONSTANTS
  Modulus = 8
  Procs = {p}
  Alarm = Alarm
  None = None
  MaxReq = 2
  MaxAlarm = 0
  Strictness = {TRUE}
  SaysRej = FALSE
  Timeout = 3
  RetxDelay = 1
  Extension = 2
  MaxRetx = 3
  DrainBudget = 2
  Late = FALSE
  WireCap = 2
  MaxLoss = 0
  MaxRestart = 0
INVARIANTS
  ResponseAlwaysMatches
CHECK_DEADLOCK TRUE
