SPECIFICATION Spec
CONSTANTS
  Modulus = 3
  Procs = {p, q}
  Alarm = Alarm
  None = None
  MaxReq = 2
  MaxAlarm = 1
  Strictness = {TRUE}
  SaysRej = TRUE
  Timeout = 2
  RetxDelay = 1
  Extension = 2
  MaxRetx = 3
  DrainBudget = 2
  Late = TRUE
  WireCap = 2
  MaxLoss = 1
  MaxRestart = 1
SYMMETRY Sym
INVARIANTS
  TypeOK
  VsAdvancesOnce
  SequenceInSync
  AckedMeansReceived
  ResponseMatches
  AlarmsInOrder
  
PROPERTIES
  FreedOnceReported
CHECK_DEADLOCK TRUE
