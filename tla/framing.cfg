SPECIFICATION Spec
CONSTANTS
  MaxFrame = 3
  MinBody = 2
  Budget = 1
  HardCap = 3
  MaxBurst = 4
  MaxStream = 7
INVARIANTS
  TypeOK
  NoiseCostsOneFrame
  PartialIsTail
  ListensOn
CHECK_DEADLOCK FALSE
