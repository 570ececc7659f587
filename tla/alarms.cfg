SPECIFICATION FairSpec
CONSTANTS
  Names = {a1, a2}
  Modes = {"off", "duty-cycled", "continuous"}
  MaxChange = 4
  MaxFault = 2
INVARIANTS ToldSinceBaseline NoPhantom
  
CHECK_DEADLOCK FALSE
