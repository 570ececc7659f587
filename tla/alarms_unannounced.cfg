SPECIFICATION FairSpec
CONSTANTS
  Names = {a1}
  Modes = {"duty-cycled"}
  MaxChange = 3
  MaxFault = 0
PROPERTIES AlarmsAnnounced
CHECK_DEADLOCK FALSE
