SPECIFICATION FeedSpec
CONSTANTS
  Names = {a1, a2}
  Depth = 2
  Replay = 3
  MaxChange = 5
  MaxConnect = 2
  None = None
INVARIANTS MissesNoAlarm
CHECK_DEADLOCK FALSE
