SPECIFICATION Spec
CONSTANTS
  Names = {a1}
  Depth = 1
  Replay = 2
  MaxChange = 2
  MaxConnect = 2
  Reqs = {r1, r2}
  Limit = 1
  None = None
INVARIANTS  OverHasOutcome NoticeComesLast OutcomeNotLost
CHECK_DEADLOCK FALSE
SYMMETRY MCSym
