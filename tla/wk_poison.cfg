SPECIFICATION FairSpec
CONSTANTS
  Cmds = {c}
  Monitors = {"off"}
  Faults = {"io"}
  Resubmit = FALSE
  Requests = {}
  None = None
PROPERTIES
  EveryCommandSettles
CHECK_DEADLOCK TRUE
