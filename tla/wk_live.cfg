SPECIFICATION FairSpec
CONSTANTS
  Cmds = {c, d}
  Monitors = {"off", "duty-cycled", "continuous"}
  Faults = {"busy", "lost", "nodev", "reset", "timeout", "error", "swallow"}
  Resubmit = FALSE
  Requests = {"lease"}
  None = None
PROPERTIES
  EveryCommandSettles
  LeaseHonoured
  PortGivenBack
CHECK_DEADLOCK TRUE
