SPECIFICATION Spec
CONSTANTS
  Cmds = {c, d}
  Monitors = {"off", "duty-cycled", "continuous"}
  Faults = {"busy", "lost", "nodev", "reset", "timeout", "error", "io", "garble"}
  Resubmit = TRUE
  Requests = {"lease", "stop", "cancel"}
  None = None
SYMMETRY Sym
INVARIANTS
  
  RunningIsServed
  
  TypeOK
  ClosedMeansReleased
  
PROPERTIES
  LeaseNotLost
  ServesInOrder
CHECK_DEADLOCK FALSE
