\* One crash; nothing else fails.
SPECIFICATION Spec
CONSTANTS
  Session = {s1}
  Watcher = {w1}
  MaxLines = 3
  ChanCap = 1
  MaxCrashes = 1
  DbFaults = FALSE
  DockerFaults = FALSE
  Disconnects = FALSE
INVARIANTS
  NoOrphans
CHECK_DEADLOCK FALSE
