\* A request to stop races the drain; nothing fails.
SPECIFICATION Spec
CONSTANTS
  Session = {s1}
  Watcher = {w1}
  MaxLines = 3
  ChanCap = 1
  MaxCrashes = 0
  DbFaults = FALSE
  DockerFaults = FALSE
  Disconnects = FALSE
PROPERTIES
  StopIsFinal
CHECK_DEADLOCK FALSE
