\* One crash at any step; statements and Docker calls succeed, and no client leaves.
SPECIFICATION FairSpec
CONSTANTS
  Session = {s1}
  Watcher = {w1}
  MaxLines = 3
  ChanCap = 1
  MaxCrashes = 1
  DbFaults = FALSE
  DockerFaults = FALSE
  Disconnects = FALSE
PROPERTIES
  SessionSettles
  StreamEndsOnFinal
  ContainersRemoved
CHECK_DEADLOCK FALSE
