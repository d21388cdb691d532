\* Every fault at any step, two crashes, and a log of three lines, so that a replay
\* after a crash can start, stop or fail at each of them.
SPECIFICATION Spec
CONSTANTS
  Session = {s1}
  Watcher = {w1}
  MaxLines = 3
  ChanCap = 1
  MaxCrashes = 2
  DbFaults = TRUE
  DockerFaults = TRUE
  Disconnects = TRUE
INVARIANTS
  TypeOK
  EventsStored
  ReceivedInOrder
  ExitedIsComplete
CHECK_DEADLOCK FALSE
