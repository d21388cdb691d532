\* One instance for the command line: pipes, filters, and the shared vault.
SPECIFICATION HostSpec
CONSTANTS
  Line <- MCLine
  Blank = {"blank"}
  KeyOf <- MCKeyOf
  NoKey = "none"
  Command <- MCCommand
  Unreadable = {"bad"}
  Width <- MCWidth
  Plans <- MCPlans
  MaxKills = 1
\* Every invocation may have ended.
CHECK_DEADLOCK FALSE
INVARIANTS
  HostTypeOK
  OutputIsAccounted
  ExitCodeIsChilds
  RecordedIsKept
PROPERTY
  ProxyEnds
