\* One instance for all of the server: sign-ins, proxied calls, runs and a restart.
SPECIFICATION ServerSpec
CONSTANTS
  Req <- MCReq
  RingCap = 1
  Settings <- MCSettings
  MaxRestarts = 1
  Sid = {s1, s2}
  OAuthState = {o1}
  Token = {k1}
  User = {alice}
  MaxPermits = 1
  ChanCap = 1
  MaxChunks = 1
  QueueCap = 1
  BatchSize = 1
  Drainer = {d1, d2}
\* Clients may have used all their requests.
CHECK_DEADLOCK FALSE
INVARIANTS
  ServerTypeOK
  LogoutHolds
  OneLoginPerState
  AnsweredIsRecorded
  ReceiptsOnce
  CapturedIsPrivate
  TablesTrimmed
  RunsAreCounted
PROPERTY
  PermitsComeBack
