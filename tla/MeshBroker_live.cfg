SPECIFICATION ReadingSpec
CONSTANTS
  c1 = c1
  c2 = c2
  c3 = c3
  Mesh = {m1}
  Addr = {a1, a2}
  Conn = {c1, c2}
  NoConn = NoConn
  NoAddr = NoAddr
  PeerBuf = 1
  SockBuf = 1
  MaxFrames <- OneTalks
  Reconnect = TRUE
PROPERTIES ForwardCompletes
CHECK_DEADLOCK FALSE
