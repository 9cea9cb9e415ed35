SPECIFICATION FairSpec
CONSTANTS
  Conns = {c1, c2}
  NoConn = NoConn
  BufCap = 1
  TcpQueueSize = 1
  ClientQueueSize = 1
  MaxSocks = 1
  MaxFaults = 2
INVARIANTS OnePair NoOldData
PROPERTY LinkComesBack
CHECK_DEADLOCK FALSE
