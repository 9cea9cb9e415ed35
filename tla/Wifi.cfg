SPECIFICATION FairSpec
CONSTANTS
  Tasks = {main}
  Networks = {n1, n2}
  NoNet = NoNet
  RetryInit = 1
  RetryLostIp = 1
  RetryMax = 2
  MaxEvents = 2
  DriverErrors = FALSE
  LateGotIp = FALSE
INVARIANTS BitsMatchLink RetryCovered
PROPERTIES ImplementsNetState Reconnects JoinTrueMeansTarget
