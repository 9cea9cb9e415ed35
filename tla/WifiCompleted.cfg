SPECIFICATION Spec
CONSTANTS
  Tasks = {main}
  Networks = {n1}
  NoNet = NoNet
  RetryInit = 1
  RetryLostIp = 1
  RetryMax = 1
  MaxEvents = 2
  DriverErrors = FALSE
  LateGotIp = FALSE
INVARIANT CompletedWhenIdle
