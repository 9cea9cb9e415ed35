SPECIFICATION Spec
CONSTANTS
  Publishers = {app}
  FailAttempts = 2
  FailReboot = TRUE
  QueueCap = 2
  MaxHeap = 4
  MaxFails = 3
  StartErrors = FALSE
INVARIANT NoDanglingClient
