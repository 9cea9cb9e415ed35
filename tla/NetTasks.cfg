SPECIFICATION NetTasksSpec
CONSTANTS
  Callers = {console}
  Loggers = {app}
  LogQueueCap = 2
  AllocErrors = TRUE
  StopTimeouts = TRUE
  Publishers = {app}
  FailAttempts = 2
  FailReboot = TRUE
  QueueCap = 2
  MaxHeap = 4
  MaxFails = 3
  StartErrors = TRUE
INVARIANTS StoppedIsGone BitMatchesClient
PROPERTIES TerminateWorks StuckBrokerReboots
