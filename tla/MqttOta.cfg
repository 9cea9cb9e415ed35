SPECIFICATION SysFairSpec
CONSTANTS
  Publishers = {}
  FailAttempts = 2
  FailReboot = TRUE
  QueueCap = 1
  MaxHeap = 2
  MaxFails = 2
  StartErrors = FALSE
  Parts = {ota_0, ota_1}
  NoPart = NoPart
  PartSize = 1
  MaxLen = 1
INVARIANTS NoRestartWhileFlashing ClientsTakeTurns
PROPERTY MqttComesBack
