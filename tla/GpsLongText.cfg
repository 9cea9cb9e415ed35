SPECIFICATION Spec
CONSTANTS
  MaxView = 5
  ItemLength = 10
  TextLength = 26
  Epochs = 3
  FixEpochs = {0}
  Many = 6
  Few = 3
  Starts = {4}
  DamageItems = {2, 3}
  MaxFaults = 1
  RingLines = 2
  TcpQueueSize = 2
  LoopSize = 2
INVARIANTS AltitudeReceived
