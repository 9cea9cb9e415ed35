SPECIFICATION FairSpec
CONSTANTS
  Builds = {"server", "client"}
  QueueSize = 1
  MaxEvents = 2
  MaxFaults = 1
  NumChars = 2
  Conns = {1, 2}
  Devices = {d1, d2}
  Servers = {d1}
  MaxDevices = 1
  ScanInConnection = FALSE
INVARIANTS FlagFollowsLink ServiceBuilt
PROPERTIES MessagesInOrder AdvertisesAgain Subscribes
