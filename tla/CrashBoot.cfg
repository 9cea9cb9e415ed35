SPECIFICATION BootFairSpec
CONSTANTS
  Parts = {ota_0, ota_1}
  Production = ota_0
  Recovery = ota_1
  NoPart = NoPart
  PartSize = 2
  MaxLen = 3
  MaxCount = 2
INVARIANTS RunningIsIntact OkMeansNewImage HandlesReleased
  BadStaysOut GoodStays
PROPERTY OtaEnds
