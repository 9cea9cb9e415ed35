SPECIFICATION BoardFairSpec
CONSTANTS
  PartsOfBoard = {"encoder", "adc", "ad7811", "leds", "conf"}
  QueueCap = 2
  MaxIdle = 1
  Samplers = {c1, c2}
  MaxSamples = 2
  AdcQueueCap = 2
  AdChannels = {0, 1, 2}
  MaxAdSamples = 3
  MaxSpiFaults = 2
  Leds = {0, 1, 2, 3}
  Outputs = {1, 2}
  FlashTicks = {0, 2}
  NumSlots = 2
  TickModulus = 4
  MaxNvsFaults = 2
INVARIANTS KeyFollowsLevel HeldKeyGoesOn SamplesAreOwn ChannelRead
PROPERTIES ReportsInOrder InactivityReported NoLateSample AdReturns FlashGoesOn StoreIsKept
CHECK_DEADLOCK FALSE
