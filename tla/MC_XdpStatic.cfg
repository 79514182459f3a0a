SPECIFICATION Spec
CONSTANTS
  WordMod = 65536
  NsPerSec = 4
  MsPerSec = 2
  MtuBits = 3
  FixedPoint = 4
  RateBps = 3
  ThresholdMtu = 2
  PacketBits <- MCPacketBits
  queueSamples = 2
  MaxTime = 6
  MaxPackets = 5
INVARIANTS TypeOK ConformsToRate
PROPERTIES StaleAverageDropsNothing SteadyExcessStopsGrowth
CHECK_DEADLOCK FALSE
