SPECIFICATION MeterSpec
CONSTANTS
  WordMod = 65536
  NsPerSec = 4
  MsPerSec = 2
  MtuBits = 3
  FixedPoint = 4
  RateBps = 6
  WindowDurationMs = 2
  DecreaseConstant = 1
  MinThresholdMtu = 1
  MaxThresholdMtu = 3
  InitialThresholdMtu = 2
  WindowsConsidered = 2
  SsthreshMultiplier = 6
  SsthreshEnabled = 1
  Interfaces <- MCInterfaces
  AllowedIfs <- MCAllowedIfs
  ExternalIf = 2
  PacketBits <- MCPacketBits
  AvgBits <- MCAvgBits
  MaxTime = 11
  MaxPackets = 7
INVARIANTS TypeOK BufferBounded ThresholdInRange IdleWithinWindow ClocksAndRounds IdleWithinUptime ConformsToRate LosesLessThanABitPerPacket
PROPERTY LinkSpec
CHECK_DEADLOCK FALSE
