SPECIFICATION MeterSpec
CONSTANTS
  WordMod = 64
  NsPerSec = 4
  MsPerSec = 2
  MtuBits = 3
  FixedPoint = 4
  RateBps = 6
  WindowDurationMs = 2
  DecreaseConstant = 1
  MinThresholdMtu = 1
  MaxThresholdMtu = 3
  InitialThresholdMtu = 2
  WindowsConsidered = 1
  SsthreshMultiplier = 6
  SsthreshEnabled = 1
  Interfaces <- MCInterfaces
  AllowedIfs <- MCAllowedIfs
  ExternalIf = 2
  PacketBits <- MCPacketBits
  AvgBits <- MCAvgBits
  MaxTime = 12
  MaxPackets = 4
PROPERTY DrainedAfterIdle
CHECK_DEADLOCK FALSE
