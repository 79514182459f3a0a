SPECIFICATION Spec
CONSTANTS
  WordMod = 65536
  NsPerSec = 4
  MsPerSec = 2
  MtuBits = 3
  FixedPoint = 4
  CPUs <- MCCPUs
  Params <- MCParams
  PacketBits <- MCPacketBits
  AvgBits <- MCAvgBits
  MaxTime = 5
  MaxPackets = 4
INVARIANT ThresholdInRange
CHECK_DEADLOCK FALSE
