SPECIFICATION Spec
CONSTANTS
  WordMod = 65536
  NsPerSec = 4
  MsPerSec = 2
  MtuBits = 3
  FixedPoint = 4
  Config <- MCConfig
  Interfaces <- MCInterfaces
  PacketBits <- MCPacketBits
  MaxTime = 6
  if0 = if0
  if1 = if1
INVARIANT InitialThresholdUntilDrop
CHECK_DEADLOCK FALSE
