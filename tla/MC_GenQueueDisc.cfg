SPECIFICATION Spec
CONSTANTS
  WordMod = 64
  TotalBuffer = 9
  Ports <- MCPorts
  nPrior = 2
  DataSizes <- MCDataSizes
  ControlSizes <- MCControlSizes
  ChildLimit = 3
  MaxControl = 2
  burstReserve = 0
  startProbeBuffer = 8
  targetBW = 3
  filtered = TRUE
  Window = 2
  NsPerUs = 2
  smoothQlenCollection = 4
  smoothWindow = 2
  MTU = 2
  ExploreThres = 3
  IncreaseRatio = 10
  DecreaseRatio = 1
  Horizon = 8
  ControlHorizon = 3
CHECK_DEADLOCK FALSE
INVARIANTS
  TypeOK
  BufferAccounting
  IdleTimeIsCounted
  OneEndPerWindow
  InRangeThresholdsFit
PROPERTIES
  LeaksOnce
  ThresholdMoves
