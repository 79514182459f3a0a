SPECIFICATION Spec
CONSTANTS
  WordMod = 64
  TotalBuffer = 9
  Ports <- MCPorts
  nPrior = 2
  DataSizes <- MCDataSizes
  ControlSizes = {}
  ChildLimit = 3
  MaxControl = 1
  burstReserve = 0
  startProbeBuffer = 8
  targetBW = 3
  filtered = TRUE
  Window = 5
  NsPerUs = 1
  smoothQlenCollection = 4
  smoothWindow = 2
  MTU = 2
  ExploreThres = 3
  IncreaseRatio = 10
  DecreaseRatio = 1
  Horizon = 6
  ControlHorizon = 3
CHECK_DEADLOCK FALSE
INVARIANT ThresholdsFitBuffer
