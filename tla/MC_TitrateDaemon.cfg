SPECIFICATION FairSpec
CONSTANTS
  queueSamples = 3
  QueueBits <- MCQueueBits
INVARIANTS TypeOK PrintedAveragesMatch ClosedAfterUse
PROPERTIES WindowSpec SignalEndsProgram
CHECK_DEADLOCK FALSE
