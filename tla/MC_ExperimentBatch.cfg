SPECIFICATION BatchSpec
CONSTANTS
  NumJobs = 2
  Workers = 2
  FullLines = 5
  QuickLines = 1
  Needed = 2
  NeedsXml = TRUE
  MaxBatches = 2
INVARIANTS BatchTypeOK NoJobLostToRaces JoinMeansComplete SilentDataIsExact
CONSTRAINT OneJobAtATime
CHECK_DEADLOCK FALSE
