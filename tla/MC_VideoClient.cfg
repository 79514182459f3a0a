SPECIFICATION VideoSpec
CONSTANTS
  Streams = {"audio", "video"}
  Duration = 4
  MaxTime = 4
  MaxEvents = 6
INVARIANTS VideoTypeOK RecordedStallsAreReal NeverOverstated
CHECK_DEADLOCK FALSE
