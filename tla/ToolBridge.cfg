SPECIFICATION LoopSpec
CONSTANTS
  MaxHits = 2
  MaxAttempts = 2
  MaxSent = 2
CHECK_DEADLOCK FALSE
INVARIANTS
  LoopTypeOK
  SensorReleased
  ReportedIsNew
  TempRemoved
  ToolReportsWhole
  SentIsNew
PROPERTIES
  AttemptEnds
  FileLoopEnds
