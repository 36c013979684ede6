SPECIFICATION FairSpec
CONSTANTS
  MaxRuns = 2
CHECK_DEADLOCK FALSE
INVARIANTS
  TypeOK
  AnswerIsOwn
  FlightDocumented
  TrafficPaired
PROPERTIES
  ToolEnds
