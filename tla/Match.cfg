SPECIFICATION FairSpec
CHECK_DEADLOCK FALSE
CONSTANTS
  Swipes = 2
  Stages = 2
  ImageCap = 3
  EnrollCap = 4
  MaxFailures = 2
INVARIANTS
  TypeOK
  SensorIsOurs
  ScoredAreNew
  ScoreIsOwn
  TemplateSurvives
PROPERTIES
  BridgeComesBack
  RunEnds
