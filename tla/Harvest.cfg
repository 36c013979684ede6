SPECIFICATION FairSpec
CHECK_DEADLOCK FALSE
CONSTANTS
  VFS_ATTEMPTS = 3
  MinRows = 2
  MinLines = 4
  MaxLines = 10
  Gap = 2
  Margin = 1
INVARIANTS
  TypeOK
  PartialUsable
  SegmentIsLongest
  SensorReleased
PROPERTIES
  ToolEnds
