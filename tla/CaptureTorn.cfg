SPECIFICATION Spec
CONSTANTS
  MaxHits = 1
CHECK_DEADLOCK FALSE
INVARIANTS
  ReportedIsWhole
