SPECIFICATION Spec
CONSTANTS
  t1 = t1
  t2 = t2
  Threads <- MCThreads
  MaxReq = 2
  MaxCrash = 1
SYMMETRY ThreadSymmetry
CHECK_DEADLOCK FALSE
INVARIANTS
  TypeOK
  SensorExclusive
  FlagTracksWorker
  CancelIsFinal
  KillsOnlySuperseded
PROPERTIES
  ImplementsService
