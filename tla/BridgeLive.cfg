SPECIFICATION FairSpec
CONSTANTS
  t1 = t1
  t2 = t2
  Threads <- MCThreads
  MaxReq = 1
  MaxCrash = 1
CHECK_DEADLOCK FALSE
PROPERTIES
  CaptureEnds
  NeededIsServed
