SPECIFICATION FairSpec
CONSTANTS
  t1 = t1
  t2 = t2
  Threads <- MCThreads
  MaxReq = 2
  MaxCrash = 0
CHECK_DEADLOCK FALSE
PROPERTIES
  NeededIsServed
