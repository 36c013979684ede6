SPECIFICATION Spec
CONSTANTS
  t1 = t1
  t2 = t2
  Threads <- MCThreads
  MaxReq = 1
  MaxCrash = 0
CHECK_DEADLOCK FALSE
INVARIANTS
  CancelledWhenUnneeded
