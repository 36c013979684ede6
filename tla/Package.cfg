SPECIFICATION Spec
CHECK_DEADLOCK FALSE
INVARIANTS
  BridgeHasBinary
PROPERTIES
  AlreadyHasBinary
  InstalledIsWhole
  PurgeIsFinal
