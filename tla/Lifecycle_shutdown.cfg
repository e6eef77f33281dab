SPECIFICATION FairSpec
CONSTANTS
  Requests = {r1, r2, r3}
INVARIANTS
  TypeOK
  CleanExit
  BootCleansUp
PROPERTIES
  SignalStops
CHECK_DEADLOCK FALSE
