SPECIFICATION FairSpec
CONSTANTS
  Emails = {e1}
  Requests = {r1, r2, r3}
  MaxAttempts = 2
  Duration = 3
  Faulty = TRUE
  MaxCount = 5
  NoEmail = NoEmail
INVARIANTS
  TypeOK
  AttemptsBounded
PROPERTIES
  LockEnds
  FreshAfterLock
CHECK_DEADLOCK FALSE
