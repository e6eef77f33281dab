SPECIFICATION FairSpec
CONSTANTS
  Sessions = {s1, s2}
  Requests = {r1, r2}
  TTL = 2
  Faulty = TRUE
  NoSession = NoSession
INVARIANTS
  TypeOK
  IndexCovers
  BulkDeletes
PROPERTIES
  OrphansEnd
CHECK_DEADLOCK FALSE
