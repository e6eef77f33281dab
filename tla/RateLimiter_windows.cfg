SPECIFICATION FairSpec
CONSTANTS
  Scopes = {login}
  Limit <- MCLimit
  Window = 3
  Requests = {r1, r2}
  Faulty = TRUE
  MaxCount = 4
  NoScope = NoScope
INVARIANTS
  TypeOK
  WindowBounded
  BurstBounded
PROPERTIES
  RefusalEnds
