SPECIFICATION Spec
CONSTANTS
  Tokens = {t1, t2}
  Requests = {r1, r2}
  AccessTTL = 4
  Deadline = 2
  Second = 2
  Faulty = TRUE
  NoToken = NoToken
SYMMETRY Symmetry
INVARIANTS
  TypeOK
  BlacklistMatches
  StalePermissionsEnd
PROPERTIES
  LoggedOutRefused
