SPECIFICATION Spec
CONSTANTS
  Users = {u1}
  Passwords = {p1, p2}
  Families = {f1, f2}
  Tokens = {t1, t2, t3}
  Resets = {k1}
  Requests = {r1}
  Endpoints = {"login", "refresh", "logout", "logoutAll", "resetPassword"}
  Faulty = TRUE
  NoUser = NoUser
  NoPassword = NoPassword
  NoFamily = NoFamily
  NoToken = NoToken
  NoRequest = NoRequest
SYMMETRY Symmetry
INVARIANTS
  TypeOK
  ReplayRevokesFamily
  BulkRevocationHolds
  OldPasswordSessionsEnd
  SingleLiveToken
CHECK_DEADLOCK FALSE
