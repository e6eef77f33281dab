SPECIFICATION Spec
CONSTANTS
  Users = {u1}
  Passwords = {p1, p2}
  Families = {f1, f2}
  Tokens = {t1, t2, t3}
  Resets = {k1}
  Requests = {r1, r2}
  Endpoints = {"login", "refresh", "logoutAll"}
  Faulty = FALSE
  NoUser = NoUser
  NoPassword = NoPassword
  NoFamily = NoFamily
  NoToken = NoToken
  NoRequest = NoRequest
SYMMETRY Symmetry
INVARIANTS
  BulkRevocationHolds
CHECK_DEADLOCK FALSE
