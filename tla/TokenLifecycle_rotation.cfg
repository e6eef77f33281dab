SPECIFICATION Spec
CONSTANTS
  Users = {u1}
  Passwords = {p1}
  Families = {f1, f2}
  Tokens = {t1, t2, t3}
  Resets = {k1}
  Requests = {r1, r2}
  Endpoints = {"login", "refresh", "logoutAll"}
  Faulty = TRUE
  NoUser = NoUser
  NoPassword = NoPassword
  NoFamily = NoFamily
  NoToken = NoToken
  NoRequest = NoRequest
SYMMETRY Symmetry
INVARIANTS
  ExchangedTokensAreSpent
  OneExchangePerWorker
  LineageKept
PROPERTIES
  NoResurrection
  ImplementsRefreshLedger
CHECK_DEADLOCK FALSE
