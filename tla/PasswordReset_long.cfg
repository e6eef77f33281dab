SPECIFICATION Spec
CONSTANTS
  Users = {u1}
  Passwords = {p1, p2, long}
  Hashable = {p1, p2}
  Tokens = {t1, t2}
  Requests = {r1, r2}
  Limit = 2
  Faulty = FALSE
  NoUser = NoUser
  NoToken = NoToken
  NoPassword = NoPassword
INVARIANTS
  SpentTokensSetThePassword
