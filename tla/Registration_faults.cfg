SPECIFICATION FairSpec
CONSTANTS
  Emails = {e1}
  Keys = {k1, k2}
  EmailOf <- MCEmailOf
  Tokens = {t1, t2}
  Requests = {r1, r2}
  Faulty = TRUE
  NoEmail = NoEmail
  NoKey = NoKey
  NoToken = NoToken
INVARIANTS
  TypeOK
  OneRunnerPerKey
  OneBodyPerEmail
PROPERTIES
  ImplementsOneTimeToken
  LockReleased
CHECK_DEADLOCK FALSE
