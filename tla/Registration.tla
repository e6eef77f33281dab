---------------------------- MODULE Registration ----------------------------
(***************************************************************************)
(* POST /register and /verify-email: the idempotency cache and lock of     *)
(* httputil.RunIdempotent around AuthService.Register, and the one-time    *)
(* token that verifies the address.                                        *)
(*                                                                         *)
(* A cache key is the Idempotency-Key header and the hash of the body, so  *)
(* it fixes the address: an element of Keys stands for the two.  The body  *)
(* of a 201 is told apart by the verification token it was made for.  Each *)
(* call to Redis, Postgres or the mail provider is one step.               *)
(***************************************************************************)
EXTENDS FiniteSets

CONSTANTS
  Emails,       \* normalised addresses
  Keys,         \* cache keys
  EmailOf,      \* the address in the body of a cache key
  Tokens,       \* verification tokens token.Random can still draw (a bound)
  Requests,     \* workers of the HTTP server
  Faulty,       \* TRUE: external calls may fail, the process may die
  NoEmail, NoKey, NoToken

ASSUME EmailOfAssumption == EmailOf \in [Keys -> Emails]
ASSUME NullsAssumption == NoEmail \notin Emails /\ NoKey \notin Keys /\ NoToken \notin Tokens
ASSUME FaultyAssumption == Faulty \in BOOLEAN

VARIABLES
  \* Redis
  cache,      \* idem:<key>: the body of the 201, as its token
  lock,       \* idem:<key>:lock
  \* Postgres
  users,      \* addresses with an account
  verified,   \* users.email_verified
  tokenFor,   \* email_verifications: the address a token was issued for
  spent,      \* tokens with used_at set
  expired,    \* tokens whose expires_at has passed
  \* processes and clients
  mailed,     \* tokens that left in a mail
  answers,    \* bodies answered with 201, by cache key (history)
  resent,     \* cache keys whose lock a DEL that was sent again may have deleted
              \* under another request (history)
  req

vars == <<cache, lock, users, verified, tokenFor, spent, expired, mailed, answers, resent, req>>
redis == <<cache, lock, resent>>
accounts == <<users, verified>>
tokens == <<tokenFor, spent, expired>>

Running == {"create", "issue", "mail", "cache", "unlock"}   \* holds the lock
Labels == {"idle", "setnx", "recheck", "markVerified"} \cup Running

Request == [pc : Labels, key : Keys \cup {NoKey}, email : Emails \cup {NoEmail},
            tok : Tokens \cup {NoToken}]
Idle == [pc |-> "idle", key |-> NoKey, email |-> NoEmail, tok |-> NoToken]

Init ==
  /\ cache = [k \in Keys |-> NoToken]
  /\ lock = [k \in Keys |-> FALSE]
  /\ users = {} /\ verified = {}
  /\ tokenFor = [t \in Tokens |-> NoEmail]
  /\ spent = {} /\ expired = {} /\ mailed = {}
  /\ answers = [k \in Keys |-> {}] /\ resent = {}
  /\ req = [r \in Requests |-> Idle]

At(r, label) == req[r].pc = label
Runs(r, k) == req[r].key = k /\ req[r].pc \in Running
Goto(r, label) == req' = [req EXCEPT ![r].pc = label]
Finish(r) == req' = [req EXCEPT ![r] = Idle]

\* The lock a failed request deletes; the mutant deletes one without a key.
HoldsLockAlways(r) == TRUE
HoldsLock(r) == req[r].key # NoKey

\* fn has failed: the lock is deleted before the error is written.
Fail(r) ==
  req' = [req EXCEPT ![r] =
            IF HoldsLock(r) THEN [req[r] EXCEPT !.pc = "unlock", !.tok = NoToken] ELSE Idle]

Answer201(r, k, t) ==
  /\ answers' = [answers EXCEPT ![k] = @ \cup {t}]
  /\ Finish(r)

-----------------------------------------------------------------------------
\* RunIdempotent: the first look at the cache, whose error counts as a miss.
Register(r, k) ==
  /\ At(r, "idle")
  /\ \/ cache[k] # NoToken /\ Answer201(r, k, cache[k])
     \/ /\ cache[k] = NoToken \/ Faulty
        /\ req' = [req EXCEPT ![r] = [Idle EXCEPT !.pc = "setnx", !.key = k,
                                        !.email = EmailOf[k]]]
        /\ UNCHANGED answers
  /\ UNCHANGED <<redis, accounts, tokens, mailed>>

\* Without the header fn runs unguarded.
RegisterUnkeyed(r, e) ==
  /\ At(r, "idle")
  /\ req' = [req EXCEPT ![r] = [Idle EXCEPT !.pc = "create", !.email = e]]
  /\ UNCHANGED <<redis, accounts, tokens, mailed, answers>>

\* NX of the SET; the mutant forgets it.
FreeAlways(k) == TRUE
Free(k) == ~lock[k]

(* SetNX of the lock.  Its error is dropped and reads as "not acquired",    *)
(* though Redis may have set the key.                                       *)
Acquire(r) ==
  LET k == req[r].key IN
  /\ At(r, "setnx")
  /\ \/ /\ Free(k) /\ lock' = [lock EXCEPT ![k] = TRUE] /\ Goto(r, "create")
        /\ resent' = IF \E q \in Requests : Runs(q, k) THEN resent ELSE resent \ {k}
     \/ ~Free(k) /\ UNCHANGED <<lock, resent>> /\ Goto(r, "recheck")
     \/ /\ Faulty /\ lock' \in {lock, [lock EXCEPT ![k] = TRUE]}
        /\ UNCHANGED resent /\ Goto(r, "recheck")
  /\ UNCHANGED <<cache, accounts, tokens, mailed, answers>>

\* The second look at the cache; a miss answers 409.
Recheck(r) ==
  LET k == req[r].key IN
  /\ At(r, "recheck")
  /\ \/ cache[k] # NoToken /\ Answer201(r, k, cache[k])
     \/ (cache[k] = NoToken \/ Faulty) /\ Finish(r) /\ UNCHANGED answers
  /\ UNCHANGED <<redis, accounts, tokens, mailed>>

-----------------------------------------------------------------------------
\* The unique index on LOWER(email); the mutant upserts.
InsertableAlways(e) == TRUE
Insertable(e) == e \notin users

(* Register: the mail quota, which may refuse, and CreateWithRole, a        *)
(* transaction on which the unique index bites.  The answer to COMMIT may   *)
(* be lost.                                                                 *)
CreateUser(r) ==
  LET e == req[r].email IN
  /\ At(r, "create")
  /\ \/ Insertable(e) /\ users' = users \cup {e} /\ Goto(r, "issue")
     \/ UNCHANGED users /\ Fail(r)
     \/ Faulty /\ Insertable(e) /\ users' = users \cup {e} /\ Fail(r)
  /\ UNCHANGED <<redis, verified, tokens, mailed, answers>>

\* Register: issueOneTime.  Out of tokens (the bound), token.Random fails.
IssueVerification(r) ==
  /\ At(r, "issue")
  /\ \/ \E t \in Tokens :
          /\ tokenFor[t] = NoEmail
          /\ tokenFor' = [tokenFor EXCEPT ![t] = req[r].email]
          /\ \/ req' = [req EXCEPT ![r] = [@ EXCEPT !.pc = "mail", !.tok = t]]
             \/ Faulty /\ Fail(r)
     \/ /\ Faulty \/ \A t \in Tokens : tokenFor[t] # NoEmail
        /\ UNCHANGED tokenFor /\ Fail(r)
  /\ UNCHANGED <<redis, accounts, spent, expired, mailed, answers>>

\* Register: sendActionEmail, whose mail may leave although the call fails.
SendMail(r) ==
  LET sent == mailed \cup {req[r].tok} IN
  /\ At(r, "mail")
  /\ \/ /\ mailed' = sent
        /\ IF req[r].key = NoKey THEN Finish(r) ELSE Goto(r, "cache")
     \/ Faulty /\ mailed' \in {mailed, sent} /\ Fail(r)
  /\ UNCHANGED <<redis, accounts, tokens, answers>>

\* RunIdempotent: Set of the body, its error dropped.
CacheBody(r) ==
  /\ At(r, "cache")
  /\ \/ cache' = [cache EXCEPT ![req[r].key] = req[r].tok]
     \/ Faulty /\ UNCHANGED cache
  /\ Goto(r, "unlock")
  /\ UNCHANGED <<lock, resent, accounts, tokens, mailed, answers>>

\* RunIdempotent: Delete of the lock, its error dropped, and the answer.
Unlock(r) ==
  LET k == req[r].key IN
  /\ At(r, "unlock")
  /\ \/ lock' = [lock EXCEPT ![k] = FALSE]
     \/ Faulty /\ UNCHANGED lock
  /\ \/ req[r].tok # NoToken /\ Answer201(r, k, req[r].tok)
     \/ req[r].tok = NoToken /\ Finish(r) /\ UNCHANGED answers
  /\ UNCHANGED <<cache, resent, accounts, tokens, mailed>>

(* go-redis sends a command whose answer is lost again (redis.go:27 leaves  *)
(* MaxRetries at its default), so Redis may apply it more than once: a      *)
(* SET NX finds the key it has set itself, and a DEL deletes the lock that  *)
(* another request has acquired meanwhile.                                  *)
Resend(r) ==
  LET k == req[r].key IN
  /\ Faulty
  /\ \/ At(r, "setnx") /\ Free(k) /\ lock' = [lock EXCEPT ![k] = TRUE] /\ UNCHANGED resent
     \/ /\ At(r, "unlock")
        /\ lock' = [lock EXCEPT ![k] = FALSE] /\ resent' = resent \cup {k}
  /\ UNCHANGED <<cache, accounts, tokens, mailed, answers, req>>

-----------------------------------------------------------------------------
\* The WHERE clause of Consume; the mutant forgets "used_at IS NULL".
ConsumableAgain(t) == tokenFor[t] # NoEmail /\ t \notin expired
Consumable(t) == tokenFor[t] # NoEmail /\ t \notin spent \cup expired

(* VerifyEmail: Consume, one UPDATE ... RETURNING.  If its answer is lost   *)
(* the token is spent and the request fails.                                *)
VerifyEmail(r, t) ==
  /\ At(r, "idle")
  /\ t \in mailed /\ Consumable(t)
  /\ spent' = spent \cup {t}
  /\ \/ req' = [req EXCEPT ![r] = [Idle EXCEPT !.pc = "markVerified", !.tok = t,
                                     !.email = tokenFor[t]]]
     \/ Faulty /\ UNCHANGED req
  /\ UNCHANGED <<redis, accounts, tokenFor, expired, mailed, answers>>

MarkVerified(r) ==
  /\ At(r, "markVerified")
  /\ \/ verified' = verified \cup {req[r].email}
     \/ Faulty /\ UNCHANGED verified
  /\ Finish(r)
  /\ UNCHANGED <<redis, users, tokens, mailed, answers>>

-----------------------------------------------------------------------------
CacheExpires(k) ==
  /\ cache[k] # NoToken
  /\ cache' = [cache EXCEPT ![k] = NoToken]
  /\ UNCHANGED <<lock, resent, accounts, tokens, mailed, answers, req>>

\* The TTL of SetNX; the mutant sets none.
LockHasNoTTL == FALSE
LockHasTTL == TRUE

(* The TTL of a lock, five minutes, outlasts the deadline the Timeout       *)
(* middleware puts on the request that holds it, so it expires only when    *)
(* that request is gone.                                                    *)
LockExpires(k) ==
  /\ LockHasTTL /\ lock[k]
  /\ \A r \in Requests : ~Runs(r, k)
  /\ lock' = [lock EXCEPT ![k] = FALSE]
  /\ UNCHANGED <<cache, resent, accounts, tokens, mailed, answers, req>>

TokenExpires(t) ==
  /\ tokenFor[t] # NoEmail /\ t \notin expired
  /\ expired' = expired \cup {t}
  /\ UNCHANGED <<redis, accounts, tokenFor, spent, mailed, answers, req>>

(* A panic in a handler is caught by middleware.Recovery, which answers 500:*)
(* RunIdempotent has no deferred call, so the lock stays.                   *)
Panic(r) ==
  /\ Faulty /\ ~At(r, "idle")
  /\ Finish(r)
  /\ UNCHANGED <<redis, accounts, tokens, mailed, answers>>

Crash ==
  /\ Faulty
  /\ \E r \in Requests : ~At(r, "idle")
  /\ req' = [r \in Requests |-> Idle]
  /\ UNCHANGED <<redis, accounts, tokens, mailed, answers>>

Step(r) ==
  \/ Acquire(r) \/ Recheck(r) \/ CreateUser(r) \/ IssueVerification(r)
  \/ SendMail(r) \/ CacheBody(r) \/ Unlock(r) \/ MarkVerified(r)

Next ==
  \/ \E r \in Requests :
       \/ \E k \in Keys : Register(r, k)
       \/ \E e \in Emails : RegisterUnkeyed(r, e)
       \/ \E t \in Tokens : VerifyEmail(r, t)
       \/ Step(r) \/ Resend(r) \/ Panic(r)
  \/ \E k \in Keys : CacheExpires(k) \/ LockExpires(k)
  \/ \E t \in Tokens : TokenExpires(t)
  \/ Crash

Spec == Init /\ [][Next]_vars

(* net/http serves every request to its end, each call under the deadline   *)
(* of the Timeout middleware, and Redis honours the TTL of the lock.        *)
Fairness ==
  /\ \A r \in Requests : WF_vars(Step(r))
  /\ \A k \in Keys : WF_vars(LockExpires(k))

FairSpec == Spec /\ Fairness

-----------------------------------------------------------------------------
(* Every variable has its type, and a request that touches the cache or the *)
(* lock has a cache key: the path without the Idempotency-Key header never  *)
(* deletes a lock (handler/auth.go:50-57).                                  *)
TypeOK ==
  /\ cache \in [Keys -> Tokens \cup {NoToken}]
  /\ lock \in [Keys -> BOOLEAN]
  /\ users \subseteq Emails /\ verified \subseteq Emails
  /\ tokenFor \in [Tokens -> Emails \cup {NoEmail}]
  /\ spent \subseteq Tokens /\ expired \subseteq Tokens /\ mailed \subseteq Tokens
  /\ answers \in [Keys -> SUBSET Tokens] /\ resent \subseteq Keys
  /\ req \in [Requests -> Request]
  /\ \A r \in Requests :
       req[r].pc \in {"setnx", "recheck", "cache", "unlock"} => req[r].key \in Keys

(* At most one request at a time runs fn for a cache key, and it holds the  *)
(* lock: no loser of SetNX deletes the lock of the winner.  Only a DEL that *)
(* go-redis sends again can do that, and only until a request next runs     *)
(* alone (http.go:115-131, redis.go:27).                                    *)
OneRunnerPerKey ==
  \A k \in Keys \ resent : \A r \in Requests : Runs(r, k) =>
    lock[k] /\ \A q \in Requests : Runs(q, k) => q = r

(* All the 201 answers for an address, under any cache key and after the    *)
(* cache has expired, carry one body, and its token was mailed: the cache   *)
(* is never filled by two runs (http.go:110, auth.go:100-108).              *)
OneBodyPerEmail ==
  \A k1, k2 \in Keys : EmailOf[k1] = EmailOf[k2] =>
    \A t1 \in answers[k1], t2 \in answers[k2] : t1 = t2 /\ t1 \in mailed

\* The stage of a verification token, as OneTimeToken counts it.
Claimed(t) == \E r \in Requests : At(r, "markVerified") /\ req[r].tok = t

stage == [t \in Tokens |->
  IF Claimed(t) THEN "claimed"
  ELSE IF ~Consumable(t) THEN "void"
  ELSE IF t \in mailed THEN "live" ELSE "sealed"]

OneTime == INSTANCE OneTimeToken WITH
  Owners <- Emails, NoOwner <- NoEmail, Initial <- {"unverified"}, Written <- {"verified"},
  owner <- tokenFor,
  value <- [e \in Emails |-> IF e \in verified THEN "verified" ELSE "unverified"]

(* A verification token acts once, after it was mailed, and only on the     *)
(* account it was issued for, whatever fails or is answered too late        *)
(* (onetime.go:46-58, auth.go:236-240).                                     *)
ImplementsOneTimeToken == OneTime!Spec

(* A lock does not outlive its request for ever, even if the request was    *)
(* killed, panicked or could not delete it: the address can be registered   *)
(* again (http.go:116, 126, 131).                                           *)
LockReleased == \A k \in Keys : lock[k] ~> ~lock[k]
=============================================================================
