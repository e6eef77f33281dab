# A TLA+ development of auth_service

The service is one Go process: an HTTP API over an application layer
(`internal/usecase`), with Postgres for what must last and Redis for what may be
forgotten. Its logic is small; what makes it hard is that every handler is a
*sequence* of statements sent to two stores, without a transaction around them
and without a lock between requests. `net/http` serves each request on a
goroutine of its own; a call can fail, lose its answer, or be cut off by the
deadline of the `Timeout` middleware; the process can be stopped between any two
calls. The modules below are about those sequences.

## 1. Inventory

| Component | State it keeps | Operations that change it | Hard behaviour | What makes it correct |
|---|---|---|---|---|
| Tokens (`usecase/auth.go`, `usecase/internal.go`, `postgres/refresh.go`) | `refresh_tokens` rows (live, revoked, expired), `blacklist:<jti>` | Login, Refresh, Logout, LogoutAll, ResetPassword | read and revoke of a token are two statements; the errors of revocations are dropped; a row is inserted after a bulk revocation | a spent token never becomes live, a family has one live token, replay and bulk revocation end families |
| Session store (`redis/stores.go`) | `session:<id>` blobs and the `user_sessions:<user>` index, each with its TTL | Save, Delete, DeleteAllForUser, under the same handlers | the pipelines are not transactions; bulk deletion reads the index and deletes it in two round trips; the index can expire under a Save | the index lists every blob and outlives it, or it is known why not; a bulk deletion leaves nothing it could know of; what it cannot find ends |
| Password reset (`usecase/auth.go`, `usecase/internal.go`, `postgres/onetime.go`) | `password_resets`, `users.password_hash`, `ratelimit:email:<addr>` | ForgotPassword, ResetPassword | the quota is looked at before the mail leaves; the token is spent before the new password is hashed and stored | a token sets one password, after it was mailed; the mails exceed the quota by no more than the requests under way; who goes on asking gets a good token |
| Registration and verification (`usecase/auth.go`, `postgres/user.go`, `postgres/onetime.go`) | `users`, `email_verifications` | Register, VerifyEmail | the account is committed before the mail leaves | one account and one body per address, a token is used once |
| Idempotency cache (`pkg/httputil/http.go`, `redis/stores.go`) | `idem:<key>`, `idem:<key>:lock` | RunIdempotent | cache and lock are separate keys with separate TTLs; errors of both are dropped | one runner per key as long as no DEL is applied twice, same body for retries, the lock is released |
| Login lockout (`usecase/auth.go`, `redis/stores.go`) | `login_fail:<email>`, `lockout:<email>` and their TTLs | IsLocked, RecordFailure, Clear | the check, the count and the lock are three calls around a slow bcrypt | the number of attempts is bounded, a lock ends, and ends with a fresh counter |
| Rate limiting (`middleware/ratelimit.go`, `router.go`, `redis/stores.go`) | `ratelimit:<scope>:ip:<client>` and its TTL | Allow | limiters are chained; a window is fixed, not sliding | bounded admissions, refused clients are admitted again |
| Access tokens and RBAC (`infrastructure/jwt`, `middleware/auth.go`, `middleware/rbac.go`) | none but the blacklist; permissions travel in the token | issue, parse, blacklist | `exp` has whole seconds, the blacklist's TTL is computed before it is sent, permissions are read before the token is signed | a logged-out token is not accepted again, a withdrawn permission ends |
| Application lifecycle (`cmd/api`, `internal/app`) | the server goroutine, the tracing, Postgres and Redis clients, the signal channel | boot, serve, shutdown | clients are closed under requests that did not drain; a boot can fail half-way; a signal races the failure of the server | a failed boot closes what `New` was handed, a lossy exit is reported, a signal ends the process |
| Configuration, audit log, plumbing, health, validation, hashing, mail client | none, or a log nobody reads | – | – | not modelled, see section 8 |

**How they interact.** `router.New` chains the global limiter, the limiter of
the route, for `/logout` and `/logout-all` `Authenticate`, and the handler. The
handler calls the use case, which calls the repositories and the Redis stores
one statement or pipeline at a time. Components share state only through the two
stores: Login passes through the lockout before it opens a session; ResetPassword
consumes a one-time token and then revokes what Login and Refresh issued;
Register and ForgotPassword spend from a limiter of the mail address.

All the hazards we know of are in `PROJECT.json` (`hazards`), each at its line
with the properties that would catch it, or with the reason why none does yet.

## 2. Modules

| Module | Models | Checked with | Proved in |
|---|---|---|---|
| `TokenLifecycle` | refresh-token rows, blacklist, and the five handlers that drive them | `MCTokenLifecycle` | `TokenLifecycleProofs` |
| `RefreshLedger` | abstract: what the `refresh_tokens` table promises of its rows | through `TokenLifecycle`, which implements it | as an instance, in `TokenLifecycleProofs` |
| `SessionStore` | the session blobs and their index, command by command | itself | `SessionStoreProofs` |
| `OneTimeToken` | abstract: what a token sent by mail may do | through the two modules that implement it | – |
| `PasswordReset` | `ForgotPassword` with quota and mail, `ResetPassword` | itself | `PasswordResetProofs` |
| `Registration` | `RunIdempotent` around `Register`; `VerifyEmail` | `MCRegistration` | `RegistrationProofs` |
| `LoginLockout` | the lockout of `Login` | itself | `LoginLockoutProofs` |
| `RateLimiter` | the chain of fixed-window limiters | `MCRateLimiter` | `RateLimiterProofs` |
| `AccessTokens` | `exp`, blacklist and permissions of access tokens on a clock | `MCAccessTokens` | `AccessTokensProofs` |
| `Lifecycle` | start, the two goroutines of `run`, signals, shutdown | itself | `LifecycleProofs` |

The modules do not share variables: each has the keys and tables its properties
are about, and a handler that touches several appears in each with its part.
Login is in `LoginLockout` up to the outcome of the password comparison, in
`TokenLifecycle` from a successful comparison on (its rows) and in `SessionStore`
(its blob). Refresh, Logout and the bulk revocation are in `TokenLifecycle` with
what they do in Postgres and in `SessionStore` with what they do in Redis; the two
meet nowhere in the code, for no handler reads a session blob to decide anything.
ResetPassword is in `PasswordReset` up to the new password and in `TokenLifecycle`
from the consumed token on. The access token, which `TokenLifecycle` keeps
acceptable until it is blacklisted, has its lifetime in `AccessTokens`.

**Conventions.** All modules are built in the same way.

* A *worker* (`Requests`) is a goroutine slot: it serves one request after
  another, and `req[r].pc` names the next call it will make. The number of
  workers is the number of requests in flight.
* One statement to Postgres, one command or script sent to Redis, or one mail, is
  one step. Between two steps of a worker anything may happen. A pipeline is no
  transaction, so each of its commands is a step (`SessionStore`, and `ClearLock`
  and `ClearCount` of `LoginLockout`).
* `Faulty = TRUE` lets every such call fail, before or after it took effect
  (answer lost, deadline passed), in the place where the code sees an error; the
  disjunct then does what the code does with that error, which is often to drop
  it. A pipeline may be cut between two commands. `redis.go:27` leaves go-redis's
  `MaxRetries` at its default, so a command or pipeline whose answer is lost is sent
  again and may be applied twice: the action `Resend` of `SessionStore`,
  `Registration` and `LoginLockout` (section 7 says where it is left out).
  It also enables `Crash`: the process stops, and every request in flight is
  gone, while both stores keep their data.
* Time is either an event that may happen at any moment (`ExpireToken`,
  `CacheExpires`, `TokenExpires`), or, where a property compares two TTLs, a
  `Tick` that counts them down (`SessionStore`, `LoginLockout`, `RateLimiter`,
  `AccessTokens`).
* *History variables* (marked so at their declaration) are written and never
  read by the modelled program; properties use them.
* What a plausible bug would change is an operator of its own (`Usable`,
  `Consumable`, `Renewed`, ...), and the definition in front of it, which the
  comment calls the mutant, is a broken variant of it. Nothing in a specification
  uses the mutants; putting one in the operator's place must break the property
  that `PROJECT.json` lists with it.

### TokenLifecycle

| State | In the code |
|---|---|
| `passwd`, `reset` | `users.password_hash`; the unused rows of `password_resets` |
| `rt[t]`, `famOf[t]`, `expired` | row of the refresh token: absent, live or revoked (`revoked_at`); its `family_id`; whether `expires_at` has passed |
| `blacklist` | `blacklist:<jti>` |
| `owner[f]` | user a session was opened for |
| `held` | token pairs that reached a client |
| `parent`, `mintedBy`, `openedWith`, `replayed`, `closed` | history |

`issueTokens` mints the access and the refresh token together, so one element of
`Tokens` is the pair; `Login` draws session id and family id together and they
never part, so one element of `Families` is both. Requests step through

* Login: `Login` → `SaveSession` → `InsertToken`;
* Refresh: `Refresh` (GetByHash) → `Revoke` → `SaveSession` → `InsertToken`, or
  → `GetRevokedFamily` → `RevokeFamily`;
* Logout: `Logout` (Authenticate) → `BlacklistAccess` → `RevokeCookie`;
* LogoutAll: `LogoutAll` (Authenticate) → `RevokeAll`;
* ResetPassword: `ResetPassword` (Consume) → `UpdatePassword` → `RevokeAll`.

`SaveSession` is a step that may fail and end the request; `Delete` and
`DeleteAllForUser` are the last calls of their handlers and their errors are
dropped, so they leave no trace here.

`RefreshLedger` is what is left when requests, users and time are taken away: a row
is *absent*, *live* or *revoked*; `Open` adds the first row of a family, `Succeed` a
successor of a spent row to the family of that row, and `Revoke` spends any set of
rows in one statement. `TokenLifecycle` implements it with `state <- rt`,
`family <- famOf` and its own `parent`. The interesting part is what a request
still knows when it inserts: a login that nobody else has its family, and a refresh
that the row it read three statements before is of this family and spent by now.

`Endpoints` restricts which of these clients call, so that an instance can be
deep in the endpoints its question is about; the proofs hold for every choice.

### SessionStore

The keys of one user, with times to live in ticks; users share no key. Save is
`SetBlob` → `AddToIndex` → `ExpireIndex` (SET, SADD, EXPIRE), Delete is
`DeleteBlob` → `RemoveFromIndex` (DEL, SREM), DeleteAllForUser is `SMembers` →
`DeleteListed` … → `DeleteIndex`. Around them `Login`, `Refresh` with `Revoke`,
`InsertRow`, `Logout` and `RevokeAll` say when they are called: `row` is the
sessions that can be refreshed, `known` those a client has tokens of. `Tick`
counts the TTLs down; a set that becomes empty is no key and has no TTL, and
`EXPIRE` of a missing key does nothing, so an index can run out between the SADD
and the EXPIRE of a Save. `Cut` ends a request between any two commands and
`Resend` is go-redis sending a pipeline once more. Three things may leave a blob
without an entry that lasts: a Save that is cut, a deletion between its commands
(or between the DEL and the SREM of a Delete), and the end of the index under a
Save. The history variable `harmed` has exactly these sessions, until they are
indexed again or end, and `late`, per bulk deletion, those saved since its SMEMBERS.

### OneTimeToken, PasswordReset and the verification of Registration

`OneTimeToken` is what `OneTimeRepo` promises, without tables or requests: a token
is *void*, *sealed* (stored), *live* (delivered by mail), *claimed* (consumed by
one request) and void again, and only a claim may act, once, on the account the
token was issued for. `PasswordReset` implements it with the password as the
value, `Registration` with the verified flag (`"unverified"`, `"verified"`); the
mapping is the operator `stage` of each module.

`PasswordReset` has `ForgotPassword` (GetByEmail and the quota), `CreateReset`,
`SendMail`, each with its failure, then `ResetPassword` (Consume) and
`UpdatePassword`, which hashes first. `RegisterTaken` is another spender of the
same quota. `quota` stops at `Limit + 1`, since nothing tells larger counts apart.
`Tokens` is a set of slots: a token is random and never repeats, so `Fresh` reuses
the slot of one that is no longer good. `burnt` (history) are the tokens that were
spent without a new password.

### Registration

`Register` is the first look at the cache, `Acquire` the `SetNX`, `Recheck` the
second look, `CreateUser`/`IssueVerification`/`SendMail` the use case,
`CacheBody` and `Unlock` the end of `RunIdempotent`. `RegisterUnkeyed` is the
path without the header. The body of a 201 is represented by the verification
token of the run that built it. That is the body a development build answers; in
production every 201 has the same body, so the property about equal bodies is
the stronger statement. The lock's TTL (five minutes, `http.go:107`) outlasts the
request deadline (`http.read_timeout`, 15 s by default) that bounds every call
of the holder, hence the guard of `LockExpires`. A configuration with a read
timeout above five minutes is outside the model. `Resend` is go-redis applying
the `SETNX` or the `DEL` of the lock once more: a request may be told
by its own `SETNX` that the lock is taken, and the second `DEL` may hit the lock that another
request has acquired since. The history variable `resent` has the keys this may have
happened to, until a request runs `fn` of the key alone again.

### LoginLockout

Counter and lock with their times to live in ticks. `Login` is `IsLocked`,
`Compare` the bcrypt comparison, `RecordFailure` the script, `SetLock` the `SET`
that follows it when the count has reached the limit; then the pipeline of a
successful login: `ClearLock` and `ClearCount`, its two DELs, between which others
may count and pass. `Resend` applies the script, the `SET` or the pipeline once more.
`tries` (history) counts the wrong passwords that were answered in the window of the
counter, also those whose `RecordFailure` failed, which `failLogin` ignores. `dropped`
counts the tries that faults let past the limit: failures that were not counted,
answers and locks lost at the limit, locks a success deleted. So the bound the code
keeps can be stated under faults: it is the limit, the workers, and what was dropped.
With Redis down for the script nothing bounds `dropped`, and nothing the attempts.

### RateLimiter

`Arrive` is a request of the one modelled client, `Pass` one limiter of its
chain: `global`, then the route's. `passed` keeps the admissions of the last
window by age. The mail quota (`consumeEmailQuota`) is the same script with one
scope. The properties count with sets: `Admissions(p, A)` has one element for each
request that `p` counts at the ages in `A`.

### AccessTokens

Instants are kept as the time left until them, in ticks, `Second` of which are a
second: `left[t]` until `exp`, `black[t]` until Redis forgets `blacklist:<jti>`,
`req[r].age` since the request was accepted. `jwt.NewNumericDate` drops the
fraction of a second, hence `UntilExp`. `IssueTokens` reads the permission
(`GetAuthProfile`), `Sign` signs it some calls later. `Authenticate` is
`ParseAccess`, which looks at `exp`; `Blacklisted` is `Exists` and, on `/me`,
`RequirePermission`. `Until` computes the TTL of the blacklist entry and `Add`
sends it; ticks may pass in between. Every call fails once the `Deadline` of the
request has passed, with or without faults. Postgres and the mailer honour the
context, whose deadline is `http.read_timeout`; a Redis call under way does not
(`redis.go:27-36` leaves `ContextTimeoutEnabled` unset) and ends by the client's own
timeouts. `Deadline` is therefore `http.read_timeout` and those of one Redis call, its
retries included; the theorems hold for any value. `since` is a
history variable: the ticks since the user last had the permission, counted up to
the `Horizon` the property speaks of. `SetPermission` is external: nothing in the
repository writes `role_permissions` at run time, the migrations and an operator
do. The refresh that carries a stale permission over is the same `IssueTokens`:
each refresh reads the profile again.

### Lifecycle

`main` names the next thing the main goroutine does: `New` (`OpenTracing`,
`MergeResource` … `PingRedis`, each failure with the clean-up of `New` and of the
clients' constructors; a failed `resource.Merge` has none, and leaves the exporter it
was made for, `tracing = "made"`, to the exit of the process), `Spawn`, `Notify`, the select (`Quit`, `ServerFailed`), `Shutdown`
(`StopAccepting` … `WaitPool`) and `Return`. `server` is the goroutine of
`ListenAndServe`. The requests make the calls of a refresh – Postgres, Redis,
Postgres – so that there is one before and one after each client is closed.
`Drain` may time out at any moment: `http.shutdown_timeout` (10 s) is shorter than
`http.read_timeout` (15 s), so a request that is slow but in time can outlive it.
`pgxpool.Close` waits for the connections it has given out and gives no more.
`Signal` before `signal.Notify` kills the process; afterwards one signal fits the
channel's buffer and further ones are dropped.

## 3. What the runs check

Passing runs:

| Run | Instance | Shows |
|---|---|---|
| `sequential` | 1 worker, faults, all endpoints, 2 families, 3 tokens, 2 passwords, 1 reset | With requests one after another the documented promises hold, whatever fails: `ReplayRevokesFamily`, `BulkRevocationHolds`, `OldPasswordSessionsEnd`, `SingleLiveToken`; `TypeOK` |
| `rotation` | 2 workers, faults, 2 families, 3 tokens; login, refresh and logout-all | What survives every interleaving and fault: `ExchangedTokensAreSpent`, `OneExchangePerWorker`, `LineageKept`, `NoResurrection`, and that the rows implement `RefreshLedger` (`ImplementsRefreshLedger`) |
| `sessions` | 2 workers, faults, 2 sessions, TTL 2 ticks | `IndexCovers`: what is stored is indexed as long as it lives, but for the sessions something harmed; `BulkDeletes`: a bulk deletion leaves only what it could not know of; `OrphansEnd`: what no index lists ends or is listed again |
| `reset` | 2 workers, faults, 1 user, 2 token slots, quota 2, a password bcrypt refuses | `ImplementsOneTimeToken`; `MailsBounded`: the documented limit, which `mail_limit` shows broken, is passed by one mail per worker at most; and `ResetStaysPossible`: a user who goes on asking gets a good token again and again |
| `register` | 2 workers, faults, panics, 1 address under 2 cache keys, 2 tokens | `OneRunnerPerKey` (unless a DEL of the lock was applied twice), `OneBodyPerEmail`, `ImplementsOneTimeToken`, and that every lock is released (`LockReleased`) |
| `lockout` | 3 workers, faults, limit 2, duration 3 ticks | `AttemptsBounded`: tries, counted or not, pass the limit by the workers less one and by what faults and clears dropped; `LockEnds`, `FreshAfterLock` |
| `windows` | 2 workers, faults, window 3 ticks, limits 3 (global) and 2 (route) | `WindowBounded`, `BurstBounded`, `RefusalEnds` |
| `clock` | 2 workers, faults, 2 tokens, 2 ticks to the second, token life 4 ticks, deadline 2 | `BlacklistMatches`, `LoggedOutRefused`, `StalePermissionsEnd` |
| `shutdown` | 3 requests, any call may fail, signals at any time | `CleanExit`, `BootCleansUp`, `SignalStops` |

Runs that end in a violation, each of a sentence the repository says of itself
(details in `PROJECT.json`, `findings`):

| Run | Property | Shows |
|---|---|---|
| `bulk_race` | `BulkRevocationHolds` | a refresh between `Revoke` and `refresh.Save` puts a live token into a session that logout-all has just revoked |
| `mail_limit` | `MailsWithinLimit` | 2 workers, quota 2, no fault: a request is admitted, the window ends, its mail leaves in the next window beside a full quota of that one |
| `long_password` | `SpentTokensSetThePassword` | without any fault, a new password of at most 72 characters but more than 72 bytes passes validation, spends the reset token and is refused by bcrypt |

`BulkRevocationHolds` thus holds for one worker and fails for two; the pair of runs
locates the cause in the overlap of requests. The same overlap breaks
`ReplayRevokesFamily` ("Reuso de refresh revogado → revoga família inteira",
`README.md:162`): with it in place of `BulkRevocationHolds`, the instance of
`bulk_race` ends with a live token in a family that a replay has revoked. Section 5
narrows the cause down: both are proved for any number of workers and requests as long
as no request that can still mint overlaps the very UPDATE. In the same way
`SpentTokensSetThePassword` is proved for behaviours in which no password is asked for
that bcrypt refuses.

Three more sentences of the repository promise limits that the code passes without any
fault; a passing property says by how much.

* "RunIdempotent executes fn once per cacheKey or returns a cached JSON body"
  (`http.go:110`). The cache is read before the lock is taken and not again after: two
  requests miss the cache, one of them acquires the lock, runs `fn`, caches the body
  and deletes the lock, and then the other acquires it and runs `fn` a second time
  (`Register`, `Register`, `Acquire` … `Unlock` of one worker, `Acquire` of the other).
  `OneBodyPerEmail` says that the second run answers no second body: it gets 409.
* "5 falhas de login → bloqueio temporário" (`README.md:163`). Between the INCR that
  reaches the limit and the SET of the lock, and between `IsLocked` and the INCR, other
  logins get to compare a password (`RecordFailure` of one worker, `Login` and `Compare`
  of another, `SetLock`). `AttemptsBounded` says how many, and what faults add.
* "até `AUTH_EMAIL_PER_RECIPIENT_LIMIT` e-mails por destinatário a cada
  `AUTH_EMAIL_PER_RECIPIENT_WINDOW`" (`README.md:201`) is the run `mail_limit`;
  `MailsBounded` is the bound the code keeps.

**Bounds and why they are enough.** Three tokens make a chain of two exchanges,
or two chains: enough for a token, its successor and a replay of either, and for
two successors of one token. Two families let one be ended while the other must
not be used to end it. Two workers give every race between two handlers; the
properties relate at most two requests. `rotation` has login, refresh and logout-all:
logout and the reset only revoke rows, as logout-all does, and are in `sequential`.
Two passwords distinguish old from new. In
`Registration` two tokens and one address serve two runs of `fn`, the second of
which is the interesting one. In `LoginLockout` three workers and a limit of
two let two simultaneous failures pass the limit; `MaxCount`, which is the two
together, is reached only after repeated faults, resends and clears. In `SessionStore` two sessions are one that a
bulk deletion finds and one it does not; two requests are a deletion beside a Save,
or two Saves; a TTL of two ticks lets a blob and an index be of different ages; a
pipeline is resent at most once. In `PasswordReset` two token slots let one be
claimed while the next is issued, and a quota of two lets it be exhausted and
start anew; with a second user the slots themselves would run out and say nothing
about the code. A window of three ticks has a beginning, a middle and an
end; the global limit lies between one and two route limits. In `AccessTokens`
two ticks to the second make a token signed in mid-second shorter than one signed
at its start; a deadline of two lets a tick pass between two calls of a request;
two tokens are an old and a refreshed one, two workers a refresh beside a use or
two logouts of one token. In `Lifecycle` three requests can be in three different
calls when the clients are closed. Families, tokens, passwords and workers are
interchangeable and no liveness is checked in `TokenLifecycle` and
`AccessTokens`, so symmetry is sound there; the runs with liveness use none.

**Deadlock.** The runs of `TokenLifecycle`, `Registration`, `SessionStore` and
`LoginLockout` set `CHECK_DEADLOCK FALSE`: a service that no client calls rests,
and so does an instance whose ids are used up. So does `Lifecycle`, whose process
exits. `RateLimiter` and `AccessTokens` always tick, and in `PasswordReset` the
quota can always be hit; they are checked for deadlock.

## 4. Fairness

`Registration!FairSpec`: weak fairness on the steps of a worker, because a
goroutine that is runnable is run and each of its calls returns or fails under
the deadline of the request; weak fairness on `LockExpires`, because Redis
honours TTLs. Nothing obliges a client to call, a cache entry to expire or the
process to stay up. `LoginLockout!FairSpec`: the steps of a worker, and `Tick`.
`RateLimiter!FairSpec` and `SessionStore!FairSpec`: `Tick` only; `OrphansEnd` asks
nothing of the requests. `PasswordReset!FairSpec` has two parts.
`ServerFairness` is the server's: requests are served, the quota's window ends,
tokens expire. `UserPersists` is an assumption on the environment, without which
nothing can be promised: the user asks again and again, and of the calls made for
him not all fail (strong fairness, for a fault or another spender of the quota may
disable a step in between). `Lifecycle!FairSpec`: the main goroutine,
whose calls end (the pings have timeouts, `Drain` has `shutdown_timeout`, and the
pool is waited for until the calls under way meet their deadlines), and the steps
of each request; not the server goroutine, on which the exit does not depend, and
nobody who would send a signal or a request. `AccessTokens` has no liveness
property.

`LockEnds` needs no fairness of the failing client: a lock is renewed only by
failures that passed `IsLocked` before it was set, of which there are finitely
many. That is what makes it worth checking; without `IsLocked` in front
(mutant `UnlockedAlways`) it fails.

## 5. What is proved

`TokenLifecycleProofs`, for any sets of users, passwords, families, tokens,
resets and workers, any endpoints, with and without faults. The only assumptions
are those the module declares: the null values lie outside their sets, `Faulty`
is Boolean, `Endpoints` names endpoints.

| Theorem | Statement |
|---|---|
| `TypeCorrect` | `Spec => []TypeOK` |
| `ExchangedSpent` | `Spec => []ExchangedTokensAreSpent` |
| `ExchangedOnce` | `Spec => []OneExchangePerWorker` |
| `DrainedForever` | `Spec => NoResurrection` |

None of the three safety properties is inductive as it stands. The invariant `IInv` adds

* `RowsHaveFamily`, `MintingOwned`, `HeldExist`: a row that exists has a family,
  a request that may still mint works on a family somebody owns, and clients hold
  only tokens with a row. They make `famOf` and `owner` meaningful where `Refresh`
  reads them, and let `TypeOK` say that a step finds its operands;
* `SpentBeforeIssue`: a request past `Revoke` carries a revoked token. This is the
  heart of `ExchangedTokensAreSpent`: by the time `parent` is set, the parent is
  spent;
* `NotYetExchanged`: a worker that is about to revoke a token has not exchanged
  that token before. `GetByHash` admits live rows only, and exchanged rows are
  revoked for good; that carries `OneExchangePerWorker` from step to step.

The proof goes action by action: `StructureStep` for the typing part (one lemma
per group of handlers), `QuietStep` for the steps that mint nothing, `Insertion`
for the one that does, combined in `InvariantStep`. `MarkRevokedRows` states once
what the `UPDATE ... revoked_at IS NULL` of all revocations does. `DrainedStep`
shows that a drained family stays drained from `IInv` alone: a new row needs a
request in `Minting`, and a request enters `Minting` either with a family nobody
owned or from a live row.

That the rows form the ledger, and what follows from it:

| Theorem | Statement |
|---|---|
| `RefinesRefreshLedger` | `Spec => ImplementsRefreshLedger` |
| `FamiliesAreTrees` | `Spec => []LineageKept` |

`LInv` adds to `IInv` what is still true when a request inserts its row: `Rooting`
(a login is the only request that mints for its family, and the family has no row)
and `SameFamily` (a refresh mints for the family of the token it was given).
`LedgerStep` maps every action to one step of the ledger or to a stutter:
`InsertToken` to `Open` or `Succeed`, the four UPDATEs that revoke to `Revoke`.
`Lineage` is an invariant of the ledger itself (`LineageStep`, `MintedLineage`): a
new row is nobody's parent, so it closes no cycle. That no set of rows is closed
under parents is how "the exchanges lead back to a login" is said without
recursion, for a set of tokens that need not be finite. `TokenLifecycle` inherits
it step by step through `LedgerStep`.

The promises that overlapping requests break hold as long as *one* kind of overlap
does not occur; all other requests, of the same user as well, interleave freely,
fail and die. Each theorem has that race as its only hypothesis:

| Theorem | Statement | The race it excludes |
|---|---|---|
| `ReplayEndsTheFamily` | `Spec /\ []NoReplayRace => []ReplayRevokesFamily` | a replay is about to revoke a family while another request can still mint for it |
| `BulkEndsTheSessions` | `Spec /\ []NoBulkRace => []BulkRevocationHolds` | a bulk revocation is about to run while a login or refresh of the user can still mint |
| `ResetEndsOldSessions` | `Spec /\ []NoBulkRace => []OldPasswordSessionsEnd` | the same |
| `RotationIsAChain` | `Spec /\ []NoMintRace => []SingleLiveToken` | two requests can mint for one family |

A single worker, the instance of `sequential`, excludes all three; `bulk_race` is the
second, and the first with the property exchanged (section 3). The theorems therefore say what a repair has to
order, and no more: the mints of a family against each other and against its
revocation, and those of a user against the bulk revocation.

Each theorem has an invariant of its own beside `Structure`. The first three
strengthen "no usable token" to `Drained`, which also says that no request in flight
can still mint:

* `ReplayedDrained`, `ClosedDrained`: a replayed or closed family is drained.
  `RevokedDrained` makes it so at the UPDATE, where the hypothesis is used, and
  `DrainedStep` keeps it so. `RevokingOwned` says that the family of a replay was
  opened by a login;
* `StaleDrained`: a family opened with an earlier password is drained, or the
  request at `RevokeAll` is about to see to it. A fault in between is recorded by
  `Interrupted`, and that is the exception the property names;
* `LastLive`: a request that may mint has spent the last live token of its family
  or, at `Revoke`, is about to. With it a row that `InsertToken` adds is the only
  live one, which is `SingleLiveToken`.

`AccessTokensProofs`, for any token lifetime of at least a second, any deadline,
any number of ticks to a second, any tokens and workers:

| Theorem | Statement |
|---|---|
| `TypeCorrect` | `Spec => []TypeOK` |
| `BlacklistCovers` | `Spec => []BlacklistMatches` |
| `LoggedOutForGood` | `Spec => LoggedOutRefused` |
| `PermissionsEnd` | `Spec => []StalePermissionsEnd` |

Two invariants, each inductive together with `TypeOK`. `Blacklisting` adds to
`BlacklistMatches` what a logout under way knows (`PendingCovers`: the TTL it
computed is at least what the token has left, and while the request is in time
exceeds it by its age at most), that only logouts write entries
(`EntriesLoggedOut`) and that a late request presents a logged-out token
(`LateLoggedOut`); the action property then follows for the one step that can
enter a handler. `Freshness` follows a permission through its three carriers: the
request that has read it (`SigningFresh`), the claims of the token
(`ClaimsFresh`) and the request that uses the token (`UseFresh`); each adds its
own lifetime, and the sum is below `Horizon`.

`LifecycleProofs`, for any set of requests:

| Theorem | Statement |
|---|---|
| `TypeCorrect` | `Spec => []TypeOK` |
| `FailedBootCleansUp` | `Spec => []BootCleansUp` |
| `ExitIsClean` | `Spec => []CleanExit` |

Its `IInv` says which clients are open at which label of the main goroutine
(`Clients`), that there are no requests without a server (`Served`), and that a
drain that left nothing in flight is followed by no loss (`Losses`): the listener
is closed by then and no request can arrive. `FairSpec` implies `Spec`, so the
theorems hold for it as well. `FailedBootCleansUp` is about every client that a
constructor has handed to `New`; it also says that the exporter of a failed
`resource.Merge` (`tracing.go:40-42`) is all a failed start can leave.

`RegistrationProofs`, for any addresses, keys, tokens and workers:

| Theorem | Statement |
|---|---|
| `TypeCorrect` | `Spec => []TypeOK` |
| `RefinesOneTimeToken` | `Spec => ImplementsOneTimeToken` |
| `OneRunner` | `Spec => []OneRunnerPerKey` |
| `OneBodyAnswered` | `Spec => []OneBodyPerEmail` |

`HasOperands` says that a step finds its address and token; `ClaimsHold`, that a
request about to verify is the only one that has consumed its token, which makes
`Claim` and `Act` of the abstract token happen once; `UnissuedClean`, that only
issued tokens are mailed or spent. `OneRunner` excepts the keys in `resent`: a `DEL`
applied twice does break the exclusion, and the theorem says that nothing else does. `OnePast` is why there is one body: only the
request whose INSERT succeeded gets past `CreateUser`, and the address stays taken.

`PasswordResetProofs`, for any users, passwords, tokens, limit and finitely many
workers:

| Theorem | Statement |
|---|---|
| `TypeCorrect` | `Spec => []TypeOK` |
| `RefinesOneTimeToken` | `Spec => ImplementsOneTimeToken` |
| `MailsAreBounded` | `Spec => []MailsBounded` |
| `OnlyLongPasswordsBurn` | `Spec /\ []HashableAsked => []SpentTokensSetThePassword` |

The refinement needs one fact more than the types, `ClaimsHold` as above; each
action is shown to map to one abstract step or a stutter. `MailsBounded` is
inductive together with the types: a request counts from its admission to its
mail, and when a window ends only those under way are carried over. That is the bound
the code keeps, not the one `README.md:201` states, which `mail_limit` breaks. The last theorem
is the other half of the run `long_password`: without faults, a token is burnt only by
a password that bcrypt refuses (`HashableAsked`: none is being hashed).

`SessionStoreProofs`, for any sessions, workers and time to live:

| Theorem | Statement |
|---|---|
| `TypeCorrect` | `Spec => []TypeOK` |
| `IndexIsComplete` | `Spec => []IndexCovers` |
| `BulkIsComplete` | `Spec => []BulkDeletes` |

`IInv` splits what the two properties need. `Listed`: a stored session that is not
harmed is in the index, or a Save is about to add it (SADD, not merely EXPIRE, is
ahead). `Lasting`: the index lives as long, or an EXPIRE is ahead. `BulkKnows`: what
a bulk deletion past its SMEMBERS neither listed nor was saved since is harmed, and
no SADD is ahead of it that could heal it before the next SET; this is what an
interleaved Save could break. `NoneLeft`: the index is deleted after the loop. One
lemma per command, and `QuietStep` for everything that leaves Redis alone.

`LoginLockoutProofs`, for any addresses, limit, duration and finitely many workers:

| Theorem | Statement |
|---|---|
| `TypeCorrect` | `Spec => []TypeOK` |
| `AttemptsAreBounded` | `Spec => []AttemptsBounded` |
| `FreshCounter` | `Spec => FreshAfterLock` |

`AttemptsBounded` is about `tries`, which only the client sees, and splits in two.
`TriesCounted`: a try is in `count` or in `dropped`, so a failure whose call failed
widens the bound by one, and one counted twice does not narrow it. `CountBounded`:
`count` and the logins that may still count are below the limit, the workers and
`dropped`. That is not inductive: it does not say why a login that is let
in at the limit keeps the bound. `FailuresCounted` does: while the lock does not
outlive the counter, every failure from the limit on belongs to a worker that is
still at `SetLock`, which therefore is not trying, or to a lock counted in
`dropped`. The two groups are disjoint sets of workers, and `Groups` says by how
much a step of one worker changes their cardinalities. `FailuresCounted` also gives
`FreshCounter`: a lock that ends before its counter was already outlived by it.

`RateLimiterProofs`, for any scopes, limits, length of the window and workers:

| Theorem | Statement |
|---|---|
| `TypeCorrect` | `Spec => []TypeOK` |
| `WindowIsBounded` | `Spec => []WindowBounded` |
| `BurstIsBounded` | `Spec => []BurstBounded` |

`IInv` says of each scope (`Counted`) that what it admitted less than a window ago
belongs to the window that is open, and then its counter has counted it, or to the
one before, which had admitted at most the limit; that is why a burst is at most
twice the limit. When the window ends (`TickStep`) the open one becomes the one
before, and what that one had admitted is too old by then. The sums over ages are
cardinalities of sets of admissions, for which the library has theorems; the lemmas
`Fewer`, `Together`, `Aged` and `OneMore` say what splitting, ageing and one more
admission do to them.

## 6. What is only model-checked

Every safety property of the passing runs is proved, four of those of `sequential`
for all behaviours without the race that breaks them. Liveness (`LockReleased`,
`LockEnds`, `RefusalEnds`, `SignalStops`, `OrphansEnd`, `ResetStaysPossible`) is
model-checked only: temporal reasoning under fairness and `ENABLED` is out of the
prover's reach.

## 7. Known limits of the models

* In `SessionStore`, `Resend` covers Save and Delete, each once at most; the pipeline
  of DeleteAllForUser is sent once. Sent again it can delete the blob, or with the index
  the entry, of a Save that came in between; such a session is among those a bulk
  deletion harms already.
* Not modelled are the resends of the limiters' INCR (`RateLimiter`,
  `PasswordReset`), which make them refuse sooner, and of the blacklist's SET
  (`AccessTokens`), which is the same SET a little later.
* `LoginLockout` and `RateLimiter` count durations in ticks. `stores.go:32-35` cuts
  the counter's to whole seconds and raises it to one, while the lock's `SET` keeps its
  milliseconds, so the two agree for a `login_lockout_duration` of whole seconds only.
  With half a second the counter would outlive the lock and `FreshAfterLock` would fail.
* `PasswordReset` and `Registration` model the service with e-mail enabled. With it
  disabled `sendActionEmail` returns at once, no quota is spent and the answer
  carries the token.
* In `Registration` the mail quota is an answer that may refuse; its counting is
  `PasswordReset`'s and `RateLimiter`'s.
* The expiry of reset tokens is in `PasswordReset`, that of access tokens in
  `AccessTokens`; in `TokenLifecycle` a token in `held` authenticates until it is
  blacklisted and a reset token is good until it is used, supersets of what the code
  accepts.
* `AccessTokens` does not model that the clocks of the process and of Redis may
  run apart, nor the delay with which Redis expires a key.
* `Run` returns nil only after `Shutdown` was called, which only the main
  goroutine does, so the select never receives a nil and the model has no such
  branch.
* When `token.Random` has no element left, the bound, it fails as it may in the
  code; no property depends on it.
* A COMMIT whose answer is lost is modelled in `CreateUser`, `IssueVerification`,
  `Consume`, `Revoke` and `UpdatePassword`. `GetRevokedFamily` on an error returns
  the zero family id, and the `UPDATE` that follows matches no row; the model ends
  the request there.
* `config.go:227` checks the rate limits but neither `login_max_attempts` nor
  `login_lockout_duration`; `MaxAttemptsAssumption` and `DurationAssumption` say
  that they are positive.

## 8. Not modelled

Configuration (read once; its checks are the assumptions on the constants), the
audit log (appended, never read, errors dropped), HTTP plumbing, metrics, tracing and logging, health and documentation
endpoints, input validation, hashing and link building (pure functions whose
results are model values), and the client libraries.

## 9. Plan

In order of importance.

1. Done: all the modules of section 2 with their runs, the proofs of section 5, and
   the abstract `OneTimeToken` with its two implementations and `RefreshLedger`.
2. Abstract specifications still worth stating: a *fixed-window counter* that
   `LoginLockout`, `RateLimiter` and the quota share; a *revocable lease* for
   `AccessTokens`.
3. `users.is_active`, which Login looks at and Refresh does not: an operator's action
   beside `SetPermission` in `AccessTokens`.
