--------------------------- MODULE TokenLifecycle ---------------------------
(***************************************************************************)
(* The life of a refresh token: how Login, Refresh, Logout, LogoutAll and  *)
(* ResetPassword of internal/usecase/auth.go drive the refresh_tokens      *)
(* table in Postgres.                                                      *)
(*                                                                         *)
(* A request is served by one of Requests, a goroutine of net/http that    *)
(* serves one request after another.  Every statement sent to Postgres is  *)
(* one step; nothing else synchronises two requests, so their steps        *)
(* interleave freely.  The first statement of a handler is its first step: *)
(* what precedes it only reads its input.                                  *)
(*                                                                         *)
(* What the handlers write to the session store is in SessionStore: here   *)
(* Save is a step that may fail, and Delete and DeleteAllForUser, whose    *)
(* errors are dropped and after which the handlers answer, are left out.   *)
(* How a reset token comes to be mailed is in PasswordReset.               *)
(*                                                                         *)
(* Abstractions.  issueTokens mints an access and a refresh token together,*)
(* so an element of Tokens is such a pair: the row of the refresh token    *)
(* and the jti of the access token.  Login draws a session id and a family *)
(* id together and every later row carries both unchanged, so an element   *)
(* of Families stands for the two, and owner gives their user.             *)
(***************************************************************************)
CONSTANTS
  Users, Passwords,
  Families,     \* session/family ids that uuid.New can still draw (a bound)
  Tokens,       \* token pairs that token.Random can still draw (a bound)
  Resets,       \* password-reset tokens that ForgotPassword has mailed
  Requests,     \* workers: the number of requests served at the same time
  Endpoints,    \* the endpoints that clients call
  Faulty,       \* TRUE: calls to Postgres and Redis may fail, the process may die
  NoUser, NoPassword, NoFamily, NoToken, NoRequest

ASSUME NullsAssumption ==
  /\ NoUser \notin Users
  /\ NoPassword \notin Passwords
  /\ NoFamily \notin Families
  /\ NoToken \notin Tokens
  /\ NoRequest \notin Requests

ASSUME FaultyAssumption == Faulty \in BOOLEAN
ASSUME EndpointsAssumption ==
  Endpoints \subseteq {"login", "refresh", "logout", "logoutAll", "resetPassword"}

VARIABLES
  \* Postgres
  passwd,       \* users.password_hash
  reset,        \* password_resets: the user of an unused token, else NoUser
  rt,           \* refresh_tokens: "absent", "live" or "revoked" (revoked_at)
  famOf,        \* refresh_tokens.family_id (and session_id, user_id)
  expired,      \* rows whose expires_at has passed
  \* Redis
  blacklist,    \* blacklist:<jti>
  \* processes and clients
  owner,        \* the user of a session/family id that has been drawn
  held,         \* token pairs some client has received
  req,          \* what each worker is doing
  \* history
  parent,       \* the refresh token that was exchanged for a token
  mintedBy,     \* the worker that minted a token
  openedWith,   \* the password that opened a family (see Interrupted)
  replayed,     \* families revoked because a spent token was presented
  closed        \* families with a row that a bulk revocation has revoked

db == <<passwd, reset, rt, famOf, expired>>
world == <<blacklist, owner, held>>
history == <<parent, mintedBy, openedWith, replayed, closed>>
vars == <<db, world, req, history>>

Minting == {"revoke", "saveSession", "insert"}   \* a token may still come out
LoggingOut == {"blacklist", "revokeCookie"}
Labels == {"idle", "getRevoked", "revokeFamily", "updatePassword", "revokeAll"}
            \cup Minting \cup LoggingOut

Request == [pc : Labels,
            user : Users \cup {NoUser},
            fam : Families \cup {NoFamily},
            tok : Tokens \cup {NoToken},      \* token presented (refresh or access)
            cookie : Tokens \cup {NoToken}]   \* refresh cookie sent with a logout

Idle == [pc |-> "idle", user |-> NoUser, fam |-> NoFamily, tok |-> NoToken, cookie |-> NoToken]

-----------------------------------------------------------------------------
At(r, label) == req[r].pc = label
Goto(r, label) == req' = [req EXCEPT ![r].pc = label]
Finish(r) == req' = [req EXCEPT ![r] = Idle]

OwnedBy(u) == {f \in Families : owner[f] = u}
RowsOf(F) == {t \in Tokens : famOf[t] \in F}

\* GetByHash's WHERE clause; the mutant forgets "revoked_at IS NULL".
UsableIgnoringRevocation(t) == rt[t] # "absent" /\ t \notin expired
Usable(t) == rt[t] = "live" /\ t \notin expired

\* UPDATE refresh_tokens SET revoked_at = NOW() WHERE ... AND revoked_at IS NULL
MarkRevoked(S) ==
  rt' = [t \in Tokens |-> IF t \in S /\ rt[t] = "live" THEN "revoked" ELSE rt[t]]

Init ==
  /\ passwd \in [Users -> Passwords]
  /\ reset \in [Resets -> Users]
  /\ rt = [t \in Tokens |-> "absent"]
  /\ famOf = [t \in Tokens |-> NoFamily]
  /\ expired = {}
  /\ blacklist = {}
  /\ owner = [f \in Families |-> NoUser]
  /\ held = {}
  /\ req = [r \in Requests |-> Idle]
  /\ parent = [t \in Tokens |-> NoToken]
  /\ mintedBy = [t \in Tokens |-> NoRequest]
  /\ openedWith = [f \in Families |-> NoPassword]
  /\ replayed = {} /\ closed = {}

-----------------------------------------------------------------------------
\* The ids that uuid.New draws for a login; the mutant returns to a session.
DrawnAgain(u, f) == owner[f] \in {NoUser, u}
Drawn(u, f) == owner[f] = NoUser

(* Login: GetByEmail and a matching password.Compare; a login that fails    *)
(* changes nothing here.  The ids of session and family are drawn.          *)
Login(r, u, f) ==
  /\ At(r, "idle")
  /\ Drawn(u, f)
  /\ owner' = [owner EXCEPT ![f] = u]
  /\ openedWith' = [openedWith EXCEPT ![f] = passwd[u]]
  /\ req' = [req EXCEPT ![r] = [Idle EXCEPT !.pc = "saveSession", !.user = u, !.fam = f]]
  /\ UNCHANGED <<db, blacklist, held, parent, mintedBy, replayed, closed>>

(* Refresh: GetByHash.  Any error, not only "no rows", leads to the replay  *)
(* check.                                                                   *)
Refresh(r, t) ==
  /\ At(r, "idle")
  /\ t \in held
  /\ \/ /\ Usable(t)
        /\ req' = [req EXCEPT ![r] = [Idle EXCEPT !.pc = "revoke", !.tok = t,
                                        !.fam = famOf[t], !.user = owner[famOf[t]]]]
     \/ /\ ~Usable(t) \/ Faulty
        /\ req' = [req EXCEPT ![r] = [Idle EXCEPT !.pc = "getRevoked", !.tok = t]]
  /\ UNCHANGED <<db, world, history>>

\* What GetRevokedFamily returns: the family of a revoked row, or nil.
RevokedFamily(t) == IF rt[t] = "revoked" THEN famOf[t] ELSE NoFamily

\* Refresh's check of the answer; the mutant loses it.
NilFamilyUnchecked(f) == FALSE
NilFamily(f) == f = NoFamily

(* Refresh: GetRevokedFamily, whose error is dropped.  (On an error it      *)
(* returns the zero family id, which no row carries.)                       *)
GetRevokedFamily(r) ==
  LET f == RevokedFamily(req[r].tok) IN
  /\ At(r, "getRevoked")
  /\ \/ /\ ~NilFamily(f)
        /\ req' = [req EXCEPT ![r] = [@ EXCEPT !.pc = "revokeFamily", !.fam = f]]
     \/ (NilFamily(f) \/ Faulty) /\ Finish(r)
  /\ UNCHANGED <<db, world, history>>

\* The rows of RevokeFamily's UPDATE; the mutant revokes the token alone.
ReplayedRowsTokenOnly(r) == {req[r].tok}
ReplayedRows(r) == RowsOf({req[r].fam})

(* Refresh: RevokeFamily, its error dropped, then ErrUnauthorized.          *)
RevokeFamily(r) ==
  /\ At(r, "revokeFamily")
  /\ \/ MarkRevoked(ReplayedRows(r)) /\ replayed' = replayed \cup {req[r].fam}
     \/ Faulty /\ UNCHANGED <<rt, replayed>>
  /\ Finish(r)
  /\ UNCHANGED <<passwd, reset, famOf, expired, world, parent, mintedBy, openedWith, closed>>

\* An error of Revoke ends the exchange; the mutant drops it.
RevokeFailedIgnored(r) == Goto(r, "saveSession")
RevokeFailed(r) == Finish(r)

(* Refresh: Revoke of the presented token.  The number of rows it changed   *)
(* is not looked at, so a token revoked since GetByHash passes as well.     *)
Revoke(r) ==
  /\ At(r, "revoke")
  /\ \/ MarkRevoked({req[r].tok}) /\ Goto(r, "saveSession")
     \/ Faulty /\ (MarkRevoked({req[r].tok}) \/ UNCHANGED rt) /\ RevokeFailed(r)
  /\ UNCHANGED <<passwd, reset, famOf, expired, world, history>>

\* issueTokens: GetAuthProfile and sessions.Save.
SaveSession(r) ==
  /\ At(r, "saveSession")
  /\ Goto(r, "insert") \/ (Faulty /\ Finish(r))
  /\ UNCHANGED <<db, world, history>>

(* issueTokens: IssueAccess, token.Random and refresh.Save; then the        *)
(* response.  Out of tokens (the bound), token.Random fails.  The response  *)
(* may be lost after the row was inserted.                                  *)
InsertToken(r) ==
  /\ At(r, "insert")
  /\ Finish(r)
  /\ \/ \E t \in Tokens :
          /\ rt[t] = "absent"
          /\ rt' = [rt EXCEPT ![t] = "live"]
          /\ famOf' = [famOf EXCEPT ![t] = req[r].fam]
          /\ parent' = [parent EXCEPT ![t] = req[r].tok]
          /\ mintedBy' = [mintedBy EXCEPT ![t] = r]
          /\ \/ held' = held \cup {t}
             \/ Faulty /\ UNCHANGED held
     \/ /\ Faulty \/ \A t \in Tokens : rt[t] # "absent"
        /\ UNCHANGED <<rt, famOf, parent, mintedBy, held>>
  /\ UNCHANGED <<passwd, reset, expired, blacklist, owner, openedWith, replayed, closed>>

-----------------------------------------------------------------------------
(* Authenticate accepts an access token whose jti is not blacklisted, for   *)
(* every protected route; sessions are not consulted.                       *)
Authenticated(a) == a \in held \ blacklist

Logout(r, a, c) ==
  /\ At(r, "idle")
  /\ Authenticated(a)
  /\ c \in held \cup {NoToken}
  /\ req' = [req EXCEPT ![r] = [Idle EXCEPT !.pc = "blacklist", !.tok = a, !.cookie = c,
                                  !.fam = famOf[a], !.user = owner[famOf[a]]]]
  /\ UNCHANGED <<db, world, history>>

BlacklistAccess(r) ==
  /\ At(r, "blacklist")
  /\ \/ blacklist' = blacklist \cup {req[r].tok}
     \/ Faulty /\ UNCHANGED blacklist
  /\ Goto(r, "revokeCookie")
  /\ UNCHANGED <<db, owner, held, history>>

RevokeCookie(r) ==
  /\ At(r, "revokeCookie")
  /\ \/ MarkRevoked({req[r].cookie})
     \/ Faulty /\ UNCHANGED rt
  /\ Finish(r)
  /\ UNCHANGED <<passwd, reset, famOf, expired, world, history>>

-----------------------------------------------------------------------------
LogoutAll(r, a) ==
  /\ At(r, "idle")
  /\ Authenticated(a)
  /\ req' = [req EXCEPT ![r] = [Idle EXCEPT !.pc = "revokeAll", !.user = owner[famOf[a]]]]
  /\ UNCHANGED <<db, world, history>>

(* ResetPassword: Consume, one UPDATE ... RETURNING.  If its answer is lost *)
(* the token is spent and the request fails.                                *)
ResetPassword(r, k) ==
  /\ At(r, "idle")
  /\ reset[k] # NoUser
  /\ reset' = [reset EXCEPT ![k] = NoUser]
  /\ \/ req' = [req EXCEPT ![r] = [Idle EXCEPT !.pc = "updatePassword", !.user = reset[k]]]
     \/ Faulty /\ UNCHANGED req
  /\ UNCHANGED <<passwd, rt, famOf, expired, world, history>>

(* A fault ends the reset of one of these users between the new password    *)
(* and the revocation of the old sessions: nothing is promised of a family  *)
(* that should have ended.                                                  *)
Interrupted(U, pw) ==
  openedWith' = [f \in Families |->
    IF owner[f] \in U /\ openedWith[f] # pw[owner[f]] THEN NoPassword ELSE openedWith[f]]

\* What follows the update; the mutant answers without revoking the sessions.
PasswordUpdatedOnly(r) == Finish(r)
PasswordUpdated(r) == Goto(r, "revokeAll")

UpdatePassword(r) ==
  LET u == req[r].user IN
  /\ At(r, "updatePassword")
  /\ \/ /\ \E pw \in Passwords : passwd' = [passwd EXCEPT ![u] = pw]
        /\ \/ PasswordUpdated(r) /\ UNCHANGED openedWith
           \/ Faulty /\ Finish(r) /\ Interrupted({u}, passwd')
     \/ Faulty /\ Finish(r) /\ UNCHANGED <<passwd, openedWith>>
  /\ UNCHANGED <<reset, rt, famOf, expired, world, parent, mintedBy, replayed, closed>>

\* The rows of RevokeAllForUser's UPDATE; the mutant adds "expires_at < NOW()".
BulkRowsExpired(u) == RowsOf(OwnedBy(u)) \cap expired
BulkRows(u) == RowsOf(OwnedBy(u))

(* revokeAllSessions: RevokeAllForUser, its error dropped, and the answer,  *)
(* 200 in any case.                                                         *)
RevokeAll(r) ==
  LET u == req[r].user IN
  /\ At(r, "revokeAll")
  /\ \/ /\ MarkRevoked(BulkRows(u))
        /\ closed' = closed \cup {f \in OwnedBy(u) : RowsOf({f}) # {}}
        /\ UNCHANGED openedWith
     \/ Faulty /\ UNCHANGED <<rt, closed>> /\ Interrupted({u}, passwd)
  /\ Finish(r)
  /\ UNCHANGED <<passwd, reset, famOf, expired, world, parent, mintedBy, replayed>>

-----------------------------------------------------------------------------
ExpireToken(t) ==
  /\ rt[t] # "absent" /\ t \notin expired
  /\ expired' = expired \cup {t}
  /\ UNCHANGED <<passwd, reset, rt, famOf, world, req, history>>

\* The process is killed and restarted: every request in flight is lost.
Crash ==
  /\ Faulty
  /\ \E r \in Requests : ~At(r, "idle")
  /\ req' = [r \in Requests |-> Idle]
  /\ Interrupted({req[r].user : r \in {q \in Requests : At(q, "revokeAll")}}, passwd)
  /\ UNCHANGED <<db, world, parent, mintedBy, replayed, closed>>

Arrive(r) ==
  \/ "login" \in Endpoints /\ \E u \in Users, f \in Families : Login(r, u, f)
  \/ "refresh" \in Endpoints /\ \E t \in Tokens : Refresh(r, t)
  \/ "logout" \in Endpoints /\ \E a \in Tokens, c \in Tokens \cup {NoToken} : Logout(r, a, c)
  \/ "logoutAll" \in Endpoints /\ \E a \in Tokens : LogoutAll(r, a)
  \/ "resetPassword" \in Endpoints /\ \E k \in Resets : ResetPassword(r, k)

Step(r) ==
  \/ GetRevokedFamily(r) \/ RevokeFamily(r)
  \/ Revoke(r) \/ SaveSession(r) \/ InsertToken(r)
  \/ BlacklistAccess(r) \/ RevokeCookie(r) \/ UpdatePassword(r) \/ RevokeAll(r)

Next ==
  \/ \E r \in Requests : Arrive(r) \/ Step(r)
  \/ \E t \in Tokens : ExpireToken(t)
  \/ Crash

Spec == Init /\ [][Next]_vars

-----------------------------------------------------------------------------
\* The step a request is at finds the ids it works on.
HasOperands(q) ==
  /\ q.pc \in Minting \cup LoggingOut \cup {"revokeFamily"} => q.fam \in Families
  /\ q.pc \in Minting \cup LoggingOut \cup {"updatePassword", "revokeAll"}
       => q.user \in Users
  /\ q.pc \in {"revoke", "getRevoked", "blacklist"} => q.tok \in Tokens

(* Every variable has its type, and a step that dereferences the user or    *)
(* the family of its request has one: Refresh checks the family id for nil  *)
(* before it revokes the family (auth.go:153).                              *)
TypeOK ==
  /\ passwd \in [Users -> Passwords]
  /\ reset \in [Resets -> Users \cup {NoUser}]
  /\ rt \in [Tokens -> {"absent", "live", "revoked"}]
  /\ famOf \in [Tokens -> Families \cup {NoFamily}]
  /\ expired \subseteq Tokens
  /\ blacklist \subseteq Tokens
  /\ owner \in [Families -> Users \cup {NoUser}]
  /\ held \subseteq Tokens
  /\ req \in [Requests -> Request]
  /\ \A r \in Requests : HasOperands(req[r])
  /\ parent \in [Tokens -> Tokens \cup {NoToken}]
  /\ mintedBy \in [Tokens -> Requests \cup {NoRequest}]
  /\ openedWith \in [Families -> Passwords \cup {NoPassword}]
  /\ replayed \subseteq Families /\ closed \subseteq Families

(* A refresh token that has been exchanged is revoked for good: Refresh     *)
(* revokes it before it issues its successor and stops if that fails.       *)
ExchangedTokensAreSpent ==
  \A t \in Tokens : parent[t] # NoToken => rt[parent[t]] = "revoked"

(* No worker exchanges the same refresh token twice.  With n requests in    *)
(* flight a token is therefore exchanged at most n times, and with one      *)
(* worker exactly once: GetByHash and Revoke are two statements, so only    *)
(* requests that overlap can share a token.                                 *)
OneExchangePerWorker ==
  \A t1, t2 \in Tokens :
    /\ parent[t1] = parent[t2] /\ parent[t1] # NoToken
    /\ mintedBy[t1] = mintedBy[t2]
    => t1 = t2

(* Rotation keeps a family a chain with at most one live token, the last,   *)
(* whatever fails between the steps of a refresh (if no two refreshes of it *)
(* overlap: see OneExchangePerWorker).                                      *)
SingleLiveToken ==
  \A t1, t2 \in Tokens :
    rt[t1] = "live" /\ rt[t2] = "live" /\ famOf[t1] = famOf[t2] => t1 = t2

(* A family that has been opened, holds no live token and is served by no   *)
(* request that could still mint one.                                       *)
Drained(f) ==
  /\ owner[f] # NoUser
  /\ \A t \in RowsOf({f}) : rt[t] # "live"
  /\ \A r \in Requests : req[r].pc \in Minting => req[r].fam # f

(* Once drained, a family stays drained: no login, refresh or fault brings  *)
(* a revoked session back.                                                  *)
NoResurrection == [][\A f \in Families : Drained(f) => Drained(f)']_vars

Ended(f) == \A t \in RowsOf({f}) : ~Usable(t)

(* Once the presentation of a spent token has revoked its family, no row of *)
(* it can be used again (README: reuse of a revoked refresh token revokes   *)
(* the entire family).                                                      *)
ReplayRevokesFamily == \A f \in replayed : Ended(f)

(* Once LogoutAll or ResetPassword has revoked the user's rows, every       *)
(* family that held one has no usable token (auth.go:182, 210).             *)
BulkRevocationHolds == \A f \in closed : Ended(f)

(* Outside a password reset, and unless a fault cut one short, only         *)
(* families opened with the user's current password hold a usable token     *)
(* (auth.go:210).                                                           *)
OldPasswordSessionsEnd ==
  \A f \in Families :
    /\ owner[f] # NoUser
    /\ openedWith[f] \notin {NoPassword, passwd[owner[f]]}
    /\ \A r \in Requests : req[r].user = owner[f] => ~At(r, "revokeAll")
    => Ended(f)

Ledger == INSTANCE RefreshLedger WITH state <- rt, family <- famOf

(* The rows written by requests that interleave freely, fail and die form   *)
(* the ledger of RefreshLedger: a login never lands in a family that has    *)
(* rows, and a refresh adds a successor of a spent token to the family of   *)
(* that token, which it read three statements before (auth.go:151-164,      *)
(* internal.go).                                                            *)
ImplementsRefreshLedger == Ledger!Spec

(* Every row descends, by exchanges, from the one row that the login of its *)
(* session inserted: what replay detection and the bulk revocation take for *)
(* a family is one (auth.go:138, 164).                                      *)
LineageKept == Ledger!Lineage
=============================================================================
