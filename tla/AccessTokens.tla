---------------------------- MODULE AccessTokens ----------------------------
(***************************************************************************)
(* How long an access token is honoured: IssueAccess and ParseAccess of    *)
(* internal/infrastructure/jwt, the blacklist that Logout writes and       *)
(* Authenticate reads, and the permission that RequirePermission finds in  *)
(* the token and not in the database.                                      *)
(*                                                                         *)
(* One user and one permission: tokens of different users do not meet, and *)
(* permissions are tested one at a time.  Instants are counted in ticks of *)
(* which Second make a second, the precision of a JWT's exp, and kept as   *)
(* the time that is left until them.  Every call is made under the         *)
(* deadline of the Timeout middleware; after it, calls fail.               *)
(***************************************************************************)
EXTENDS Naturals

CONSTANTS
  Tokens,       \* access tokens (jti) that uuid.New can still draw (a bound)
  Requests,     \* workers of the HTTP server
  AccessTTL,    \* jwt.access_ttl, in ticks
  Deadline,     \* ticks after which no call of a request succeeds: http.read_timeout,
                \* and the timeouts of the Redis call that was under way then
  Second,       \* ticks in a second
  Faulty,       \* TRUE: calls to Redis and Postgres may fail, the process may die
  NoToken

ASSUME SecondAssumption == Second \in Nat \ {0}
ASSUME AccessTTLAssumption == AccessTTL \in Nat /\ AccessTTL >= Second
ASSUME DeadlineAssumption == Deadline \in Nat \ {0}
ASSUME FaultyAssumption == Faulty \in BOOLEAN
ASSUME NoTokenAssumption == NoToken \notin Tokens

VARIABLES
  phase,      \* ticks of the current second that have passed
  granted,    \* the user has the permission (role_permissions)
  issued,     \* tokens that have been signed
  left,       \* ticks until the exp of a token
  carries,    \* tokens whose claims list the permission
  black,      \* time to live of blacklist:<jti>, 0 if absent
  req,        \* what each worker is doing
  out,        \* tokens whose logout reached the blacklist (history)
  since       \* ticks since the user had the permission, up to Horizon (history)

tokens == <<issued, left, carries>>
vars == <<phase, granted, tokens, black, req, out, since>>

Serving == {"me", "logout"}       \* past Authenticate
Labels == {"idle", "sign", "exists", "add"} \cup Serving
Routes == {"me", "logout"}

Request == [pc : Labels, tok : Tokens \cup {NoToken}, route : Routes,
            perm : BOOLEAN,             \* permission read by GetAuthProfile
            age : 0 .. Deadline,        \* ticks since the request was accepted
            ttl : 0 .. AccessTTL,       \* time.Until(exp)
            late : BOOLEAN]             \* arrived after the logout (history)

Idle == [pc |-> "idle", tok |-> NoToken, route |-> "me", perm |-> FALSE,
         age |-> 0, ttl |-> 0, late |-> FALSE]

(* From reading the permission to serving a request with it: the ticks      *)
(* before one request's deadline, before the token's exp, and before the    *)
(* other request's deadline, which end before their last.                   *)
Horizon == (Deadline - 1) + AccessTTL + (Deadline - 1)

Init ==
  /\ phase \in 0 .. Second - 1
  /\ granted \in BOOLEAN
  /\ issued = {} /\ carries = {} /\ out = {}
  /\ left = [t \in Tokens |-> 0]
  /\ black = [t \in Tokens |-> 0]
  /\ req = [r \in Requests |-> Idle]
  /\ since = IF granted THEN 0 ELSE Horizon

At(r, label) == req[r].pc = label
InTime(r) == req[r].age < Deadline
Goto(r, label) == req' = [req EXCEPT ![r].pc = label]
Finish(r) == req' = [req EXCEPT ![r] = Idle]

-----------------------------------------------------------------------------
\* Mutant: the permissions of an earlier token are kept, as the session blob has them.
IssueTokensFromSession(r) ==
  /\ At(r, "idle")
  /\ \E p \in {granted, carries # {}} :
       req' = [req EXCEPT ![r] = [Idle EXCEPT !.pc = "sign", !.perm = p]]
  /\ UNCHANGED <<phase, granted, tokens, black, out, since>>

\* issueTokens, of a Login or a Refresh: GetAuthProfile.
IssueTokens(r) ==
  /\ At(r, "idle")
  /\ req' = [req EXCEPT ![r] = [Idle EXCEPT !.pc = "sign", !.perm = granted]]
  /\ UNCHANGED <<phase, granted, tokens, black, out, since>>

\* NewNumericDate drops the fraction of the second in which the token will expire.
UntilExp == AccessTTL - ((phase + AccessTTL) % Second)

(* issueTokens: IssueAccess, and refresh.Save, without which the token is   *)
(* dropped.  The response may be lost; nobody then presents the token.      *)
Sign(r) ==
  /\ At(r, "sign")
  /\ Finish(r)
  /\ \/ /\ InTime(r)
        /\ \E t \in Tokens \ issued :
             /\ issued' = issued \cup {t}
             /\ left' = [left EXCEPT ![t] = UntilExp]
             /\ carries' = IF req[r].perm THEN carries \cup {t} ELSE carries
     \/ /\ Faulty \/ ~InTime(r) \/ issued = Tokens
        /\ UNCHANGED tokens
  /\ UNCHANGED <<phase, granted, black, out, since>>

-----------------------------------------------------------------------------
\* Authenticate: ParseAccess checks the exp ...
Authenticate(r, t, route) ==
  /\ At(r, "idle")
  /\ t \in issued /\ left[t] > 0
  /\ req' = [req EXCEPT ![r] = [Idle EXCEPT !.pc = "exists", !.tok = t, !.route = route,
                                  !.late = t \in out]]
  /\ UNCHANGED <<phase, granted, tokens, black, out, since>>

(* ... and then the blacklist, whose error refuses the token.  /me also     *)
(* wants the permission among the claims.                                   *)
Blacklisted(r) ==
  /\ At(r, "exists")
  /\ \/ /\ InTime(r) /\ black[req[r].tok] = 0
        /\ req[r].route = "me" => req[r].tok \in carries
        /\ Goto(r, req[r].route)
     \/ /\ \/ Faulty \/ ~InTime(r) \/ black[req[r].tok] > 0
           \/ req[r].route = "me" /\ req[r].tok \notin carries
        /\ Finish(r)
  /\ UNCHANGED <<phase, granted, tokens, black, out, since>>

\* Me: GetProfile, which fails after the deadline, and the answer.
Me(r) ==
  /\ At(r, "me")
  /\ Finish(r)
  /\ UNCHANGED <<phase, granted, tokens, black, out, since>>

\* Mutant: a time to live in whole seconds.
UntilWholeSeconds(r) ==
  /\ At(r, "logout")
  /\ req' = [req EXCEPT ![r] = [@ EXCEPT !.pc = "add",
                                  !.ttl = left[req[r].tok] - (left[req[r].tok] % Second)]]
  /\ UNCHANGED <<phase, granted, tokens, black, out, since>>

\* Mutant: the entry lives as long as a new token.
UntilFull(r) ==
  /\ At(r, "logout")
  /\ req' = [req EXCEPT ![r] = [@ EXCEPT !.pc = "add", !.ttl = AccessTTL]]
  /\ UNCHANGED <<phase, granted, tokens, black, out, since>>

\* Mutant: "ttl > 0" is not asked.
UntilUnchecked(r) ==
  /\ At(r, "logout")
  /\ req' = [req EXCEPT ![r] = [@ EXCEPT !.pc = "add", !.ttl = left[req[r].tok]]]
  /\ UNCHANGED <<phase, granted, tokens, black, out, since>>

\* Logout: time.Until(exp); nothing is blacklisted once the token has expired.
Until(r) ==
  LET ttl == left[req[r].tok] IN
  /\ At(r, "logout")
  /\ \/ ttl > 0 /\ req' = [req EXCEPT ![r] = [@ EXCEPT !.pc = "add", !.ttl = ttl]]
     \/ ttl = 0 /\ Finish(r)
  /\ UNCHANGED <<phase, granted, tokens, black, out, since>>

(* Logout: the SET reaches Redis some time after its time to live was       *)
(* computed; its error is dropped.  What Logout does next is in             *)
(* TokenLifecycle.                                                          *)
Add(r) ==
  LET t == req[r].tok IN
  /\ At(r, "add")
  /\ \/ InTime(r) /\ black' = [black EXCEPT ![t] = req[r].ttl] /\ out' = out \cup {t}
     \/ (Faulty \/ ~InTime(r)) /\ UNCHANGED <<black, out>>
  /\ Finish(r)
  /\ UNCHANGED <<phase, granted, tokens, since>>

-----------------------------------------------------------------------------
\* An operator changes the user's roles, or what a role permits.
SetPermission ==
  /\ granted' = ~granted
  /\ since' = 0
  /\ UNCHANGED <<phase, tokens, black, req, out>>

LessOne(n) == IF n > 0 THEN n - 1 ELSE 0
OneMore(n, max) == IF n < max THEN n + 1 ELSE max

Tick ==
  /\ phase' = (phase + 1) % Second
  /\ left' = [t \in Tokens |-> LessOne(left[t])]
  /\ black' = [t \in Tokens |-> LessOne(black[t])]
  /\ req' = [r \in Requests |-> IF At(r, "idle") THEN req[r]
                                ELSE [req[r] EXCEPT !.age = OneMore(@, Deadline)]]
  /\ since' = IF granted THEN 0 ELSE OneMore(since, Horizon)
  /\ UNCHANGED <<granted, issued, carries, out>>

Crash ==
  /\ Faulty
  /\ \E r \in Requests : ~At(r, "idle")
  /\ req' = [r \in Requests |-> Idle]
  /\ UNCHANGED <<phase, granted, tokens, black, out, since>>

Step(r) == Sign(r) \/ Blacklisted(r) \/ Me(r) \/ Until(r) \/ Add(r)

Next ==
  \/ \E r \in Requests :
       \/ IssueTokens(r)
       \/ \E t \in Tokens, route \in Routes : Authenticate(r, t, route)
       \/ Step(r)
  \/ SetPermission
  \/ Tick
  \/ Crash

Spec == Init /\ [][Next]_vars

-----------------------------------------------------------------------------
(* Every variable has its type, and a SET for the blacklist has a time to   *)
(* live: with none the entry would stay for ever (auth.go:171).             *)
TypeOK ==
  /\ phase \in 0 .. Second - 1
  /\ granted \in BOOLEAN
  /\ issued \subseteq Tokens /\ carries \subseteq issued /\ out \subseteq issued
  /\ left \in [Tokens -> 0 .. AccessTTL]
  /\ black \in [Tokens -> 0 .. AccessTTL]
  /\ req \in [Requests -> Request]
  /\ \A r \in Requests :
       /\ req[r].pc \in {"exists", "add"} \cup Serving => req[r].tok \in issued
       /\ At(r, "add") => req[r].ttl > 0
  /\ since \in 0 .. Horizon

(* The blacklist entry of a token that was logged out outlives the token,   *)
(* also when two logouts of it overlap, and by less than the time a request *)
(* may take ("TTL matches remaining access token lifetime", stores.go:96).  *)
BlacklistMatches ==
  \A t \in Tokens :
    /\ t \in out => black[t] >= left[t]
    /\ black[t] < left[t] + Deadline \/ black[t] = 0

(* A request that presents a token after its logout passes Authenticate     *)
(* only if the token has expired since its exp was checked, when the        *)
(* blacklist has forgotten it too: exp and blacklist are looked at one      *)
(* after the other (auth.go:251-261).                                       *)
LoggedOutRefused ==
  [][\A r \in Requests :
       At(r, "exists") /\ req[r].late /\ req'[r].pc \in Serving => left[req[r].tok] = 0]_vars

(* A permission that was withdrawn is not served any more once a token's    *)
(* life and the deadlines of the request that read it and of the request    *)
(* that uses it have passed, whatever is refreshed in the meantime          *)
(* (internal.go:88, rbac.go:20).                                            *)
StalePermissionsEnd == \A r \in Requests : At(r, "me") /\ InTime(r) => since < Horizon
=============================================================================
