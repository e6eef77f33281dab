---------------------------- MODULE PasswordReset ----------------------------
(***************************************************************************)
(* POST /forgot-password and /reset-password: the mail quota of a          *)
(* recipient, the password_resets table and the mail, for accounts that    *)
(* exist and with email.enabled (without it no quota is consumed and the   *)
(* answer carries the token).  Each call to Redis, Postgres or the mail    *)
(* provider is one step.  The revocation that follows a new password is in *)
(* TokenLifecycle.                                                         *)
(***************************************************************************)
EXTENDS Integers, FiniteSets

CONSTANTS
  Users,
  Passwords,    \* new passwords that pass validation: at most 72 characters
  Hashable,     \* those of at most 72 bytes, which bcrypt accepts
  Tokens,       \* reset tokens good or in use at one time (a bound)
  Requests,     \* workers of the HTTP server
  Limit,        \* email.per_recipient_limit
  Faulty,       \* TRUE: external calls may fail, the process may die
  NoUser, NoToken, NoPassword

ASSUME NullsAssumption ==
  NoUser \notin Users /\ NoToken \notin Tokens /\ NoPassword \notin Passwords
ASSUME HashableAssumption == Hashable \subseteq Passwords
ASSUME LimitAssumption == Limit \in Nat \ {0}    \* config.go:220
ASSUME FaultyAssumption == Faulty \in BOOLEAN
ASSUME RequestsAssumption == IsFiniteSet(Requests)

VARIABLES
  quota,      \* Redis, ratelimit:email:<addr>: the counter, which stops at Limit + 1
  \* Postgres
  passwd,     \* users.password_hash
  tokenFor,   \* password_resets: the user a token was issued for
  spent,      \* tokens with used_at set
  expired,    \* tokens whose expires_at has passed
  \* processes and clients
  mailed,     \* tokens that left in a mail
  req,
  \* history
  sent,       \* mails that left in the quota window of a user
  burnt       \* tokens spent by a request that left the password as it was

tokens == <<tokenFor, spent, expired>>
vars == <<quota, passwd, tokens, mailed, req, sent, burnt>>

Labels == {"idle", "create", "mail", "update"}
Request == [pc : Labels, user : Users \cup {NoUser}, tok : Tokens \cup {NoToken},
            new : Passwords \cup {NoPassword}]
Idle == [pc |-> "idle", user |-> NoUser, tok |-> NoToken, new |-> NoPassword]

Init ==
  /\ quota = [u \in Users |-> 0]
  /\ passwd \in [Users -> Hashable]
  /\ tokenFor = [t \in Tokens |-> NoUser]
  /\ spent = {} /\ expired = {} /\ mailed = {}
  /\ req = [r \in Requests |-> Idle]
  /\ sent = [u \in Users |-> 0]
  /\ burnt = {}

At(r, label) == req[r].pc = label
Finish(r) == req' = [req EXCEPT ![r] = Idle]

-----------------------------------------------------------------------------
\* INCR of the quota: what is over the limit is not told apart.
Hit(u) == quota' = [quota EXCEPT ![u] = IF @ > Limit THEN @ ELSE @ + 1]

\* Allow's answer before the INCR; the mutant's caller ignores it.
AdmittedAlways(u) == TRUE
Admitted(u) == quota[u] < Limit

(* ForgotPassword: GetByEmail and the quota.  A refusal or an error, of     *)
(* either call, is answered 200 as well.                                    *)
ForgotPassword(r, u) ==
  /\ At(r, "idle")
  /\ \/ /\ Admitted(u)
        /\ req' = [req EXCEPT ![r] = [Idle EXCEPT !.pc = "create", !.user = u]]
     \/ (~Admitted(u) \/ Faulty) /\ UNCHANGED req
  /\ Hit(u)
  /\ UNCHANGED <<passwd, tokens, mailed, sent, burnt>>

(* A Register of the address spends the same quota before the unique index  *)
(* refuses it.                                                              *)
RegisterTaken(u) ==
  /\ Hit(u)
  /\ UNCHANGED <<passwd, tokens, mailed, req, sent, burnt>>

\* A token whose slot token.Random can fill again (the bound).
Fresh(t) ==
  /\ tokenFor[t] = NoUser \/ t \in spent \cup expired
  /\ \A r \in Requests : req[r].tok # t

\* password_resets puts no constraint on user_id; the mutant makes it unique.
StorableOnce(u) == \A t \in Tokens : tokenFor[t] # u
Storable(u) == TRUE

\* issueOneTime's Create of a fresh token.
Stored(r, t) ==
  /\ Storable(req[r].user) /\ Fresh(t)
  /\ tokenFor' = [tokenFor EXCEPT ![t] = req[r].user]
  /\ spent' = spent \ {t}
  /\ expired' = expired \ {t}
  /\ mailed' = mailed \ {t}
  /\ burnt' = burnt \ {t}

CreateReset(r) ==
  /\ At(r, "create")
  /\ \E t \in Tokens :
       /\ Stored(r, t)
       /\ req' = [req EXCEPT ![r] = [@ EXCEPT !.pc = "mail", !.tok = t]]
  /\ UNCHANGED <<quota, passwd, sent>>

\* Out of tokens (the bound) or on an error the answer is 200 as well.
CreateResetFails(r) ==
  /\ At(r, "create")
  /\ \/ \A t \in Tokens : ~(Storable(req[r].user) /\ Fresh(t))
     \/ Faulty
  /\ \/ Faulty /\ \E t \in Tokens : Stored(r, t)
     \/ UNCHANGED <<tokens, mailed, burnt>>
  /\ Finish(r)
  /\ UNCHANGED <<quota, passwd, sent>>

\* ForgotPassword: sendActionEmail, its error dropped, and the answer.
SendMail(r) ==
  LET u == req[r].user IN
  /\ At(r, "mail")
  /\ mailed' = mailed \cup {req[r].tok}
  /\ sent' = [sent EXCEPT ![u] = @ + 1]
  /\ Finish(r)
  /\ UNCHANGED <<quota, passwd, tokens, burnt>>

SendMailFails(r) ==
  /\ Faulty /\ At(r, "mail")
  /\ Finish(r)
  /\ UNCHANGED <<quota, passwd, tokens, mailed, sent, burnt>>

-----------------------------------------------------------------------------
\* The WHERE clause of Consume; the mutant forgets "used_at IS NULL".
ConsumableAgain(t) == tokenFor[t] # NoUser /\ t \notin expired
Consumable(t) == tokenFor[t] # NoUser /\ t \notin spent \cup expired

(* ResetPassword: Consume, one UPDATE ... RETURNING.  If its answer is lost *)
(* the token is spent and the request fails.                                *)
ResetPassword(r, t, pw) ==
  /\ At(r, "idle")
  /\ t \in mailed /\ Consumable(t)
  /\ spent' = spent \cup {t}
  /\ \/ /\ req' = [req EXCEPT ![r] = [pc |-> "update", user |-> tokenFor[t],
                                        tok |-> t, new |-> pw]]
        /\ UNCHANGED burnt
     \/ Faulty /\ UNCHANGED req /\ burnt' = burnt \cup {t}
  /\ UNCHANGED <<quota, passwd, tokenFor, expired, mailed, sent>>

\* What password.Hash accepts; the mutant's caller drops the error.
HashErrorDropped(pw) == TRUE
Hashed(pw) == pw \in Hashable

\* ResetPassword: password.Hash and UpdatePassword.
UpdatePassword(r) ==
  LET q == req[r] IN
  /\ At(r, "update")
  /\ \/ /\ Hashed(q.new)
        /\ passwd' = [passwd EXCEPT ![q.user] = q.new]
        /\ UNCHANGED burnt
     \/ /\ ~Hashed(q.new) \/ Faulty
        /\ burnt' = burnt \cup {q.tok}
        /\ UNCHANGED passwd
  /\ Finish(r)
  /\ UNCHANGED <<quota, tokens, mailed, sent>>

-----------------------------------------------------------------------------
\* The key's EXPIRE, set by the first INCR.
QuotaWindowEnds(u) ==
  /\ quota[u] > 0
  /\ quota' = [quota EXCEPT ![u] = 0]
  /\ sent' = [sent EXCEPT ![u] = 0]
  /\ UNCHANGED <<passwd, tokens, mailed, req, burnt>>

(* expires_at is an hour away, longer than the deadline of the request that *)
(* mails the token.                                                         *)
ResetExpires(t) ==
  /\ tokenFor[t] # NoUser /\ t \notin expired
  /\ \A r \in Requests : At(r, "mail") => req[r].tok # t
  /\ expired' = expired \cup {t}
  /\ UNCHANGED <<quota, passwd, tokenFor, spent, mailed, req, sent, burnt>>

\* The process is killed and restarted: every request in flight is lost.
Crash ==
  /\ Faulty
  /\ \E r \in Requests : ~At(r, "idle")
  /\ burnt' = burnt \cup {req[r].tok : r \in {q \in Requests : At(q, "update")}}
  /\ req' = [r \in Requests |-> Idle]
  /\ UNCHANGED <<quota, passwd, tokens, mailed, sent>>

Step(r) ==
  \/ CreateReset(r) \/ CreateResetFails(r) \/ SendMail(r) \/ SendMailFails(r)
  \/ UpdatePassword(r)

Next ==
  \/ \E r \in Requests :
       \/ \E u \in Users : ForgotPassword(r, u)
       \/ \E t \in Tokens, pw \in Passwords : ResetPassword(r, t, pw)
       \/ Step(r)
  \/ \E u \in Users : RegisterTaken(u) \/ QuotaWindowEnds(u)
  \/ \E t \in Tokens : ResetExpires(t)
  \/ Crash

Spec == Init /\ [][Next]_vars

(* net/http serves every request to its end; Redis ends the window and time *)
(* passes for the tokens.                                                   *)
ServerFairness ==
  /\ \A r \in Requests : WF_vars(Step(r))
  /\ \A u \in Users : WF_vars(QuotaWindowEnds(u))
  /\ \A t \in Tokens : WF_vars(ResetExpires(t))

(* What the user has to bring: he asks again and again, and among the calls *)
(* made for him not all fail.                                               *)
UserPersists(u) ==
  /\ SF_vars(\E r \in Requests : ForgotPassword(r, u) /\ req' # req)
  /\ SF_vars(\E r \in Requests : req[r].user = u /\ CreateReset(r))
  /\ SF_vars(\E r \in Requests : req[r].user = u /\ SendMail(r))

FairSpec == Spec /\ ServerFairness /\ \A u \in Users : UserPersists(u)

-----------------------------------------------------------------------------
\* Every variable has its type, and a request in flight has what it works on.
TypeOK ==
  /\ quota \in [Users -> 0..(Limit + 1)]
  /\ passwd \in [Users -> Hashable]
  /\ tokenFor \in [Tokens -> Users \cup {NoUser}]
  /\ spent \subseteq Tokens /\ expired \subseteq Tokens /\ mailed \subseteq Tokens
  /\ req \in [Requests -> Request]
  /\ \A r \in Requests :
       /\ ~At(r, "idle") => req[r].user \in Users
       /\ req[r].pc \in {"mail", "update"} => req[r].tok \in Tokens
       /\ At(r, "update") => req[r].new \in Passwords
  /\ sent \in [Users -> Nat]
  /\ burnt \subseteq spent

\* The stage of a reset token, as OneTimeToken counts it.
Claimed(t) == \E r \in Requests : At(r, "update") /\ req[r].tok = t

stage == [t \in Tokens |->
  IF Claimed(t) THEN "claimed"
  ELSE IF ~Consumable(t) THEN "void"
  ELSE IF t \in mailed THEN "live" ELSE "sealed"]

OneTime == INSTANCE OneTimeToken WITH
  Owners <- Users, NoOwner <- NoUser, Initial <- Hashable, Written <- Hashable,
  owner <- tokenFor, value <- passwd

(* A reset token sets a password once, after it was mailed, and only that   *)
(* of the account it was issued for, whatever fails or is answered too late *)
(* (onetime.go:46-58, auth.go:210-225).                                     *)
ImplementsOneTimeToken == OneTime!Spec

(* "Limite anti-abuso: até AUTH_EMAIL_PER_RECIPIENT_LIMIT (default 5)       *)
(* e-mails por destinatário a cada AUTH_EMAIL_PER_RECIPIENT_WINDOW"         *)
(* (README.md:201): at most Limit mails leave in one window of the quota.   *)
MailsWithinLimit == \A u \in Users : sent[u] <= Limit

(* What the code keeps instead: Limit mails, and one for every request that *)
(* was admitted before the window began, since the mail leaves long after   *)
(* the counter was looked at (auth.go:198-205).                             *)
Asking(u) == {r \in Requests : req[r].pc \in {"create", "mail"} /\ req[r].user = u}

MailsBounded ==
  \A u \in Users :
    sent[u] + Cardinality(Asking(u))
      <= Cardinality(Requests) + (IF quota[u] < Limit THEN quota[u] ELSE Limit)

(* A user who goes on asking holds a good reset token again and again,      *)
(* however many were burnt by failed resets (auth.go:215-225), lost with    *)
(* their mail or refused by a quota that others spend as well.              *)
ResetStaysPossible ==
  \A u \in Users : []<>(\E t \in Tokens : stage[t] = "live" /\ tokenFor[t] = u)

(* A reset that no fault disturbs spends its token only to set the new      *)
(* password: a password of 8 to 72 characters is accepted                   *)
(* (docs/openapi.yaml:285).                                                 *)
SpentTokensSetThePassword == ~Faulty => burnt = {}
=============================================================================
