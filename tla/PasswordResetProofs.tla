------------------------- MODULE PasswordResetProofs -------------------------
(***************************************************************************)
(* Proofs about PasswordReset, for any number of users, passwords, tokens  *)
(* and workers and any limit of the mail quota, with or without faults.    *)
(***************************************************************************)
EXTENDS PasswordReset, FiniteSetTheorems, TLAPS

-----------------------------------------------------------------------------
\* The inductive invariant.

\* A request that updates a password has consumed a token of that user, and no
\* other request has consumed it.
ClaimsHold ==
  \A r \in Requests : At(r, "update") =>
    /\ req[r].tok \in spent
    /\ tokenFor[req[r].tok] = req[r].user
    /\ \A q \in Requests : At(q, "update") /\ req[q].tok = req[r].tok => q = r

IInv == TypeOK /\ ClaimsHold

-----------------------------------------------------------------------------
\* What the helpers do to the requests.

\* A finished request is idle.
LEMMA FinishTyped ==
  ASSUME req \in [Requests -> Request], NEW r \in Requests, Finish(r)
  PROVE  /\ req' \in [Requests -> Request]
         /\ req'[r].pc = "idle" /\ \A q \in Requests : q # r => req'[q] = req[q]
BY DEF Finish, Request, Idle, Labels

\* The counter stays within its range, and grows until it has passed the limit.
LEMMA HitTyped ==
  ASSUME TypeOK, NEW u \in Users, Hit(u)
  PROVE  /\ quota' \in [Users -> 0..(Limit + 1)]
         /\ quota'[u] = IF quota[u] > Limit THEN quota[u] ELSE quota[u] + 1
         /\ \A v \in Users : v # u => quota'[v] = quota[v]
<1>1. quota \in [Users -> 0..(Limit + 1)] /\ quota[u] \in 0..(Limit + 1) /\ Limit \in Nat
  BY LimitAssumption DEF TypeOK
<1>2. (IF quota[u] > Limit THEN quota[u] ELSE quota[u] + 1) \in 0..(Limit + 1)
  BY <1>1
<1> QED BY <1>1, <1>2 DEF Hit

\* A token that can be stored anew is void and belongs to no request.
LEMMA FreshFacts ==
  ASSUME NEW t \in Tokens, Fresh(t)
  PROVE  stage[t] = "void" /\ \A r \in Requests : req[r].tok # t
BY DEF Fresh, stage, Claimed, Consumable

\* Moving on with a token, and nothing else of the request changes.
LEMMA MailTyped ==
  ASSUME req \in [Requests -> Request], NEW r \in Requests, NEW t \in Tokens,
         req' = [req EXCEPT ![r] = [@ EXCEPT !.pc = "mail", !.tok = t]]
  PROVE  /\ req' \in [Requests -> Request]
         /\ req'[r].pc = "mail" /\ req'[r].tok = t /\ req'[r].user = req[r].user
         /\ \A q \in Requests : q # r => req'[q] = req[q]
<1> DEFINE q1 == [req[r] EXCEPT !.pc = "mail", !.tok = t]
<1>1. q1 \in Request /\ q1.pc = "mail" /\ q1.tok = t /\ q1.user = req[r].user
  BY DEF Request, Labels
<1>2. req' = [req EXCEPT ![r] = q1]
  OBVIOUS
<1> HIDE DEF q1
<1> QED BY <1>1, <1>2

-----------------------------------------------------------------------------
\* The invariant and the stages of the tokens, step by step.

LEMMA InvInit == Init => IInv
BY LimitAssumption DEF Init, IInv, TypeOK, ClaimsHold, At, Request, Idle, Labels

\* A step that leaves tokens, claims and passwords as they were is a stutter.
LEMMA Stutter ==
  ASSUME UNCHANGED <<tokenFor, spent, expired, mailed, passwd>>,
         \A t \in Tokens : Claimed(t)' <=> Claimed(t)
  PROVE  UNCHANGED OneTime!vars
<1>1. \A t \in Tokens : Consumable(t)' <=> Consumable(t)
  BY DEF Consumable
<1>2. stage' = stage
  BY <1>1 DEF stage
<1> QED BY <1>2 DEF OneTime!vars

\* Requests that end give their claims up; the tokens they held become void.
LEMMA GiveUp ==
  ASSUME IInv, NEW R \in SUBSET Requests,
         \A q \in Requests : IF q \in R THEN req'[q].pc = "idle" ELSE req'[q] = req[q],
         UNCHANGED <<tokenFor, spent, expired, mailed, passwd>>
  PROVE  ClaimsHold' /\ [OneTime!Next]_(OneTime!vars)
<1> DEFINE S == {t \in Tokens : \E r \in R : At(r, "update") /\ req[r].tok = t}
<1>1. ClaimsHold'
  BY DEF IInv, ClaimsHold, At
<1>2. \A t \in Tokens : Consumable(t)' <=> Consumable(t)
  BY DEF Consumable
<1>3. \A t \in Tokens : Claimed(t)' <=> Claimed(t) /\ t \notin S
  BY DEF Claimed, At, IInv, ClaimsHold
<1>4. \A t \in S : Claimed(t) /\ ~Consumable(t)
  BY DEF Claimed, Consumable, IInv, ClaimsHold
<1>5. stage' = [t \in Tokens |-> IF t \in S THEN "void" ELSE stage[t]]
  BY <1>2, <1>3, <1>4 DEF stage
<1>6. OneTime!Void(S)
  BY <1>5 DEF OneTime!Void
<1> QED BY <1>1, <1>6 DEF OneTime!Next

\* The quota: an admitted request begins, and nothing else happens.
LEMMA InvQuota ==
  ASSUME IInv,
         \E u \in Users :
           \/ \E r \in Requests : ForgotPassword(r, u)
           \/ RegisterTaken(u) \/ QuotaWindowEnds(u)
  PROVE  IInv' /\ [OneTime!Next]_(OneTime!vars)
<1> USE DEF IInv
<1>1. PICK u \in Users :
        \/ \E r \in Requests : ForgotPassword(r, u)
        \/ RegisterTaken(u) \/ QuotaWindowEnds(u)
  OBVIOUS
<1>2. UNCHANGED <<passwd, tokenFor, spent, expired, mailed, burnt>>
  BY <1>1 DEF ForgotPassword, RegisterTaken, QuotaWindowEnds, tokens
<1>3. quota' \in [Users -> 0..(Limit + 1)] /\ sent' \in [Users -> Nat]
  <2>1. CASE Hit(u) /\ UNCHANGED sent
    BY <2>1, HitTyped DEF TypeOK
  <2>2. CASE QuotaWindowEnds(u)
    BY <2>2, LimitAssumption DEF QuotaWindowEnds, TypeOK
  <2> QED BY <1>1, <2>1, <2>2 DEF ForgotPassword, RegisterTaken
<1>4. CASE UNCHANGED req
  <2>1. TypeOK' /\ ClaimsHold'
    BY <1>2, <1>3, <1>4 DEF TypeOK, ClaimsHold, At
  <2>2. \A t \in Tokens : Claimed(t)' <=> Claimed(t)
    BY <1>4 DEF Claimed, At
  <2> QED BY <1>2, <2>1, <2>2, Stutter
<1>5. ASSUME NEW r \in Requests, At(r, "idle"),
             req' = [req EXCEPT ![r] = [Idle EXCEPT !.pc = "create", !.user = u]]
      PROVE  IInv' /\ [OneTime!Next]_(OneTime!vars)
  <2>1. /\ req' \in [Requests -> Request]
        /\ req'[r].pc = "create" /\ req'[r].user = u
        /\ \A q \in Requests : q # r => req'[q] = req[q]
    BY <1>5 DEF TypeOK, Request, Idle, Labels
  <2>2. TypeOK' /\ ClaimsHold'
    BY <1>2, <1>3, <2>1 DEF TypeOK, ClaimsHold, At
  <2>3. \A t \in Tokens : Claimed(t)' <=> Claimed(t)
    BY <1>5, <2>1 DEF Claimed, At
  <2> QED BY <1>2, <2>2, <2>3, Stutter
<1> QED BY <1>1, <1>4, <1>5 DEF ForgotPassword, RegisterTaken, QuotaWindowEnds

\* A stored token is sealed: it was void before, and nobody had it.
LEMMA InvStored ==
  ASSUME IInv, NEW r \in Requests, NEW t \in Tokens, At(r, "create"), Stored(r, t),
         UNCHANGED <<quota, passwd, sent>>,
         \/ req' = [req EXCEPT ![r] = [@ EXCEPT !.pc = "mail", !.tok = t]]
         \/ Finish(r)
  PROVE  IInv' /\ [OneTime!Next]_(OneTime!vars)
<1> USE DEF IInv
<1>1. /\ req[r].user \in Users /\ tokenFor'[t] = req[r].user
      /\ tokenFor' \in [Tokens -> Users \cup {NoUser}]
      /\ \A s \in Tokens : s # t => tokenFor'[s] = tokenFor[s]
      /\ spent' = spent \ {t} /\ expired' = expired \ {t}
      /\ mailed' = mailed \ {t} /\ burnt' = burnt \ {t}
  BY DEF Stored, TypeOK, At
<1>2. stage[t] = "void" /\ \A q \in Requests : req[q].tok # t
  BY FreshFacts DEF Stored
<1>3. /\ req' \in [Requests -> Request] /\ req'[r].pc \in {"idle", "mail"}
      /\ req'[r].pc = "mail" => req'[r].tok = t /\ req'[r].user = req[r].user
      /\ \A q \in Requests : q # r => req'[q] = req[q]
  BY MailTyped, FinishTyped DEF TypeOK
<1>4. TypeOK'
  BY <1>1, <1>3 DEF TypeOK, At
<1>5. ClaimsHold'
  <2>1. \A q \in Requests : At(q, "update")' => At(q, "update") /\ req'[q] = req[q]
    BY <1>3 DEF At
  <2>2. \A q \in Requests : At(q, "update") => req[q].tok \in Tokens \ {t}
    BY <1>2 DEF TypeOK, At
  <2> QED BY <1>1, <2>1, <2>2 DEF ClaimsHold, At
<1>6. \A s \in Tokens : Claimed(s)' <=> Claimed(s)
  BY <1>3 DEF Claimed, At
<1>7. /\ Consumable(t)' /\ ~Claimed(t)
      /\ \A s \in Tokens : s # t => (Consumable(s)' <=> Consumable(s))
  BY <1>1, <1>2, NullsAssumption DEF Consumable, Claimed
<1>8. stage' = [stage EXCEPT ![t] = "sealed"]
  BY <1>1, <1>6, <1>7 DEF stage
<1>9. OneTime!Issue(t, req[r].user)
  BY <1>2, <1>8 DEF OneTime!Issue, Stored
<1> QED BY <1>1, <1>4, <1>5, <1>9 DEF OneTime!Next

\* ForgotPassword past the quota.
LEMMA InvForgot ==
  ASSUME IInv, NEW r \in Requests,
         CreateReset(r) \/ CreateResetFails(r) \/ SendMail(r) \/ SendMailFails(r)
  PROVE  IInv' /\ [OneTime!Next]_(OneTime!vars)
<1> USE DEF IInv
<1>1. CASE CreateReset(r)
  BY <1>1, InvStored DEF CreateReset
<1>2. ASSUME Finish(r), At(r, "create") \/ At(r, "mail"),
             UNCHANGED <<quota, passwd, tokenFor, spent, expired, mailed, sent, burnt>>
      PROVE  IInv' /\ [OneTime!Next]_(OneTime!vars)
  <2>1. /\ req' \in [Requests -> Request] /\ req'[r].pc = "idle"
        /\ \A q \in Requests : q # r => req'[q] = req[q]
    BY <1>2, FinishTyped DEF TypeOK
  <2>2. TypeOK'
    BY <1>2, <2>1 DEF TypeOK, At
  <2> QED BY <1>2, <2>1, <2>2, GiveUp, {r} \in SUBSET Requests
<1>3. CASE CreateResetFails(r)
  <2>1. CASE \E t \in Tokens : Stored(r, t)
    BY <1>3, <2>1, InvStored DEF CreateResetFails
  <2>2. CASE UNCHANGED <<tokens, mailed, burnt>>
    BY <1>2, <1>3, <2>2 DEF CreateResetFails, tokens
  <2> QED BY <1>3, <2>1, <2>2 DEF CreateResetFails
<1>4. CASE SendMailFails(r)
  BY <1>2, <1>4 DEF SendMailFails, tokens
<1>5. CASE SendMail(r)
  <2>0. PICK t \in Tokens : t = req[r].tok
    BY <1>5 DEF SendMail, At, TypeOK
  <2>1. /\ UNCHANGED <<quota, passwd, tokenFor, spent, expired, burnt>>
        /\ mailed' = mailed \cup {t} /\ req[r].pc = "mail" /\ sent' \in [Users -> Nat]
    BY <1>5, <2>0 DEF SendMail, tokens, TypeOK, At
  <2>2. /\ req' \in [Requests -> Request] /\ req'[r].pc = "idle"
        /\ \A q \in Requests : q # r => req'[q] = req[q]
    BY <1>5, FinishTyped DEF SendMail, TypeOK
  <2>3. TypeOK' /\ ClaimsHold'
    BY <2>1, <2>2 DEF TypeOK, ClaimsHold, At
  <2>4. \A s \in Tokens : (Claimed(s)' <=> Claimed(s)) /\ (Consumable(s)' <=> Consumable(s))
    BY <2>1, <2>2 DEF Claimed, Consumable, At
  <2>5. CASE stage[t] = "sealed"
    <3>1. stage' = [stage EXCEPT ![t] = "live"]
      BY <2>1, <2>4, <2>5 DEF stage
    <3>2. OneTime!Deliver(t)
      BY <2>1, <2>5, <3>1 DEF OneTime!Deliver
    <3> QED BY <2>3, <3>2 DEF OneTime!Next
  <2>6. CASE stage[t] # "sealed"
    <3>1. stage' = stage
      BY <2>1, <2>4, <2>6 DEF stage
    <3> QED BY <2>1, <2>3, <3>1 DEF OneTime!vars
  <2> QED BY <2>5, <2>6
<1> QED BY <1>1, <1>3, <1>4, <1>5

\* Consume claims the token for one request, or its answer is lost.
LEMMA InvConsume ==
  ASSUME IInv, NEW r \in Requests, NEW t \in Tokens, NEW pw \in Passwords,
         ResetPassword(r, t, pw)
  PROVE  IInv' /\ [OneTime!Next]_(OneTime!vars)
<1> USE DEF IInv
<1>1. /\ req[r].pc = "idle" /\ t \in mailed /\ t \notin spent \cup expired
      /\ tokenFor[t] \in Users /\ spent' = spent \cup {t}
      /\ UNCHANGED <<quota, passwd, tokenFor, expired, mailed, sent>>
  BY DEF ResetPassword, Consumable, TypeOK, At
<1>2. ~Claimed(t) /\ Consumable(t) /\ stage[t] = "live"
  BY <1>1, NullsAssumption DEF Claimed, ClaimsHold, Consumable, stage
<1>3. ~Consumable(t)' /\ \A s \in Tokens : s # t => (Consumable(s)' <=> Consumable(s))
  BY <1>1 DEF Consumable
<1>4. CASE /\ req' = [req EXCEPT ![r] = [pc |-> "update", user |-> tokenFor[t],
                                           tok |-> t, new |-> pw]]
           /\ UNCHANGED burnt
  <2>1. /\ req' \in [Requests -> Request]
        /\ req'[r].pc = "update" /\ req'[r].tok = t
        /\ req'[r].user = tokenFor[t] /\ req'[r].new = pw
        /\ \A q \in Requests : q # r => req'[q] = req[q]
    BY <1>1, <1>4 DEF TypeOK, Request, Labels
  <2>2. TypeOK'
    BY <1>1, <1>4, <2>1 DEF TypeOK, At
  <2>3. ClaimsHold'
    BY <1>1, <2>1 DEF ClaimsHold, At
  <2>4. Claimed(t)' /\ \A s \in Tokens : s # t => (Claimed(s)' <=> Claimed(s))
    BY <1>1, <2>1 DEF Claimed, At
  <2>5. stage' = [stage EXCEPT ![t] = "claimed"]
    BY <1>1, <1>3, <2>4 DEF stage
  <2>6. OneTime!Claim(t)
    BY <1>1, <1>2, <2>5 DEF OneTime!Claim
  <2> QED BY <2>2, <2>3, <2>6 DEF OneTime!Next
<1>5. CASE UNCHANGED req /\ burnt' = burnt \cup {t}
  <2>1. TypeOK' /\ ClaimsHold'
    BY <1>1, <1>5 DEF TypeOK, ClaimsHold, At
  <2>2. \A s \in Tokens : Claimed(s)' <=> Claimed(s)
    BY <1>5 DEF Claimed, At
  <2>3. stage' = [s \in Tokens |-> IF s \in {t} THEN "void" ELSE stage[s]]
    BY <1>1, <1>2, <1>3, <2>2 DEF stage
  <2>4. OneTime!Void({t})
    BY <1>1, <2>3 DEF OneTime!Void
  <2> QED BY <2>1, <2>4 DEF OneTime!Next
<1> QED BY <1>4, <1>5 DEF ResetPassword

\* The update of the password is the act of the claimed token.
LEMMA InvUpdate ==
  ASSUME IInv, NEW r \in Requests, UpdatePassword(r)
  PROVE  IInv' /\ [OneTime!Next]_(OneTime!vars)
<1> USE DEF IInv
<1>0. PICK t \in Tokens : t = req[r].tok
  BY DEF UpdatePassword, At, TypeOK
<1>1. /\ req[r].pc = "update" /\ t \in spent
      /\ tokenFor[t] = req[r].user /\ tokenFor[t] \in Users
      /\ UNCHANGED <<quota, tokenFor, spent, expired, mailed, sent>>
  BY <1>0 DEF UpdatePassword, At, ClaimsHold, TypeOK, tokens
<1>2. /\ req' \in [Requests -> Request] /\ req'[r].pc = "idle"
      /\ \A q \in Requests : q # r => req'[q] = req[q]
  BY FinishTyped DEF UpdatePassword, TypeOK
<1>3. CASE /\ Hashed(req[r].new) /\ passwd' = [passwd EXCEPT ![req[r].user] = req[r].new]
           /\ UNCHANGED burnt
  <2>1. TypeOK' /\ ClaimsHold'
    BY <1>1, <1>2, <1>3 DEF TypeOK, ClaimsHold, At, Hashed
  <2>2. \A s \in Tokens : Claimed(s)' <=> Claimed(s) /\ s # t
    BY <1>0, <1>1, <1>2 DEF Claimed, At, ClaimsHold
  <2>3. \A s \in Tokens : Consumable(s)' <=> Consumable(s)
    BY <1>1 DEF Consumable
  <2>4. stage[t] = "claimed" /\ ~Consumable(t)
    BY <1>0, <1>1 DEF stage, Claimed, At, Consumable
  <2>5. stage' = [stage EXCEPT ![t] = "void"]
    BY <1>1, <2>2, <2>3, <2>4 DEF stage
  <2>6. OneTime!Act(t)
    BY <1>1, <1>3, <2>4, <2>5 DEF OneTime!Act, Hashed
  <2> QED BY <2>1, <2>6 DEF OneTime!Next
<1>4. CASE burnt' = burnt \cup {req[r].tok} /\ UNCHANGED passwd
  <2>1. TypeOK'
    BY <1>0, <1>1, <1>2, <1>4 DEF TypeOK, At
  <2> QED BY <1>1, <1>2, <1>4, <2>1, GiveUp, {r} \in SUBSET Requests
<1> QED BY <1>3, <1>4 DEF UpdatePassword

\* What no request asks for.
LEMMA InvOther ==
  ASSUME IInv, (\E t \in Tokens : ResetExpires(t)) \/ Crash \/ UNCHANGED vars
  PROVE  IInv' /\ [OneTime!Next]_(OneTime!vars)
<1> USE DEF IInv
<1>1. CASE \E t \in Tokens : ResetExpires(t)
  <2>1. PICK t \in Tokens : ResetExpires(t)
    BY <1>1
  <2>2. /\ tokenFor[t] # NoUser /\ expired' = expired \cup {t}
        /\ UNCHANGED <<quota, passwd, tokenFor, spent, mailed, req, sent, burnt>>
    BY <2>1 DEF ResetExpires
  <2>3. TypeOK' /\ ClaimsHold' /\ \A s \in Tokens : Claimed(s)' <=> Claimed(s)
    BY <2>2 DEF TypeOK, ClaimsHold, Claimed, At
  <2>4. ~Consumable(t)' /\ \A s \in Tokens : s # t => (Consumable(s)' <=> Consumable(s))
    BY <2>2 DEF Consumable
  <2>5. CASE Claimed(t)
    <3>1. stage' = stage
      BY <2>2, <2>3, <2>4, <2>5 DEF stage
    <3> QED BY <2>2, <2>3, <3>1 DEF OneTime!vars
  <2>6. CASE ~Claimed(t)
    <3>1. stage' = [s \in Tokens |-> IF s \in {t} THEN "void" ELSE stage[s]]
      BY <2>2, <2>3, <2>4, <2>6 DEF stage
    <3>2. OneTime!Void({t})
      BY <2>2, <3>1 DEF OneTime!Void
    <3> QED BY <2>3, <3>2 DEF OneTime!Next
  <2> QED BY <2>5, <2>6
<1>2. CASE Crash
  <2>1. /\ \A q \in Requests : req'[q].pc = "idle"
        /\ req' \in [Requests -> Request]
        /\ UNCHANGED <<quota, passwd, tokenFor, spent, expired, mailed, sent>>
    BY <1>2 DEF Crash, tokens, Idle, Request, Labels
  <2>2. burnt' \subseteq spent
    BY <1>2 DEF Crash, TypeOK, ClaimsHold
  <2>3. TypeOK'
    BY <2>1, <2>2 DEF TypeOK, At
  <2> QED BY <2>1, <2>3, GiveUp
<1>3. CASE UNCHANGED vars
  <2>1. TypeOK' /\ ClaimsHold' /\ \A s \in Tokens : Claimed(s)' <=> Claimed(s)
    BY <1>3 DEF vars, tokens, TypeOK, ClaimsHold, Claimed, At
  <2> QED BY <1>3, <2>1, Stutter DEF vars, tokens
<1> QED BY <1>1, <1>2, <1>3

LEMMA InvNext == IInv /\ [Next]_vars => IInv' /\ [OneTime!Next]_(OneTime!vars)
BY InvQuota, InvForgot, InvConsume, InvUpdate, InvOther DEF Next, Step

-----------------------------------------------------------------------------
(* Every variable keeps its type, a request finds what it works on, and a   *)
(* token counted as burnt is spent (auth.go:215-225).                       *)
THEOREM TypeCorrect == Spec => []TypeOK
<1>1. IInv => TypeOK
  BY DEF IInv
<1> QED BY InvInit, InvNext, <1>1, PTL DEF Spec

(* PasswordReset implements OneTimeToken: a reset token sets one password,  *)
(* that of the account it was issued for, once, after it was mailed         *)
(* (onetime.go:46-58, auth.go:210-225).                                     *)
THEOREM RefinesOneTimeToken == Spec => ImplementsOneTimeToken
<1>1. Init => OneTime!Init
  BY DEF Init, OneTime!Init, stage, Claimed, Consumable, At, Idle
<1> QED BY InvInit, InvNext, <1>1, PTL DEF Spec, ImplementsOneTimeToken, OneTime!Spec

-----------------------------------------------------------------------------
\* The mails of one window.

\* The requests that ask for a user are finitely many.
LEMMA AskingFinite ==
  ASSUME NEW u \in Users
  PROVE  /\ IsFiniteSet(Asking(u)) /\ Cardinality(Asking(u)) \in Nat
         /\ Cardinality(Asking(u)) <= Cardinality(Requests) /\ Cardinality(Requests) \in Nat
<1>1. Asking(u) \subseteq Requests
  BY DEF Asking
<1> QED BY <1>1, RequestsAssumption, FS_Subset, FS_CardinalityType

\* One more request asks for u, or one less, or nothing changes.
LEMMA AskingSteps ==
  ASSUME NEW u \in Users, NEW r \in Requests, NEW S, NEW T,
         S = Asking(u), T \subseteq Requests
  PROVE  /\ T = S \cup {r} => Cardinality(T) <= Cardinality(S) + 1
         /\ T \subseteq S => Cardinality(T) <= Cardinality(S)
         /\ r \in S /\ T = S \ {r} => Cardinality(T) = Cardinality(S) - 1
         /\ Cardinality(S) \in Nat /\ Cardinality(T) \in Nat
<1>1. IsFiniteSet(S) /\ IsFiniteSet(T)
  BY AskingFinite, RequestsAssumption, FS_Subset
<1>2. Cardinality(S) \in Nat /\ Cardinality(T) \in Nat
  BY <1>1, FS_CardinalityType
<1>3. T = S \cup {r} => Cardinality(T) <= Cardinality(S) + 1
  BY <1>1, <1>2, FS_AddElement
<1>4. T \subseteq S => Cardinality(T) <= Cardinality(S)
  BY <1>1, FS_Subset
<1>5. r \in S /\ T = S \ {r} => Cardinality(T) = Cardinality(S) - 1
  BY <1>1, <1>2, FS_RemoveElement
<1> QED BY <1>2, <1>3, <1>4, <1>5

\* The bound for one user.
Bounded(u) ==
  sent[u] + Cardinality(Asking(u))
    <= Cardinality(Requests) + (IF quota[u] < Limit THEN quota[u] ELSE Limit)

\* What the steps do to the requests that ask for a user and to his mails.
LEMMA AskingNext ==
  ASSUME TypeOK, TypeOK', [Next]_vars, NEW u \in Users
  PROVE  \/ /\ Asking(u)' \subseteq Asking(u)
            /\ sent'[u] = sent[u] /\ quota[u] <= quota'[u]
         \/ \E r \in Requests :
              /\ Asking(u)' = Asking(u) \cup {r} /\ sent'[u] = sent[u]
              /\ quota[u] < Limit /\ quota'[u] = quota[u] + 1
         \/ \E r \in Asking(u) :
              /\ Asking(u)' = Asking(u) \ {r} /\ sent'[u] = sent[u] + 1
              /\ quota'[u] = quota[u]
         \/ sent'[u] = 0
<1> USE DEF Asking, At
<1>0. /\ req \in [Requests -> Request] /\ quota \in [Users -> 0..(Limit + 1)]
      /\ quota[u] \in Int /\ Limit \in Nat
  BY LimitAssumption DEF TypeOK
<1>1. ASSUME NEW r \in Requests, NEW v \in Users, ForgotPassword(r, v)
      PROVE  \/ /\ Asking(u)' \subseteq Asking(u)
                /\ sent'[u] = sent[u] /\ quota[u] <= quota'[u]
             \/ /\ Asking(u)' = Asking(u) \cup {r} /\ sent'[u] = sent[u]
                /\ quota[u] < Limit /\ quota'[u] = quota[u] + 1
  <2>1. /\ quota'[v] = IF quota[v] > Limit THEN quota[v] ELSE quota[v] + 1
        /\ \A w \in Users : w # v => quota'[w] = quota[w]
        /\ UNCHANGED sent
    BY <1>1, HitTyped DEF ForgotPassword
  <2>2. quota[u] <= quota'[u]
    BY <1>0, <2>1
  <2>3. CASE UNCHANGED req
    BY <2>1, <2>2, <2>3
  <2>4. CASE /\ Admitted(v) /\ req[r].pc = "idle"
             /\ req' = [req EXCEPT ![r] = [Idle EXCEPT !.pc = "create", !.user = v]]
    <3>1. /\ req'[r].pc = "create" /\ req'[r].user = v
          /\ \A q \in Requests : q # r => req'[q] = req[q]
      BY <1>0, <2>4 DEF Idle
    <3>2. CASE u = v
      BY <1>0, <2>1, <2>4, <3>1, <3>2 DEF Admitted
    <3>3. CASE u # v
      BY <2>1, <2>2, <2>4, <3>1, <3>3
    <3> QED BY <3>2, <3>3
  <2> QED BY <1>1, <2>3, <2>4 DEF ForgotPassword
<1>2. ASSUME NEW v \in Users, RegisterTaken(v)
      PROVE  /\ Asking(u)' \subseteq Asking(u)
             /\ sent'[u] = sent[u] /\ quota[u] <= quota'[u]
  <2>1. /\ quota'[v] = IF quota[v] > Limit THEN quota[v] ELSE quota[v] + 1
        /\ \A w \in Users : w # v => quota'[w] = quota[w]
    BY <1>2, HitTyped DEF RegisterTaken
  <2> QED BY <1>0, <1>2, <2>1 DEF RegisterTaken
<1>3. ASSUME NEW v \in Users, QuotaWindowEnds(v)
      PROVE  \/ /\ Asking(u)' \subseteq Asking(u)
                /\ sent'[u] = sent[u] /\ quota[u] <= quota'[u]
             \/ sent'[u] = 0
  BY <1>0, <1>3 DEF QuotaWindowEnds, TypeOK
<1>4. ASSUME UNCHANGED <<quota, sent>>, \A q \in Requests :
               req'[q].pc \in {"create", "mail"} =>
                 req[q].pc \in {"create", "mail"} /\ req'[q].user = req[q].user
      PROVE  /\ Asking(u)' \subseteq Asking(u)
             /\ sent'[u] = sent[u] /\ quota[u] <= quota'[u]
  BY <1>0, <1>4
<1>5. ASSUME NEW r \in Requests, SendMail(r)
      PROVE  \/ /\ Asking(u)' \subseteq Asking(u)
                /\ sent'[u] = sent[u] /\ quota[u] <= quota'[u]
             \/ /\ r \in Asking(u) /\ Asking(u)' = Asking(u) \ {r}
                /\ sent'[u] = sent[u] + 1 /\ quota'[u] = quota[u]
  <2>1. /\ req'[r].pc = "idle" /\ \A q \in Requests : q # r => req'[q] = req[q]
        /\ req[r].pc = "mail" /\ UNCHANGED quota
        /\ sent' = [sent EXCEPT ![req[r].user] = @ + 1]
    BY <1>0, <1>5, FinishTyped DEF SendMail
  <2> QED BY <1>0, <2>1 DEF TypeOK
<1>6. ASSUME NEW r \in Requests,
             \/ CreateReset(r) \/ CreateResetFails(r) \/ SendMailFails(r) \/ UpdatePassword(r)
             \/ \E t \in Tokens, pw \in Passwords : ResetPassword(r, t, pw)
      PROVE  /\ Asking(u)' \subseteq Asking(u)
             /\ sent'[u] = sent[u] /\ quota[u] <= quota'[u]
  <2>1. UNCHANGED <<quota, sent>>
    BY <1>6 DEF CreateReset, CreateResetFails, SendMailFails, UpdatePassword, ResetPassword
  <2>2. CASE Finish(r) \/ UNCHANGED req
    BY <1>0, <1>4, <2>1, <2>2, FinishTyped
  <2>3. CASE CreateReset(r)
    <3>1. PICK t \in Tokens : req' = [req EXCEPT ![r] = [@ EXCEPT !.pc = "mail", !.tok = t]]
      BY <2>3 DEF CreateReset
    <3> QED BY <1>0, <1>4, <2>1, <2>3, <3>1, MailTyped DEF CreateReset
  <2>4. ASSUME NEW t \in Tokens, NEW pw \in Passwords,
               req' = [req EXCEPT ![r] = [pc |-> "update", user |-> tokenFor[t],
                                            tok |-> t, new |-> pw]]
        PROVE  req'[r].pc = "update" /\ \A q \in Requests : q # r => req'[q] = req[q]
    BY <1>0, <2>4
  <2>5. CASE \E t \in Tokens, pw \in Passwords : ResetPassword(r, t, pw)
    <3>1. PICK t \in Tokens, pw \in Passwords : ResetPassword(r, t, pw)
      BY <2>5
    <3>2. CASE req' = [req EXCEPT ![r] = [pc |-> "update", user |-> tokenFor[t],
                                            tok |-> t, new |-> pw]]
      <4>1. req'[r].pc = "update" /\ \A q \in Requests : q # r => req'[q] = req[q]
        BY <2>4, <3>2
      <4> QED BY <1>4, <2>1, <4>1
    <3> QED BY <2>2, <3>1, <3>2 DEF ResetPassword
  <2> QED BY <1>6, <2>2, <2>3, <2>5 DEF CreateResetFails, SendMailFails, UpdatePassword
<1>7. ASSUME (\E t \in Tokens : ResetExpires(t)) \/ Crash \/ UNCHANGED vars
      PROVE  /\ Asking(u)' \subseteq Asking(u)
             /\ sent'[u] = sent[u] /\ quota[u] <= quota'[u]
  BY <1>4, <1>7 DEF ResetExpires, Crash, vars, Idle
<1> QED BY <1>1, <1>2, <1>3, <1>5, <1>6, <1>7 DEF Next, Step

LEMMA BoundedNext ==
  ASSUME TypeOK, TypeOK', [Next]_vars, NEW u \in Users, Bounded(u)
  PROVE  Bounded(u)'
<1>1. /\ sent[u] \in Nat /\ sent'[u] \in Nat /\ quota[u] \in Nat /\ quota'[u] \in Nat
      /\ Limit \in Nat
  BY LimitAssumption DEF TypeOK
<1>2. /\ Cardinality(Asking(u)) \in Nat /\ Cardinality(Requests) \in Nat
      /\ Asking(u)' \subseteq Requests /\ Asking(u) \subseteq Requests
  BY AskingFinite DEF Asking
<1>3. /\ Cardinality(Asking(u)') \in Nat
      /\ Cardinality(Asking(u)') <= Cardinality(Requests)
  BY <1>2, RequestsAssumption, FS_Subset, FS_CardinalityType
<1>4. Cardinality(Asking(u))' = Cardinality(Asking(u)')
  OBVIOUS
<1>5. CASE Asking(u)' \subseteq Asking(u) /\ sent'[u] = sent[u] /\ quota[u] <= quota'[u]
  <2>1. Cardinality(Asking(u)') <= Cardinality(Asking(u))
    BY <1>2, <1>5, AskingFinite, FS_Subset
  <2> QED BY <1>1, <1>2, <1>3, <1>5, <2>1 DEF Bounded
<1>6. ASSUME NEW r \in Requests, Asking(u)' = Asking(u) \cup {r}, sent'[u] = sent[u],
             quota[u] < Limit, quota'[u] = quota[u] + 1
      PROVE  Bounded(u)'
  <2>1. Cardinality(Asking(u)') <= Cardinality(Asking(u)) + 1
    BY <1>2, <1>6, AskingSteps
  <2> QED BY <1>1, <1>2, <1>3, <1>6, <2>1 DEF Bounded
<1>7. ASSUME NEW r \in Asking(u), Asking(u)' = Asking(u) \ {r}, sent'[u] = sent[u] + 1,
             quota'[u] = quota[u]
      PROVE  Bounded(u)'
  <2>1. Cardinality(Asking(u)') = Cardinality(Asking(u)) - 1
    BY <1>2, <1>7, AskingSteps
  <2> QED BY <1>1, <1>2, <1>3, <1>7, <2>1 DEF Bounded
<1>8. CASE sent'[u] = 0
  BY <1>1, <1>2, <1>3, <1>8 DEF Bounded
<1> QED BY <1>5, <1>6, <1>7, <1>8, AskingNext

(* In one window of the quota a recipient gets at most Limit reset mails    *)
(* and one for every request that was admitted before it began              *)
(* (auth.go:198-205, stores.go:147-154).                                    *)
THEOREM MailsAreBounded == Spec => []MailsBounded
<1>1. Init => MailsBounded
  <2>1. ASSUME Init, NEW u \in Users
        PROVE  Bounded(u)
    <3>1. Asking(u) = {} /\ sent[u] = 0 /\ quota[u] = 0
      BY <2>1 DEF Init, Asking, Idle
    <3> QED BY <3>1, FS_EmptySet, AskingFinite, LimitAssumption DEF Bounded
  <2> QED BY <2>1 DEF MailsBounded, Bounded
<1>2. IInv /\ MailsBounded /\ [Next]_vars => MailsBounded'
  BY BoundedNext, InvNext DEF MailsBounded, Bounded, IInv
<1> QED BY <1>1, <1>2, InvInit, InvNext, PTL DEF Spec

-----------------------------------------------------------------------------
\* What bcrypt is to blame for.

\* Every password that a reset hashes is one that bcrypt accepts.
HashableAsked == \A r \in Requests : At(r, "update") => req[r].new \in Hashable

LEMMA BurntStep ==
  SpentTokensSetThePassword /\ HashableAsked /\ [Next]_vars => SpentTokensSetThePassword'
<1> SUFFICES ASSUME SpentTokensSetThePassword, HashableAsked, [Next]_vars, ~Faulty
             PROVE  burnt' = {}
  BY DEF SpentTokensSetThePassword
<1>1. burnt = {}
  BY DEF SpentTokensSetThePassword
<1>2. ASSUME NEW r \in Requests, UpdatePassword(r)
      PROVE  burnt' = {}
  BY <1>1, <1>2 DEF UpdatePassword, Hashed, HashableAsked
<1>3. ASSUME NEW r \in Requests,
             \/ \E u \in Users : ForgotPassword(r, u)
             \/ \E t \in Tokens, pw \in Passwords : ResetPassword(r, t, pw)
             \/ CreateReset(r) \/ CreateResetFails(r) \/ SendMail(r) \/ SendMailFails(r)
      PROVE  burnt' = {}
  BY <1>1, <1>3
     DEF ForgotPassword, ResetPassword, CreateReset, CreateResetFails, Stored, SendMail,
         SendMailFails
<1>4. CASE \/ \E u \in Users : RegisterTaken(u) \/ QuotaWindowEnds(u)
           \/ \E t \in Tokens : ResetExpires(t)
           \/ Crash \/ UNCHANGED vars
  BY <1>1, <1>4 DEF RegisterTaken, QuotaWindowEnds, ResetExpires, Crash, vars
<1> QED BY <1>2, <1>3, <1>4 DEF Next, Step

(* Without faults only a password that bcrypt refuses can burn a reset      *)
(* token: as long as none is asked for, every spent token sets a password   *)
(* (auth.go:215-223).  The run long_password shows that one is enough.      *)
THEOREM OnlyLongPasswordsBurn == Spec /\ []HashableAsked => []SpentTokensSetThePassword
<1>1. Init => SpentTokensSetThePassword
  BY DEF Init, SpentTokensSetThePassword
<1> QED BY <1>1, BurntStep, PTL DEF Spec
=============================================================================
