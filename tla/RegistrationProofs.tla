------------------------- MODULE RegistrationProofs -------------------------
(***************************************************************************)
(* Proofs about Registration, for any number of addresses, cache keys,     *)
(* tokens and workers, with or without faults.                             *)
(***************************************************************************)
EXTENDS Registration, TLAPS

-----------------------------------------------------------------------------
\* The inductive invariant.

\* A step finds the address and the token it works on.
HasOperands ==
  \A r \in Requests :
    /\ req[r].pc \in {"create", "issue", "mail", "cache", "markVerified"} =>
         req[r].email \in Emails
    /\ req[r].pc \in {"mail", "cache", "markVerified"} => req[r].tok \in Tokens
    /\ req[r].key \in Keys => req[r].email = EmailOf[req[r].key]
    /\ req[r].pc \in {"idle", "markVerified"} => req[r].key = NoKey

\* A request that verifies an address has consumed a token of that address,
\* and no other request has consumed it.
ClaimsHold ==
  \A r \in Requests : At(r, "markVerified") =>
    /\ req[r].tok \in spent
    /\ tokenFor[req[r].tok] = req[r].email
    /\ \A q \in Requests : At(q, "markVerified") /\ req[q].tok = req[r].tok => q = r

\* A token that was never issued is neither mailed, spent nor expired.
UnissuedClean ==
  /\ \A t \in spent \cup expired \cup mailed : tokenFor[t] # NoEmail
  /\ \A r \in Requests : At(r, "mail") => tokenFor[req[r].tok] # NoEmail

\* The request that has inserted the user and can still make or answer a body.
Past(r) ==
  \/ req[r].pc \in {"issue", "mail", "cache"}
  \/ req[r].pc = "unlock" /\ req[r].tok # NoToken

OnePast ==
  \A r \in Requests : Past(r) =>
    /\ req[r].email \in users
    /\ \A q \in Requests : Past(q) /\ req[q].email = req[r].email => q = r

\* The bodies that exist for an address: answered, cached or about to be.
Body(e, t) ==
  \/ \E k \in Keys : EmailOf[k] = e /\ (t \in answers[k] \/ (cache[k] = t /\ t # NoToken))
  \/ \E r \in Requests :
       req[r].pc \in {"cache", "unlock"} /\ req[r].email = e /\ req[r].tok = t /\ t # NoToken

OneBody ==
  \A e \in Emails, t \in Tokens : Body(e, t) =>
    /\ e \in users /\ t \in mailed
    /\ \A t2 \in Tokens : Body(e, t2) => t2 = t
    /\ \A r \in Requests : req[r].pc \in {"issue", "mail"} => req[r].email # e

Structure == TypeOK /\ HasOperands
TokenInv == Structure /\ ClaimsHold /\ UnissuedClean
IInv == TokenInv /\ OneRunnerPerKey /\ OnePast /\ OneBody

-----------------------------------------------------------------------------
\* What the helpers do to the requests.

\* Moving a request to another label changes nothing else of any request.
LEMMA GotoTyped ==
  ASSUME req \in [Requests -> Request], NEW r \in Requests, NEW l \in Labels, Goto(r, l)
  PROVE  /\ req' \in [Requests -> Request]
         /\ req'[r].pc = l
         /\ req'[r].key = req[r].key /\ req'[r].email = req[r].email
         /\ req'[r].tok = req[r].tok
         /\ \A q \in Requests : q # r => req'[q] = req[q]
BY DEF Goto, Request

\* A finished request is idle, and works on nothing.
LEMMA FinishTyped ==
  ASSUME req \in [Requests -> Request], NEW r \in Requests, Finish(r)
  PROVE  /\ req' \in [Requests -> Request]
         /\ req'[r].pc = "idle" /\ req'[r].key = NoKey
         /\ \A q \in Requests : q # r => req'[q] = req[q]
BY DEF Finish, Request, Idle, Labels, Running

\* A failed one is idle, or about to delete its lock without a body.
LEMMA FailTyped ==
  ASSUME req \in [Requests -> Request], NEW r \in Requests, Fail(r)
  PROVE  /\ req' \in [Requests -> Request]
         /\ \/ req'[r].pc = "idle" /\ req'[r].key = NoKey
            \/ /\ req'[r].pc = "unlock" /\ req'[r].tok = NoToken
               /\ req'[r].key = req[r].key /\ req[r].key # NoKey
               /\ req'[r].email = req[r].email
         /\ \A q \in Requests : q # r => req'[q] = req[q]
<1> DEFINE q1 == [req[r] EXCEPT !.pc = "unlock", !.tok = NoToken]
<1>1. /\ q1 \in Request
      /\ q1.pc = "unlock" /\ q1.tok = NoToken /\ q1.key = req[r].key /\ q1.email = req[r].email
  BY DEF Request, Labels, Running
<1>2. Idle \in Request /\ Idle.pc = "idle" /\ Idle.key = NoKey
  BY DEF Idle, Request, Labels, Running
<1>3. req' = [req EXCEPT ![r] = IF req[r].key # NoKey THEN q1 ELSE Idle]
  BY DEF Fail, HoldsLock
<1> HIDE DEF q1
<1> QED BY <1>1, <1>2, <1>3

\* A request that begins has the fields it is given.
LEMMA BeginTyped ==
  ASSUME req \in [Requests -> Request], NEW r \in Requests, NEW l \in Labels,
         NEW k \in Keys \cup {NoKey}, NEW e \in Emails \cup {NoEmail},
         NEW t \in Tokens \cup {NoToken},
         req' = [req EXCEPT ![r] = [pc |-> l, key |-> k, email |-> e, tok |-> t]]
  PROVE  /\ req' \in [Requests -> Request]
         /\ req'[r].pc = l /\ req'[r].key = k /\ req'[r].email = e /\ req'[r].tok = t
         /\ \A q \in Requests : q # r => req'[q] = req[q]
BY DEF Request

-----------------------------------------------------------------------------
\* TypeOK and the operands.

LEMMA StructureInit == Init => Structure
BY NullsAssumption
   DEF Init, Structure, TypeOK, HasOperands, Request, Idle, Labels, Running

\* RunIdempotent's steps.
LEMMA StructureCache ==
  ASSUME Structure, NEW r \in Requests,
         \/ \E k \in Keys : Register(r, k)
         \/ Acquire(r) \/ Recheck(r) \/ CacheBody(r) \/ Unlock(r)
  PROVE  Structure'
<1> USE DEF Structure, redis, accounts, tokens
<1>1. CASE \E k \in Keys : Register(r, k)
  <2>1. PICK k \in Keys : Register(r, k)
    BY <1>1
  <2>2. CASE cache[k] # NoToken /\ Answer201(r, k, cache[k])
    <3>1. answers' \in [Keys -> SUBSET Tokens] /\ Finish(r)
      BY <2>2 DEF Answer201, TypeOK
    <3>2. UNCHANGED <<cache, lock, resent, users, verified, tokenFor, spent, expired, mailed>>
      BY <2>1 DEF Register
    <3>3. req \in [Requests -> Request]
      BY DEF TypeOK
    <3> QED BY <3>1, <3>2, <3>3, NullsAssumption, FinishTyped DEF TypeOK, HasOperands
  <2>3. CASE /\ req' = [req EXCEPT ![r] = [Idle EXCEPT !.pc = "setnx", !.key = k,
                                             !.email = EmailOf[k]]]
             /\ UNCHANGED answers
    <3>1. /\ req' \in [Requests -> Request]
          /\ req'[r].pc = "setnx" /\ req'[r].key = k /\ req'[r].email = EmailOf[k]
          /\ \A q \in Requests : q # r => req'[q] = req[q]
      BY <2>3, EmailOfAssumption DEF TypeOK, Request, Idle, Labels, Running
    <3> QED BY <2>1, <2>3, <3>1 DEF Register, TypeOK, HasOperands
  <2> QED BY <2>1, <2>2, <2>3 DEF Register
<1>2. CASE Acquire(r)
  <2>1. lock' \in [Keys -> BOOLEAN] /\ req[r].pc = "setnx" /\ req[r].key \in Keys
    BY <1>2 DEF Acquire, TypeOK, At
  <2>2. /\ UNCHANGED <<cache, users, verified, tokenFor, spent, expired, mailed, answers>>
        /\ resent' \subseteq Keys
    BY <1>2 DEF Acquire, TypeOK
  <2>3. req[r].email \in Emails
    BY <2>1, EmailOfAssumption DEF HasOperands
  <2>4. PICK l \in {"create", "recheck"} : Goto(r, l)
    BY <1>2 DEF Acquire
  <2>5. /\ req' \in [Requests -> Request] /\ req'[r].pc = l
        /\ req'[r].key = req[r].key /\ req'[r].email = req[r].email
        /\ \A q \in Requests : q # r => req'[q] = req[q]
    BY <2>4, GotoTyped DEF TypeOK, Labels, Running
  <2> QED BY <2>1, <2>2, <2>3, <2>4, <2>5 DEF TypeOK, HasOperands
<1>3. CASE Recheck(r)
  BY <1>3, NullsAssumption, FinishTyped DEF Recheck, Answer201, TypeOK, HasOperands, At
<1>4. CASE CacheBody(r)
  BY <1>4, GotoTyped DEF CacheBody, TypeOK, HasOperands, At, Labels, Running
<1>5. CASE Unlock(r)
  <2>1. lock' \in [Keys -> BOOLEAN] /\ answers' \in [Keys -> SUBSET Tokens] /\ Finish(r)
    <3>1. req[r].tok \in Tokens \cup {NoToken}
      BY DEF TypeOK, Request
    <3>2. lock' \in [Keys -> BOOLEAN]
      BY <1>5 DEF Unlock, TypeOK
    <3>3. CASE req[r].tok # NoToken /\ Answer201(r, req[r].key, req[r].tok)
      BY <3>1, <3>2, <3>3 DEF Answer201, TypeOK
    <3>4. CASE Finish(r) /\ UNCHANGED answers
      BY <3>2, <3>4 DEF TypeOK
    <3> QED BY <1>5, <3>3, <3>4 DEF Unlock
  <2>2. UNCHANGED <<cache, resent, users, verified, tokenFor, spent, expired, mailed>>
    BY <1>5 DEF Unlock
  <2>3. req \in [Requests -> Request]
    BY DEF TypeOK
  <2> QED BY <2>1, <2>2, <2>3, NullsAssumption, FinishTyped DEF TypeOK, HasOperands
<1> QED BY <1>1, <1>2, <1>3, <1>4, <1>5

\* The steps of AuthService.
LEMMA StructureService ==
  ASSUME Structure, NEW r \in Requests,
         \/ \E e \in Emails : RegisterUnkeyed(r, e)
         \/ \E t \in Tokens : VerifyEmail(r, t)
         \/ CreateUser(r) \/ IssueVerification(r) \/ SendMail(r) \/ MarkVerified(r)
  PROVE  Structure'
<1> USE DEF Structure, redis, accounts, tokens
<1>1. CASE \E e \in Emails : RegisterUnkeyed(r, e)
  <2>1. PICK e \in Emails : RegisterUnkeyed(r, e)
    BY <1>1
  <2>2. /\ req' \in [Requests -> Request]
        /\ req'[r].pc = "create" /\ req'[r].key = NoKey /\ req'[r].email = e
        /\ \A q \in Requests : q # r => req'[q] = req[q]
    BY <2>1 DEF RegisterUnkeyed, TypeOK, Request, Idle, Labels, Running
  <2> QED BY <2>1, <2>2, NullsAssumption DEF RegisterUnkeyed, TypeOK, HasOperands
<1>2. CASE \E t \in Tokens : VerifyEmail(r, t)
  <2>1. PICK t \in Tokens : VerifyEmail(r, t)
    BY <1>2
  <2>2. tokenFor[t] \in Emails
    BY <2>1 DEF VerifyEmail, Consumable, TypeOK
  <2>3. CASE req' = [req EXCEPT ![r] = [Idle EXCEPT !.pc = "markVerified", !.tok = t,
                                          !.email = tokenFor[t]]]
    <3>1. /\ req' \in [Requests -> Request]
          /\ req'[r].pc = "markVerified" /\ req'[r].key = NoKey
          /\ req'[r].email = tokenFor[t] /\ req'[r].tok = t
          /\ \A q \in Requests : q # r => req'[q] = req[q]
      BY <2>2, <2>3 DEF TypeOK, Request, Idle, Labels, Running
    <3> QED BY <2>1, <2>2, <3>1, NullsAssumption DEF VerifyEmail, TypeOK, HasOperands
  <2>4. CASE UNCHANGED req
    BY <2>1, <2>4 DEF VerifyEmail, TypeOK, HasOperands
  <2> QED BY <2>1, <2>3, <2>4 DEF VerifyEmail
<1>3. CASE CreateUser(r)
  <2>1. CASE Goto(r, "issue")
    BY <1>3, <2>1, GotoTyped DEF CreateUser, TypeOK, HasOperands, At, Labels, Running
  <2>2. CASE Fail(r)
    <3>1. /\ UNCHANGED <<cache, lock, resent, verified, tokenFor, spent, expired, mailed, answers>>
          /\ users' \subseteq Emails
      BY <1>3 DEF CreateUser, TypeOK, HasOperands, At
    <3>2. req \in [Requests -> Request]
      BY DEF TypeOK
    <3> QED BY <2>2, <3>1, <3>2, NullsAssumption, FailTyped DEF TypeOK, HasOperands, Request
  <2> QED BY <1>3, <2>1, <2>2 DEF CreateUser
<1>4. CASE IssueVerification(r)
  <2>1. tokenFor' \in [Tokens -> Emails \cup {NoEmail}]
    BY <1>4 DEF IssueVerification, TypeOK, HasOperands, At
  <2>2. CASE Fail(r)
    <3>1. UNCHANGED <<cache, lock, resent, users, verified, spent, expired, mailed, answers>>
      BY <1>4 DEF IssueVerification
    <3>2. req \in [Requests -> Request]
      BY DEF TypeOK
    <3> QED BY <2>1, <2>2, <3>1, <3>2, NullsAssumption, FailTyped
            DEF TypeOK, HasOperands, Request
  <2>3. ASSUME NEW t \in Tokens,
               req' = [req EXCEPT ![r] = [@ EXCEPT !.pc = "mail", !.tok = t]]
        PROVE  Structure'
    <3> DEFINE q1 == [req[r] EXCEPT !.pc = "mail", !.tok = t]
    <3>1. /\ q1 \in Request /\ q1.pc = "mail" /\ q1.tok = t
          /\ q1.key = req[r].key /\ q1.email = req[r].email
      BY DEF TypeOK, Request, Labels, Running
    <3>2. req' = [req EXCEPT ![r] = q1]
      BY <2>3
    <3> HIDE DEF q1
    <3>3. /\ req' \in [Requests -> Request]
          /\ req'[r] = q1 /\ \A q \in Requests : q # r => req'[q] = req[q]
      BY <3>1, <3>2 DEF TypeOK
    <3> QED BY <1>4, <2>1, <3>1, <3>3 DEF IssueVerification, TypeOK, HasOperands, At
  <2> QED BY <1>4, <2>2, <2>3 DEF IssueVerification
<1>5. CASE SendMail(r)
  <2>1. mailed' \subseteq Tokens
    BY <1>5 DEF SendMail, TypeOK, HasOperands, At
  <2>2. CASE Finish(r)
    BY <1>5, <2>1, <2>2, NullsAssumption, FinishTyped DEF SendMail, TypeOK, HasOperands
  <2>3. CASE req[r].key # NoKey /\ Goto(r, "cache")
    BY <1>5, <2>1, <2>3, GotoTyped
       DEF SendMail, TypeOK, HasOperands, At, Labels, Running, Request
  <2>4. CASE Fail(r)
    BY <1>5, <2>1, <2>4, NullsAssumption, FailTyped DEF SendMail, TypeOK, HasOperands, At, Request
  <2> QED BY <1>5, <2>2, <2>3, <2>4 DEF SendMail
<1>6. CASE MarkVerified(r)
  BY <1>6, NullsAssumption, FinishTyped DEF MarkVerified, TypeOK, HasOperands, At
<1> QED BY <1>1, <1>2, <1>3, <1>4, <1>5, <1>6

\* What no request asks for.
LEMMA StructureOther ==
  ASSUME Structure,
         \/ \E k \in Keys : CacheExpires(k) \/ LockExpires(k)
         \/ \E t \in Tokens : TokenExpires(t)
         \/ \E r \in Requests : Panic(r) \/ Resend(r)
         \/ Crash \/ UNCHANGED vars
  PROVE  Structure'
<1> USE DEF Structure, redis, accounts, tokens
<1>1. CASE \E k \in Keys : CacheExpires(k) \/ LockExpires(k)
  BY <1>1 DEF CacheExpires, LockExpires, TypeOK, HasOperands
<1>2. CASE \E t \in Tokens : TokenExpires(t)
  BY <1>2 DEF TokenExpires, TypeOK, HasOperands
<1>3. CASE \E r \in Requests : Panic(r)
  BY <1>3, NullsAssumption, FinishTyped DEF Panic, TypeOK, HasOperands
<1>4. CASE Crash
  BY <1>4, NullsAssumption DEF Crash, TypeOK, HasOperands, Request, Idle, Labels, Running
<1>5. CASE UNCHANGED vars
  BY <1>5 DEF vars, TypeOK, HasOperands
<1>6. CASE \E r \in Requests : Resend(r)
  <2>1. PICK r \in Requests : Resend(r)
    BY <1>6
  <2>2. req[r].key \in Keys /\ UNCHANGED <<cache, users, verified, tokenFor, spent, expired, mailed, answers, req>>
    BY <2>1 DEF Resend, TypeOK, At
  <2>3. lock' \in [Keys -> BOOLEAN] /\ resent' \subseteq Keys
    BY <2>1, <2>2 DEF Resend, TypeOK
  <2> QED BY <2>2, <2>3 DEF TypeOK, HasOperands
<1> QED BY <1>1, <1>2, <1>3, <1>4, <1>5, <1>6

LEMMA StructureNext == Structure /\ [Next]_vars => Structure'
BY StructureCache, StructureService, StructureOther DEF Next, Step

-----------------------------------------------------------------------------
\* The life of a verification token.

\* The steps that neither claim a token nor give a claim up.
Unclaiming(r) ==
  \/ \E k \in Keys : Register(r, k)
  \/ \E e \in Emails : RegisterUnkeyed(r, e)
  \/ Acquire(r) \/ Recheck(r) \/ CreateUser(r) \/ IssueVerification(r)
  \/ SendMail(r) \/ CacheBody(r) \/ Unlock(r)

\* They leave the requests that verify an address alone.
LEMMA ClaimsUntouched ==
  ASSUME Structure, NEW r \in Requests, Unclaiming(r)
  PROVE  \A q \in Requests :
           At(q, "markVerified")' \/ At(q, "markVerified") => req'[q] = req[q]
<1> USE DEF At
<1>1. req \in [Requests -> Request]
  BY DEF Structure, TypeOK
<1>2. CASE \E k \in Keys : Register(r, k)
  <2>1. PICK k \in Keys : Register(r, k)
    BY <1>2
  <2>2. CASE Finish(r)
    BY <1>1, <2>1, <2>2, FinishTyped DEF Register
  <2>3. CASE req' = [req EXCEPT ![r] = [Idle EXCEPT !.pc = "setnx", !.key = k,
                                          !.email = EmailOf[k]]]
    BY <1>1, <2>1, <2>3 DEF Register, Idle
  <2> QED BY <2>1, <2>2, <2>3 DEF Register, Answer201
<1>3. CASE \E e \in Emails : RegisterUnkeyed(r, e)
  BY <1>1, <1>3 DEF RegisterUnkeyed, Idle
<1>4. CASE Acquire(r)
  BY <1>1, <1>4, GotoTyped DEF Acquire, Labels, Running
<1>5. CASE Recheck(r)
  BY <1>1, <1>5, FinishTyped DEF Recheck, Answer201
<1>6. CASE CreateUser(r)
  BY <1>1, <1>6, GotoTyped, FailTyped DEF CreateUser, Labels, Running
<1>7. CASE IssueVerification(r)
  <2>1. CASE Fail(r)
    BY <1>1, <1>7, <2>1, FailTyped DEF IssueVerification
  <2>2. ASSUME NEW t \in Tokens,
               req' = [req EXCEPT ![r] = [@ EXCEPT !.pc = "mail", !.tok = t]]
        PROVE  req'[r].pc = "mail" /\ \A q \in Requests : q # r => req'[q] = req[q]
    <3> DEFINE q1 == [req[r] EXCEPT !.pc = "mail", !.tok = t]
    <3>1. q1.pc = "mail"
      BY <1>1 DEF Request
    <3>2. req' = [req EXCEPT ![r] = q1]
      BY <2>2
    <3> HIDE DEF q1
    <3> QED BY <1>1, <3>1, <3>2
  <2> QED BY <1>7, <2>1, <2>2 DEF IssueVerification
<1>8. CASE SendMail(r)
  BY <1>1, <1>8, GotoTyped, FinishTyped, FailTyped DEF SendMail, Labels, Running
<1>9. CASE CacheBody(r)
  BY <1>1, <1>9, GotoTyped DEF CacheBody, Labels, Running
<1>10. CASE Unlock(r)
  BY <1>1, <1>10, FinishTyped DEF Unlock, Answer201
<1> QED BY <1>2, <1>3, <1>4, <1>5, <1>6, <1>7, <1>8, <1>9, <1>10 DEF Unclaiming

\* A claimed token is spent and belongs to an address; a stage other than void
\* is that of a token that was issued.
LEMMA StageFacts ==
  ASSUME TokenInv
  PROVE  /\ \A t \in Tokens : Claimed(t) => t \in spent /\ tokenFor[t] \in Emails
         /\ \A t \in Tokens : tokenFor[t] = NoEmail => stage[t] = "void"
BY NullsAssumption
   DEF TokenInv, Structure, HasOperands, ClaimsHold, UnissuedClean, Claimed, Consumable, stage, At

LEMMA TokenInvInit == Init => TokenInv
BY StructureInit DEF Init, TokenInv, ClaimsHold, UnissuedClean, At, Idle

\* A request that consumes a token: the claim is the only one.
LEMMA TokenInvVerify ==
  ASSUME TokenInv, NEW r \in Requests, NEW t \in Tokens, VerifyEmail(r, t)
  PROVE  ClaimsHold' /\ UnissuedClean' /\ OneTime!Next
<1> USE DEF TokenInv, Structure
<1>1. /\ req[r].pc = "idle" /\ t \in mailed /\ t \notin spent \cup expired
      /\ tokenFor[t] \in Emails /\ spent' = spent \cup {t}
      /\ UNCHANGED <<tokenFor, expired, mailed, verified>>
  BY DEF VerifyEmail, Consumable, TypeOK, At, redis, accounts
<1>2. stage[t] = "live"
  <2>1. ~Claimed(t) /\ Consumable(t)
    BY <1>1, StageFacts, NullsAssumption DEF Consumable
  <2> QED BY <1>1, <2>1 DEF stage
<1>3. \A s \in Tokens : s # t => (Consumable(s)' <=> Consumable(s))
  BY <1>1 DEF Consumable
<1>4. ~Consumable(t)'
  BY <1>1 DEF Consumable
<1>5. CASE req' = [req EXCEPT ![r] = [Idle EXCEPT !.pc = "markVerified", !.tok = t,
                                        !.email = tokenFor[t]]]
  <2>1. /\ req'[r].pc = "markVerified" /\ req'[r].tok = t /\ req'[r].email = tokenFor[t]
        /\ \A q \in Requests : q # r => req'[q] = req[q]
    BY <1>5 DEF TypeOK, Idle
  <2>2. ClaimsHold' /\ UnissuedClean'
    BY <1>1, <2>1, NullsAssumption DEF ClaimsHold, UnissuedClean, At
  <2>3. Claimed(t)' /\ \A s \in Tokens : s # t => (Claimed(s)' <=> Claimed(s))
    BY <1>1, <2>1 DEF Claimed, At
  <2>4. stage' = [stage EXCEPT ![t] = "claimed"]
    BY <1>1, <1>3, <2>3 DEF stage
  <2>5. OneTime!Claim(t)
    BY <1>1, <1>2, <2>4 DEF OneTime!Claim
  <2> QED BY <2>2, <2>5 DEF OneTime!Next
<1>6. CASE UNCHANGED req
  <2>1. ClaimsHold' /\ UnissuedClean'
    BY <1>1, <1>6, NullsAssumption DEF ClaimsHold, UnissuedClean, At
  <2>2. \A s \in Tokens : Claimed(s)' <=> Claimed(s)
    BY <1>6 DEF Claimed, At
  <2>3. stage' = [s \in Tokens |-> IF s \in {t} THEN "void" ELSE stage[s]]
    BY <1>1, <1>2, <1>3, <1>4, <2>2 DEF stage
  <2>4. OneTime!Void({t})
    BY <1>1, <2>3 DEF OneTime!Void
  <2> QED BY <2>1, <2>4 DEF OneTime!Next
<1> QED BY <1>5, <1>6 DEF VerifyEmail

\* A step that leaves tokens and claims as they were is a stutter.
LEMMA Stutter ==
  ASSUME UNCHANGED <<tokenFor, spent, expired, mailed, verified>>,
         \A t \in Tokens : Claimed(t)' <=> Claimed(t)
  PROVE  UNCHANGED OneTime!vars
<1>1. \A t \in Tokens : Consumable(t)' <=> Consumable(t)
  BY DEF Consumable
<1>2. stage' = stage
  BY <1>1 DEF stage
<1> QED BY <1>2 DEF OneTime!vars

\* A request that ends gives its claim up; the tokens it held become void.
LEMMA GiveUp ==
  ASSUME TokenInv, NEW R \in SUBSET Requests,
         \A q \in Requests : IF q \in R THEN req'[q].pc = "idle" ELSE req'[q] = req[q],
         UNCHANGED <<tokenFor, spent, expired, mailed, verified>>
  PROVE  ClaimsHold' /\ UnissuedClean' /\ [OneTime!Next]_(OneTime!vars)
<1> USE DEF TokenInv, Structure
<1> DEFINE S == {t \in Tokens : \E r \in R : At(r, "markVerified") /\ req[r].tok = t}
<1>1. ClaimsHold' /\ UnissuedClean'
  BY DEF ClaimsHold, UnissuedClean, At
<1>2. \A t \in Tokens : Consumable(t)' <=> Consumable(t)
  BY DEF Consumable
<1>3. \A t \in Tokens : Claimed(t)' <=> Claimed(t) /\ t \notin S
  BY DEF Claimed, At, ClaimsHold
<1>4. \A t \in S : Claimed(t) /\ ~Consumable(t)
  BY StageFacts DEF Claimed, Consumable
<1>5. stage' = [t \in Tokens |-> IF t \in S THEN "void" ELSE stage[t]]
  BY <1>2, <1>3, <1>4 DEF stage
<1>6. OneTime!Void(S)
  BY <1>5 DEF OneTime!Void
<1> QED BY <1>1, <1>6 DEF OneTime!Next

\* The update of a request that holds a claim is the act of the token.
LEMMA TokenInvMark ==
  ASSUME TokenInv, NEW r \in Requests, MarkVerified(r)
  PROVE  ClaimsHold' /\ UnissuedClean' /\ [OneTime!Next]_(OneTime!vars)
<1> USE DEF TokenInv, Structure
<1>0. PICK t \in Tokens : t = req[r].tok
  BY DEF MarkVerified, At, HasOperands
<1>1. /\ req[r].pc = "markVerified" /\ t \in spent
      /\ tokenFor[t] = req[r].email /\ tokenFor[t] \in Emails
  BY <1>0 DEF MarkVerified, At, ClaimsHold, HasOperands
<1>2. /\ req'[r].pc = "idle" /\ \A q \in Requests : q # r => req'[q] = req[q]
      /\ UNCHANGED <<tokenFor, spent, expired, mailed>>
  BY FinishTyped DEF MarkVerified, TypeOK, redis, tokens
<1>3. CASE verified' = verified \cup {req[r].email}
  <2>1. ClaimsHold' /\ UnissuedClean'
    BY <1>2 DEF ClaimsHold, UnissuedClean, At
  <2>2. \A s \in Tokens : Claimed(s)' <=> Claimed(s) /\ s # t
    BY <1>0, <1>1, <1>2 DEF Claimed, At, ClaimsHold
  <2>3. \A s \in Tokens : Consumable(s)' <=> Consumable(s)
    BY <1>2 DEF Consumable
  <2>4. stage[t] = "claimed" /\ ~Consumable(t)
    BY <1>0, <1>1 DEF stage, Claimed, At, Consumable
  <2>5. stage' = [stage EXCEPT ![t] = "void"]
    BY <1>1, <1>2, <2>2, <2>3, <2>4 DEF stage
  <2>6. \E v \in {"verified"} : [e \in Emails |-> IF e \in verified THEN "verified" ELSE "unverified"]'
            = [[e \in Emails |-> IF e \in verified THEN "verified" ELSE "unverified"]
                 EXCEPT ![tokenFor[t]] = v]
    BY <1>1, <1>3
  <2>7. OneTime!Act(t)
    BY <1>1, <1>2, <2>4, <2>5, <2>6 DEF OneTime!Act
  <2>8. OneTime!Next
    BY <1>1, <2>7 DEF OneTime!Next
  <2> QED BY <2>1, <2>8
<1>4. CASE UNCHANGED verified
  BY <1>2, <1>4, GiveUp, {r} \in SUBSET Requests
<1> QED BY <1>3, <1>4 DEF MarkVerified

\* issueOneTime seals a token that was never issued.
LEMMA TokenInvIssue ==
  ASSUME TokenInv, NEW r \in Requests, IssueVerification(r)
  PROVE  ClaimsHold' /\ UnissuedClean' /\ [OneTime!Next]_(OneTime!vars)
<1> USE DEF TokenInv, Structure
<1>1. /\ req \in [Requests -> Request] /\ tokenFor \in [Tokens -> Emails \cup {NoEmail}]
      /\ req[r].email \in Emails /\ UNCHANGED <<spent, expired, mailed, verified>>
  BY DEF IssueVerification, TypeOK, HasOperands, At, accounts
<1>2. \A q \in Requests :
        At(q, "markVerified")' \/ At(q, "markVerified") => req'[q] = req[q]
  BY ClaimsUntouched DEF Unclaiming
<1>3. \A s \in Tokens : Claimed(s)' <=> Claimed(s)
  BY <1>2 DEF Claimed, At
<1>4. CASE UNCHANGED tokenFor
  <2>1. Fail(r)
    BY <1>1, <1>4, NullsAssumption DEF IssueVerification
  <2>2. ClaimsHold' /\ UnissuedClean'
    BY <1>1, <1>2, <1>4, <2>1, FailTyped DEF ClaimsHold, UnissuedClean, At
  <2> QED BY <1>1, <1>3, <1>4, <2>2, Stutter
<1>5. ASSUME NEW t \in Tokens, tokenFor[t] = NoEmail,
             tokenFor' = [tokenFor EXCEPT ![t] = req[r].email],
             \/ req' = [req EXCEPT ![r] = [@ EXCEPT !.pc = "mail", !.tok = t]]
             \/ Fail(r)
      PROVE  ClaimsHold' /\ UnissuedClean' /\ [OneTime!Next]_(OneTime!vars)
  <2>1. /\ tokenFor'[t] \in Emails /\ \A s \in Tokens : s # t => tokenFor'[s] = tokenFor[s]
    BY <1>1, <1>5
  <2>2. ~Claimed(t) /\ stage[t] = "void" /\ t \notin spent \cup expired \cup mailed
    BY <1>5, StageFacts, NullsAssumption DEF UnissuedClean
  <2>3. ClaimsHold'
    <3>1. \A q \in Requests : At(q, "markVerified") => req[q].tok # t
      BY <2>2 DEF Claimed
    <3> QED BY <1>1, <1>2, <2>1, <3>1 DEF ClaimsHold, At, HasOperands
  <2>4. UnissuedClean'
    <3>1. \A q \in Requests : At(q, "mail")' => req'[q].tok = t \/ req'[q] = req[q]
      <4>1. CASE Fail(r)
        BY <1>1, <4>1, FailTyped DEF At
      <4>2. CASE req' = [req EXCEPT ![r] = [@ EXCEPT !.pc = "mail", !.tok = t]]
        <5> DEFINE q1 == [req[r] EXCEPT !.pc = "mail", !.tok = t]
        <5>1. q1.tok = t
          BY <1>1 DEF Request
        <5>2. req' = [req EXCEPT ![r] = q1]
          BY <4>2
        <5> HIDE DEF q1
        <5> QED BY <1>1, <5>1, <5>2
      <4> QED BY <1>5, <4>1, <4>2
    <3> QED BY <1>1, <2>1, <3>1, NullsAssumption DEF UnissuedClean, At, HasOperands, TypeOK
  <2>5. stage' = [stage EXCEPT ![t] = "sealed"]
    <3>1. Consumable(t)' /\ \A s \in Tokens : s # t => (Consumable(s)' <=> Consumable(s))
      BY <1>1, <2>1, <2>2, NullsAssumption DEF Consumable
    <3> QED BY <1>1, <1>3, <2>2, <3>1 DEF stage
  <2>6. OneTime!Issue(t, req[r].email)
    BY <1>1, <1>5, <2>2, <2>5 DEF OneTime!Issue
  <2> QED BY <1>1, <2>3, <2>4, <2>6 DEF OneTime!Next
<1> QED BY <1>4, <1>5 DEF IssueVerification

\* The mail delivers the token of its request, if it is still good.
LEMMA TokenInvMail ==
  ASSUME TokenInv, NEW r \in Requests, SendMail(r)
  PROVE  ClaimsHold' /\ UnissuedClean' /\ [OneTime!Next]_(OneTime!vars)
<1> USE DEF TokenInv, Structure
<1>0. PICK t \in Tokens : t = req[r].tok
  BY DEF SendMail, At, HasOperands
<1>1. /\ req \in [Requests -> Request] /\ At(r, "mail") /\ tokenFor[t] # NoEmail
      /\ mailed' \in {mailed, mailed \cup {t}}
      /\ UNCHANGED <<tokenFor, spent, expired, verified>>
  BY <1>0 DEF SendMail, TypeOK, UnissuedClean, tokens, accounts
<1>2. \A q \in Requests :
        At(q, "markVerified")' \/ At(q, "markVerified") => req'[q] = req[q]
  BY ClaimsUntouched DEF Unclaiming
<1>3. \A s \in Tokens : Claimed(s)' <=> Claimed(s)
  BY <1>2 DEF Claimed, At
<1>4. ClaimsHold'
  BY <1>1, <1>2 DEF ClaimsHold, At
<1>5. UnissuedClean'
  <2>1. \A q \in Requests : At(q, "mail")' => req'[q] = req[q]
    BY <1>1, GotoTyped, FinishTyped, FailTyped DEF SendMail, At, Labels, Running
  <2> QED BY <1>1, <2>1 DEF UnissuedClean, At
<1>6. \A s \in Tokens : Consumable(s)' <=> Consumable(s)
  BY <1>1 DEF Consumable
<1>7. CASE stage[t] = "sealed" /\ mailed' = mailed \cup {t}
  <2>1. stage' = [stage EXCEPT ![t] = "live"]
    BY <1>3, <1>6, <1>7 DEF stage
  <2>2. OneTime!Deliver(t)
    BY <1>1, <1>7, <2>1 DEF OneTime!Deliver
  <2> QED BY <1>4, <1>5, <2>2 DEF OneTime!Next
<1>8. CASE stage[t] # "sealed" \/ mailed' = mailed
  <2>1. stage' = stage
    BY <1>1, <1>3, <1>6, <1>8 DEF stage
  <2> QED BY <1>1, <1>4, <1>5, <2>1 DEF OneTime!vars
<1> QED BY <1>1, <1>7, <1>8

\* The steps that touch neither tokens nor claims.
LEMMA TokenInvQuiet ==
  ASSUME TokenInv, NEW r \in Requests,
         \/ \E k \in Keys : Register(r, k)
         \/ \E e \in Emails : RegisterUnkeyed(r, e)
         \/ Acquire(r) \/ Recheck(r) \/ CreateUser(r) \/ CacheBody(r) \/ Unlock(r)
  PROVE  ClaimsHold' /\ UnissuedClean' /\ [OneTime!Next]_(OneTime!vars)
<1> USE DEF TokenInv, Structure
<1>1. UNCHANGED <<tokenFor, spent, expired, mailed, verified>>
  BY DEF Register, RegisterUnkeyed, Acquire, Recheck, CreateUser, CacheBody, Unlock,
         tokens, accounts
<1>2. \A q \in Requests :
        At(q, "markVerified")' \/ At(q, "markVerified") => req'[q] = req[q]
  BY ClaimsUntouched DEF Unclaiming
<1>3. \A s \in Tokens : Claimed(s)' <=> Claimed(s)
  BY <1>2 DEF Claimed, At
<1>4. \A q \in Requests : At(q, "mail")' => req'[q] = req[q]
  <2> USE DEF At
  <2>1. req \in [Requests -> Request]
    BY DEF TypeOK
  <2>2. CASE \E k \in Keys : Register(r, k)
    <3>1. PICK k \in Keys : Register(r, k)
      BY <2>2
    <3>2. CASE Finish(r)
      BY <2>1, <3>2, FinishTyped
    <3>3. CASE req' = [req EXCEPT ![r] = [Idle EXCEPT !.pc = "setnx", !.key = k,
                                            !.email = EmailOf[k]]]
      BY <2>1, <3>3 DEF Idle
    <3> QED BY <3>1, <3>2, <3>3 DEF Register, Answer201
  <2>3. CASE \E e \in Emails : RegisterUnkeyed(r, e)
    BY <2>1, <2>3 DEF RegisterUnkeyed, Idle
  <2>4. CASE Acquire(r) \/ Recheck(r)
    BY <2>1, <2>4, GotoTyped, FinishTyped DEF Acquire, Recheck, Answer201, Labels, Running
  <2>5. CASE CreateUser(r) \/ CacheBody(r)
    BY <2>1, <2>5, GotoTyped, FailTyped DEF CreateUser, CacheBody, Labels, Running
  <2>6. CASE Unlock(r)
    BY <2>1, <2>6, FinishTyped DEF Unlock, Answer201
  <2> QED BY <2>2, <2>3, <2>4, <2>5, <2>6
<1>5. ClaimsHold' /\ UnissuedClean'
  BY <1>1, <1>2, <1>4 DEF ClaimsHold, UnissuedClean, At
<1> QED BY <1>1, <1>3, <1>5, Stutter

\* What no request asks for.
LEMMA TokenInvOther ==
  ASSUME TokenInv,
         \/ \E k \in Keys : CacheExpires(k) \/ LockExpires(k)
         \/ \E t \in Tokens : TokenExpires(t)
         \/ \E r \in Requests : Panic(r) \/ Resend(r)
         \/ Crash \/ UNCHANGED vars
  PROVE  ClaimsHold' /\ UnissuedClean' /\ [OneTime!Next]_(OneTime!vars)
<1> USE DEF TokenInv, Structure
<1>1. CASE \/ \E k \in Keys : CacheExpires(k) \/ LockExpires(k)
           \/ \E r \in Requests : Resend(r)
           \/ UNCHANGED vars
  <2>1. UNCHANGED <<tokenFor, spent, expired, mailed, verified, req>>
    BY <1>1 DEF CacheExpires, LockExpires, Resend, vars, tokens, accounts
  <2>2. ClaimsHold' /\ UnissuedClean' /\ \A s \in Tokens : Claimed(s)' <=> Claimed(s)
    BY <2>1 DEF ClaimsHold, UnissuedClean, Claimed, At
  <2> QED BY <2>1, <2>2, Stutter
<1>2. CASE \E t \in Tokens : TokenExpires(t)
  <2>1. PICK t \in Tokens : TokenExpires(t)
    BY <1>2
  <2>2. /\ tokenFor[t] # NoEmail /\ expired' = expired \cup {t}
        /\ UNCHANGED <<tokenFor, spent, mailed, verified, req>>
    BY <2>1 DEF TokenExpires, accounts
  <2>3. ClaimsHold' /\ UnissuedClean' /\ \A s \in Tokens : Claimed(s)' <=> Claimed(s)
    BY <2>2 DEF ClaimsHold, UnissuedClean, Claimed, At
  <2>4. ~Consumable(t)' /\ \A s \in Tokens : s # t => (Consumable(s)' <=> Consumable(s))
    BY <2>2 DEF Consumable
  <2> DEFINE S == IF Claimed(t) THEN {} ELSE {t}
  <2>5. stage' = [s \in Tokens |-> IF s \in S THEN "void" ELSE stage[s]]
    BY <2>2, <2>3, <2>4 DEF stage
  <2>6. OneTime!Void(S) /\ S \in SUBSET Tokens
    BY <2>2, <2>5 DEF OneTime!Void
  <2> QED BY <2>3, <2>6 DEF OneTime!Next
<1>3. CASE \E r \in Requests : Panic(r)
  <2>1. PICK r \in Requests : Panic(r)
    BY <1>3
  <2>2. /\ UNCHANGED <<tokenFor, spent, expired, mailed, verified>>
        /\ \A q \in Requests : IF q \in {r} THEN req'[q].pc = "idle" ELSE req'[q] = req[q]
    BY <2>1, FinishTyped DEF Panic, TypeOK, tokens, accounts
  <2> QED BY <2>2, GiveUp, {r} \in SUBSET Requests
<1>4. CASE Crash
  <2>1. /\ UNCHANGED <<tokenFor, spent, expired, mailed, verified>>
        /\ \A q \in Requests :
             IF q \in Requests THEN req'[q].pc = "idle" ELSE req'[q] = req[q]
    BY <1>4 DEF Crash, Idle, tokens, accounts
  <2> QED BY <2>1, GiveUp, Requests \in SUBSET Requests
<1> QED BY <1>1, <1>2, <1>3, <1>4

LEMMA TokenInvNext ==
  TokenInv /\ [Next]_vars => TokenInv' /\ [OneTime!Next]_(OneTime!vars)
<1> SUFFICES ASSUME TokenInv, [Next]_vars
             PROVE  TokenInv' /\ [OneTime!Next]_(OneTime!vars)
  OBVIOUS
<1>1. Structure'
  BY StructureNext DEF TokenInv
<1>2. ClaimsHold' /\ UnissuedClean' /\ [OneTime!Next]_(OneTime!vars)
  BY TokenInvVerify, TokenInvMark, TokenInvIssue, TokenInvMail, TokenInvQuiet, TokenInvOther
     DEF Next, Step
<1> QED BY <1>1, <1>2 DEF TokenInv

-----------------------------------------------------------------------------
\* The lock.

\* Steps of one request that start no run for a cache key and end no lock.
Locked(r) ==
  \/ \E k \in Keys : Register(r, k)
  \/ \E e \in Emails : RegisterUnkeyed(r, e)
  \/ \E t \in Tokens : VerifyEmail(r, t)
  \/ Recheck(r) \/ CreateUser(r) \/ IssueVerification(r) \/ SendMail(r)
  \/ CacheBody(r) \/ MarkVerified(r) \/ Panic(r)

\* A request runs for a key afterwards only if it ran for that key before.
LEMMA RunnersKept ==
  ASSUME Structure, NEW r \in Requests, Locked(r)
  PROVE  /\ UNCHANGED <<lock, resent>>
         /\ \A q \in Requests : req'[q].key \in Keys /\ req'[q].pc \in Running =>
              req[q].key = req'[q].key /\ req[q].pc \in Running
<1> USE NullsAssumption DEF Structure, At
<1>1. req \in [Requests -> Request]
  BY DEF TypeOK
<1>2. UNCHANGED <<lock, resent>>
  BY DEF Locked, Register, RegisterUnkeyed, VerifyEmail, Recheck, CreateUser,
         IssueVerification, SendMail, CacheBody, MarkVerified, Panic, redis
<1>3. CASE \E k \in Keys : Register(r, k)
  <2>1. PICK k \in Keys : Register(r, k)
    BY <1>3
  <2>2. CASE Finish(r)
    BY <1>1, <1>2, <2>2, FinishTyped
  <2>3. CASE req' = [req EXCEPT ![r] = [Idle EXCEPT !.pc = "setnx", !.key = k,
                                          !.email = EmailOf[k]]]
    BY <1>1, <1>2, <2>3 DEF Idle, Running
  <2> QED BY <2>1, <2>2, <2>3 DEF Register, Answer201
<1>4. CASE \E e \in Emails : RegisterUnkeyed(r, e)
  BY <1>1, <1>2, <1>4 DEF RegisterUnkeyed, Idle
<1>5. CASE \E t \in Tokens : VerifyEmail(r, t)
  BY <1>1, <1>2, <1>5 DEF VerifyEmail, Idle
<1>6. CASE Recheck(r)
  BY <1>1, <1>2, <1>6, FinishTyped DEF Recheck, Answer201
<1>7. CASE CreateUser(r)
  BY <1>1, <1>2, <1>7, GotoTyped, FailTyped DEF CreateUser, Labels, Running
<1>8. CASE IssueVerification(r)
  <2>1. CASE Fail(r)
    BY <1>1, <1>2, <1>8, <2>1, FailTyped DEF IssueVerification, Running
  <2>2. ASSUME NEW t \in Tokens,
               req' = [req EXCEPT ![r] = [@ EXCEPT !.pc = "mail", !.tok = t]]
        PROVE  req'[r].key = req[r].key /\ \A q \in Requests : q # r => req'[q] = req[q]
    <3> DEFINE q1 == [req[r] EXCEPT !.pc = "mail", !.tok = t]
    <3>1. q1.key = req[r].key
      BY <1>1 DEF Request
    <3>2. req' = [req EXCEPT ![r] = q1]
      BY <2>2
    <3> HIDE DEF q1
    <3> QED BY <1>1, <3>1, <3>2
  <2>3. req[r].pc \in Running
    BY <1>8 DEF IssueVerification, Running
  <2> QED BY <1>2, <1>8, <2>1, <2>2, <2>3 DEF IssueVerification
<1>9. CASE SendMail(r)
  BY <1>1, <1>2, <1>9, GotoTyped, FinishTyped, FailTyped DEF SendMail, Labels, Running
<1>10. CASE CacheBody(r)
  BY <1>1, <1>2, <1>10, GotoTyped DEF CacheBody, Labels, Running
<1>11. CASE MarkVerified(r) \/ Panic(r)
  BY <1>1, <1>2, <1>11, FinishTyped DEF MarkVerified, Panic
<1> QED BY <1>3, <1>4, <1>5, <1>6, <1>7, <1>8, <1>9, <1>10, <1>11 DEF Locked

LEMMA OneRunnerNext ==
  ASSUME Structure, OneRunnerPerKey, [Next]_vars
  PROVE  OneRunnerPerKey'
<1> USE DEF Structure
<1>1. /\ req \in [Requests -> Request] /\ lock \in [Keys -> BOOLEAN]
      /\ resent \subseteq Keys
  BY DEF TypeOK
<1>2. ASSUME NEW r \in Requests, Locked(r)
      PROVE  OneRunnerPerKey'
  BY <1>2, RunnersKept DEF OneRunnerPerKey, Runs
<1>3. ASSUME NEW r \in Requests, Acquire(r)
      PROVE  OneRunnerPerKey'
  <2> DEFINE k == req[r].key
  <2>1. req[r].pc = "setnx" /\ k \in Keys
    BY <1>3 DEF Acquire, At, TypeOK
  <2>2. CASE /\ Free(k) /\ lock' = [lock EXCEPT ![k] = TRUE] /\ Goto(r, "create")
             /\ resent' = IF \E q \in Requests : Runs(q, k) THEN resent ELSE resent \ {k}
    <3>1. /\ req'[r].key = k /\ \A q \in Requests : q # r => req'[q] = req[q]
      BY <1>1, <2>2, GotoTyped DEF Labels, Running
    <3>2. \A q \in Requests : Runs(q, k) => k \in resent /\ resent' = resent
      BY <2>1, <2>2 DEF OneRunnerPerKey, Free
    <3>3. /\ \A j \in Keys : j # k => lock'[j] = lock[j] /\ (j \in resent' <=> j \in resent)
          /\ lock'[k]
      BY <1>1, <2>1, <2>2
    <3>4. \A q \in Requests, j \in Keys : Runs(q, j)' => Runs(q, j) \/ (q = r /\ j = k)
      BY <3>1 DEF Runs
    <3> HIDE DEF k
    <3> QED BY <1>1, <2>1, <3>2, <3>3, <3>4 DEF OneRunnerPerKey
  <2>3. CASE /\ lock' \in {lock, [lock EXCEPT ![k] = TRUE]} /\ Goto(r, "recheck")
             /\ UNCHANGED resent
    <3>1. /\ req'[r].pc = "recheck" /\ \A q \in Requests : q # r => req'[q] = req[q]
      BY <1>1, <2>3, GotoTyped DEF Labels, Running
    <3> QED BY <1>1, <2>3, <3>1 DEF OneRunnerPerKey, Runs, Running
  <2> QED BY <1>3, <2>2, <2>3 DEF Acquire
<1>4. ASSUME NEW r \in Requests, Unlock(r)
      PROVE  OneRunnerPerKey'
  <2>1. /\ req'[r].pc = "idle" /\ \A q \in Requests : q # r => req'[q] = req[q]
        /\ lock' \in {lock, [lock EXCEPT ![req[r].key] = FALSE]} /\ UNCHANGED resent
        /\ Runs(r, req[r].key) /\ req[r].key \in Keys
    BY <1>1, <1>4, FinishTyped DEF Unlock, Answer201, At, TypeOK, Runs, Running
  <2>2. \A q \in Requests, k \in Keys : Runs(q, k)' => Runs(q, k) /\ q # r
    BY <2>1 DEF Runs, Running
  <2> QED BY <1>1, <2>1, <2>2 DEF OneRunnerPerKey
<1>5. ASSUME NEW k \in Keys, LockExpires(k)
      PROVE  OneRunnerPerKey'
  BY <1>1, <1>5 DEF LockExpires, OneRunnerPerKey, Runs
<1>6. CASE (\E k \in Keys : CacheExpires(k)) \/ (\E t \in Tokens : TokenExpires(t)) \/ UNCHANGED vars
  BY <1>6 DEF CacheExpires, TokenExpires, vars, redis, OneRunnerPerKey, Runs
<1>7. CASE Crash
  BY <1>7 DEF Crash, Idle, Running, OneRunnerPerKey, Runs
\* A DEL sent again withdraws the promise for its key; a SET NX sets a free lock.
<1>8. ASSUME NEW r \in Requests, Resend(r)
      PROVE  OneRunnerPerKey'
  BY <1>1, <1>8 DEF Resend, At, OneRunnerPerKey, Runs
<1> QED BY <1>2, <1>3, <1>4, <1>5, <1>6, <1>7, <1>8 DEF Next, Step, Locked

-----------------------------------------------------------------------------
\* The body of a 201.

\* A step after which no request has come past the insert, or made a body, anew.
Calm ==
  /\ users \subseteq users' /\ mailed \subseteq mailed'
  /\ \A q \in Requests : Past(q)' =>
       /\ Past(q) /\ req'[q].email = req[q].email
       /\ req'[q].pc \in {"issue", "mail"} => req[q].pc \in {"issue", "mail"}
  /\ \A e \in Emails, t \in Tokens : Body(e, t)' => Body(e, t)

LEMMA CalmKeeps ==
  ASSUME OnePast, OneBody, Calm
  PROVE  OnePast' /\ OneBody'
<1>1. OnePast'
  BY DEF OnePast, Calm
<1>2. \A q \in Requests : req'[q].pc \in {"issue", "mail"} =>
        req[q].pc \in {"issue", "mail"} /\ req'[q].email = req[q].email
  BY DEF Calm, Past
<1>3. OneBody'
  BY <1>2 DEF OneBody, Calm
<1> QED BY <1>1, <1>3

\* Where neither answers nor cache change, and one request goes on with the
\* body it had or with none, nothing is made anew.
LEMMA CalmRequest ==
  ASSUME NEW r \in Requests,
         users \subseteq users', mailed \subseteq mailed',
         UNCHANGED <<cache, answers>>,
         \A q \in Requests : q # r => req'[q] = req[q],
         \/ req'[r].pc \in {"idle", "setnx", "recheck", "create", "markVerified"}
         \/ req'[r].pc = "unlock" /\ req'[r].tok = NoToken
         \/ /\ req[r].pc = "issue" /\ req'[r].pc = "mail" /\ req'[r].email = req[r].email
         \/ /\ req[r].pc = "cache" /\ req'[r].pc = "unlock"
            /\ req'[r].email = req[r].email /\ req'[r].tok = req[r].tok
  PROVE  Calm
<1>1. \A e \in Emails, t \in Tokens : Body(e, t)' => Body(e, t)
  BY DEF Body
<1>2. \A q \in Requests : Past(q)' =>
        /\ Past(q) /\ req'[q].email = req[q].email
        /\ req'[q].pc \in {"issue", "mail"} => req[q].pc \in {"issue", "mail"}
  <2>1. CASE req'[r].pc \in {"idle", "setnx", "recheck", "create", "markVerified"}
             \/ (req'[r].pc = "unlock" /\ req'[r].tok = NoToken)
    BY <2>1 DEF Past
  <2>2. CASE req[r].pc = "issue" /\ req'[r].pc = "mail" /\ req'[r].email = req[r].email
    BY <2>2 DEF Past
  <2>3. CASE /\ req[r].pc = "cache" /\ req'[r].pc = "unlock"
             /\ req'[r].email = req[r].email /\ req'[r].tok = req[r].tok
    BY <2>3 DEF Past
  <2> QED BY <2>1, <2>2, <2>3
<1> QED BY <1>1, <1>2 DEF Calm

\* The request that hands out or stores a body that exists.
LEMMA CalmAnswer ==
  ASSUME Structure, NEW r \in Requests, NEW k \in Keys, NEW t \in Tokens,
         Body(EmailOf[k], t), UNCHANGED <<users, mailed>>,
         \/ Answer201(r, k, t) /\ UNCHANGED cache
         \/ /\ req[r].pc = "cache" /\ req[r].tok = t /\ req[r].email = EmailOf[k]
            /\ cache' = [cache EXCEPT ![k] = t] /\ UNCHANGED answers /\ Goto(r, "unlock")
  PROVE  Calm
<1> USE DEF Structure
<1>1. req \in [Requests -> Request] /\ answers \in [Keys -> SUBSET Tokens]
      /\ cache \in [Keys -> Tokens \cup {NoToken}] /\ EmailOf \in [Keys -> Emails]
      /\ NoToken \notin Tokens
  BY EmailOfAssumption, NullsAssumption DEF TypeOK
<1>2. CASE Answer201(r, k, t) /\ UNCHANGED cache
  <2>1. req'[r].pc = "idle" /\ \A q \in Requests : q # r => req'[q] = req[q]
    BY <1>1, <1>2, FinishTyped DEF Answer201
  <2>2. \A e \in Emails, s \in Tokens : Body(e, s)' => Body(e, s)
    <3>1. \A j \in Keys, s \in Tokens : s \in answers'[j] => s \in answers[j] \/ (j = k /\ s = t)
      BY <1>1, <1>2 DEF Answer201
    <3> QED BY <1>2, <2>1, <3>1 DEF Body
  <2> QED BY <2>1, <2>2 DEF Calm, Past
<1>3. CASE /\ req[r].pc = "cache" /\ req[r].tok = t /\ req[r].email = EmailOf[k]
           /\ cache' = [cache EXCEPT ![k] = t] /\ UNCHANGED answers /\ Goto(r, "unlock")
  <2>1. /\ req'[r].pc = "unlock" /\ req'[r].tok = t /\ req'[r].email = EmailOf[k]
        /\ \A q \in Requests : q # r => req'[q] = req[q]
    BY <1>1, <1>3, GotoTyped DEF Labels, Running
  <2>2. \A e \in Emails, s \in Tokens : Body(e, s)' => Body(e, s)
    <3>1. \A j \in Keys : cache'[j] = cache[j] \/ (j = k /\ cache'[j] = t)
      BY <1>1, <1>3
    <3> QED BY <1>3, <2>1, <3>1 DEF Body
  <2> QED BY <1>3, <2>1, <2>2 DEF Calm, Past
<1> QED BY <1>2, <1>3

\* RunIdempotent's steps.
LEMMA CalmCache ==
  ASSUME Structure, NEW r \in Requests,
         \/ \E k \in Keys : Register(r, k)
         \/ Acquire(r) \/ Recheck(r) \/ CacheBody(r) \/ Unlock(r)
  PROVE  Calm
<1> USE DEF Structure, At
<1>1. req \in [Requests -> Request] /\ cache \in [Keys -> Tokens \cup {NoToken}]
  BY DEF TypeOK
<1>2. UNCHANGED <<users, mailed>>
  BY DEF Register, Acquire, Recheck, CacheBody, Unlock, accounts
<1>3. CASE \E k \in Keys : Register(r, k)
  <2>1. PICK k \in Keys : Register(r, k)
    BY <1>3
  <2>2. UNCHANGED cache
    BY <2>1 DEF Register, redis
  <2>3. CASE cache[k] # NoToken /\ Answer201(r, k, cache[k])
    <3>1. cache[k] \in Tokens /\ Body(EmailOf[k], cache[k])
      BY <1>1, <2>3 DEF Body
    <3> QED BY <1>2, <2>2, <2>3, <3>1, CalmAnswer
  <2>4. CASE req' = [req EXCEPT ![r] = [Idle EXCEPT !.pc = "setnx", !.key = k,
                                          !.email = EmailOf[k]]] /\ UNCHANGED answers
    <3>1. req'[r].pc = "setnx" /\ \A q \in Requests : q # r => req'[q] = req[q]
      BY <1>1, <2>4 DEF Idle
    <3> QED BY <1>2, <2>2, <2>4, <3>1, CalmRequest
  <2> QED BY <2>1, <2>3, <2>4 DEF Register
<1>4. CASE Acquire(r)
  <2>1. /\ UNCHANGED <<cache, answers>> /\ req'[r].pc \in {"create", "recheck"}
        /\ \A q \in Requests : q # r => req'[q] = req[q]
    BY <1>1, <1>4, GotoTyped DEF Acquire, Labels, Running
  <2> QED BY <1>2, <2>1, CalmRequest
<1>5. CASE Recheck(r)
  <2> DEFINE k == req[r].key
  <2>1. k \in Keys /\ UNCHANGED cache
    BY <1>5 DEF Recheck, TypeOK, redis
  <2>2. CASE cache[k] # NoToken /\ Answer201(r, k, cache[k])
    <3>1. cache[k] \in Tokens /\ Body(EmailOf[k], cache[k])
      BY <1>1, <2>1, <2>2 DEF Body
    <3> QED BY <1>2, <2>1, <2>2, <3>1, CalmAnswer
  <2>3. CASE Finish(r) /\ UNCHANGED answers
    <3>1. req'[r].pc = "idle" /\ \A q \in Requests : q # r => req'[q] = req[q]
      BY <1>1, <2>3, FinishTyped
    <3> QED BY <1>2, <2>1, <2>3, <3>1, CalmRequest
  <2> QED BY <1>5, <2>2, <2>3 DEF Recheck
<1>6. CASE CacheBody(r)
  <2> DEFINE k == req[r].key
             t == req[r].tok
  <2>1. /\ req[r].pc = "cache" /\ k \in Keys /\ t \in Tokens /\ req[r].email = EmailOf[k]
        /\ UNCHANGED answers /\ Goto(r, "unlock")
    BY <1>6 DEF CacheBody, TypeOK, HasOperands
  <2>2. Body(EmailOf[k], t)
    BY <2>1, NullsAssumption DEF Body
  <2>3. CASE cache' = [cache EXCEPT ![k] = t]
    <3> HIDE DEF k, t
    <3> QED BY <1>2, <2>1, <2>2, <2>3, CalmAnswer DEF k, t
  <2>4. CASE UNCHANGED cache
    <3>1. /\ req'[r].pc = "unlock" /\ req'[r].email = req[r].email
          /\ req'[r].tok = req[r].tok /\ \A q \in Requests : q # r => req'[q] = req[q]
      BY <1>1, <2>1, GotoTyped DEF Labels, Running
    <3> QED BY <1>2, <2>1, <2>4, <3>1, CalmRequest
  <2> QED BY <1>6, <2>3, <2>4 DEF CacheBody
<1>7. CASE Unlock(r)
  <2> DEFINE k == req[r].key
             t == req[r].tok
  <2>1. /\ req[r].pc = "unlock" /\ k \in Keys /\ t \in Tokens \cup {NoToken}
        /\ req[r].email = EmailOf[k] /\ UNCHANGED cache
    BY <1>1, <1>7 DEF Unlock, TypeOK, HasOperands, Request
  <2>2. CASE t # NoToken /\ Answer201(r, k, t)
    <3>1. t \in Tokens /\ Body(EmailOf[k], t)
      BY <2>1, <2>2 DEF Body
    <3> QED BY <1>2, <2>1, <2>2, <3>1, CalmAnswer
  <2>3. CASE Finish(r) /\ UNCHANGED answers
    <3>1. req'[r].pc = "idle" /\ \A q \in Requests : q # r => req'[q] = req[q]
      BY <1>1, <2>3, FinishTyped
    <3> QED BY <1>2, <2>1, <2>3, <3>1, CalmRequest
  <2> QED BY <1>7, <2>2, <2>3 DEF Unlock
<1> QED BY <1>3, <1>4, <1>5, <1>6, <1>7

\* The other steps, but for the two that come past the insert or make a body.
LEMMA CalmOther ==
  ASSUME Structure,
         \/ \E r \in Requests :
              \/ \E e \in Emails : RegisterUnkeyed(r, e)
              \/ \E t \in Tokens : VerifyEmail(r, t)
              \/ IssueVerification(r) \/ MarkVerified(r) \/ Panic(r) \/ Resend(r)
              \/ (CreateUser(r) \/ SendMail(r)) /\ (Fail(r) \/ Finish(r))
         \/ \E k \in Keys : CacheExpires(k) \/ LockExpires(k)
         \/ \E t \in Tokens : TokenExpires(t)
         \/ Crash \/ UNCHANGED vars
  PROVE  Calm
<1> USE DEF Structure, At
<1>1. req \in [Requests -> Request] /\ cache \in [Keys -> Tokens \cup {NoToken}]
  BY DEF TypeOK
<1>2. ASSUME NEW r \in Requests,
             \/ \E e \in Emails : RegisterUnkeyed(r, e)
             \/ \E t \in Tokens : VerifyEmail(r, t)
             \/ MarkVerified(r) \/ Panic(r)
             \/ (CreateUser(r) \/ SendMail(r)) /\ (Fail(r) \/ Finish(r))
      PROVE  Calm
  <2>1. users \subseteq users' /\ mailed \subseteq mailed' /\ UNCHANGED <<cache, answers>>
    BY <1>2 DEF RegisterUnkeyed, VerifyEmail, MarkVerified, Panic, CreateUser, SendMail,
                accounts, redis
  <2>2. /\ \/ req'[r].pc \in {"idle", "create", "markVerified"}
           \/ req'[r].pc = "unlock" /\ req'[r].tok = NoToken
        /\ \A q \in Requests : q # r => req'[q] = req[q]
    <3>1. CASE \E e \in Emails : RegisterUnkeyed(r, e)
      BY <1>1, <3>1 DEF RegisterUnkeyed, Idle
    <3>2. CASE \E t \in Tokens : VerifyEmail(r, t)
      BY <1>1, <3>2 DEF VerifyEmail, Idle
    <3>3. CASE MarkVerified(r) \/ Panic(r)
      BY <1>1, <3>3, FinishTyped DEF MarkVerified, Panic
    <3>4. CASE Fail(r) \/ Finish(r)
      BY <1>1, <3>4, FinishTyped, FailTyped
    <3> QED BY <1>2, <3>1, <3>2, <3>3, <3>4
  <2> QED BY <2>1, <2>2, CalmRequest
<1>3. ASSUME NEW r \in Requests, IssueVerification(r)
      PROVE  Calm
  <2>1. UNCHANGED <<users, mailed, cache, answers>> /\ req[r].pc = "issue"
    BY <1>3 DEF IssueVerification, accounts, redis
  <2>2. CASE Fail(r)
    BY <1>1, <2>1, <2>2, FailTyped, CalmRequest
  <2>3. ASSUME NEW t \in Tokens,
               req' = [req EXCEPT ![r] = [@ EXCEPT !.pc = "mail", !.tok = t]]
        PROVE  Calm
    <3> DEFINE q1 == [req[r] EXCEPT !.pc = "mail", !.tok = t]
    <3>1. q1.pc = "mail" /\ q1.email = req[r].email
      BY <1>1 DEF Request
    <3>2. req' = [req EXCEPT ![r] = q1]
      BY <2>3
    <3> HIDE DEF q1
    <3>3. /\ req'[r].pc = "mail" /\ req'[r].email = req[r].email
          /\ \A q \in Requests : q # r => req'[q] = req[q]
      BY <1>1, <3>1, <3>2
    <3> QED BY <2>1, <3>3, CalmRequest
  <2> QED BY <1>3, <2>2, <2>3 DEF IssueVerification
<1>4. CASE \E k \in Keys : CacheExpires(k)
  <2>1. PICK k \in Keys : CacheExpires(k)
    BY <1>4
  <2>2. /\ UNCHANGED <<users, mailed, answers, req>>
        /\ \A j \in Keys : cache'[j] = cache[j] \/ cache'[j] = NoToken
    BY <1>1, <2>1 DEF CacheExpires, accounts
  <2> QED BY <2>2 DEF Calm, Body, Past
<1>5. CASE \/ \E k \in Keys : LockExpires(k)
           \/ \E t \in Tokens : TokenExpires(t)
           \/ \E r \in Requests : Resend(r)
           \/ UNCHANGED vars
  <2>1. UNCHANGED <<users, mailed, answers, req, cache>>
    BY <1>5 DEF LockExpires, TokenExpires, Resend, vars, accounts, redis
  <2> QED BY <2>1 DEF Calm, Body, Past
<1>6. CASE Crash
  <2>1. /\ UNCHANGED <<users, mailed, answers, cache>>
        /\ \A q \in Requests : req'[q].pc = "idle"
    BY <1>6 DEF Crash, Idle, accounts, redis
  <2> QED BY <2>1 DEF Calm, Body, Past
<1> QED BY <1>2, <1>3, <1>4, <1>5, <1>6

LEMMA OneBodyNext ==
  ASSUME Structure, OnePast, OneBody, [Next]_vars
  PROVE  OnePast' /\ OneBody'
<1> USE DEF Structure, At
<1>1. req \in [Requests -> Request]
  BY DEF TypeOK
<1>2. ASSUME NEW r \in Requests, CreateUser(r), Goto(r, "issue"), Insertable(req[r].email),
             users' = users \cup {req[r].email}
      PROVE  OnePast' /\ OneBody'
  <2>1. /\ UNCHANGED <<cache, answers, mailed>> /\ req[r].pc = "create"
        /\ req'[r].pc = "issue" /\ req'[r].email = req[r].email
        /\ \A q \in Requests : q # r => req'[q] = req[q]
        /\ req[r].email \notin users
    BY <1>1, <1>2, GotoTyped DEF CreateUser, redis, Insertable, Labels, Running
  <2>2. \A q \in Requests : Past(q)' => q = r \/ Past(q)
    BY <2>1 DEF Past
  <2>3. \A q \in Requests : Past(q) => req[q].email # req[r].email
    BY <2>1 DEF OnePast
  <2>4. OnePast'
    BY <1>2, <2>1, <2>2, <2>3 DEF OnePast
  <2>5. \A e \in Emails, t \in Tokens : Body(e, t)' => Body(e, t)
    BY <2>1 DEF Body
  <2>6. OneBody'
    BY <1>2, <2>1, <2>5 DEF OneBody
  <2> QED BY <2>4, <2>6
<1>3. ASSUME NEW r \in Requests, SendMail(r), Goto(r, "cache"),
             mailed' = mailed \cup {req[r].tok}
      PROVE  OnePast' /\ OneBody'
  <2>1. /\ UNCHANGED <<cache, answers, users>> /\ req[r].pc = "mail"
        /\ req'[r].pc = "cache" /\ req'[r].email = req[r].email /\ req'[r].tok = req[r].tok
        /\ \A q \in Requests : q # r => req'[q] = req[q]
        /\ req[r].tok \in Tokens
    BY <1>1, <1>3, GotoTyped DEF SendMail, redis, accounts, Labels, Running, HasOperands
  <2>2. \A q \in Requests : Past(q)' => Past(q)
    BY <2>1 DEF Past
  <2>3. OnePast'
    BY <2>1, <2>2 DEF OnePast
  <2>4. \A e \in Emails, t \in Tokens :
          Body(e, t)' => Body(e, t) \/ (e = req[r].email /\ t = req[r].tok)
    BY <2>1 DEF Body
  <2>5. \A t \in Tokens : ~Body(req[r].email, t)
    <3>1. req[r].email \in Emails
      BY <2>1 DEF HasOperands
    <3> QED BY <2>1, <3>1 DEF OneBody
  <2>6. /\ req[r].email \in users
        /\ \A q \in Requests : req[q].pc \in {"issue", "mail"} /\ req[q].email = req[r].email
              => q = r
    BY <2>1 DEF OnePast, Past
  <2>7. OneBody'
    BY <1>3, <2>1, <2>4, <2>5, <2>6 DEF OneBody
  <2> QED BY <2>3, <2>7
<1>4. CASE Calm
  BY <1>4, CalmKeeps
<1>5. ASSUME NEW r \in Requests, CreateUser(r) \/ SendMail(r)
      PROVE  OnePast' /\ OneBody'
  BY <1>2, <1>3, <1>4, <1>5, CalmOther DEF CreateUser, SendMail
<1> QED BY <1>4, <1>5, CalmCache, CalmOther DEF Next, Step

-----------------------------------------------------------------------------
(* Every variable keeps its type, and no request without a cache key comes  *)
(* to the cache or to a lock (http.go:112-131, handler/auth.go:50-57).      *)
THEOREM TypeCorrect == Spec => []TypeOK
<1>1. TokenInv => TypeOK
  BY DEF TokenInv, Structure
<1> QED BY TokenInvInit, TokenInvNext, <1>1, PTL DEF Spec

(* Registration implements OneTimeToken: a verification token acts once,    *)
(* after it was mailed, on the account it was issued for, for any number of *)
(* addresses, tokens and requests and under every fault (onetime.go:46-58). *)
THEOREM RefinesOneTimeToken == Spec => ImplementsOneTimeToken
<1>1. Init => OneTime!Init
  BY DEF Init, OneTime!Init, stage, Claimed, Consumable, At, Idle
<1> QED BY TokenInvInit, TokenInvNext, <1>1, PTL DEF Spec, ImplementsOneTimeToken, OneTime!Spec

(* At most one request runs fn for a cache key, and the lock is set as long *)
(* as it does, whatever fails, unless the DEL of the lock was sent again    *)
(* since a request last ran alone (http.go:115-131, redis.go:27).           *)
THEOREM OneRunner == Spec => []OneRunnerPerKey
<1>1. Init => OneRunnerPerKey
  BY DEF Init, OneRunnerPerKey, Runs, Idle, Running
<1>2. TokenInv /\ OneRunnerPerKey /\ [Next]_vars => OneRunnerPerKey'
  BY OneRunnerNext DEF TokenInv
<1> QED BY <1>1, <1>2, TokenInvInit, TokenInvNext, PTL DEF Spec

(* All the 201 answers for an address carry one body, whose token was       *)
(* mailed, under any cache key and after the cache has expired              *)
(* (http.go:110, auth.go:100-108).                                          *)
THEOREM OneBodyAnswered == Spec => []OneBodyPerEmail
<1>1. Init => OnePast /\ OneBody
  BY NullsAssumption DEF Init, OnePast, OneBody, Past, Body, Idle
<1>2. TokenInv /\ OnePast /\ OneBody /\ [Next]_vars => (OnePast /\ OneBody)'
  BY OneBodyNext DEF TokenInv
<1>3. TokenInv /\ OneBody => OneBodyPerEmail
  BY EmailOfAssumption DEF TokenInv, Structure, TypeOK, OneBody, OneBodyPerEmail, Body
<1> QED BY <1>1, <1>2, <1>3, TokenInvInit, TokenInvNext, PTL DEF Spec
=============================================================================
