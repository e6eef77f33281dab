------------------------- MODULE AccessTokensProofs -------------------------
(***************************************************************************)
(* Proofs about AccessTokens, for any lifetimes, deadlines and numbers of  *)
(* tokens and requests.                                                    *)
(***************************************************************************)
EXTENDS AccessTokens, TLAPS

-----------------------------------------------------------------------------
\* What a request, a token and the blacklist know of each other.

\* Only a logout makes a blacklist entry, and not one shorter than its token ...
EntriesLoggedOut == \A t \in Tokens : t \notin out => black[t] = 0

\* ... because the time to live was right when it was computed, and time only passed.
PendingCovers ==
  \A r \in Requests : At(r, "add") =>
    /\ left[req[r].tok] <= req[r].ttl
    /\ InTime(r) => req[r].ttl <= left[req[r].tok] + req[r].age

\* A request that came late presents a token that was logged out.
LateLoggedOut == \A r \in Requests : At(r, "exists") /\ req[r].late => req[r].tok \in out

Blacklisting == EntriesLoggedOut /\ PendingCovers /\ LateLoggedOut /\ BlacklistMatches

\* A permission about to be signed was held when the request read it ...
SigningFresh ==
  \A r \in Requests : At(r, "sign") /\ req[r].perm /\ InTime(r) => since <= req[r].age

\* ... one that was signed, when the token was a request's deadline old at most ...
ClaimsFresh ==
  \A t \in carries : left[t] > 0 => since + left[t] <= (Deadline - 1) + AccessTTL

\* ... and the token had not expired when the request that uses it arrived.
UseFresh ==
  \A r \in Requests : req[r].pc \in {"exists", "me"} /\ InTime(r) =>
    /\ At(r, "me") => req[r].tok \in carries
    /\ req[r].tok \in carries => since + 1 <= (Deadline - 1) + AccessTTL + req[r].age

\* The count starts when the permission is withdrawn.
GrantedNow == granted => since = 0

Freshness == GrantedNow /\ SigningFresh /\ ClaimsFresh /\ UseFresh

-----------------------------------------------------------------------------
\* A token is signed for at least one tick and at most its time to live.
LEMMA UntilExpBounds ==
  ASSUME phase \in 0 .. Second - 1
  PROVE  UntilExp \in 1 .. AccessTTL
<1>1. (phase + AccessTTL) % Second \in 0 .. Second - 1
  BY SecondAssumption, AccessTTLAssumption
<1> QED BY <1>1, SecondAssumption, AccessTTLAssumption DEF UntilExp

\* The countdown of a time to live.
LEMMA LessOneBounds ==
  ASSUME NEW n \in Nat
  PROVE  /\ LessOne(n) \in Nat /\ LessOne(n) <= n
         /\ n > 0 => LessOne(n) = n - 1
         /\ n = 0 => LessOne(n) = 0
BY DEF LessOne

\* The age of a request and of a withdrawal, which stop at a bound.
LEMMA OneMoreBounds ==
  ASSUME NEW max \in Nat, NEW n \in 0 .. max
  PROVE  /\ OneMore(n, max) \in 0 .. max
         /\ OneMore(n, max) <= n + 1
         /\ OneMore(n, max) < max => OneMore(n, max) = n + 1
BY DEF OneMore

LEMMA HorizonNat == Horizon \in Nat /\ Horizon + 2 = Deadline + AccessTTL + Deadline
BY DeadlineAssumption, AccessTTLAssumption DEF Horizon

\* A worker that does nothing.
LEMMA IdleTyped ==
  /\ Idle \in Request
  /\ Idle.pc = "idle" /\ Idle.tok = NoToken /\ Idle.ttl = 0 /\ Idle.age = 0
<1>1. 0 \in 0 .. Deadline /\ 0 \in 0 .. AccessTTL
  BY DeadlineAssumption, AccessTTLAssumption, SecondAssumption
<1> QED BY <1>1 DEF Idle, Request, Labels, Serving, Routes

\* Moving a request to another label keeps what else is known of the requests.
LEMMA GotoTyped ==
  ASSUME req \in [Requests -> Request], NEW r \in Requests, NEW l \in Labels, Goto(r, l)
  PROVE  /\ req' \in [Requests -> Request]
         /\ req'[r].pc = l
         /\ req'[r].tok = req[r].tok /\ req'[r].age = req[r].age /\ req'[r].perm = req[r].perm
         /\ \A q \in Requests : q # r => req'[q] = req[q]
BY DEF Goto, Request

\* So does ending it.
LEMMA FinishTyped ==
  ASSUME req \in [Requests -> Request], NEW r \in Requests, Finish(r)
  PROVE  /\ req' \in [Requests -> Request]
         /\ req'[r] = Idle /\ req'[r].pc = "idle"
         /\ \A q \in Requests : q # r => req'[q] = req[q]
BY IdleTyped DEF Finish

\* The requests that IssueTokens, Authenticate and Until write.
LEMMA IssueTyped ==
  ASSUME TypeOK, NEW r \in Requests, IssueTokens(r)
  PROVE  /\ req' \in [Requests -> Request]
         /\ req'[r].pc = "sign" /\ req'[r].perm = granted /\ req'[r].age = 0
         /\ \A q \in Requests : q # r => req'[q] = req[q]
<1>1. 0 \in 0 .. Deadline /\ 0 \in 0 .. AccessTTL
  BY DeadlineAssumption, AccessTTLAssumption, SecondAssumption
<1> DEFINE q1 == [Idle EXCEPT !.pc = "sign", !.perm = granted]
<1>2. q1 \in Request /\ q1.pc = "sign" /\ q1.perm = granted /\ q1.age = 0
  BY <1>1 DEF Idle, TypeOK, Request, Labels, Routes
<1>3. req' = [req EXCEPT ![r] = q1]
  BY DEF IssueTokens
<1>4. req \in [Requests -> Request]
  BY DEF TypeOK
<1> HIDE DEF q1
<1> QED BY <1>2, <1>3, <1>4

LEMMA AuthenticateTyped ==
  ASSUME TypeOK, NEW r \in Requests, NEW t \in Tokens, NEW route \in Routes,
         Authenticate(r, t, route)
  PROVE  /\ req' \in [Requests -> Request]
         /\ req'[r].pc = "exists" /\ req'[r].tok = t /\ req'[r].age = 0
         /\ req'[r].late = (t \in out)
         /\ \A q \in Requests : q # r => req'[q] = req[q]
<1>1. 0 \in 0 .. Deadline /\ 0 \in 0 .. AccessTTL
  BY DeadlineAssumption, AccessTTLAssumption, SecondAssumption
<1> DEFINE late == t \in out
           q1 == [Idle EXCEPT !.pc = "exists", !.tok = t, !.route = route, !.late = late]
<1>2. late \in BOOLEAN
  OBVIOUS
<1>3. req' = [req EXCEPT ![r] = q1]
  BY DEF Authenticate
<1>4. req \in [Requests -> Request]
  BY DEF TypeOK
<1>5. q1 \in Request /\ q1.pc = "exists" /\ q1.tok = t /\ q1.age = 0 /\ q1.late = late
  <2> HIDE DEF late
  <2> QED BY <1>1, <1>2 DEF Idle, Request, Labels, Routes
<1>6. /\ req' \in [Requests -> Request]
      /\ req'[r].pc = "exists" /\ req'[r].tok = t /\ req'[r].age = 0 /\ req'[r].late = late
      /\ \A q \in Requests : q # r => req'[q] = req[q]
  <2> HIDE DEF q1, late
  <2> QED BY <1>3, <1>4, <1>5
<1> QED BY <1>6

LEMMA UntilTyped ==
  ASSUME TypeOK, NEW r \in Requests, Until(r), ~Finish(r)
  PROVE  /\ req' \in [Requests -> Request]
         /\ req[r].tok \in issued /\ left[req[r].tok] \in 1 .. AccessTTL
         /\ req'[r].pc = "add" /\ req'[r].tok = req[r].tok /\ req'[r].age = req[r].age
         /\ req'[r].ttl = left[req[r].tok]
         /\ \A q \in Requests : q # r => req'[q] = req[q]
<1>1. /\ req' = [req EXCEPT ![r] = [@ EXCEPT !.pc = "add", !.ttl = left[req[r].tok]]]
      /\ left[req[r].tok] > 0
  BY DEF Until
<1>2. req[r].tok \in issued /\ left[req[r].tok] \in 0 .. AccessTTL
  BY DEF Until, TypeOK, At, Serving
<1>3. left[req[r].tok] \in 1 .. AccessTTL
  BY <1>1, <1>2, AccessTTLAssumption, SecondAssumption
<1> DEFINE ttl == left[req[r].tok]
           q1 == [req[r] EXCEPT !.pc = "add", !.ttl = ttl]
<1>4. req \in [Requests -> Request]
  BY DEF TypeOK
<1>5. /\ q1 \in Request /\ q1.pc = "add" /\ q1.tok = req[r].tok /\ q1.age = req[r].age
      /\ q1.ttl = ttl
  <2>1. ttl \in 0 .. AccessTTL
    BY <1>2
  <2> HIDE DEF ttl
  <2> QED BY <2>1, <1>4 DEF Request, Labels
<1>6. req' = [req EXCEPT ![r] = q1]
  BY <1>1
<1> HIDE DEF q1
<1> QED BY <1>2, <1>3, <1>4, <1>5, <1>6

\* A tick lets every request that is under way grow older, and nothing else.
LEMMA TickTyped ==
  ASSUME TypeOK, Tick
  PROVE  /\ req' \in [Requests -> Request]
         /\ \A r \in Requests :
              /\ req'[r].pc = req[r].pc /\ req'[r].tok = req[r].tok /\ req'[r].ttl = req[r].ttl
              /\ req'[r].perm = req[r].perm /\ req'[r].late = req[r].late
              /\ req'[r].age = IF At(r, "idle") THEN req[r].age ELSE OneMore(req[r].age, Deadline)
<1>1. \A r \in Requests : OneMore(req[r].age, Deadline) \in 0 .. Deadline
  BY DeadlineAssumption, OneMoreBounds DEF TypeOK, Request
<1> DEFINE older(r) == [req[r] EXCEPT !.age = OneMore(req[r].age, Deadline)]
<1>2. req \in [Requests -> Request]
  BY DEF TypeOK
<1>3. \A r \in Requests :
        /\ older(r) \in Request
        /\ older(r).pc = req[r].pc /\ older(r).tok = req[r].tok /\ older(r).ttl = req[r].ttl
        /\ older(r).perm = req[r].perm /\ older(r).late = req[r].late
        /\ older(r).age = OneMore(req[r].age, Deadline)
  BY <1>1, <1>2 DEF Request
<1>4. req' = [r \in Requests |-> IF At(r, "idle") THEN req[r] ELSE older(r)]
  BY DEF Tick
<1> HIDE DEF older
<1> QED BY <1>2, <1>3, <1>4

-----------------------------------------------------------------------------
\* Type correctness, action by action.

LEMMA TypeInit == Init => TypeOK
<1> SUFFICES ASSUME Init PROVE TypeOK
  OBVIOUS
<1>1. 0 \in 0 .. AccessTTL /\ 0 \in 0 .. Horizon /\ Horizon \in 0 .. Horizon
  BY SecondAssumption, HorizonNat, AccessTTLAssumption
<1>2. req \in [Requests -> Request] /\ \A r \in Requests : req[r].pc = "idle"
  BY IdleTyped DEF Init
<1> QED BY <1>1, <1>2 DEF Init, TypeOK, At, Serving

LEMMA TypeStep == TypeOK /\ [Next]_vars => TypeOK'
<1> SUFFICES ASSUME TypeOK, [Next]_vars
             PROVE  TypeOK'
  OBVIOUS
<1> USE DEF TypeOK, Serving, tokens, At
<1>1. ASSUME NEW r \in Requests, IssueTokens(r)
      PROVE  TypeOK'
  BY <1>1, IssueTyped DEF IssueTokens
<1>2. ASSUME NEW r \in Requests, Sign(r)
      PROVE  TypeOK'
  <2>1. /\ req' \in [Requests -> Request]
        /\ req'[r].pc = "idle" /\ \A q \in Requests : q # r => req'[q] = req[q]
    BY <1>2, FinishTyped DEF Sign
  <2>2. UntilExp \in 0 .. AccessTTL
    BY UntilExpBounds, AccessTTLAssumption, SecondAssumption
  <2>3. /\ issued' \subseteq Tokens /\ carries' \subseteq issued' /\ issued \subseteq issued'
        /\ left' \in [Tokens -> 0 .. AccessTTL]
    BY <1>2, <2>2 DEF Sign
  <2> QED BY <1>2, <2>1, <2>3 DEF Sign
<1>3. ASSUME NEW r \in Requests, NEW t \in Tokens, NEW route \in Routes, Authenticate(r, t, route)
      PROVE  TypeOK'
  <2>1. t \in issued
    BY <1>3 DEF Authenticate
  <2>2. /\ req' \in [Requests -> Request] /\ req'[r].pc = "exists" /\ req'[r].tok = t
        /\ \A q \in Requests : q # r => req'[q] = req[q]
    BY <1>3, AuthenticateTyped
  <2>3. UNCHANGED <<phase, granted, tokens, black, out, since>>
    BY <1>3 DEF Authenticate
  <2> QED BY <2>1, <2>2, <2>3
<1>4. ASSUME NEW r \in Requests, Blacklisted(r)
      PROVE  TypeOK'
  <2>1. CASE Goto(r, req[r].route)
    <3>1. req[r].route \in {"me", "logout"} /\ req[r].route \in Labels
      BY DEF Request, Routes, Labels
    <3> QED BY <1>4, <2>1, <3>1, GotoTyped DEF Blacklisted
  <2>2. CASE Finish(r)
    BY <1>4, <2>2, FinishTyped DEF Blacklisted
  <2> QED BY <1>4, <2>1, <2>2 DEF Blacklisted
<1>5. ASSUME NEW r \in Requests, Me(r)
      PROVE  TypeOK'
  BY <1>5, FinishTyped DEF Me
<1>6. ASSUME NEW r \in Requests, Until(r)
      PROVE  TypeOK'
  <2>1. CASE Finish(r)
    BY <1>6, <2>1, FinishTyped DEF Until
  <2>2. CASE ~Finish(r)
    <3>1. req'[r].ttl > 0
      BY <1>6, <2>2, UntilTyped
    <3> QED BY <1>6, <2>2, <3>1, UntilTyped DEF Until
  <2> QED BY <2>1, <2>2
<1>7. ASSUME NEW r \in Requests, Add(r)
      PROVE  TypeOK'
  <2>1. req[r].tok \in issued /\ req[r].ttl \in 0 .. AccessTTL
    BY <1>7 DEF Add, Request
  <2> QED BY <1>7, <2>1, FinishTyped DEF Add
<1>8. CASE SetPermission
  <2>1. since' \in 0 .. Horizon
    BY <1>8, HorizonNat DEF SetPermission
  <2> QED BY <1>8, <2>1 DEF SetPermission
<1>9. CASE Tick
  <2>1. phase' \in 0 .. Second - 1
    BY <1>9, SecondAssumption DEF Tick
  <2>2. left' \in [Tokens -> 0 .. AccessTTL] /\ black' \in [Tokens -> 0 .. AccessTTL]
    BY <1>9, AccessTTLAssumption, SecondAssumption DEF Tick, LessOne
  <2>3. since' \in 0 .. Horizon
    BY <1>9, HorizonNat DEF Tick, OneMore
  <2> QED BY <1>9, <2>1, <2>2, <2>3, TickTyped DEF Tick
<1>10. CASE Crash
  BY <1>10, IdleTyped DEF Crash
<1>11. CASE UNCHANGED vars
  BY <1>11 DEF vars
<1> QED
  BY <1>1, <1>2, <1>3, <1>4, <1>5, <1>6, <1>7, <1>8, <1>9, <1>10, <1>11 DEF Next, Step

(* Every variable keeps its type, and no blacklist entry is written without *)
(* a time to live (auth.go:171).                                            *)
THEOREM TypeCorrect == Spec => []TypeOK
<1>1. Init => TypeOK
  BY TypeInit
<1>2. TypeOK /\ [Next]_vars => TypeOK'
  BY TypeStep
<1> QED BY <1>1, <1>2, PTL DEF Spec

-----------------------------------------------------------------------------
\* The blacklist.

LEMMA BlacklistInit == Init => Blacklisting
<1> SUFFICES ASSUME Init PROVE Blacklisting
  OBVIOUS
<1>1. \A r \in Requests : req[r].pc = "idle"
  BY IdleTyped DEF Init
<1>2. out = {} /\ \A t \in Tokens : black[t] = 0
  BY DEF Init
<1> QED
  BY <1>1, <1>2
     DEF Blacklisting, EntriesLoggedOut, PendingCovers, LateLoggedOut, BlacklistMatches, At

LEMMA BlacklistStep == TypeOK /\ Blacklisting /\ [Next]_vars => Blacklisting'
<1> SUFFICES ASSUME TypeOK, Blacklisting, [Next]_vars
             PROVE  Blacklisting'
  OBVIOUS
<1> USE DEF Blacklisting, EntriesLoggedOut, PendingCovers, LateLoggedOut, BlacklistMatches, At,
            InTime, Serving, tokens
<1>0. /\ req \in [Requests -> Request] /\ out \subseteq issued /\ issued \subseteq Tokens
      /\ \A t \in Tokens : left[t] \in Nat /\ black[t] \in Nat
      /\ \A r \in Requests : req[r].age \in Nat /\ req[r].ttl \in Nat
      /\ \A r \in Requests : req[r].pc \in {"exists", "add"} => req[r].tok \in issued
      /\ Deadline \in Nat /\ Deadline > 0
  BY DeadlineAssumption, AccessTTLAssumption, SecondAssumption DEF TypeOK, Request
<1>1. ASSUME NEW r \in Requests, IssueTokens(r)
      PROVE  Blacklisting'
  BY <1>1, IssueTyped DEF IssueTokens
<1>2. ASSUME NEW r \in Requests, Sign(r)
      PROVE  Blacklisting'
  <2>1. req'[r].pc = "idle" /\ \A q \in Requests : q # r => req'[q] = req[q]
    BY <1>0, <1>2, FinishTyped DEF Sign
  <2>2. UNCHANGED <<black, out>>
    BY <1>2 DEF Sign
  <2>3. \A t \in issued : left'[t] = left[t]
    BY <1>0, <1>2 DEF Sign, TypeOK
  <2>4. \A t \in Tokens : left'[t] = left[t] \/ t \notin issued
    BY <2>3
  <2>5. \A t \in Tokens : t \notin issued => black'[t] = 0
    BY <1>0, <2>2
  <2>6. EntriesLoggedOut' /\ LateLoggedOut'
    BY <2>1, <2>2
  <2>7. PendingCovers'
    BY <1>0, <2>1, <2>3
  <2>8. BlacklistMatches'
    BY <1>0, <2>2, <2>4, <2>5
  <2> QED BY <2>6, <2>7, <2>8
<1>3. ASSUME NEW r \in Requests, NEW t \in Tokens, NEW route \in Routes, Authenticate(r, t, route)
      PROVE  Blacklisting'
  <2>1. /\ req'[r].pc = "exists" /\ req'[r].tok = t /\ req'[r].late = (t \in out)
        /\ \A q \in Requests : q # r => req'[q] = req[q]
    BY <1>3, AuthenticateTyped
  <2>2. UNCHANGED <<left, black, out>>
    BY <1>3 DEF Authenticate
  <2>3. EntriesLoggedOut' /\ PendingCovers' /\ BlacklistMatches'
    BY <2>1, <2>2
  <2>4. LateLoggedOut'
    BY <2>1, <2>2
  <2> QED BY <2>3, <2>4
<1>4. ASSUME NEW r \in Requests, Blacklisted(r)
      PROVE  Blacklisting'
  <2>1. req[r].route \in {"me", "logout"} /\ req[r].route \in Labels
    BY <1>0 DEF Request, Routes, Labels
  <2>2. req'[r].pc \in {"idle", "me", "logout"} /\ \A q \in Requests : q # r => req'[q] = req[q]
    BY <1>0, <1>4, <2>1, GotoTyped, FinishTyped DEF Blacklisted
  <2> QED BY <1>4, <2>2 DEF Blacklisted
<1>5. ASSUME NEW r \in Requests, Me(r)
      PROVE  Blacklisting'
  BY <1>0, <1>5, FinishTyped DEF Me
<1>6. ASSUME NEW r \in Requests, Until(r)
      PROVE  Blacklisting'
  <2>1. UNCHANGED <<left, black, out>>
    BY <1>6 DEF Until
  <2>2. CASE Finish(r)
    BY <1>0, <2>1, <2>2, FinishTyped
  <2>3. CASE ~Finish(r)
    <3>1. /\ req'[r].pc = "add" /\ req'[r].tok = req[r].tok /\ req'[r].age = req[r].age
          /\ req'[r].ttl = left[req[r].tok] /\ req[r].tok \in Tokens
          /\ \A q \in Requests : q # r => req'[q] = req[q]
      BY <1>0, <1>6, <2>3, UntilTyped
    <3> QED BY <1>0, <2>1, <3>1
  <2> QED BY <2>2, <2>3
<1>7. ASSUME NEW r \in Requests, Add(r)
      PROVE  Blacklisting'
  <2>1. req'[r].pc = "idle" /\ \A q \in Requests : q # r => req'[q] = req[q]
    BY <1>0, <1>7, FinishTyped DEF Add
  <2>2. UNCHANGED left
    BY <1>7 DEF Add
  <2>3. CASE UNCHANGED <<black, out>>
    BY <2>1, <2>2, <2>3
  <2>4. CASE /\ InTime(r) /\ black' = [black EXCEPT ![req[r].tok] = req[r].ttl]
             /\ out' = out \cup {req[r].tok}
    <3>1. /\ req[r].tok \in Tokens /\ left[req[r].tok] <= req[r].ttl
          /\ req[r].ttl <= left[req[r].tok] + req[r].age /\ req[r].age < Deadline
      BY <1>0, <1>7, <2>4 DEF Add
    <3>2. /\ black'[req[r].tok] = req[r].ttl
          /\ \A t \in Tokens : t # req[r].tok => black'[t] = black[t]
      BY <2>4, <3>1 DEF TypeOK
    <3>3. EntriesLoggedOut' /\ LateLoggedOut' /\ PendingCovers'
      BY <2>1, <2>2, <2>4, <3>2
    <3>4. BlacklistMatches'
      <4> SUFFICES ASSUME NEW t \in Tokens
                   PROVE  /\ t \in out' => black'[t] >= left[t]
                          /\ black'[t] < left[t] + Deadline \/ black'[t] = 0
        BY <2>2
      <4>1. CASE t = req[r].tok
        BY <1>0, <3>1, <3>2, <4>1
      <4>2. CASE t # req[r].tok
        BY <2>4, <3>2, <4>2
      <4> QED BY <4>1, <4>2
    <3> QED BY <3>3, <3>4
  <2> QED BY <1>7, <2>3, <2>4 DEF Add
<1>8. CASE SetPermission
  BY <1>8 DEF SetPermission
<1>9. CASE Tick
  <2>1. /\ out' = out
        /\ \A t \in Tokens : left'[t] = LessOne(left[t]) /\ black'[t] = LessOne(black[t])
    BY <1>9 DEF Tick
  <2>2. \A r \in Requests :
          /\ req'[r].pc = req[r].pc /\ req'[r].tok = req[r].tok /\ req'[r].ttl = req[r].ttl
          /\ req'[r].late = req[r].late
          /\ At(r, "add") => req'[r].age = OneMore(req[r].age, Deadline)
    BY <1>9, TickTyped
  <2>3. EntriesLoggedOut' /\ LateLoggedOut' /\ BlacklistMatches'
    BY <1>0, <2>1, <2>2 DEF LessOne
  <2>4. PendingCovers'
    BY <1>0, <2>1, <2>2 DEF LessOne, OneMore
  <2> QED BY <2>3, <2>4
<1>10. CASE Crash
  BY <1>10, IdleTyped DEF Crash
<1>11. CASE UNCHANGED vars
  BY <1>11 DEF vars
<1> QED
  BY <1>1, <1>2, <1>3, <1>4, <1>5, <1>6, <1>7, <1>8, <1>9, <1>10, <1>11 DEF Next, Step

(* The blacklist entry of a token that was logged out lives as long as the  *)
(* token and less than a request's deadline longer, whatever the times at   *)
(* which overlapping logouts compute and send it (stores.go:96).            *)
THEOREM BlacklistCovers == Spec => []BlacklistMatches
<1>1. Init => TypeOK /\ Blacklisting
  BY TypeInit, BlacklistInit
<1>2. TypeOK /\ Blacklisting /\ [Next]_vars => (TypeOK /\ Blacklisting)'
  BY TypeStep, BlacklistStep
<1>3. Blacklisting => BlacklistMatches
  BY DEF Blacklisting
<1> QED BY <1>1, <1>2, <1>3, PTL DEF Spec

(* The step that lets a request past Authenticate although its token was    *)
(* logged out before it came finds the token expired: the entry that it     *)
(* does not find was there as long as the token lived (auth.go:251-261).    *)
THEOREM LoggedOutForGood == Spec => LoggedOutRefused
<1>1. Init => TypeOK /\ Blacklisting
  BY TypeInit, BlacklistInit
<1>2. TypeOK /\ Blacklisting /\ [Next]_vars => (TypeOK /\ Blacklisting)'
  BY TypeStep, BlacklistStep
<1>3. TypeOK /\ Blacklisting /\ [Next]_vars =>
        [\A r \in Requests :
           At(r, "exists") /\ req[r].late /\ req'[r].pc \in Serving => left[req[r].tok] = 0]_vars
  <2> SUFFICES ASSUME TypeOK, Blacklisting, [Next]_vars, NEW r \in Requests,
                      At(r, "exists"), req[r].late, req'[r].pc \in Serving
               PROVE  left[req[r].tok] = 0
    OBVIOUS
  <2> USE DEF Serving, At
  <2>1. req \in [Requests -> Request] /\ req[r].tok \in Tokens
    BY DEF TypeOK
  <2>2. Blacklisted(r)
    <3>1. ASSUME NEW q \in Requests, IssueTokens(q)
          PROVE  FALSE
      BY <3>1, IssueTyped
    <3>2. ASSUME NEW q \in Requests, Sign(q) \/ Me(q) \/ Add(q)
          PROVE  FALSE
      BY <2>1, <3>2, FinishTyped DEF Sign, Me, Add
    <3>3. ASSUME NEW q \in Requests, NEW t \in Tokens, NEW route \in Routes, Authenticate(q, t, route)
          PROVE  FALSE
      BY <3>3, AuthenticateTyped
    <3>4. ASSUME NEW q \in Requests, Until(q)
          PROVE  FALSE
      BY <2>1, <3>4, UntilTyped, FinishTyped
    <3>5. ASSUME NEW q \in Requests, Blacklisted(q), q # r
          PROVE  FALSE
      <4>1. req[q].route \in Labels
        BY <2>1 DEF Request, Routes, Labels
      <4> QED BY <2>1, <3>5, <4>1, GotoTyped, FinishTyped DEF Blacklisted
    <3>6. ~SetPermission /\ ~Crash /\ ~UNCHANGED vars
      BY IdleTyped DEF SetPermission, Crash, vars
    <3>7. ~Tick
      BY TickTyped
    <3> QED BY <3>1, <3>2, <3>3, <3>4, <3>5, <3>6, <3>7 DEF Next, Step
  <2>3. black[req[r].tok] = 0
    BY <2>1, <2>2, FinishTyped DEF Blacklisted
  <2>4. req[r].tok \in out
    BY DEF Blacklisting, LateLoggedOut
  <2>5. black[req[r].tok] >= left[req[r].tok]
    BY <2>1, <2>4 DEF Blacklisting, BlacklistMatches
  <2>6. left[req[r].tok] \in Nat
    BY <2>1, AccessTTLAssumption, SecondAssumption DEF TypeOK
  <2> QED BY <2>3, <2>5, <2>6
<1> QED BY <1>1, <1>2, <1>3, PTL DEF Spec, LoggedOutRefused

-----------------------------------------------------------------------------
\* Permissions.

LEMMA FreshnessInit == Init => Freshness
<1> SUFFICES ASSUME Init PROVE Freshness
  OBVIOUS
<1>1. \A r \in Requests : req[r].pc = "idle"
  BY IdleTyped DEF Init
<1>2. carries = {} /\ (granted => since = 0)
  BY DEF Init
<1> QED BY <1>1, <1>2 DEF Freshness, GrantedNow, SigningFresh, ClaimsFresh, UseFresh, At

LEMMA FreshnessStep == TypeOK /\ Freshness /\ [Next]_vars => Freshness'
<1> SUFFICES ASSUME TypeOK, Freshness, [Next]_vars
             PROVE  Freshness'
  OBVIOUS
<1> USE DEF Freshness, GrantedNow, SigningFresh, ClaimsFresh, UseFresh, At, InTime, tokens
<1>0. /\ req \in [Requests -> Request] /\ carries \subseteq issued /\ issued \subseteq Tokens
      /\ \A t \in Tokens : left[t] \in Nat /\ left[t] <= AccessTTL
      /\ \A r \in Requests : req[r].age \in Nat
      /\ \A r \in Requests : req[r].pc \in {"exists", "me"} => req[r].tok \in issued
      /\ since \in Nat /\ Horizon \in Nat
      /\ Deadline \in Nat /\ Deadline > 0 /\ AccessTTL \in Nat /\ AccessTTL > 0
  BY DeadlineAssumption, AccessTTLAssumption, SecondAssumption, HorizonNat
     DEF TypeOK, Request, Serving
<1>1. ASSUME NEW r \in Requests, IssueTokens(r)
      PROVE  Freshness'
  <2>1. /\ req'[r].pc = "sign" /\ req'[r].perm = granted /\ req'[r].age = 0
        /\ \A q \in Requests : q # r => req'[q] = req[q]
    BY <1>1, IssueTyped
  <2>2. UNCHANGED <<granted, left, carries, since>>
    BY <1>1 DEF IssueTokens
  <2> QED BY <1>0, <2>1, <2>2
<1>2. ASSUME NEW r \in Requests, Sign(r)
      PROVE  Freshness'
  <2>1. req'[r].pc = "idle" /\ \A q \in Requests : q # r => req'[q] = req[q]
    BY <1>0, <1>2, FinishTyped DEF Sign
  <2>2. UNCHANGED <<granted, since>>
    BY <1>2 DEF Sign
  <2>3. CASE UNCHANGED tokens
    BY <1>0, <2>1, <2>2, <2>3
  <2>4. ASSUME InTime(r), NEW t \in Tokens \ issued, left' = [left EXCEPT ![t] = UntilExp],
               carries' = IF req[r].perm THEN carries \cup {t} ELSE carries
        PROVE  Freshness'
    <3>1. left'[t] = UntilExp /\ UntilExp \in Nat /\ UntilExp <= AccessTTL
      BY <1>0, <2>4, UntilExpBounds DEF TypeOK
    <3>2. \A u \in issued : left'[u] = left[u] /\ (u \in carries' <=> u \in carries)
      BY <1>0, <2>4
    <3>3. t \in carries' => since <= req[r].age /\ req[r].age < Deadline
      BY <1>0, <1>2, <2>4 DEF Sign
    <3>4. ClaimsFresh'
      <4> SUFFICES ASSUME NEW u \in carries', left'[u] > 0
                   PROVE  since + left'[u] <= (Deadline - 1) + AccessTTL
        BY <2>2
      <4>1. CASE u = t
        BY <1>0, <3>1, <3>3, <4>1
      <4>2. CASE u # t
        BY <1>0, <2>4, <3>2, <4>2
      <4> QED BY <4>1, <4>2
    <3>5. GrantedNow' /\ SigningFresh' /\ UseFresh'
      BY <1>0, <2>1, <2>2, <3>2
    <3> QED BY <3>4, <3>5
  <2> QED BY <1>2, <2>3, <2>4 DEF Sign
<1>3. ASSUME NEW r \in Requests, NEW t \in Tokens, NEW route \in Routes, Authenticate(r, t, route)
      PROVE  Freshness'
  <2>1. /\ req'[r].pc = "exists" /\ req'[r].tok = t /\ req'[r].age = 0
        /\ \A q \in Requests : q # r => req'[q] = req[q]
    BY <1>3, AuthenticateTyped
  <2>2. UNCHANGED <<granted, left, carries, since>> /\ left[t] > 0
    BY <1>3 DEF Authenticate
  <2>3. t \in carries => since + 1 <= (Deadline - 1) + AccessTTL + 0
    BY <1>0, <2>2
  <2>4. GrantedNow' /\ SigningFresh' /\ ClaimsFresh'
    BY <2>1, <2>2
  <2>5. UseFresh'
    BY <1>0, <2>1, <2>2, <2>3
  <2> QED BY <2>4, <2>5
<1>4. ASSUME NEW r \in Requests, Blacklisted(r)
      PROVE  Freshness'
  <2>1. UNCHANGED <<granted, left, carries, since>> /\ At(r, "exists")
    BY <1>4 DEF Blacklisted
  <2>2. CASE Finish(r)
    BY <1>0, <2>1, <2>2, FinishTyped
  <2>3. CASE /\ req[r].route = "me" => req[r].tok \in carries
             /\ Goto(r, req[r].route)
    <3>1. req[r].route \in {"me", "logout"} /\ req[r].route \in Labels
      <4>1. req[r] \in Request
        BY <1>0
      <4> QED BY <4>1 DEF Request, Routes, Labels, Serving
    <3>2. /\ req'[r].pc = req[r].route /\ req'[r].tok = req[r].tok /\ req'[r].age = req[r].age
          /\ \A q \in Requests : q # r => req'[q] = req[q]
      BY <1>0, <2>3, <3>1, GotoTyped
    <3> QED BY <1>0, <2>1, <2>3, <3>1, <3>2
  <2> QED BY <1>4, <2>2, <2>3 DEF Blacklisted
<1>5. ASSUME NEW r \in Requests, Me(r)
      PROVE  Freshness'
  BY <1>0, <1>5, FinishTyped DEF Me
<1>6. ASSUME NEW r \in Requests, Until(r)
      PROVE  Freshness'
  <2>1. UNCHANGED <<granted, left, carries, since>>
    BY <1>6 DEF Until
  <2>2. req'[r].pc \in {"idle", "add"} /\ \A q \in Requests : q # r => req'[q] = req[q]
    BY <1>0, <1>6, UntilTyped, FinishTyped
  <2> QED BY <2>1, <2>2
<1>7. ASSUME NEW r \in Requests, Add(r)
      PROVE  Freshness'
  BY <1>0, <1>7, FinishTyped DEF Add
<1>8. CASE SetPermission
  <2>1. since' = 0 /\ UNCHANGED <<left, carries, req>>
    BY <1>8 DEF SetPermission
  <2> QED BY <1>0, <2>1
<1>9. CASE Tick
  <2>1. /\ UNCHANGED <<granted, carries>>
        /\ since' = IF granted THEN 0 ELSE OneMore(since, Horizon)
        /\ \A t \in Tokens : left'[t] = LessOne(left[t])
    BY <1>9 DEF Tick
  <2>2. \A r \in Requests :
          /\ req'[r].pc = req[r].pc /\ req'[r].tok = req[r].tok /\ req'[r].perm = req[r].perm
          /\ ~At(r, "idle") => req'[r].age = OneMore(req[r].age, Deadline)
    BY <1>9, TickTyped
  <2>3. GrantedNow' /\ since' \in Nat /\ since' <= since + 1
    <3>1. since \in 0 .. Horizon
      BY DEF TypeOK
    <3>2. OneMore(since, Horizon) \in Nat /\ OneMore(since, Horizon) <= since + 1
      BY <1>0, <3>1, OneMoreBounds
    <3> QED BY <1>0, <2>1, <3>2
  <2>4. \A r \in Requests : ~At(r, "idle") /\ InTime(r)' => InTime(r) /\ req'[r].age = req[r].age + 1
    <3>1. \A r \in Requests : req[r].age \in 0 .. Deadline
      BY <1>0 DEF Request
    <3> QED BY <1>0, <2>2, <3>1 DEF OneMore
  <2>5. SigningFresh'
    BY <1>0, <2>2, <2>3, <2>4
  <2>6. ClaimsFresh'
    BY <1>0, <2>1, <2>3 DEF LessOne
  <2>7. UseFresh'
    BY <1>0, <2>1, <2>2, <2>3, <2>4
  <2> QED BY <2>3, <2>5, <2>6, <2>7
<1>10. CASE Crash
  BY <1>10, IdleTyped DEF Crash
<1>11. CASE UNCHANGED vars
  BY <1>11 DEF vars
<1> QED
  BY <1>1, <1>2, <1>3, <1>4, <1>5, <1>6, <1>7, <1>8, <1>9, <1>10, <1>11 DEF Next, Step

(* A withdrawn permission is not served any more after a token's life and   *)
(* the deadlines of two requests, however often tokens are refreshed in     *)
(* between (internal.go:88, rbac.go:20).                                    *)
THEOREM PermissionsEnd == Spec => []StalePermissionsEnd
<1>1. Init => TypeOK /\ Freshness
  BY TypeInit, FreshnessInit
<1>2. TypeOK /\ Freshness /\ [Next]_vars => (TypeOK /\ Freshness)'
  BY TypeStep, FreshnessStep
<1>3. TypeOK /\ Freshness => StalePermissionsEnd
  <2> SUFFICES ASSUME TypeOK, Freshness, NEW r \in Requests, At(r, "me"), InTime(r)
               PROVE  since < Horizon
    BY DEF StalePermissionsEnd
  <2>1. since + 1 <= (Deadline - 1) + AccessTTL + req[r].age
    BY DEF Freshness, UseFresh, At
  <2>2. req[r].age \in Nat /\ req[r].age < Deadline /\ since \in Nat
    BY HorizonNat DEF TypeOK, Request, InTime
  <2> QED BY <2>1, <2>2, DeadlineAssumption, AccessTTLAssumption DEF Horizon
<1> QED BY <1>1, <1>2, <1>3, PTL DEF Spec
=============================================================================
