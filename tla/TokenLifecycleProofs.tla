------------------------ MODULE TokenLifecycleProofs ------------------------
(***************************************************************************)
(* Proofs about TokenLifecycle, for any number of users, tokens, families  *)
(* and workers, with or without faults.                                    *)
(***************************************************************************)
EXTENDS TokenLifecycle, TLAPS

-----------------------------------------------------------------------------
\* The inductive invariant.

\* A row belongs to a family that a login has opened.
RowsHaveFamily ==
  \A t \in Tokens : rt[t] # "absent" => famOf[t] \in Families /\ owner[famOf[t]] \in Users

\* The family a request mints for was opened by a login.
MintingOwned ==
  \A r \in Requests : req[r].pc \in Minting => owner[req[r].fam] \in Users

\* Clients only hold tokens whose row was inserted.
HeldExist == \A t \in held : rt[t] # "absent"

Structure == TypeOK /\ RowsHaveFamily /\ MintingOwned /\ HeldExist

\* The token being exchanged has a row and, past Revoke, is revoked ...
SpentBeforeIssue ==
  \A r \in Requests : req[r].pc \in Minting /\ req[r].tok # NoToken =>
    /\ rt[req[r].tok] # "absent"
    /\ req[r].pc # "revoke" => rt[req[r].tok] = "revoked"

\* ... and the worker has not exchanged it before.
NotYetExchanged ==
  \A r \in Requests, t \in Tokens :
    req[r].pc \in Minting /\ mintedBy[t] = r /\ parent[t] # NoToken => req[r].tok # parent[t]

IInv ==
  /\ Structure
  /\ SpentBeforeIssue
  /\ ExchangedTokensAreSpent
  /\ NotYetExchanged
  /\ OneExchangePerWorker

-----------------------------------------------------------------------------
\* What the helpers do to the rows and to the requests.

\* UPDATE ... SET revoked_at keeps every row, revokes only, and revokes for good.
LEMMA MarkRevokedRows ==
  ASSUME TypeOK, NEW S, MarkRevoked(S)
  PROVE  /\ rt' \in [Tokens -> {"absent", "live", "revoked"}]
         /\ \A t \in Tokens : rt'[t] = "absent" <=> rt[t] = "absent"
         /\ \A t \in Tokens : rt[t] = "revoked" => rt'[t] = "revoked"
         /\ \A t \in Tokens : rt'[t] = "live" => rt[t] = "live"
         /\ \A t \in S \cap Tokens : rt'[t] # "live"
BY DEF MarkRevoked, TypeOK

\* Moving a request to another label keeps the type of every request.
LEMMA GotoTyped ==
  ASSUME req \in [Requests -> Request], NEW r \in Requests, NEW l \in Labels, Goto(r, l)
  PROVE  /\ req' \in [Requests -> Request]
         /\ req'[r].pc = l
         /\ \A q \in Requests : q # r => req'[q] = req[q]
         /\ req'[r].user = req[r].user /\ req'[r].fam = req[r].fam
         /\ req'[r].tok = req[r].tok
BY DEF Goto, Request

\* So does ending it.
LEMMA FinishTyped ==
  ASSUME req \in [Requests -> Request], NEW r \in Requests, Finish(r)
  PROVE  /\ req' \in [Requests -> Request]
         /\ req'[r] = Idle /\ Idle.pc = "idle"
         /\ \A q \in Requests : q # r => req'[q] = req[q]
BY DEF Finish, Request, Idle, Labels

-----------------------------------------------------------------------------
\* TypeOK and the facts about rows and families it rests on.

LEMMA StructureInit == Init => Structure
BY NullsAssumption
   DEF Init, Structure, TypeOK, RowsHaveFamily, MintingOwned, HeldExist, HasOperands, Request,
       Idle, Labels, Minting, LoggingOut

\* The steps of Login and Refresh before issueTokens.
LEMMA StructureLoginRefresh ==
  ASSUME Structure, NEW r \in Requests,
         \/ \E u \in Users, f \in Families : Login(r, u, f)
         \/ \E t \in Tokens : Refresh(r, t)
         \/ GetRevokedFamily(r) \/ RevokeFamily(r) \/ Revoke(r)
  PROVE  Structure'
<1> USE DEF Structure, RowsHaveFamily, MintingOwned, HeldExist, db, world, history
<1>1. CASE \E u \in Users, f \in Families : Login(r, u, f)
  <2>1. PICK u \in Users, f \in Families : Login(r, u, f)
    BY <1>1
  <2>2. \A g \in Families : owner'[g] = owner[g] \/ (owner[g] = NoUser /\ owner'[g] = u)
    BY <2>1 DEF Login, Drawn, TypeOK
  <2>3. req' = [req EXCEPT ![r] = [Idle EXCEPT !.pc = "saveSession", !.user = u, !.fam = f]]
    BY <2>1 DEF Login
  <2>4. /\ req' \in [Requests -> Request]
        /\ req'[r].pc = "saveSession" /\ req'[r].user = u /\ req'[r].fam = f
        /\ \A q \in Requests : q # r => req'[q] = req[q]
    BY <2>3 DEF TypeOK, Request, Idle, Labels, Minting, LoggingOut
  <2>5. TypeOK'
    BY <2>1, <2>4 DEF Login, TypeOK, HasOperands, Minting, LoggingOut
  <2>6. owner'[f] = u
    BY <2>1 DEF Login, TypeOK
  <2>7. RowsHaveFamily' /\ HeldExist'
    BY <2>1, <2>2, NullsAssumption DEF Login
  <2>8. MintingOwned'
    BY <2>2, <2>4, <2>6, NullsAssumption DEF TypeOK, HasOperands
  <2> QED BY <2>5, <2>7, <2>8
<1>2. CASE \E t \in Tokens : Refresh(r, t)
  <2>1. PICK t \in Tokens : Refresh(r, t)
    BY <1>2
  <2>2. CASE /\ Usable(t)
             /\ req' = [req EXCEPT ![r] = [Idle EXCEPT !.pc = "revoke", !.tok = t,
                                             !.fam = famOf[t], !.user = owner[famOf[t]]]]
    <3>1. famOf[t] \in Families /\ owner[famOf[t]] \in Users
      BY <2>2 DEF Usable
    <3>2. /\ req' \in [Requests -> Request]
          /\ req'[r].pc = "revoke" /\ req'[r].tok = t /\ req'[r].fam = famOf[t]
          /\ req'[r].user = owner[famOf[t]]
          /\ \A q \in Requests : q # r => req'[q] = req[q]
      BY <2>2, <3>1 DEF TypeOK, Request, Idle, Labels, Minting, LoggingOut
    <3>3. TypeOK'
      BY <2>1, <3>1, <3>2 DEF Refresh, TypeOK, HasOperands, Minting, LoggingOut
    <3> QED BY <2>1, <3>1, <3>2, <3>3 DEF Refresh
  <2>3. CASE req' = [req EXCEPT ![r] = [Idle EXCEPT !.pc = "getRevoked", !.tok = t]]
    <3>1. /\ req' \in [Requests -> Request]
          /\ req'[r].pc = "getRevoked" /\ req'[r].tok = t
          /\ \A q \in Requests : q # r => req'[q] = req[q]
      BY <2>3 DEF TypeOK, Request, Idle, Labels
    <3>2. TypeOK'
      BY <2>1, <3>1 DEF Refresh, TypeOK, HasOperands, Minting, LoggingOut
    <3> QED BY <2>1, <3>1, <3>2 DEF Refresh, Minting
  <2> QED BY <2>1, <2>2, <2>3 DEF Refresh
<1>3. CASE GetRevokedFamily(r)
  <2>1. CASE Finish(r)
    BY <1>3, <2>1, FinishTyped DEF GetRevokedFamily, TypeOK, HasOperands, Minting, LoggingOut
  <2> DEFINE f == RevokedFamily(req[r].tok)
             q1 == [req[r] EXCEPT !.pc = "revokeFamily", !.fam = f]
  <2>2. CASE ~NilFamily(f) /\ req' = [req EXCEPT ![r] = q1]
    <3>1. f \in Families
      BY <1>3, <2>2 DEF GetRevokedFamily, At, TypeOK, HasOperands, RevokedFamily, NilFamily
    <3> HIDE DEF f
    <3>2. req \in [Requests -> Request]
      BY DEF TypeOK
    <3>3. q1 \in Request /\ q1.pc = "revokeFamily" /\ q1.fam \in Families
      BY <3>1, <3>2 DEF Request, Labels
    <3>4. /\ req' \in [Requests -> Request]
          /\ req'[r].pc = "revokeFamily" /\ req'[r].fam \in Families
          /\ \A q \in Requests : q # r => req'[q] = req[q]
      <4> HIDE DEF q1
      <4> QED BY <2>2, <3>2, <3>3
    <3>5. TypeOK'
      BY <1>3, <3>4 DEF GetRevokedFamily, TypeOK, HasOperands, Minting, LoggingOut
    <3> QED BY <1>3, <3>4, <3>5 DEF GetRevokedFamily, Minting
  <2> QED BY <1>3, <2>1, <2>2 DEF GetRevokedFamily
<1>4. CASE RevokeFamily(r)
  <2>1. /\ rt' \in [Tokens -> {"absent", "live", "revoked"}]
        /\ \A t \in Tokens : rt'[t] = "absent" <=> rt[t] = "absent"
    BY <1>4, MarkRevokedRows DEF RevokeFamily, TypeOK
  <2>2. req[r].fam \in Families
    BY <1>4 DEF RevokeFamily, At, TypeOK, HasOperands
  <2>3. TypeOK'
    BY <1>4, <2>1, <2>2, FinishTyped
       DEF RevokeFamily, TypeOK, HasOperands, Minting, LoggingOut
  <2> QED BY <1>4, <2>1, <2>3, FinishTyped DEF RevokeFamily, Minting, TypeOK
<1>5. CASE Revoke(r)
  <2>1. /\ rt' \in [Tokens -> {"absent", "live", "revoked"}]
        /\ \A t \in Tokens : rt'[t] = "absent" <=> rt[t] = "absent"
    BY <1>5, MarkRevokedRows DEF Revoke, TypeOK
  <2>2. req[r].pc = "revoke" /\ "saveSession" \in Labels
    BY <1>5 DEF Revoke, At, Labels, Minting
  <2>3. (Goto(r, "saveSession") \/ Finish(r)) /\ UNCHANGED <<famOf, owner, held>>
    BY <1>5 DEF Revoke, RevokeFailed
  <2>4. TypeOK'
    BY <1>5, <2>1, <2>2, <2>3, FinishTyped, GotoTyped
       DEF Revoke, TypeOK, HasOperands, Minting, LoggingOut
  <2> QED BY <2>1, <2>2, <2>3, <2>4, FinishTyped, GotoTyped DEF Minting, TypeOK
<1> QED BY <1>1, <1>2, <1>3, <1>4, <1>5

\* A step that inserts no row, opens no family and starts no exchange leaves
\* the rows, the families and the exchanges in order.
LEMMA QuietStep ==
  ASSUME Structure, TypeOK', UNCHANGED <<famOf, owner, held>>,
         \A t \in Tokens : rt'[t] = "absent" <=> rt[t] = "absent",
         \A q \in Requests :
           req'[q].pc \in Minting => req[q].pc \in Minting /\ req'[q].fam = req[q].fam
  PROVE  Structure'
BY DEF Structure, RowsHaveFamily, MintingOwned, HeldExist, TypeOK

LEMMA StructureIssue ==
  ASSUME Structure, NEW r \in Requests, SaveSession(r) \/ InsertToken(r)
  PROVE  Structure'
<1> USE DEF db, world, history
<1>1. req[r].fam \in Families /\ req[r].pc \in Minting /\ owner[req[r].fam] \in Users
  BY DEF SaveSession, InsertToken, At, Structure, MintingOwned, TypeOK, HasOperands, Minting
<1>2. CASE SaveSession(r)
  <2>1. Goto(r, "insert") \/ Finish(r)
    BY <1>2 DEF SaveSession
  <2>2. /\ req' \in [Requests -> Request]
        /\ \A q \in Requests : HasOperands(req'[q])
        /\ \A q \in Requests :
             req'[q].pc \in Minting => req[q].pc \in Minting /\ req'[q].fam = req[q].fam
    BY <1>1, <2>1, GotoTyped, FinishTyped
       DEF Structure, TypeOK, HasOperands, Labels, Minting, LoggingOut
  <2>3. TypeOK'
    BY <1>1, <1>2, <2>2 DEF SaveSession, Structure, TypeOK
  <2> QED BY <1>2, <2>2, <2>3, QuietStep DEF SaveSession
<1>3. CASE InsertToken(r)
  <2>1. /\ req' \in [Requests -> Request]
        /\ \A q \in Requests : HasOperands(req'[q])
        /\ \A q \in Requests :
             req'[q].pc \in Minting => req[q].pc \in Minting /\ req'[q].fam = req[q].fam
    BY <1>3, FinishTyped
       DEF InsertToken, Structure, TypeOK, HasOperands, Minting, LoggingOut
  <2>2. CASE UNCHANGED <<rt, famOf, parent, mintedBy, held>>
    <3>1. TypeOK'
      BY <1>3, <2>1, <2>2 DEF InsertToken, Structure, TypeOK
    <3> QED BY <1>3, <2>1, <2>2, <3>1, QuietStep DEF InsertToken
  <2>3. ASSUME NEW t \in Tokens,
               rt[t] = "absent",
               rt' = [rt EXCEPT ![t] = "live"],
               famOf' = [famOf EXCEPT ![t] = req[r].fam],
               parent' = [parent EXCEPT ![t] = req[r].tok],
               mintedBy' = [mintedBy EXCEPT ![t] = r],
               held' = held \cup {t} \/ UNCHANGED held
        PROVE  Structure'
    <3>1. req[r].tok \in Tokens \cup {NoToken}
      BY DEF Structure, TypeOK, Request
    <3>2. TypeOK'
      BY <1>1, <1>3, <2>1, <2>3, <3>1 DEF InsertToken, Structure, TypeOK
    <3>3. RowsHaveFamily' /\ HeldExist'
      BY <1>1, <1>3, <2>3 DEF InsertToken, Structure, TypeOK, RowsHaveFamily, HeldExist
    <3>4. MintingOwned'
      BY <1>3, <2>1 DEF InsertToken, Structure, MintingOwned
    <3> QED BY <3>2, <3>3, <3>4 DEF Structure
  <2> QED BY <1>3, <2>2, <2>3 DEF InsertToken
<1> QED BY <1>2, <1>3

LEMMA StructureLogout ==
  ASSUME Structure, NEW r \in Requests,
         \/ \E a \in Tokens, c \in Tokens \cup {NoToken} : Logout(r, a, c)
         \/ BlacklistAccess(r) \/ RevokeCookie(r)
  PROVE  Structure'
<1> USE DEF db, world, history
<1>0. TypeOK
  BY DEF Structure
<1>1. CASE \E a \in Tokens, c \in Tokens \cup {NoToken} : Logout(r, a, c)
  <2>1. PICK a \in Tokens, c \in Tokens \cup {NoToken} : Logout(r, a, c)
    BY <1>1
  <2>2. famOf[a] \in Families /\ owner[famOf[a]] \in Users
    BY <2>1 DEF Logout, Authenticated, Structure, HeldExist, RowsHaveFamily
  <2> DEFINE q1 == [Idle EXCEPT !.pc = "blacklist", !.tok = a, !.cookie = c,
                                !.fam = famOf[a], !.user = owner[famOf[a]]]
  <2>3. q1 \in Request /\ q1.pc = "blacklist" /\ HasOperands(q1)
    BY <2>2 DEF Idle, Request, Labels, HasOperands, Minting, LoggingOut
  <2>4. /\ req' \in [Requests -> Request]
        /\ req'[r] = q1
        /\ \A q \in Requests : q # r => req'[q] = req[q]
    BY <1>0, <2>1, <2>3 DEF Logout, TypeOK
  <2> HIDE DEF q1
  <2>5. TypeOK'
    BY <1>0, <2>1, <2>3, <2>4 DEF Logout, TypeOK
  <2> QED BY <2>1, <2>3, <2>4, <2>5, QuietStep DEF Logout, Minting
<1>2. CASE BlacklistAccess(r)
  <2>1. req[r].tok \in Tokens
    BY <1>0, <1>2 DEF BlacklistAccess, At, TypeOK, HasOperands
  <2>2. /\ Goto(r, "revokeCookie") /\ "revokeCookie" \in Labels /\ req[r].pc = "blacklist"
        /\ UNCHANGED <<rt, famOf, owner, held>>
    BY <1>2 DEF BlacklistAccess, At, Labels, LoggingOut
  <2>3. TypeOK'
    BY <1>0, <1>2, <2>1, <2>2, GotoTyped
       DEF BlacklistAccess, TypeOK, HasOperands, Minting, LoggingOut
  <2> QED BY <1>0, <2>2, <2>3, GotoTyped, QuietStep DEF Minting, TypeOK
<1>3. CASE RevokeCookie(r)
  <2>1. /\ rt' \in [Tokens -> {"absent", "live", "revoked"}]
        /\ \A t \in Tokens : rt'[t] = "absent" <=> rt[t] = "absent"
    BY <1>0, <1>3, MarkRevokedRows DEF RevokeCookie, TypeOK
  <2>2. Finish(r) /\ UNCHANGED <<famOf, owner, held>>
    BY <1>3 DEF RevokeCookie
  <2>3. TypeOK'
    BY <1>0, <1>3, <2>1, <2>2, FinishTyped DEF RevokeCookie, TypeOK, HasOperands, Minting, LoggingOut
  <2> QED BY <1>0, <2>1, <2>2, <2>3, FinishTyped, QuietStep DEF Minting, TypeOK
<1> QED BY <1>1, <1>2, <1>3

\* An interrupted reset keeps the type of the history.
LEMMA InterruptedTyped ==
  ASSUME TypeOK, NEW U, NEW pw, Interrupted(U, pw)
  PROVE  openedWith' \in [Families -> Passwords \cup {NoPassword}]
BY DEF Interrupted, TypeOK

LEMMA StructureBulk ==
  ASSUME Structure, NEW r \in Requests,
         \/ \E a \in Tokens : LogoutAll(r, a)
         \/ \E k \in Resets : ResetPassword(r, k)
         \/ UpdatePassword(r) \/ RevokeAll(r)
  PROVE  Structure'
<1> USE DEF db, world, history
<1>0. TypeOK
  BY DEF Structure
<1>1. CASE \E a \in Tokens : LogoutAll(r, a)
  <2>1. PICK a \in Tokens : LogoutAll(r, a)
    BY <1>1
  <2>2. owner[famOf[a]] \in Users
    BY <2>1 DEF LogoutAll, Authenticated, Structure, HeldExist, RowsHaveFamily
  <2> DEFINE q1 == [Idle EXCEPT !.pc = "revokeAll", !.user = owner[famOf[a]]]
  <2>3. q1 \in Request /\ q1.pc = "revokeAll" /\ HasOperands(q1)
    BY <2>2 DEF Idle, Request, Labels, HasOperands, Minting, LoggingOut
  <2>4. req' = [req EXCEPT ![r] = q1]
    BY <2>1 DEF LogoutAll
  <2> HIDE DEF q1
  <2>5. TypeOK'
    BY <1>0, <2>1, <2>3, <2>4 DEF LogoutAll, TypeOK
  <2> QED BY <1>0, <2>1, <2>3, <2>4, <2>5, QuietStep DEF LogoutAll, Minting, TypeOK
<1>2. CASE \E k \in Resets : ResetPassword(r, k)
  <2>1. PICK k \in Resets : ResetPassword(r, k)
    BY <1>2
  <2> DEFINE q1 == [Idle EXCEPT !.pc = "updatePassword", !.user = reset[k]]
  <2>2. reset[k] \in Users
    BY <1>0, <2>1 DEF ResetPassword, TypeOK
  <2>3. q1 \in Request /\ q1.pc = "updatePassword" /\ HasOperands(q1)
    BY <2>2 DEF Idle, Request, Labels, HasOperands, Minting, LoggingOut
  <2>4. req' = [req EXCEPT ![r] = q1] \/ UNCHANGED req
    BY <2>1 DEF ResetPassword
  <2> HIDE DEF q1
  <2>5. TypeOK'
    BY <1>0, <2>1, <2>3, <2>4 DEF ResetPassword, TypeOK
  <2> QED BY <1>0, <2>1, <2>3, <2>4, <2>5, QuietStep DEF ResetPassword, Minting, TypeOK
<1>3. CASE UpdatePassword(r)
  <2>1. /\ Goto(r, "revokeAll") \/ Finish(r)
        /\ req[r].pc = "updatePassword" /\ "revokeAll" \in Labels
        /\ UNCHANGED <<rt, famOf, owner, held>>
    BY <1>3 DEF UpdatePassword, PasswordUpdated, At, Labels
  <2>2. /\ passwd' \in [Users -> Passwords]
        /\ openedWith' \in [Families -> Passwords \cup {NoPassword}]
    BY <1>0, <1>3, InterruptedTyped DEF UpdatePassword, TypeOK
  <2>3. TypeOK'
    BY <1>0, <1>3, <2>1, <2>2, GotoTyped, FinishTyped
       DEF UpdatePassword, TypeOK, HasOperands, Minting, LoggingOut
  <2> QED BY <1>0, <2>1, <2>3, GotoTyped, FinishTyped, QuietStep DEF Minting, TypeOK
<1>4. CASE RevokeAll(r)
  <2>1. Finish(r) /\ UNCHANGED <<famOf, owner, held>>
    BY <1>4 DEF RevokeAll
  <2>2. /\ rt' \in [Tokens -> {"absent", "live", "revoked"}]
        /\ \A t \in Tokens : rt'[t] = "absent" <=> rt[t] = "absent"
    BY <1>0, <1>4, MarkRevokedRows DEF RevokeAll, TypeOK
  <2>3. /\ openedWith' \in [Families -> Passwords \cup {NoPassword}]
        /\ closed' \subseteq Families
    BY <1>0, <1>4, InterruptedTyped DEF RevokeAll, TypeOK, OwnedBy
  <2>4. TypeOK'
    BY <1>0, <1>4, <2>1, <2>2, <2>3, FinishTyped
       DEF RevokeAll, TypeOK, HasOperands, Minting, LoggingOut
  <2> QED BY <1>0, <2>1, <2>2, <2>4, FinishTyped, QuietStep DEF Minting, TypeOK
<1> QED BY <1>1, <1>2, <1>3, <1>4

LEMMA StructureRest ==
  ASSUME Structure,
         \/ \E t \in Tokens : ExpireToken(t)
         \/ Crash
         \/ UNCHANGED vars
  PROVE  Structure'
<1> USE DEF db, world, history
<1>0. TypeOK
  BY DEF Structure
<1>1. CASE \E t \in Tokens : ExpireToken(t)
  <2>1. TypeOK'
    BY <1>0, <1>1 DEF ExpireToken, TypeOK
  <2> QED BY <1>1, <2>1, QuietStep DEF ExpireToken
<1>2. CASE Crash
  <2>1. /\ req' \in [Requests -> Request]
        /\ \A q \in Requests : req'[q].pc = "idle"
    BY <1>2 DEF Crash, Idle, Request, Labels
  <2>2. TypeOK'
    BY <1>0, <1>2, <2>1, InterruptedTyped DEF Crash, TypeOK, HasOperands, Minting, LoggingOut
  <2> QED BY <1>2, <2>1, <2>2, QuietStep DEF Crash, Minting
<1>3. CASE UNCHANGED vars
  <2>1. TypeOK'
    BY <1>0, <1>3 DEF vars, TypeOK
  <2> QED BY <1>3, <2>1, QuietStep DEF vars
<1> QED BY <1>1, <1>2, <1>3

LEMMA StructureStep == Structure /\ [Next]_vars => Structure'
<1> SUFFICES ASSUME Structure, [Next]_vars PROVE Structure'
  OBVIOUS
<1>1. CASE \E r \in Requests : Arrive(r) \/ Step(r)
  BY <1>1, StructureLoginRefresh, StructureIssue, StructureLogout, StructureBulk
     DEF Arrive, Step
<1>2. CASE (\E t \in Tokens : ExpireToken(t)) \/ Crash \/ UNCHANGED vars
  BY <1>2, StructureRest
<1> QED BY <1>1, <1>2 DEF Next

(* Type correctness, and that a step finds the ids it works on: the family  *)
(* id that Refresh dereferences is never nil (auth.go:153-154).             *)
THEOREM TypeCorrect == Spec => []TypeOK
<1>1. Structure => TypeOK
  BY DEF Structure
<1> QED BY <1>1, StructureInit, StructureStep, PTL DEF Spec

-----------------------------------------------------------------------------
\* The exchanges.

\* A request that can still issue a token after a step either could before it,
\* for the same token, or issues for a login or for a token that was live.
Continues(q) ==
  LET o == req[q]  n == req'[q] IN
  n.pc \in Minting =>
    \/ /\ o.pc \in Minting /\ n.tok = o.tok
       /\ n.pc # "revoke" => o.pc # "revoke" \/ rt'[n.tok] = "revoked"
    \/ n.tok = NoToken
    \/ n.pc = "revoke" /\ rt[n.tok] = "live"

LEMMA NoIssueStep ==
  ASSUME IInv, Structure', UNCHANGED <<parent, mintedBy>>,
         \A t \in Tokens : rt[t] # "absent" => rt'[t] # "absent",
         \A t \in Tokens : rt[t] = "revoked" => rt'[t] = "revoked",
         \A q \in Requests : Continues(q)
  PROVE  IInv'
<1>1. TypeOK /\ TypeOK'
  BY DEF IInv, Structure
<1>2. ASSUME NEW q \in Requests, req'[q].pc \in Minting, req'[q].tok # NoToken
      PROVE  req[q].tok \in Tokens \cup {NoToken} /\ req'[q].tok \in Tokens
  BY <1>1, <1>2 DEF TypeOK, Request
<1>3. SpentBeforeIssue'
  BY <1>2 DEF IInv, SpentBeforeIssue, Continues, Minting
<1>4. ExchangedTokensAreSpent'
  BY <1>1 DEF IInv, ExchangedTokensAreSpent, TypeOK
<1>5. NotYetExchanged'
  <2> SUFFICES ASSUME NEW q \in Requests, NEW t \in Tokens,
                      req'[q].pc \in Minting, mintedBy[t] = q, parent[t] # NoToken
               PROVE  req'[q].tok # parent[t]
    BY DEF NotYetExchanged
  <2>1. CASE req[q].pc \in Minting /\ req'[q].tok = req[q].tok
    BY <2>1 DEF IInv, NotYetExchanged
  <2>2. CASE req'[q].tok = NoToken
    BY <2>2
  <2>3. CASE rt[req'[q].tok] = "live"
    BY <2>3 DEF IInv, ExchangedTokensAreSpent
  <2> QED BY <2>1, <2>2, <2>3 DEF Continues
<1>6. OneExchangePerWorker'
  BY DEF IInv, OneExchangePerWorker
<1> QED BY <1>3, <1>4, <1>5, <1>6 DEF IInv

LEMMA Insertion ==
  ASSUME IInv, Structure', NEW r \in Requests, InsertToken(r)
  PROVE  IInv'
<1> USE DEF db, world, history
<1>1. TypeOK /\ TypeOK'
  BY DEF IInv, Structure
<1>2. /\ req'[r].pc \notin Minting
      /\ \A q \in Requests : q # r => req'[q] = req[q]
      /\ req[r].pc = "insert" /\ req[r].tok \in Tokens \cup {NoToken}
  BY <1>1, FinishTyped DEF InsertToken, At, Minting, TypeOK, Request
<1>3. CASE UNCHANGED <<rt, famOf, parent, mintedBy, held>>
  <2>1. \A q \in Requests : Continues(q)
    BY <1>2 DEF Continues
  <2> QED BY <1>3, <2>1, NoIssueStep
<1>4. ASSUME NEW t \in Tokens,
             rt[t] = "absent",
             rt' = [rt EXCEPT ![t] = "live"],
             parent' = [parent EXCEPT ![t] = req[r].tok],
             mintedBy' = [mintedBy EXCEPT ![t] = r]
      PROVE  IInv'
  <2>1. /\ rt'[t] = "live" /\ parent'[t] = req[r].tok /\ mintedBy'[t] = r
        /\ \A s \in Tokens : s # t => /\ rt'[s] = rt[s] /\ parent'[s] = parent[s]
                                       /\ mintedBy'[s] = mintedBy[s]
    BY <1>1, <1>4 DEF TypeOK
  <2>2. \A s \in Tokens : /\ rt[s] # "absent" => rt'[s] # "absent"
                          /\ rt[s] = "revoked" => rt'[s] = "revoked"
    BY <1>4, <2>1
  <2>3. SpentBeforeIssue'
    BY <1>1, <1>2, <2>2 DEF IInv, SpentBeforeIssue, TypeOK, Request, Minting
  <2>4. req[r].tok # NoToken => rt[req[r].tok] = "revoked"
    BY <1>2 DEF IInv, SpentBeforeIssue, Minting
  <2>5. ExchangedTokensAreSpent'
    BY <1>1, <1>2, <2>1, <2>2, <2>4 DEF IInv, ExchangedTokensAreSpent, TypeOK
  <2>6. NotYetExchanged'
    BY <1>2, <2>1 DEF IInv, NotYetExchanged
  <2>7. OneExchangePerWorker'
    <3>1. \A s \in Tokens : mintedBy[s] = r /\ parent[s] # NoToken => parent[s] # req[r].tok
      BY <1>2 DEF IInv, NotYetExchanged, Minting
    <3> QED BY <2>1, <3>1 DEF IInv, OneExchangePerWorker
  <2> QED BY <2>3, <2>5, <2>6, <2>7 DEF IInv
<1> QED BY <1>3, <1>4 DEF InsertToken

LEMMA InvariantInit == Init => IInv
BY StructureInit
   DEF Init, IInv, SpentBeforeIssue, ExchangedTokensAreSpent, NotYetExchanged,
       OneExchangePerWorker, Idle, Minting

LEMMA InvariantStep == IInv /\ [Next]_vars => IInv'
<1> SUFFICES ASSUME IInv, [Next]_vars PROVE IInv'
  OBVIOUS
<1> USE DEF db, world, history
<1>0. Structure /\ TypeOK /\ Structure'
  BY StructureStep DEF IInv, Structure
<1>1. ASSUME NEW r \in Requests, Arrive(r) \/ Step(r)
      PROVE  IInv'
  <2>1. ASSUME NEW u \in Users, NEW f \in Families, Login(r, u, f)
        PROVE  IInv'
    <3>1. \A q \in Requests : Continues(q)
      BY <1>0, <2>1 DEF Login, Continues, Idle, TypeOK, Minting
    <3> QED BY <1>0, <2>1, <3>1, NoIssueStep DEF Login
  <2>2. ASSUME NEW t \in Tokens, Refresh(r, t)
        PROVE  IInv'
    <3> DEFINE q1 == [Idle EXCEPT !.pc = "revoke", !.tok = t,
                                  !.fam = famOf[t], !.user = owner[famOf[t]]]
               q2 == [Idle EXCEPT !.pc = "getRevoked", !.tok = t]
    <3>1. \/ req' = [req EXCEPT ![r] = q1] /\ rt[t] = "live"
          \/ req' = [req EXCEPT ![r] = q2]
      BY <2>2 DEF Refresh, Usable
    <3>2. q1.pc = "revoke" /\ q1.tok = t /\ q2.pc = "getRevoked"
      BY DEF Idle
    <3> HIDE DEF q1, q2
    <3>3. \A q \in Requests : Continues(q)
      BY <1>0, <3>1, <3>2 DEF Continues, TypeOK, Minting
    <3> QED BY <1>0, <2>2, <3>3, NoIssueStep DEF Refresh
  <2>3. CASE \/ \E a \in Tokens, c \in Tokens \cup {NoToken} : Logout(r, a, c)
             \/ \E a \in Tokens : LogoutAll(r, a)
             \/ \E k \in Resets : ResetPassword(r, k)
             \/ GetRevokedFamily(r) \/ BlacklistAccess(r) \/ UpdatePassword(r)
    <3>1. UNCHANGED <<rt, parent, mintedBy>>
      BY <2>3 DEF Logout, LogoutAll, ResetPassword, GetRevokedFamily, BlacklistAccess,
                  UpdatePassword
    <3>2. CASE Finish(r) \/ req' = req
      BY <1>0, <3>1, <3>2, FinishTyped, NoIssueStep DEF Continues, TypeOK, Minting
    <3>3. ASSUME NEW q1, req' = [req EXCEPT ![r] = q1], q1.pc \notin Minting
          PROVE  IInv'
      <4>1. \A q \in Requests : Continues(q)
        BY <1>0, <3>3 DEF Continues, TypeOK
      <4> QED BY <1>0, <3>1, <4>1, NoIssueStep
    <3>4. CASE \/ \E a \in Tokens, c \in Tokens \cup {NoToken} : Logout(r, a, c)
               \/ \E a \in Tokens : LogoutAll(r, a)
               \/ \E k \in Resets : ResetPassword(r, k)
      BY <3>2, <3>3, <3>4 DEF Logout, LogoutAll, ResetPassword, Idle, Minting
    <3>5. CASE GetRevokedFamily(r)
      <4>1. req[r] \in Request
        BY <1>0 DEF TypeOK
      <4> QED BY <3>2, <3>3, <3>5, <4>1 DEF GetRevokedFamily, Request, Minting
    <3>6. CASE BlacklistAccess(r) \/ UpdatePassword(r)
      <4>1. ASSUME NEW l \in Labels \ Minting, Goto(r, l)
            PROVE  IInv'
        BY <1>0, <3>1, <4>1, GotoTyped, NoIssueStep DEF Continues, TypeOK
      <4> QED BY <3>2, <3>6, <4>1
              DEF BlacklistAccess, UpdatePassword, PasswordUpdated, Labels, Minting, LoggingOut
    <3> QED BY <2>3, <3>4, <3>5, <3>6
  <2>4. CASE RevokeFamily(r) \/ RevokeCookie(r) \/ RevokeAll(r)
    <3>1. /\ UNCHANGED <<parent, mintedBy>>
          /\ \A t \in Tokens : /\ rt[t] # "absent" => rt'[t] # "absent"
                               /\ rt[t] = "revoked" => rt'[t] = "revoked"
      BY <1>0, <2>4, MarkRevokedRows DEF RevokeFamily, RevokeCookie, RevokeAll
    <3>2. Finish(r)
      BY <2>4 DEF RevokeFamily, RevokeCookie, RevokeAll
    <3> QED BY <1>0, <3>1, <3>2, FinishTyped, NoIssueStep DEF Continues, TypeOK, Minting
  <2>5. CASE Revoke(r)
    <3>1. /\ UNCHANGED <<parent, mintedBy>>
          /\ \A t \in Tokens : /\ rt[t] # "absent" => rt'[t] # "absent"
                               /\ rt[t] = "revoked" => rt'[t] = "revoked"
      BY <1>0, <2>5, MarkRevokedRows DEF Revoke
    <3>2. CASE Finish(r)
      BY <1>0, <3>1, <3>2, FinishTyped, NoIssueStep DEF Continues, TypeOK, Minting
    <3>3. CASE MarkRevoked({req[r].tok}) /\ Goto(r, "saveSession")
      <4>1. req[r].tok \in Tokens /\ req[r].pc = "revoke" /\ "saveSession" \in Labels
        BY <1>0, <2>5 DEF Revoke, At, TypeOK, HasOperands, Labels, Minting
      <4>2. rt[req[r].tok] # "absent"
        BY <4>1, NullsAssumption DEF IInv, SpentBeforeIssue, Minting
      <4>3. rt'[req[r].tok] = "revoked"
        <5>1. rt[req[r].tok] \in {"absent", "live", "revoked"}
          BY <1>0, <4>1 DEF TypeOK
        <5> QED BY <3>3, <4>1, <4>2, <5>1 DEF MarkRevoked
      <4>4. \A q \in Requests : Continues(q)
        <5>1. /\ \A q \in Requests : q # r => req'[q] = req[q]
              /\ req'[r].tok = req[r].tok
          BY <1>0, <3>3, <4>1, GotoTyped DEF TypeOK
        <5> QED BY <4>1, <4>3, <5>1 DEF Continues, Minting
      <4> QED BY <1>0, <3>1, <4>4, NoIssueStep
    <3> QED BY <2>5, <3>2, <3>3 DEF Revoke, RevokeFailed
  <2>6. CASE SaveSession(r)
    <3>1. /\ Goto(r, "insert") \/ Finish(r)
          /\ req[r].pc = "saveSession" /\ UNCHANGED <<rt, parent, mintedBy>>
      BY <2>6 DEF SaveSession, At
    <3>2. \A q \in Requests : Continues(q)
      BY <1>0, <3>1, GotoTyped, FinishTyped DEF Continues, TypeOK, Labels, Minting
    <3> QED BY <1>0, <3>1, <3>2, NoIssueStep
  <2>7. CASE InsertToken(r)
    BY <1>0, <2>7, Insertion
  <2> QED BY <1>1, <2>1, <2>2, <2>3, <2>4, <2>5, <2>6, <2>7 DEF Arrive, Step
<1>2. CASE (\E t \in Tokens : ExpireToken(t)) \/ Crash \/ UNCHANGED vars
  <2>1. UNCHANGED <<rt, parent, mintedBy>>
    BY <1>2 DEF ExpireToken, Crash, vars
  <2>2. \A q \in Requests : Continues(q)
    BY <1>2 DEF ExpireToken, Crash, vars, Continues, Idle, Minting
  <2> QED BY <1>0, <2>1, <2>2, NoIssueStep
<1> QED BY <1>1, <1>2 DEF Next

(* Refresh never issues a successor of a token that can still be used: the  *)
(* exchanged token is revoked, whatever requests interleave and whatever    *)
(* fails (auth.go:158-164).                                                 *)
THEOREM ExchangedSpent == Spec => []ExchangedTokensAreSpent
<1>1. IInv => ExchangedTokensAreSpent
  BY DEF IInv
<1> QED BY <1>1, InvariantInit, InvariantStep, PTL DEF Spec

(* Requests that do not overlap never exchange the same token: a worker     *)
(* serves one at a time, and mints at most one successor of a token         *)
(* (auth.go:151-164).                                                       *)
THEOREM ExchangedOnce == Spec => []OneExchangePerWorker
<1>1. IInv => OneExchangePerWorker
  BY DEF IInv
<1> QED BY <1>1, InvariantInit, InvariantStep, PTL DEF Spec

-----------------------------------------------------------------------------
\* A drained family stays drained.

\* Only Login and Refresh start a request that can issue a token, and only
\* InsertToken makes a row live.
LEMMA OtherStep ==
  ASSUME TypeOK, NEW r \in Requests,
         \/ \E a \in Tokens, c \in Tokens \cup {NoToken} : Logout(r, a, c)
         \/ \E a \in Tokens : LogoutAll(r, a)
         \/ \E k \in Resets : ResetPassword(r, k)
         \/ Step(r) /\ ~InsertToken(r)
  PROVE  /\ UNCHANGED <<owner, famOf>>
         /\ \A t \in Tokens : rt'[t] = "live" => rt[t] = "live"
         /\ \A t \in Tokens : rt'[t] = "absent" <=> rt[t] = "absent"
         /\ \A q \in Requests :
              req'[q].pc \in Minting =>
                req[q].pc \in Minting /\ req'[q].fam = req[q].fam /\ req'[q].tok = req[q].tok
<1> USE DEF db, world, history
<1>1. req \in [Requests -> Request] /\ req[r] \in Request
  BY DEF TypeOK
<1>2. /\ UNCHANGED <<owner, famOf>>
      /\ \A t \in Tokens : rt'[t] = "live" => rt[t] = "live"
      /\ \A t \in Tokens : rt'[t] = "absent" <=> rt[t] = "absent"
  BY MarkRevokedRows
     DEF Logout, LogoutAll, ResetPassword, Step, GetRevokedFamily, RevokeFamily, Revoke,
         SaveSession, BlacklistAccess, RevokeCookie, UpdatePassword, RevokeAll
<1>3. ASSUME NEW l \in Labels, Goto(r, l), l \in Minting => req[r].pc \in Minting
      PROVE  \A q \in Requests :
               req'[q].pc \in Minting =>
                 req[q].pc \in Minting /\ req'[q].fam = req[q].fam /\ req'[q].tok = req[q].tok
  BY <1>1, <1>3, GotoTyped
<1>4. ASSUME NEW q1, req' = [req EXCEPT ![r] = q1], q1.pc \notin Minting
      PROVE  \A q \in Requests :
               req'[q].pc \in Minting =>
                 req[q].pc \in Minting /\ req'[q].fam = req[q].fam /\ req'[q].tok = req[q].tok
  BY <1>1, <1>4
<1>5. CASE Finish(r) \/ req' = req
  BY <1>1, <1>2, <1>5, FinishTyped DEF Minting
<1>6. CASE \/ \E a \in Tokens, c \in Tokens \cup {NoToken} : Logout(r, a, c)
           \/ \E a \in Tokens : LogoutAll(r, a)
           \/ \E k \in Resets : ResetPassword(r, k)
  <2>1. CASE \E a \in Tokens, c \in Tokens \cup {NoToken} : Logout(r, a, c)
    BY <1>2, <1>4, <2>1 DEF Logout, Idle, Minting
  <2>2. CASE \E a \in Tokens : LogoutAll(r, a)
    BY <1>2, <1>4, <2>2 DEF LogoutAll, Idle, Minting
  <2>3. CASE \E k \in Resets : ResetPassword(r, k)
    <3>1. PICK k \in Resets : ResetPassword(r, k)
      BY <2>3
    <3> DEFINE q1 == [Idle EXCEPT !.pc = "updatePassword", !.user = reset[k]]
    <3>2. /\ q1.pc \notin Minting
          /\ req' = [req EXCEPT ![r] = q1] \/ req' = req
      BY <3>1 DEF ResetPassword, Idle, Minting
    <3> HIDE DEF q1
    <3> QED BY <1>2, <1>4, <1>5, <3>2
  <2> QED BY <1>6, <2>1, <2>2, <2>3
<1>7. CASE GetRevokedFamily(r)
  BY <1>1, <1>2, <1>4, <1>5, <1>7 DEF GetRevokedFamily, Request, Minting
<1>8. CASE \/ RevokeFamily(r) \/ BlacklistAccess(r) \/ RevokeCookie(r)
           \/ UpdatePassword(r) \/ RevokeAll(r)
  BY <1>2, <1>3, <1>5, <1>8
     DEF RevokeFamily, BlacklistAccess, RevokeCookie, UpdatePassword, PasswordUpdated, RevokeAll,
         Labels, Minting, LoggingOut
<1>9. CASE Revoke(r) \/ SaveSession(r)
  BY <1>2, <1>3, <1>5, <1>9 DEF Revoke, RevokeFailed, SaveSession, At, Labels, Minting
<1> QED BY <1>6, <1>7, <1>8, <1>9 DEF Step

LEMMA DrainedStep ==
  ASSUME Structure, [Next]_vars, NEW f \in Families, Drained(f)
  PROVE  Drained(f)'
<1> USE DEF db, world, history
<1>1. TypeOK /\ TypeOK' /\ owner[f] # NoUser /\ \A t \in Tokens : famOf[t] = f => rt[t] # "live"
  BY StructureStep DEF Structure, Drained, RowsOf
\* Every step keeps f opened, its rows dead and its requests away from issuing.
<1>2. ASSUME owner'[f] # NoUser,
             \A t \in Tokens : famOf'[t] = f => rt'[t] # "live",
             \A q \in Requests : req'[q].pc \in Minting => req'[q].fam # f
      PROVE  Drained(f)'
  BY <1>2 DEF Drained, RowsOf
<1>3. \A q \in Requests : req[q].pc \in Minting => req[q].fam # f
  BY DEF Drained
<1>4. ASSUME NEW r \in Requests, NEW u \in Users, NEW g \in Families, Login(r, u, g)
      PROVE  Drained(f)'
  <2>1. g # f
    BY <1>1, <1>4 DEF Login, Drawn
  <2> DEFINE q1 == [Idle EXCEPT !.pc = "saveSession", !.user = u, !.fam = g]
  <2>2. q1.fam = g /\ req' = [req EXCEPT ![r] = q1]
    BY <1>4 DEF Login, Idle
  <2> HIDE DEF q1
  <2>3. \A q \in Requests : req'[q].pc \in Minting => req'[q].fam # f
    BY <1>1, <1>3, <2>1, <2>2 DEF TypeOK
  <2>4. owner'[f] = owner[f] /\ UNCHANGED <<famOf, rt>>
    BY <1>1, <1>4, <2>1 DEF Login, TypeOK
  <2> QED BY <1>1, <1>2, <2>3, <2>4
<1>5. ASSUME NEW r \in Requests, NEW t \in Tokens, Refresh(r, t)
      PROVE  Drained(f)'
  <2> DEFINE q1 == [Idle EXCEPT !.pc = "revoke", !.tok = t,
                                !.fam = famOf[t], !.user = owner[famOf[t]]]
             q2 == [Idle EXCEPT !.pc = "getRevoked", !.tok = t]
  <2>1. \/ req' = [req EXCEPT ![r] = q1] /\ rt[t] = "live"
        \/ req' = [req EXCEPT ![r] = q2]
    BY <1>5 DEF Refresh, Usable
  <2>2. q1.fam = famOf[t] /\ q2.pc = "getRevoked"
    BY DEF Idle
  <2> HIDE DEF q1, q2
  <2>3. \A q \in Requests : req'[q].pc \in Minting => req'[q].fam # f
    BY <1>1, <1>3, <2>1, <2>2 DEF TypeOK, Minting
  <2>4. UNCHANGED <<owner, famOf, rt>>
    BY <1>5 DEF Refresh
  <2> QED BY <1>1, <1>2, <2>3, <2>4
<1>6. ASSUME NEW r \in Requests, InsertToken(r)
      PROVE  Drained(f)'
  <2>1. /\ Finish(r) /\ UNCHANGED owner
        /\ req[r].fam # f
    BY <1>3, <1>6 DEF InsertToken, At, Minting
  <2>2. \A q \in Requests : req'[q].pc \in Minting => req'[q].fam # f
    BY <1>1, <1>3, <2>1, FinishTyped DEF TypeOK, Minting
  <2>3. \A t \in Tokens : famOf'[t] = f => rt'[t] # "live"
    BY <1>1, <1>6, <2>1 DEF InsertToken, TypeOK
  <2> QED BY <1>1, <1>2, <2>1, <2>2, <2>3
<1>7. ASSUME NEW r \in Requests,
             \/ \E a \in Tokens, c \in Tokens \cup {NoToken} : Logout(r, a, c)
             \/ \E a \in Tokens : LogoutAll(r, a)
             \/ \E k \in Resets : ResetPassword(r, k)
             \/ Step(r) /\ ~InsertToken(r)
      PROVE  Drained(f)'
  BY <1>1, <1>2, <1>3, <1>7, OtherStep
<1>8. CASE (\E t \in Tokens : ExpireToken(t)) \/ Crash \/ UNCHANGED vars
  BY <1>1, <1>2, <1>3, <1>8 DEF ExpireToken, Crash, vars, Idle, Minting
<1> QED BY <1>4, <1>5, <1>6, <1>7, <1>8 DEF Next, Arrive

(* A session whose refresh tokens are all revoked and which no request in   *)
(* flight serves never gets a usable token again: a fresh login draws a     *)
(* fresh family, and Refresh needs a live token (auth.go:138, 151).         *)
THEOREM DrainedForever == Spec => NoResurrection
<1>1. Structure /\ [Next]_vars => [\A f \in Families : Drained(f) => Drained(f)']_vars
  BY DrainedStep
<1> QED BY <1>1, StructureInit, StructureStep, PTL DEF Spec, NoResurrection

-----------------------------------------------------------------------------
(***************************************************************************)
(* The rows form the ledger of RefreshLedger.  What a request read before  *)
(* it inserts its row still holds when it does:                            *)
(***************************************************************************)

\* a login is the only request that mints for its family, which has no row;
Rooting ==
  \A r \in Requests : req[r].pc \in Minting /\ req[r].tok = NoToken =>
    /\ \A t \in Tokens : rt[t] # "absent" => famOf[t] # req[r].fam
    /\ \A q \in Requests : q # r /\ req[q].pc \in Minting => req[q].fam # req[r].fam

\* a refresh mints for the family of the token that was presented.
SameFamily ==
  \A r \in Requests : req[r].pc \in Minting /\ req[r].tok # NoToken =>
    famOf[req[r].tok] = req[r].fam

LInv == IInv /\ Rooting /\ SameFamily

\* A step that inserts no row and starts no request that mints.
LEMMA UnrootedStep ==
  ASSUME Rooting, SameFamily, UNCHANGED famOf,
         \A t \in Tokens : rt'[t] = "absent" <=> rt[t] = "absent",
         \A q \in Requests :
           req'[q].pc \in Minting =>
             req[q].pc \in Minting /\ req'[q].fam = req[q].fam /\ req'[q].tok = req[q].tok
  PROVE  Rooting' /\ SameFamily'
BY DEF Rooting, SameFamily

\* What each worker may be minting after a login or a refresh.
LEMMA RootedArrival ==
  ASSUME LInv, NEW r \in Requests,
         \/ \E u \in Users, f \in Families : Login(r, u, f)
         \/ \E t \in Tokens : Refresh(r, t)
  PROVE  Rooting' /\ SameFamily'
<1> USE DEF db, world, history
<1>1. TypeOK /\ Structure /\ Rooting /\ SameFamily /\ NoUser \notin Users /\ NoToken \notin Tokens
  BY NullsAssumption DEF LInv, IInv, Structure
<1>2. UNCHANGED <<rt, famOf>>
  BY DEF Login, Refresh
<1>3. ASSUME NEW u \in Users, NEW f \in Families, Login(r, u, f)
      PROVE  Rooting' /\ SameFamily'
  <2> DEFINE q1 == [Idle EXCEPT !.pc = "saveSession", !.user = u, !.fam = f]
  <2>1. /\ q1.fam = f /\ q1.tok = NoToken /\ q1.pc \in Minting
        /\ req' = [req EXCEPT ![r] = q1] /\ owner[f] = NoUser
    BY <1>3 DEF Login, Drawn, Idle, Minting
  <2> HIDE DEF q1
  <2>2. req'[r] = q1 /\ \A q \in Requests : q # r => req'[q] = req[q]
    BY <1>1, <2>1 DEF TypeOK
  <2>3. /\ \A t \in Tokens : rt[t] # "absent" => famOf[t] # f
        /\ \A q \in Requests : req[q].pc \in Minting => req[q].fam # f
    BY <1>1, <2>1 DEF Structure, RowsHaveFamily, MintingOwned
  <2> QED BY <1>1, <1>2, <2>1, <2>2, <2>3 DEF Rooting, SameFamily
<1>4. ASSUME NEW t \in Tokens, Refresh(r, t)
      PROVE  Rooting' /\ SameFamily'
  <2> DEFINE q1 == [Idle EXCEPT !.pc = "revoke", !.tok = t,
                                !.fam = famOf[t], !.user = owner[famOf[t]]]
             q2 == [Idle EXCEPT !.pc = "getRevoked", !.tok = t]
  <2>1. \/ req' = [req EXCEPT ![r] = q1] /\ rt[t] = "live"
        \/ req' = [req EXCEPT ![r] = q2]
    BY <1>4 DEF Refresh, Usable
  <2>2. q1.tok = t /\ q1.fam = famOf[t] /\ q2.pc \notin Minting
    BY DEF Idle, Minting
  <2> HIDE DEF q1, q2
  <2>3. CASE req' = [req EXCEPT ![r] = q1] /\ rt[t] = "live"
    <3>1. req'[r] = q1 /\ \A q \in Requests : q # r => req'[q] = req[q]
      BY <1>1, <2>3 DEF TypeOK
    <3> QED BY <1>1, <1>2, <2>2, <2>3, <3>1 DEF Rooting, SameFamily
  <2>4. CASE req' = [req EXCEPT ![r] = q2]
    <3>1. req'[r] = q2 /\ \A q \in Requests : q # r => req'[q] = req[q]
      BY <1>1, <2>4 DEF TypeOK
    <3> QED BY <1>1, <1>2, <2>2, <3>1, UnrootedStep
  <2> QED BY <2>1, <2>3, <2>4
<1> QED BY <1>3, <1>4

\* The row that a request inserts is its own family's.
LEMMA RootedInsertion ==
  ASSUME LInv, NEW r \in Requests, InsertToken(r)
  PROVE  Rooting' /\ SameFamily'
<1> USE DEF db, world, history
<1>1. TypeOK /\ Rooting /\ SameFamily
  BY DEF LInv, IInv, Structure
<1>2. /\ req'[r].pc \notin Minting /\ req[r].pc \in Minting
      /\ \A q \in Requests : q # r => req'[q] = req[q]
  BY <1>1, FinishTyped DEF InsertToken, At, Minting, TypeOK
<1>3. CASE UNCHANGED <<rt, famOf>>
  BY <1>1, <1>2, <1>3, UnrootedStep
<1>4. ASSUME NEW t \in Tokens,
             rt[t] = "absent",
             rt' = [rt EXCEPT ![t] = "live"],
             famOf' = [famOf EXCEPT ![t] = req[r].fam]
      PROVE  Rooting' /\ SameFamily'
  <2>1. /\ famOf'[t] = req[r].fam
        /\ \A s \in Tokens : s # t => rt'[s] = rt[s] /\ famOf'[s] = famOf[s]
    BY <1>1, <1>4 DEF TypeOK
  <2>2. Rooting'
    BY <1>1, <1>2, <2>1 DEF Rooting
  <2>3. \A q \in Requests :
          req[q].pc \in Minting /\ req[q].tok # NoToken => req[q].tok \in Tokens \ {t}
    BY <1>1, <1>4 DEF LInv, IInv, SpentBeforeIssue, TypeOK, Request
  <2>4. SameFamily'
    BY <1>1, <1>2, <2>1, <2>3 DEF SameFamily
  <2> QED BY <2>2, <2>4
<1> QED BY <1>3, <1>4 DEF InsertToken

LEMMA LedgerInvariant == LInv /\ [Next]_vars => LInv'
<1> SUFFICES ASSUME LInv, [Next]_vars PROVE Rooting' /\ SameFamily'
  BY InvariantStep DEF LInv
<1>1. TypeOK /\ Rooting /\ SameFamily
  BY DEF LInv, IInv, Structure
<1>2. ASSUME NEW r \in Requests,
             \/ \E a \in Tokens, c \in Tokens \cup {NoToken} : Logout(r, a, c)
             \/ \E a \in Tokens : LogoutAll(r, a)
             \/ \E k \in Resets : ResetPassword(r, k)
             \/ Step(r) /\ ~InsertToken(r)
      PROVE  Rooting' /\ SameFamily'
  BY <1>1, <1>2, OtherStep, UnrootedStep
<1>3. CASE (\E t \in Tokens : ExpireToken(t)) \/ Crash \/ UNCHANGED vars
  <2>1. /\ UNCHANGED <<rt, famOf>>
        /\ UNCHANGED req \/ \A q \in Requests : req'[q].pc \notin Minting
    BY <1>3 DEF ExpireToken, Crash, vars, db, Idle, Minting
  <2> QED BY <1>1, <2>1, UnrootedStep
<1> QED BY <1>2, <1>3, RootedArrival, RootedInsertion DEF Next, Arrive

\* Every step of the program is one of the ledger's, or none.
LEMMA LedgerStep == LInv /\ [Next]_vars => [Ledger!Next]_(Ledger!vars)
<1> SUFFICES ASSUME LInv, [Next]_vars PROVE [Ledger!Next]_(Ledger!vars)
  OBVIOUS
<1> USE DEF db, world, history
<1>1. TypeOK /\ NoToken \notin Tokens
  BY NullsAssumption DEF LInv, IInv, Structure
<1>2. ASSUME NEW S, MarkRevoked(S), UNCHANGED <<famOf, parent>>
      PROVE  Ledger!Next
  <2>1. S \cap Tokens \in SUBSET Tokens /\ Ledger!Revoke(S \cap Tokens)
    BY <1>2 DEF MarkRevoked, Ledger!Revoke
  <2> QED BY <2>1 DEF Ledger!Next
<1>3. ASSUME UNCHANGED <<rt, famOf, parent>>
      PROVE  UNCHANGED Ledger!vars
  BY <1>3 DEF Ledger!vars
<1>4. ASSUME NEW r \in Requests, InsertToken(r)
      PROVE  [Ledger!Next]_(Ledger!vars)
  <2>1. /\ req[r].pc \in Minting /\ req[r].pc # "revoke"
        /\ req[r].fam \in Families /\ req[r].tok \in Tokens \cup {NoToken}
    BY <1>1, <1>4 DEF InsertToken, At, Minting, TypeOK, HasOperands, Request
  <2>2. ASSUME NEW t \in Tokens,
               rt[t] = "absent",
               rt' = [rt EXCEPT ![t] = "live"],
               famOf' = [famOf EXCEPT ![t] = req[r].fam],
               parent' = [parent EXCEPT ![t] = req[r].tok]
        PROVE  Ledger!Next
    <3>1. Ledger!Mint(t, req[r].fam, req[r].tok)
      BY <2>2 DEF Ledger!Mint
    <3>2. CASE req[r].tok = NoToken
      <4>1. Ledger!Open(t, req[r].fam)
        BY <2>1, <3>1, <3>2 DEF Ledger!Open, LInv, Rooting
      <4> QED BY <2>1, <4>1 DEF Ledger!Next
    <3>3. CASE req[r].tok \in Tokens
      <4>1. Ledger!Succeed(t, req[r].tok)
        BY <1>1, <2>1, <3>1, <3>3 DEF Ledger!Succeed, LInv, IInv, SpentBeforeIssue, SameFamily
      <4> QED BY <3>3, <4>1 DEF Ledger!Next
    <3> QED BY <2>1, <3>2, <3>3
  <2> QED BY <1>3, <1>4, <2>2 DEF InsertToken
<1>5. ASSUME NEW r \in Requests,
             RevokeFamily(r) \/ Revoke(r) \/ RevokeCookie(r) \/ RevokeAll(r)
      PROVE  [Ledger!Next]_(Ledger!vars)
  BY <1>2, <1>3, <1>5 DEF RevokeFamily, Revoke, RevokeCookie, RevokeAll
<1>6. ASSUME NEW r \in Requests,
             \/ Arrive(r) \/ GetRevokedFamily(r) \/ SaveSession(r) \/ BlacklistAccess(r)
             \/ UpdatePassword(r)
      PROVE  UNCHANGED <<rt, famOf, parent>>
  BY <1>6 DEF Arrive, Login, Refresh, Logout, LogoutAll, ResetPassword, GetRevokedFamily,
     SaveSession, BlacklistAccess, UpdatePassword
<1>7. CASE (\E t \in Tokens : ExpireToken(t)) \/ Crash \/ UNCHANGED vars
  BY <1>3, <1>7 DEF ExpireToken, Crash, vars
<1> QED BY <1>3, <1>4, <1>5, <1>6, <1>7 DEF Next, Step

(* The refresh_tokens table is the ledger of RefreshLedger, whatever        *)
(* requests interleave and whatever fails: a login's row is the first of    *)
(* its family, a refresh adds the successor of a spent token to the family  *)
(* of that token, and nothing un-revokes a row (auth.go:138-164).           *)
THEOREM RefinesRefreshLedger == Spec => ImplementsRefreshLedger
<1>1. Init => LInv /\ Ledger!Init
  BY InvariantInit DEF Init, LInv, Rooting, SameFamily, Idle, Minting, Ledger!Init
<1> QED BY <1>1, LedgerInvariant, LedgerStep, PTL DEF Spec, ImplementsRefreshLedger, Ledger!Spec

-----------------------------------------------------------------------------
\* What the ledger keeps, and with it the program.

LedgerTypes ==
  /\ rt \in [Tokens -> {"absent", "live", "revoked"}]
  /\ famOf \in [Tokens -> Families \cup {NoFamily}]
  /\ parent \in [Tokens -> Tokens \cup {NoToken}]
  /\ \A t \in Tokens : rt[t] # "absent" => famOf[t] \in Families

\* A new token is nobody's parent, and its own parent is a token of its family.
LEMMA MintedLineage ==
  ASSUME LedgerTypes, Ledger!Lineage, NEW t \in Tokens, NEW f \in Families,
         NEW p \in Tokens \cup {NoToken}, Ledger!Mint(t, f, p),
         IF p = NoToken THEN \A s \in Ledger!Issued : famOf[s] # f
                        ELSE p \in Ledger!Issued /\ famOf[p] = f
  PROVE  Ledger!Lineage'
<1> USE DEF Ledger!Issued
<1>1. /\ rt'[t] = "live" /\ famOf'[t] = f /\ parent'[t] = p
      /\ \A s \in Tokens \ {t} :
           rt'[s] = rt[s] /\ famOf'[s] = famOf[s] /\ parent'[s] = parent[s]
  BY DEF LedgerTypes, Ledger!Mint
<1>2. t \notin Ledger!Issued /\ Ledger!Issued' = Ledger!Issued \cup {t}
  BY <1>1 DEF Ledger!Mint
<1>3. /\ NoToken \notin Tokens
      /\ \A s \in Ledger!Issued : parent[s] # t
  BY <1>2, NullsAssumption DEF Ledger!Lineage
<1> HIDE DEF Ledger!Issued
<1>4. Ledger!Issued \subseteq Tokens
  BY DEF Ledger!Issued
<1>5. ASSUME NEW s \in Ledger!Issued', parent'[s] # NoToken
      PROVE  parent'[s] \in Ledger!Issued' /\ famOf'[parent'[s]] = famOf'[s]
  <2>1. CASE s = t
    BY <1>1, <1>2, <1>4, <1>5, <2>1
  <2>2. CASE s # t
    BY <1>1, <1>2, <1>3, <1>4, <1>5, <2>2 DEF Ledger!Lineage
  <2> QED BY <2>1, <2>2
<1>6. ASSUME NEW q \in Ledger!Issued', NEW s \in Ledger!Issued',
             parent'[q] = NoToken, parent'[s] = NoToken, famOf'[q] = famOf'[s]
      PROVE  q = s
  <2>1. CASE q # t /\ s # t
    BY <1>1, <1>2, <1>4, <1>6, <2>1 DEF Ledger!Lineage
  <2>2. CASE q = t /\ s # t
    BY <1>1, <1>2, <1>4, <1>6, <2>2
  <2>3. CASE q # t /\ s = t
    BY <1>1, <1>2, <1>4, <1>6, <2>3
  <2> QED BY <2>1, <2>2, <2>3
<1>7. ASSUME NEW S \in SUBSET (Ledger!Issued'), S # {}
      PROVE  \E s \in S : parent'[s] \notin S
  <2>1. CASE S \subseteq {t}
    <3>1. S = {t} /\ p # t
      BY <1>2, <1>3, <1>7, <2>1
    <3> QED BY <1>1, <3>1
  <2>2. CASE ~(S \subseteq {t})
    <3>1. S \ {t} \in SUBSET Ledger!Issued /\ S \ {t} # {}
      BY <1>2, <1>7, <2>2
    <3>2. PICK s \in S \ {t} : parent[s] \notin S \ {t}
      BY <3>1 DEF Ledger!Lineage
    <3>3. s \in Ledger!Issued /\ parent[s] # t /\ parent'[s] = parent[s]
      BY <1>1, <1>3, <1>4, <3>1, <3>2
    <3> QED BY <3>2, <3>3
  <2> QED BY <2>1, <2>2
<1> QED BY <1>5, <1>6, <1>7 DEF Ledger!Lineage

LEMMA LineageStep ==
  ASSUME LedgerTypes, Ledger!Lineage, [Ledger!Next]_(Ledger!vars)
  PROVE  Ledger!Lineage'
<1>1. ASSUME NEW t \in Tokens, NEW f \in Families, Ledger!Open(t, f)
      PROVE  Ledger!Lineage'
  BY <1>1, MintedLineage DEF Ledger!Open, Ledger!Issued
<1>2. ASSUME NEW t \in Tokens, NEW p \in Tokens, Ledger!Succeed(t, p)
      PROVE  Ledger!Lineage'
  <2>1. p # NoToken /\ p \in Ledger!Issued /\ famOf[p] \in Families
    BY <1>2, NullsAssumption DEF Ledger!Succeed, Ledger!Issued, LedgerTypes
  <2> QED BY <1>2, <2>1, MintedLineage DEF Ledger!Succeed
<1>3. ASSUME Ledger!Issued' = Ledger!Issued, UNCHANGED <<famOf, parent>>
      PROVE  Ledger!Lineage'
  BY <1>3 DEF Ledger!Lineage
<1>4. ASSUME NEW S \in SUBSET Tokens, Ledger!Revoke(S)
      PROVE  Ledger!Lineage'
  BY <1>3, <1>4 DEF Ledger!Revoke, Ledger!Issued
<1>5. CASE UNCHANGED Ledger!vars
  BY <1>3, <1>5 DEF Ledger!vars, Ledger!Issued
<1> QED BY <1>1, <1>2, <1>4, <1>5 DEF Ledger!Next

(* From every refresh token the exchanges lead back to one login, the one   *)
(* that opened its family: revoking a family revokes what came of that      *)
(* login and nothing else (auth.go:138, 154, 164).                          *)
THEOREM FamiliesAreTrees == Spec => []LineageKept
<1>1. Init => LInv /\ LineageKept
  BY InvariantInit DEF Init, LInv, Rooting, SameFamily, Idle, Minting, LineageKept,
     Ledger!Lineage, Ledger!Issued
<1>2. LInv /\ LineageKept /\ [Next]_vars => LineageKept'
  BY LedgerStep, LineageStep
     DEF LInv, IInv, Structure, TypeOK, RowsHaveFamily, LedgerTypes, LineageKept
<1> QED BY <1>1, <1>2, LedgerInvariant, PTL DEF Spec

-----------------------------------------------------------------------------
(***************************************************************************)
(* What is promised as long as requests do not race.  The replay check,    *)
(* the bulk revocation and the rotation are sequences of separate          *)
(* statements, and TLC refutes each promise when two requests overlap.     *)
(* Each of the races below is the only one that can break its promise:     *)
(* all other requests interleave freely, fail and die.                     *)
(***************************************************************************)

\* No request can still mint a token of a family that a replay is revoking.
NoReplayRace ==
  \A q, r \in Requests :
    At(r, "revokeFamily") /\ req[q].pc \in Minting => req[q].fam # req[r].fam

\* No request can still mint a token for a user whose sessions are being revoked.
NoBulkRace ==
  \A q, r \in Requests :
    At(r, "revokeAll") /\ req[q].pc \in Minting => owner[req[q].fam] # req[r].user

\* No two requests can mint a token of the same family.
NoMintRace ==
  \A q, r \in Requests :
    req[q].pc \in Minting /\ req[r].pc \in Minting /\ req[q].fam = req[r].fam => q = r

\* The family that a replay revokes was opened by a login.
RevokingOwned == \A r \in Requests : At(r, "revokeFamily") => owner[req[r].fam] \in Users

\* What a replay or a bulk revocation has ended is drained.
ReplayedDrained == \A f \in replayed : Drained(f)
ClosedDrained == \A f \in closed : Drained(f)

\* A session of an old password is drained, or about to be.
Stale(f) == owner[f] # NoUser /\ openedWith[f] \notin {NoPassword, passwd[owner[f]]}
Ending(f) == \E r \in Requests : At(r, "revokeAll") /\ req[r].user = owner[f]
StaleDrained == \A f \in Families : Stale(f) => Drained(f) \/ Ending(f)

\* A request that may mint a token has spent the last live one of its family,
\* or is about to.
LastLive ==
  \A r \in Requests, t \in Tokens :
    req[r].pc \in Minting /\ rt[t] = "live" /\ famOf[t] = req[r].fam
    => req[r].pc = "revoke" /\ t = req[r].tok

-----------------------------------------------------------------------------
\* The families and the requests that end them.

\* An id that was drawn keeps its user.
LEMMA OwnersStay ==
  ASSUME TypeOK, [Next]_vars, NEW f \in Families, owner[f] # NoUser
  PROVE  owner'[f] = owner[f]
<1>1. ASSUME NEW r \in Requests, NEW u \in Users, NEW g \in Families, Login(r, u, g)
      PROVE  owner'[f] = owner[f]
  BY <1>1 DEF Login, Drawn, TypeOK
<1>2. ASSUME NEW r \in Requests, Arrive(r) \/ Step(r),
             ~\E u \in Users, g \in Families : Login(r, u, g)
      PROVE  owner' = owner
  BY <1>2 DEF Arrive, Step, Refresh, Logout, LogoutAll, ResetPassword, GetRevokedFamily,
     RevokeFamily, Revoke, SaveSession, InsertToken, BlacklistAccess, RevokeCookie,
     UpdatePassword, RevokeAll, world
<1>3. CASE (\E t \in Tokens : ExpireToken(t)) \/ Crash \/ UNCHANGED vars
  BY <1>3 DEF ExpireToken, Crash, vars, world
<1> QED BY <1>1, <1>2, <1>3 DEF Next

\* A step of one request leaves the others where they are.
LEMMA OthersStay ==
  ASSUME TypeOK, NEW r \in Requests, Arrive(r) \/ Step(r)
  PROVE  \A q \in Requests : q # r => req'[q] = req[q]
<1>1. ASSUME NEW q1, req' = [req EXCEPT ![r] = q1]
      PROVE  \A q \in Requests : q # r => req'[q] = req[q]
  BY <1>1 DEF TypeOK
<1>2. ASSUME NEW l, Goto(r, l)
      PROVE  \A q \in Requests : q # r => req'[q] = req[q]
  BY <1>2 DEF Goto, TypeOK
<1>3. CASE Finish(r) \/ UNCHANGED req
  BY <1>3 DEF Finish, TypeOK
<1>4. CASE Arrive(r)
  BY <1>1, <1>3, <1>4 DEF Arrive, Login, Refresh, Logout, LogoutAll, ResetPassword
<1>5. CASE GetRevokedFamily(r)
  BY <1>1, <1>3, <1>5 DEF GetRevokedFamily
<1>6. CASE Step(r) /\ ~GetRevokedFamily(r)
  BY <1>2, <1>3, <1>6
     DEF Step, RevokeFamily, Revoke, RevokeFailed, SaveSession, InsertToken, BlacklistAccess,
         RevokeCookie, UpdatePassword, PasswordUpdated, RevokeAll
<1> QED BY <1>4, <1>5, <1>6

LEMMA RevokingStep == Structure /\ RevokingOwned /\ [Next]_vars => RevokingOwned'
<1> SUFFICES ASSUME Structure, RevokingOwned, [Next]_vars,
                    NEW q \in Requests, At(q, "revokeFamily")'
             PROVE  owner'[req'[q].fam] \in Users
  BY DEF RevokingOwned
<1>1. TypeOK /\ NoUser \notin Users
  BY NullsAssumption DEF Structure
<1>2. ASSUME NEW f \in Families, owner[f] \in Users
      PROVE  owner'[f] \in Users
  BY <1>1, <1>2, OwnersStay
<1>3. CASE req'[q] = req[q]
  <2>1. owner[req[q].fam] \in Users /\ req[q].fam \in Families
    BY <1>1, <1>3 DEF RevokingOwned, At, TypeOK, HasOperands
  <2> QED BY <1>2, <1>3, <2>1
<1>4. CASE GetRevokedFamily(q) /\ req'[q] # req[q]
  <2> DEFINE f == RevokedFamily(req[q].tok)
             q1 == [req[q] EXCEPT !.pc = "revokeFamily", !.fam = f]
  <2>1. req[q] \in Request /\ At(q, "getRevoked")
    BY <1>1, <1>4 DEF TypeOK, GetRevokedFamily
  <2>2. ~NilFamily(f) /\ req' = [req EXCEPT ![q] = q1]
    BY <1>1, <1>4, FinishTyped DEF GetRevokedFamily, At, TypeOK
  <2>3. q1.fam = f
    BY <2>1 DEF Request
  <2>4. f \in Families /\ owner[f] \in Users
    BY <1>1, <2>1, <2>2 DEF NilFamily, RevokedFamily, Structure, RowsHaveFamily, TypeOK, HasOperands, At
  <2> HIDE DEF f, q1
  <2>5. req'[q].fam = f
    BY <1>1, <2>2, <2>3 DEF TypeOK
  <2> QED BY <1>2, <2>4, <2>5
<1>5. ASSUME ~GetRevokedFamily(q), req'[q] # req[q], NEW r \in Requests, Arrive(r) \/ Step(r)
      PROVE  FALSE
  <2>1. ASSUME NEW q1, req' = [req EXCEPT ![r] = q1], q1.pc # "revokeFamily"
        PROVE  FALSE
    BY <1>1, <1>5, <2>1 DEF At, TypeOK
  <2>2. CASE Finish(r)
    BY <1>1, <1>5, <2>2, FinishTyped DEF At, TypeOK
  <2>3. ASSUME NEW l \in Labels, Goto(r, l), l # "revokeFamily"
        PROVE  FALSE
    BY <1>1, <1>5, <2>3, GotoTyped DEF At, TypeOK
  <2>4. CASE Arrive(r)
    <3>1. ASSUME NEW u \in Users, NEW f \in Families, Login(r, u, f)
          PROVE  FALSE
      <4> DEFINE q1 == [Idle EXCEPT !.pc = "saveSession", !.user = u, !.fam = f]
      <4>1. q1.pc # "revokeFamily" /\ req' = [req EXCEPT ![r] = q1]
        BY <3>1 DEF Login, Idle
      <4> HIDE DEF q1
      <4> QED BY <2>1, <4>1
    <3>2. ASSUME NEW t \in Tokens, Refresh(r, t)
          PROVE  FALSE
      <4> DEFINE q1 == [Idle EXCEPT !.pc = "revoke", !.tok = t,
                                    !.fam = famOf[t], !.user = owner[famOf[t]]]
                 q2 == [Idle EXCEPT !.pc = "getRevoked", !.tok = t]
      <4>1. /\ q1.pc # "revokeFamily" /\ q2.pc # "revokeFamily"
            /\ req' = [req EXCEPT ![r] = q1] \/ req' = [req EXCEPT ![r] = q2]
        BY <3>2 DEF Refresh, Idle
      <4> HIDE DEF q1, q2
      <4> QED BY <2>1, <4>1
    <3>3. ASSUME NEW a \in Tokens, NEW c \in Tokens \cup {NoToken}, Logout(r, a, c)
          PROVE  FALSE
      <4> DEFINE q1 == [Idle EXCEPT !.pc = "blacklist", !.tok = a, !.cookie = c,
                                    !.fam = famOf[a], !.user = owner[famOf[a]]]
      <4>1. q1.pc # "revokeFamily" /\ req' = [req EXCEPT ![r] = q1]
        BY <3>3 DEF Logout, Idle
      <4> HIDE DEF q1
      <4> QED BY <2>1, <4>1
    <3>4. ASSUME NEW a \in Tokens, LogoutAll(r, a)
          PROVE  FALSE
      <4> DEFINE q1 == [Idle EXCEPT !.pc = "revokeAll", !.user = owner[famOf[a]]]
      <4>1. q1.pc # "revokeFamily" /\ req' = [req EXCEPT ![r] = q1]
        BY <3>4 DEF LogoutAll, Idle
      <4> HIDE DEF q1
      <4> QED BY <2>1, <4>1
    <3>5. ASSUME NEW k \in Resets, ResetPassword(r, k)
          PROVE  FALSE
      <4> DEFINE q1 == [Idle EXCEPT !.pc = "updatePassword", !.user = reset[k]]
      <4>1. /\ q1.pc # "revokeFamily"
            /\ req' = [req EXCEPT ![r] = q1] \/ req' = req
        BY <3>5 DEF ResetPassword, Idle
      <4> HIDE DEF q1
      <4> QED BY <1>5, <2>1, <4>1
    <3> QED BY <2>4, <3>1, <3>2, <3>3, <3>4, <3>5 DEF Arrive
  <2>5. CASE GetRevokedFamily(r)
    BY <1>1, <1>5, <2>2, <2>5 DEF GetRevokedFamily, TypeOK
  <2>6. CASE Step(r) /\ ~GetRevokedFamily(r)
    BY <2>2, <2>3, <2>6 DEF Step, RevokeFamily, Revoke, RevokeFailed, SaveSession, InsertToken,
       BlacklistAccess, RevokeCookie, UpdatePassword, PasswordUpdated, RevokeAll, Labels, Minting,
       LoggingOut
  <2> QED BY <1>5, <2>4, <2>5, <2>6
<1>6. CASE (\E t \in Tokens : ExpireToken(t)) \/ Crash \/ UNCHANGED vars
  BY <1>3, <1>6 DEF ExpireToken, Crash, vars, Idle, At
<1> QED BY <1>3, <1>4, <1>5, <1>6 DEF Next
-----------------------------------------------------------------------------
\* What is revoked is drained.

\* The UPDATE that ends a family ends it for good: nobody can mint for it.
LEMMA RevokedDrained ==
  ASSUME TypeOK, NEW r \in Requests, NEW f \in Families, owner[f] # NoUser,
         \A q \in Requests : req[q].pc \in Minting => req[q].fam # f,
         NEW S, RowsOf({f}) \subseteq S, MarkRevoked(S), Finish(r), UNCHANGED <<owner, famOf>>
  PROVE  Drained(f)'
<1>1. \A t \in Tokens : famOf[t] = f => rt'[t] # "live"
  BY MarkRevokedRows DEF RowsOf
<1>2. ASSUME NEW q \in Requests, req'[q].pc \in Minting
      PROVE  req'[q].fam # f
  <2>1. q # r /\ req'[q] = req[q]
    BY <1>2, FinishTyped DEF TypeOK, Minting
  <2> QED BY <1>2, <2>1
<1> QED BY <1>1, <1>2 DEF Drained, RowsOf

\* RevokeFamily and RevokeAll alone end families.
LEMMA EndingSteps ==
  ASSUME [Next]_vars
  PROVE  /\ (\E r \in Requests : RevokeFamily(r)) \/ UNCHANGED replayed
         /\ (\E r \in Requests : RevokeAll(r)) \/ UNCHANGED closed
<1>1. ASSUME NEW r \in Requests, Arrive(r) \/ Step(r)
      PROVE  /\ RevokeFamily(r) \/ UNCHANGED replayed
             /\ RevokeAll(r) \/ UNCHANGED closed
  BY <1>1 DEF Arrive, Step, Login, Refresh, Logout, LogoutAll, ResetPassword, GetRevokedFamily,
     RevokeFamily, Revoke, SaveSession, InsertToken, BlacklistAccess, RevokeCookie, UpdatePassword,
     RevokeAll, history
<1>2. CASE (\E t \in Tokens : ExpireToken(t)) \/ Crash \/ UNCHANGED vars
  BY <1>2 DEF ExpireToken, Crash, vars, history
<1> QED BY <1>1, <1>2 DEF Next

LEMMA ReplayedStep ==
  ASSUME NoReplayRace, Structure, RevokingOwned, ReplayedDrained, [Next]_vars
  PROVE  ReplayedDrained'
<1> SUFFICES ASSUME NEW f \in replayed', f \notin replayed
             PROVE  Drained(f)'
  BY StructureStep, DrainedStep DEF ReplayedDrained, Structure, TypeOK
<1>1. TypeOK /\ NoUser \notin Users
  BY NullsAssumption DEF Structure
<1>2. PICK r \in Requests : RevokeFamily(r)
  BY EndingSteps
<1>3. MarkRevoked(ReplayedRows(r)) /\ f = req[r].fam /\ Finish(r) /\ UNCHANGED <<owner, famOf>>
  BY <1>2 DEF RevokeFamily, world
<1>4. f \in Families /\ owner[f] \in Users
  BY <1>1, <1>2, <1>3 DEF RevokeFamily, RevokingOwned, TypeOK, HasOperands, At
<1>5. \A q \in Requests : req[q].pc \in Minting => req[q].fam # f
  BY <1>2, <1>3 DEF RevokeFamily, NoReplayRace
<1> QED BY <1>1, <1>3, <1>4, <1>5, RevokedDrained DEF ReplayedRows

LEMMA ClosedStep ==
  ASSUME NoBulkRace, Structure, ClosedDrained, [Next]_vars
  PROVE  ClosedDrained'
<1> SUFFICES ASSUME NEW f \in closed', f \notin closed
             PROVE  Drained(f)'
  BY StructureStep, DrainedStep DEF ClosedDrained, Structure, TypeOK
<1>1. TypeOK /\ NoUser \notin Users
  BY NullsAssumption DEF Structure
<1>2. PICK r \in Requests : RevokeAll(r)
  BY EndingSteps
<1> DEFINE u == req[r].user
<1>3. /\ MarkRevoked(BulkRows(u)) /\ f \in OwnedBy(u)
      /\ Finish(r) /\ UNCHANGED <<owner, famOf>>
  BY <1>2 DEF RevokeAll, world
<1>4. u \in Users
  BY <1>1, <1>2 DEF RevokeAll, TypeOK, HasOperands, At
<1>5. /\ f \in Families /\ owner[f] = u /\ owner[f] # NoUser
      /\ RowsOf({f}) \subseteq BulkRows(u)
  BY <1>1, <1>3, <1>4 DEF OwnedBy, BulkRows, RowsOf
<1>6. \A q \in Requests : req[q].pc \in Minting => req[q].fam # f
  BY <1>2, <1>5 DEF RevokeAll, NoBulkRace
<1> QED BY <1>1, <1>3, <1>5, <1>6, RevokedDrained

-----------------------------------------------------------------------------
\* The sessions of an old password.

\* Unless the user's password or the session's record changes, a session that
\* is not drained was just as stale before the step.
LEMMA StaleBefore ==
  ASSUME StaleDrained, NEW f \in Families, Stale(f)', ~Drained(f),
         owner'[f] = owner[f], openedWith'[f] = openedWith[f],
         passwd'[owner[f]] = passwd[owner[f]]
  PROVE  Ending(f)
BY DEF StaleDrained, Stale

LEMMA StaleStep ==
  ASSUME NoBulkRace, Structure, StaleDrained, [Next]_vars
  PROVE  StaleDrained'
<1> SUFFICES ASSUME NEW f \in Families, Stale(f)', ~Drained(f)
             PROVE  Drained(f)' \/ Ending(f)'
  BY DrainedStep DEF StaleDrained
<1> USE DEF db, world, history
<1>1. TypeOK /\ NoUser \notin Users
  BY NullsAssumption DEF Structure
\* Only the request that revokes the user's sessions ends the wait.
<1>2. ASSUME NEW r \in Requests, Arrive(r) \/ Step(r), owner'[f] = owner[f],
             ~At(r, "revokeAll") \/ req[r].user # owner[f], Ending(f)
      PROVE  Ending(f)'
  BY <1>1, <1>2, OthersStay DEF Ending, At
<1>3. ASSUME NEW r \in Requests, NEW u \in Users, NEW g \in Families,
             Arrive(r), Login(r, u, g)
      PROVE  Ending(f)'
  <2>1. g # f
    BY <1>1, <1>3 DEF Login, Drawn, Stale, TypeOK
  <2>2. owner'[f] = owner[f] /\ openedWith'[f] = openedWith[f] /\ UNCHANGED passwd
    BY <1>1, <1>3, <2>1 DEF Login, TypeOK
  <2> QED BY <1>2, <1>3, <2>2, StaleBefore DEF Login, At
<1>4. ASSUME NEW r \in Requests, Arrive(r) \/ Step(r),
             \/ \E t \in Tokens : Refresh(r, t)
             \/ \E a \in Tokens, c \in Tokens \cup {NoToken} : Logout(r, a, c)
             \/ \E a \in Tokens : LogoutAll(r, a)
             \/ \E k \in Resets : ResetPassword(r, k)
             \/ GetRevokedFamily(r) \/ RevokeFamily(r) \/ Revoke(r) \/ SaveSession(r)
             \/ InsertToken(r) \/ BlacklistAccess(r) \/ RevokeCookie(r)
      PROVE  Ending(f)'
  <2>1. UNCHANGED <<owner, openedWith, passwd>>
    BY <1>4 DEF Refresh, Logout, LogoutAll, ResetPassword, GetRevokedFamily, RevokeFamily,
       Revoke, SaveSession, InsertToken, BlacklistAccess, RevokeCookie
  <2>2. ~At(r, "revokeAll")
    BY <1>4 DEF Refresh, Logout, LogoutAll, ResetPassword, GetRevokedFamily, RevokeFamily,
       Revoke, SaveSession, InsertToken, BlacklistAccess, RevokeCookie, At
  <2> QED BY <1>2, <1>4, <2>1, <2>2, StaleBefore
<1>5. ASSUME NEW r \in Requests, UpdatePassword(r)
      PROVE  Ending(f)'
  <2> DEFINE u == req[r].user
  <2>1. ~At(r, "revokeAll") /\ UNCHANGED owner /\ u \in Users /\ Step(r)
    BY <1>1, <1>5 DEF UpdatePassword, At, TypeOK, HasOperands, Step
  <2>2. \/ \E pw \in Passwords :
             /\ passwd' = [passwd EXCEPT ![u] = pw]
             /\ \/ Goto(r, "revokeAll") /\ UNCHANGED openedWith
                \/ Interrupted({u}, passwd')
        \/ UNCHANGED <<passwd, openedWith>>
    BY <1>5 DEF UpdatePassword, PasswordUpdated
  <2>3. CASE UNCHANGED <<passwd, openedWith>>
    BY <1>2, <2>1, <2>3, StaleBefore
  <2>4. ASSUME NEW pw \in Passwords, passwd' = [passwd EXCEPT ![u] = pw]
        PROVE  owner[f] # u => passwd'[owner[f]] = passwd[owner[f]]
    <3>1. owner[f] \in Users
      BY <1>1, <2>1 DEF Stale, TypeOK
    <3> QED BY <1>1, <2>4, <3>1 DEF TypeOK
  <2>5. ASSUME NEW pw \in Passwords, passwd' = [passwd EXCEPT ![u] = pw],
               Goto(r, "revokeAll"), UNCHANGED openedWith
        PROVE  Ending(f)'
    <3>1. CASE owner[f] # u
      BY <1>2, <2>1, <2>4, <2>5, <3>1, StaleBefore
    <3>2. req'[r].pc = "revokeAll" /\ req'[r].user = u
      BY <1>1, <2>5, GotoTyped DEF TypeOK, Labels
    <3> QED BY <2>1, <3>1, <3>2 DEF Ending, At
  <2>6. ASSUME NEW pw \in Passwords, passwd' = [passwd EXCEPT ![u] = pw], Interrupted({u}, passwd')
        PROVE  Ending(f)'
    <3>1. CASE owner[f] = u
      BY <2>1, <2>6, <3>1 DEF Interrupted, Stale
    <3>2. CASE owner[f] # u
      BY <1>2, <2>1, <2>4, <2>6, <3>2, StaleBefore DEF Interrupted
    <3> QED BY <3>1, <3>2
  <2> QED BY <2>2, <2>3, <2>5, <2>6
<1>6. ASSUME NEW r \in Requests, RevokeAll(r)
      PROVE  Drained(f)' \/ Ending(f)'
  <2> DEFINE u == req[r].user
  <2>1. UNCHANGED <<owner, famOf, passwd>> /\ Finish(r) /\ At(r, "revokeAll") /\ Step(r)
    BY <1>6 DEF RevokeAll, Step
  <2>2. (MarkRevoked(BulkRows(u)) /\ UNCHANGED openedWith) \/ Interrupted({u}, passwd)
    BY <1>6 DEF RevokeAll
  <2>3. CASE owner[f] # u
    <3>1. openedWith'[f] = openedWith[f]
      BY <2>2, <2>3 DEF Interrupted
    <3> QED BY <1>2, <2>1, <2>3, <3>1, StaleBefore
  <2>4. CASE owner[f] = u /\ Interrupted({u}, passwd)
    BY <2>1, <2>4 DEF Interrupted, Stale
  <2>5. CASE owner[f] = u /\ MarkRevoked(BulkRows(u))
    <3>1. RowsOf({f}) \subseteq BulkRows(u) /\ owner[f] # NoUser
      BY <2>1, <2>5 DEF BulkRows, RowsOf, OwnedBy, Stale
    <3>2. \A q \in Requests : req[q].pc \in Minting => req[q].fam # f
      BY <2>1, <2>5 DEF NoBulkRace
    <3> QED BY <1>1, <2>1, <2>5, <3>1, <3>2, RevokedDrained
  <2> QED BY <2>2, <2>3, <2>4, <2>5
<1>7. CASE (\E t \in Tokens : ExpireToken(t)) \/ UNCHANGED vars
  <2>1. UNCHANGED <<owner, openedWith, passwd, req>>
    BY <1>7 DEF ExpireToken, vars
  <2> QED BY <2>1, StaleBefore DEF Ending, At
<1>8. CASE Crash
  <2> DEFINE U == {req[r].user : r \in {q \in Requests : At(q, "revokeAll")}}
  <2>1. UNCHANGED <<owner, passwd>> /\ Interrupted(U, passwd)
    BY <1>8 DEF Crash
  <2>2. owner[f] \notin U
    BY <2>1 DEF Interrupted, Stale
  <2>3. openedWith'[f] = openedWith[f]
    BY <2>1, <2>2 DEF Interrupted
  <2> QED BY <2>1, <2>2, <2>3, StaleBefore DEF Ending
<1> QED BY <1>3, <1>4, <1>5, <1>6, <1>7, <1>8 DEF Next, Arrive, Step

-----------------------------------------------------------------------------
\* The rotation.

\* A row that a step inserts is the only live one of its family.
LEMMA SingleStep ==
  ASSUME Structure, SingleLiveToken, LastLive, [Next]_vars
  PROVE  SingleLiveToken'
<1> USE DEF db, world, history
<1>1. TypeOK /\ \A t \in Tokens : rt[t] # "absent" => famOf[t] \in Families
  BY DEF Structure, RowsHaveFamily
<1>2. ASSUME UNCHANGED famOf, \A t \in Tokens : rt'[t] = "live" => rt[t] = "live"
      PROVE  SingleLiveToken'
  BY <1>2 DEF SingleLiveToken
<1>3. ASSUME NEW r \in Requests, InsertToken(r)
      PROVE  SingleLiveToken'
  <2>1. CASE UNCHANGED <<rt, famOf>>
    BY <1>2, <2>1
  <2>2. ASSUME NEW t \in Tokens, rt' = [rt EXCEPT ![t] = "live"],
               famOf' = [famOf EXCEPT ![t] = req[r].fam]
        PROVE  SingleLiveToken'
    <3>1. \A s \in Tokens : rt[s] = "live" => famOf[s] # req[r].fam
      BY <1>3 DEF InsertToken, At, LastLive, Minting
    <3>2. /\ famOf'[t] = req[r].fam
          /\ \A s \in Tokens \ {t} : rt'[s] = rt[s] /\ famOf'[s] = famOf[s]
      BY <1>1, <2>2 DEF TypeOK
    <3> QED BY <3>1, <3>2 DEF SingleLiveToken
  <2> QED BY <1>3, <2>1, <2>2 DEF InsertToken
<1>4. ASSUME NEW r \in Requests, Arrive(r) \/ Step(r), ~InsertToken(r)
      PROVE  SingleLiveToken'
  <2>1. CASE \/ \E u \in Users, f \in Families : Login(r, u, f)
             \/ \E t \in Tokens : Refresh(r, t)
    BY <1>2, <2>1 DEF Login, Refresh
  <2> QED BY <1>1, <1>2, <1>4, <2>1, OtherStep DEF Arrive
<1>5. CASE (\E t \in Tokens : ExpireToken(t)) \/ Crash \/ UNCHANGED vars
  BY <1>2, <1>5 DEF ExpireToken, Crash, vars
<1> QED BY <1>3, <1>4, <1>5 DEF Next

\* Revoke takes the last live token of the family before SaveSession.
LEMMA LastStep ==
  ASSUME NoMintRace, Structure, SingleLiveToken, LastLive, [Next]_vars
  PROVE  LastLive'
<1> USE DEF db, world, history
<1> SUFFICES ASSUME NEW q \in Requests, NEW s \in Tokens,
                    req'[q].pc \in Minting, rt'[s] = "live", famOf'[s] = req'[q].fam
             PROVE  req'[q].pc = "revoke" /\ s = req'[q].tok
  BY DEF LastLive
<1>1. TypeOK /\ NoUser \notin Users
  BY NullsAssumption DEF Structure
\* A request that the step does not touch keeps what it had, unless the step
\* inserts a row.
<1>0. ASSUME req'[q] = req[q], rt'[s] = "live" => rt[s] = "live", UNCHANGED famOf
      PROVE  req'[q].pc = "revoke" /\ s = req'[q].tok
  BY <1>0 DEF LastLive
<1>2. ASSUME NEW r \in Requests, q = r, NEW u \in Users, NEW f \in Families, Login(r, u, f)
      PROVE  FALSE
  <2> DEFINE q1 == [Idle EXCEPT !.pc = "saveSession", !.user = u, !.fam = f]
  <2>1. q1.fam = f /\ req' = [req EXCEPT ![r] = q1] /\ q = r
    BY <1>2 DEF Login, Idle
  <2> HIDE DEF q1
  <2>2. req'[q].fam = f
    BY <1>1, <2>1 DEF TypeOK
  <2>3. owner[f] = NoUser /\ UNCHANGED <<rt, famOf>>
    BY <1>2 DEF Login, Drawn
  <2> QED BY <1>1, <2>2, <2>3 DEF Structure, RowsHaveFamily
<1>3. ASSUME NEW r \in Requests, q = r, NEW t \in Tokens, Refresh(r, t)
      PROVE  req'[q].pc = "revoke" /\ s = req'[q].tok
  <2> DEFINE q1 == [Idle EXCEPT !.pc = "revoke", !.tok = t,
                                !.fam = famOf[t], !.user = owner[famOf[t]]]
             q2 == [Idle EXCEPT !.pc = "getRevoked", !.tok = t]
  <2>1. \/ req' = [req EXCEPT ![r] = q1] /\ rt[t] = "live"
        \/ req' = [req EXCEPT ![r] = q2]
    BY <1>3 DEF Refresh, Usable
  <2>2. /\ q1.pc = "revoke" /\ q1.tok = t /\ q1.fam = famOf[t]
        /\ q2.pc = "getRevoked" /\ q = r
    BY <1>3 DEF Idle
  <2> HIDE DEF q1, q2
  <2>3. rt[t] = "live" /\ req'[q] = q1
    BY <1>1, <2>1, <2>2 DEF TypeOK, Minting
  <2>4. UNCHANGED <<rt, famOf>>
    BY <1>3 DEF Refresh
  <2> QED BY <2>2, <2>3, <2>4 DEF SingleLiveToken
<1>4. ASSUME NEW r \in Requests, q = r, Revoke(r)
      PROVE  FALSE
  <2>1. q = r /\ At(r, "revoke") /\ UNCHANGED famOf /\ "saveSession" \in Labels
    BY <1>4 DEF Revoke, Labels, Minting
  <2>2. ~Finish(r)
    BY <1>1, <2>1, FinishTyped DEF TypeOK, Minting
  <2>3. MarkRevoked({req[r].tok}) /\ Goto(r, "saveSession")
    BY <1>4, <2>2 DEF Revoke, RevokeFailed
  <2>4. req'[q].fam = req[q].fam
    BY <1>1, <2>1, <2>3, GotoTyped DEF TypeOK
  <2>5. rt[s] = "live" /\ s # req[r].tok
    BY <1>1, <2>3, MarkRevokedRows
  <2> QED BY <2>1, <2>4, <2>5 DEF LastLive, At, Minting
<1>5. ASSUME NEW r \in Requests, q = r, SaveSession(r)
      PROVE  FALSE
  <2>1. /\ q = r /\ At(r, "saveSession") /\ "insert" \in Labels
        /\ Goto(r, "insert") \/ Finish(r)
        /\ UNCHANGED <<rt, famOf>>
    BY <1>5 DEF SaveSession, Labels, Minting
  <2>2. req'[q].fam = req[q].fam
    BY <1>1, <2>1, FinishTyped, GotoTyped DEF TypeOK, Minting
  <2> QED BY <2>1, <2>2 DEF LastLive, At, Minting
<1>6. ASSUME NEW r \in Requests, q = r, InsertToken(r)
      PROVE  FALSE
  BY <1>1, <1>6, FinishTyped DEF InsertToken, TypeOK, Minting
<1>7. ASSUME NEW r \in Requests, q = r,
             \/ \E a \in Tokens, c \in Tokens \cup {NoToken} : Logout(r, a, c)
             \/ \E a \in Tokens : LogoutAll(r, a)
             \/ \E k \in Resets : ResetPassword(r, k)
             \/ Step(r) /\ ~Revoke(r) /\ ~SaveSession(r) /\ ~InsertToken(r)
      PROVE  FALSE
  <2>1. req[r].pc \notin Minting /\ q = r
    BY <1>7 DEF Logout, LogoutAll, ResetPassword, Step, GetRevokedFamily, RevokeFamily,
       BlacklistAccess, RevokeCookie, UpdatePassword, RevokeAll, At, Minting
  <2>2. req[q].pc \in Minting
    BY <1>1, <1>7, OtherStep
  <2> QED BY <2>1, <2>2
<1>8. ASSUME NEW r \in Requests, q # r, Arrive(r) \/ Step(r)
      PROVE  req'[q].pc = "revoke" /\ s = req'[q].tok
  <2>1. req'[q] = req[q]
    BY <1>1, <1>8, OthersStay
  <2>2. CASE InsertToken(r)
    <3>1. CASE UNCHANGED <<rt, famOf>>
      BY <1>0, <2>1, <3>1
    <3>2. ASSUME NEW t \in Tokens, rt' = [rt EXCEPT ![t] = "live"],
                 famOf' = [famOf EXCEPT ![t] = req[r].fam]
          PROVE  req'[q].pc = "revoke" /\ s = req'[q].tok
      <4>1. CASE s = t
        <5>1. req[q].fam = req[r].fam /\ req[q].pc \in Minting /\ req[r].pc \in Minting
          BY <1>1, <2>1, <2>2, <3>2, <4>1 DEF InsertToken, At, Minting, TypeOK
        <5> QED BY <1>8, <5>1 DEF NoMintRace
      <4>2. CASE s # t
        BY <1>1, <2>1, <3>2, <4>2 DEF LastLive, TypeOK
      <4> QED BY <4>1, <4>2
    <3> QED BY <2>2, <3>1, <3>2 DEF InsertToken
  <2>3. CASE \/ \E u \in Users, f \in Families : Login(r, u, f)
             \/ \E t \in Tokens : Refresh(r, t)
    BY <1>0, <2>1, <2>3 DEF Login, Refresh
  <2>4. CASE \/ \E a \in Tokens, c \in Tokens \cup {NoToken} : Logout(r, a, c)
             \/ \E a \in Tokens : LogoutAll(r, a)
             \/ \E k \in Resets : ResetPassword(r, k)
             \/ Step(r) /\ ~InsertToken(r)
    <3>1. UNCHANGED famOf /\ \A t \in Tokens : rt'[t] = "live" => rt[t] = "live"
      BY <1>1, <2>4, OtherStep
    <3> QED BY <1>0, <2>1, <3>1
  <2> QED BY <1>8, <2>2, <2>3, <2>4 DEF Arrive
<1>9. CASE (\E t \in Tokens : ExpireToken(t)) \/ Crash \/ UNCHANGED vars
  BY <1>9 DEF ExpireToken, Crash, vars, Idle, Minting, LastLive
<1>10. ASSUME NEW r \in Requests, q = r, Arrive(r) \/ Step(r)
       PROVE  req'[q].pc = "revoke" /\ s = req'[q].tok
  BY <1>2, <1>3, <1>4, <1>5, <1>6, <1>7, <1>10 DEF Arrive
<1> QED BY <1>8, <1>9, <1>10 DEF Next

-----------------------------------------------------------------------------
\* The promises.

LEMMA RacelessInit ==
  Init => /\ Structure /\ RevokingOwned /\ ReplayedDrained /\ ClosedDrained
          /\ StaleDrained /\ SingleLiveToken /\ LastLive
BY StructureInit
   DEF Init, RevokingOwned, ReplayedDrained, ClosedDrained, StaleDrained, Stale, SingleLiveToken,
       LastLive, At, Idle, Minting

(* Once the presentation of a spent token has revoked its family no row of  *)
(* it is ever usable again, unless a login or refresh of that very session  *)
(* is under way at the UPDATE (auth.go:151-157).                            *)
THEOREM ReplayEndsTheFamily == Spec /\ []NoReplayRace => []ReplayRevokesFamily
<1>1. ReplayedDrained => ReplayRevokesFamily
  BY DEF ReplayedDrained, Drained, ReplayRevokesFamily, Ended, Usable
<1>2. Structure /\ RevokingOwned /\ ReplayedDrained /\ NoReplayRace /\ [Next]_vars
        => (Structure /\ RevokingOwned /\ ReplayedDrained)'
  BY StructureStep, RevokingStep, ReplayedStep
<1> QED BY <1>1, <1>2, RacelessInit, PTL DEF Spec

(* LogoutAll and ResetPassword leave none of the user's families with a     *)
(* usable token, for good, unless a login or refresh of the user is under   *)
(* way at the UPDATE (auth.go:182, 210).                                    *)
THEOREM BulkEndsTheSessions == Spec /\ []NoBulkRace => []BulkRevocationHolds
<1>1. ClosedDrained => BulkRevocationHolds
  BY DEF ClosedDrained, Drained, BulkRevocationHolds, Ended, Usable
<1>2. Structure /\ ClosedDrained /\ NoBulkRace /\ [Next]_vars => (Structure /\ ClosedDrained)'
  BY StructureStep, ClosedStep
<1> QED BY <1>1, <1>2, RacelessInit, PTL DEF Spec

(* A session opened with an earlier password is over once the reset has     *)
(* answered, unless a fault cut the reset short or a login or refresh of    *)
(* the user was under way at its UPDATE (auth.go:210).                      *)
THEOREM ResetEndsOldSessions == Spec /\ []NoBulkRace => []OldPasswordSessionsEnd
<1>1. StaleDrained => OldPasswordSessionsEnd
  BY DEF StaleDrained, Stale, Ending, Drained, OldPasswordSessionsEnd, Ended, Usable
<1>2. Structure /\ StaleDrained /\ NoBulkRace /\ [Next]_vars => (Structure /\ StaleDrained)'
  BY StructureStep, StaleStep
<1> QED BY <1>1, <1>2, RacelessInit, PTL DEF Spec

(* A family is a chain whose last token alone may be live, whatever fails   *)
(* between the steps of a refresh, unless two refreshes of one session      *)
(* overlap (auth.go:158-164).                                               *)
THEOREM RotationIsAChain == Spec /\ []NoMintRace => []SingleLiveToken
<1>1. Structure /\ SingleLiveToken /\ LastLive /\ NoMintRace /\ [Next]_vars
        => (Structure /\ SingleLiveToken /\ LastLive)'
  BY StructureStep, SingleStep, LastStep
<1> QED BY <1>1, RacelessInit, PTL DEF Spec
===============================================================================
