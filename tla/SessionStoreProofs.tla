------------------------- MODULE SessionStoreProofs -------------------------
(***************************************************************************)
(* Proofs about SessionStore, for any number of sessions and requests and  *)
(* any time to live, with or without faults.                               *)
(***************************************************************************)
EXTENDS SessionStore, TLAPS

-----------------------------------------------------------------------------
\* The inductive invariant.

Listing == {"delete", "delIndex"}     \* past the SMEMBERS of DeleteAllForUser

\* A request finds the session it works on.
HasSession ==
  \A r \in Requests : req[r].pc \notin {"idle"} \cup Bulk => req[r].sess \in Sessions

\* The sessions that a Save is about to add to the index.
Adding(s) == \E r \in Requests : At(r, "sadd") /\ req[r].sess = s

\* What is stored is indexed or about to be, if nothing came in between.
Listed == \A s \in Stored \ harmed : Adding(s) \/ s \in index

\* The index lives as long as the session, or a Save is about to renew it.
Lasting == \A s \in Stored \ harmed : InSave(s) \/ indexTTL >= blob[s]

\* What a bulk deletion neither knows of nor was told has lost its entry, and
\* no Save will give the entry back before it has set the blob again.
BulkKnows ==
  \A r \in Requests : req[r].pc \in Listing =>
    \A s \in Stored \ (req[r].left \cup req[r].late) : s \in harmed /\ ~Adding(s)

\* The index is deleted after the last session.
NoneLeft == \A r \in Requests : At(r, "delIndex") => req[r].left = {}

Typed == TypeOK /\ HasSession
Consistent == Listed /\ Lasting /\ BulkKnows /\ NoneLeft
IInv == Typed /\ Consistent

-----------------------------------------------------------------------------
\* What the helpers do.

\* Moving a request to another label changes nothing else of any request.
LEMMA GotoTyped ==
  ASSUME req \in [Requests -> Request], NEW r \in Requests, NEW l \in Labels, Goto(r, l)
  PROVE  /\ req' \in [Requests -> Request]
         /\ req'[r].pc = l /\ req'[r].sess = req[r].sess
         /\ req'[r].left = req[r].left /\ req'[r].late = req[r].late
         /\ \A q \in Requests : q # r => req'[q] = req[q]
BY DEF Goto, Request

\* A finished request is idle.
LEMMA FinishTyped ==
  ASSUME req \in [Requests -> Request], NEW r \in Requests, Finish(r)
  PROVE  /\ req' \in [Requests -> Request] /\ req'[r].pc = "idle"
         /\ \A q \in Requests : q # r => req'[q] = req[q]
BY DEF Finish, Request, Idle, Labels

\* A request that begins has the label and the session it is given.
LEMMA BeginTyped ==
  ASSUME req \in [Requests -> Request], NEW r \in Requests, NEW l \in Labels,
         NEW s \in Sessions, Begin(r, l, s)
  PROVE  /\ req' \in [Requests -> Request] /\ req'[r].pc = l /\ req'[r].sess = s
         /\ \A q \in Requests : q # r => req'[q] = req[q]
<1> DEFINE q1 == [Idle EXCEPT !.pc = l, !.sess = s]
<1>1. q1 \in Request /\ q1.pc = l /\ q1.sess = s
  BY DEF Request, Idle
<1>2. req' = [req EXCEPT ![r] = q1]
  BY DEF Begin
<1> HIDE DEF q1
<1> QED BY <1>1, <1>2

\* The labels, spelled out where a proof compares them.
LEMMA LabelFacts ==
  /\ Saving \subseteq Labels /\ Bulk \subseteq Labels /\ Listing \subseteq Bulk
  /\ {"idle", "revoke", "set", "insert", "del", "srem"} \subseteq Labels
  /\ Saving \cap Bulk = {} /\ Saving = {"sadd", "expire"}
BY DEF Labels, Saving, Bulk, Listing

\* The index exists exactly as long as its time to live, whatever it becomes.
LEMMA SetIndexTyped ==
  ASSUME TypeOK, NEW S \in SUBSET Sessions, SetIndex(S)
  PROVE  /\ index' = S /\ index' \subseteq Sessions
         /\ indexTTL' \in 0..Forever /\ (indexTTL' = 0 <=> index' = {})
         /\ S # {} /\ index # {} => indexTTL' = indexTTL
BY TTLAssumption DEF SetIndex, TypeOK, Forever

-----------------------------------------------------------------------------
\* Types.

LEMMA TypedInit == Init => Typed
BY TTLAssumption
   DEF Init, Typed, TypeOK, HasSession, Request, Idle, Labels, Forever, Saving, Bulk

\* The steps that do not touch Redis.
LEMMA TypedAside ==
  ASSUME Typed,
         \/ \E r \in Requests, s \in Sessions : Login(r, s) \/ Refresh(r, s) \/ Logout(r, s)
         \/ \E r \in Requests :
              RevokeAll(r) \/ Revoke(r) \/ InsertRow(r) \/ SMembers(r) \/ Cut(r) \/ Resend(r)
         \/ \E s \in Sessions : Forget(s)
         \/ UNCHANGED vars
  PROVE  Typed'
<1> USE DEF Typed, redis, At
<1>0. req \in [Requests -> Request]
  BY DEF TypeOK
<1>1. ASSUME NEW r \in Requests, NEW s \in Sessions,
             Login(r, s) \/ Refresh(r, s) \/ Logout(r, s)
      PROVE  Typed'
  <2>1. PICK l \in {"set", "revoke", "del"} : Begin(r, l, s)
    BY <1>1 DEF Login, Refresh, Logout
  <2>2. /\ req' \in [Requests -> Request] /\ req'[r].pc = l /\ req'[r].sess = s
        /\ \A q \in Requests : q # r => req'[q] = req[q]
    BY <1>0, <2>1, BeginTyped, LabelFacts
  <2>3. UNCHANGED <<blob, index, indexTTL, known, harmed>> /\ row' \subseteq Sessions
    BY <1>1 DEF Login, Refresh, Logout, TypeOK
  <2> QED BY <2>1, <2>2, <2>3 DEF TypeOK, HasSession
<1>2. ASSUME NEW r \in Requests, RevokeAll(r)
      PROVE  Typed'
  <2>1. /\ req' \in [Requests -> Request] /\ req'[r].pc = "smembers"
        /\ \A q \in Requests : q # r => req'[q] = req[q]
    BY <1>0, <1>2 DEF RevokeAll, Request, Idle, Labels, Bulk
  <2> QED BY <1>2, <2>1 DEF RevokeAll, TypeOK, HasSession, Bulk
<1>3. ASSUME NEW r \in Requests, Revoke(r)
      PROVE  Typed'
  <2>1. req[r].sess \in Sessions /\ Goto(r, "set")
    BY <1>3 DEF Revoke, HasSession, Bulk
  <2>2. /\ req' \in [Requests -> Request] /\ req'[r].pc = "set" /\ req'[r].sess = req[r].sess
        /\ \A q \in Requests : q # r => req'[q] = req[q]
    BY <1>0, <2>1, GotoTyped, LabelFacts
  <2> QED BY <1>3, <2>1, <2>2 DEF Revoke, TypeOK, HasSession
<1>4. ASSUME NEW r \in Requests, InsertRow(r)
      PROVE  Typed'
  <2>1. req[r].sess \in Sessions
    BY <1>4 DEF InsertRow, HasSession, Bulk
  <2> QED BY <1>0, <1>4, <2>1, FinishTyped DEF InsertRow, TypeOK, HasSession
<1>5. ASSUME NEW r \in Requests, SMembers(r)
      PROVE  Typed'
  <2>1. UNCHANGED <<blob, index, indexTTL, row, known, harmed>>
    BY <1>5 DEF SMembers
  <2>2. CASE Finish(r)
    BY <1>0, <2>1, <2>2, FinishTyped DEF TypeOK, HasSession
  <2>3. CASE req' = [req EXCEPT ![r] = [@ EXCEPT !.pc = "delete", !.left = index,
                                          !.late = {s \in Sessions \ index : InSave(s)}]]
    <3> DEFINE q1 == [req[r] EXCEPT !.pc = "delete", !.left = index,
                                      !.late = {s \in Sessions \ index : InSave(s)}]
    <3>1. q1 \in Request /\ q1.pc = "delete"
      BY <1>0 DEF Request, TypeOK, Labels, Bulk
    <3>2. req' = [req EXCEPT ![r] = q1]
      BY <2>3
    <3> HIDE DEF q1
    <3> QED BY <1>0, <2>1, <3>1, <3>2 DEF TypeOK, HasSession, Bulk
  <2> QED BY <1>5, <2>2, <2>3 DEF SMembers
<1>6. ASSUME NEW r \in Requests, Cut(r)
      PROVE  Typed'
  <2>1. harmed' \subseteq Sessions
    BY <1>6 DEF Cut, TypeOK, Stored
  <2> QED BY <1>0, <1>6, <2>1, FinishTyped DEF Cut, TypeOK, HasSession
<1>7. ASSUME NEW r \in Requests, Resend(r)
      PROVE  Typed'
  <2>1. harmed' \subseteq Sessions /\ UNCHANGED <<blob, index, indexTTL, row, known>>
    BY <1>7 DEF Resend, TypeOK, Stored
  <2>2. PICK l \in {"set", "del"} :
          /\ req' = [req EXCEPT ![r] = [@ EXCEPT !.pc = l, !.resent = TRUE]]
          /\ req[r].pc \in Saving \cup {"srem"}
    BY <1>7 DEF Resend
  <2> DEFINE q1 == [req[r] EXCEPT !.pc = l, !.resent = TRUE]
  <2>3. q1 \in Request /\ q1.pc = l /\ q1.sess = req[r].sess
    BY <1>0, LabelFacts DEF Request
  <2>4. req' = [req EXCEPT ![r] = q1]
    BY <2>2
  <2>5. req[r].sess \in Sessions
    BY <2>2 DEF HasSession, Saving, Bulk
  <2> HIDE DEF q1
  <2> QED BY <1>0, <2>1, <2>3, <2>4, <2>5 DEF TypeOK, HasSession
<1>8. CASE \E s \in Sessions : Forget(s)
  BY <1>8 DEF Forget, TypeOK, HasSession
<1>9. CASE UNCHANGED vars
  BY <1>9 DEF vars, TypeOK, HasSession
<1> QED BY <1>1, <1>2, <1>3, <1>4, <1>5, <1>6, <1>7, <1>8, <1>9

\* The commands of the pipelines, and the passing of time.
LEMMA TypedRedis ==
  ASSUME Typed,
         \/ \E r \in Requests :
              \/ SetBlob(r) \/ AddToIndex(r) \/ ExpireIndex(r)
              \/ DeleteBlob(r) \/ RemoveFromIndex(r) \/ DeleteListed(r) \/ DeleteIndex(r)
         \/ Tick
  PROVE  Typed'
<1> USE DEF Typed, redis, At
<1>0. req \in [Requests -> Request] /\ TTL \in Nat /\ TTL > 0
  BY TTLAssumption DEF TypeOK
<1>1. ASSUME NEW r \in Requests, SetBlob(r)
      PROVE  Typed'
  <2>0. PICK s \in Sessions : s = req[r].sess
    BY <1>1 DEF SetBlob, HasSession, Bulk
  <2>1. blob' \in [Sessions -> 0..TTL]
    <3>1. blob' = [blob EXCEPT ![s] = TTL] /\ TTL \in 0..TTL
      BY <1>0, <1>1, <2>0 DEF SetBlob, SavedFor
    <3> QED BY <3>1 DEF TypeOK
  <2>2. \A q \in Requests :
          req'[q] = IF q = r THEN [req[q] EXCEPT !.pc = "sadd"]
                    ELSE IF req[q].pc \in Bulk \ {"smembers"}
                      THEN [req[q] EXCEPT !.late = req[q].late \cup ({s} \ req[q].left)]
                      ELSE req[q]
    BY <1>1, <2>0 DEF SetBlob
  <2>3. \A q \in Requests : req'[q] \in Request /\ req'[q].sess = req[q].sess
    <3> TAKE q \in Requests
    <3>1. req[q] \in Request
      BY <1>0
    <3>2. [req[q] EXCEPT !.pc = "sadd"] \in Request
          /\ [req[q] EXCEPT !.pc = "sadd"].sess = req[q].sess
      BY <3>1, LabelFacts DEF Request
    <3>3. [req[q] EXCEPT !.late = req[q].late \cup ({s} \ req[q].left)] \in Request
          /\ [req[q] EXCEPT !.late = req[q].late \cup ({s} \ req[q].left)].sess = req[q].sess
      BY <3>1 DEF Request
    <3> QED BY <2>2, <3>1, <3>2, <3>3
  <2>4. \A q \in Requests : q # r => req'[q].pc = req[q].pc
    BY <1>0, <2>2 DEF Request
  <2>5. req' \in [Requests -> Request]
    BY <1>1, <2>3 DEF SetBlob
  <2> QED BY <1>1, <2>0, <2>1, <2>3, <2>4, <2>5 DEF SetBlob, TypeOK, HasSession
<1>2. ASSUME NEW r \in Requests, AddToIndex(r)
      PROVE  Typed'
  <2>1. req[r].sess \in Sessions
    BY <1>2 DEF AddToIndex, HasSession, Bulk
  <2>2. /\ index' \subseteq Sessions /\ indexTTL' \in 0..Forever
        /\ (indexTTL' = 0 <=> index' = {})
    BY <1>2, <2>1, SetIndexTyped DEF AddToIndex, TypeOK
  <2>3. /\ req' \in [Requests -> Request] /\ req'[r].sess = req[r].sess
        /\ \A q \in Requests : q # r => req'[q] = req[q]
    BY <1>0, <1>2, GotoTyped, LabelFacts DEF AddToIndex
  <2> QED BY <1>2, <2>1, <2>2, <2>3 DEF AddToIndex, TypeOK, HasSession
<1>3. ASSUME NEW r \in Requests, ExpireIndex(r)
      PROVE  Typed'
  <2>1. req[r].sess \in Sessions
    BY <1>3 DEF ExpireIndex, HasSession, Bulk
  <2>2. indexTTL' \in 0..Forever /\ (indexTTL' = 0 <=> index = {})
    BY <1>0, <1>3 DEF ExpireIndex, Renewed, Forever
  <2>3. /\ req' \in [Requests -> Request] /\ req'[r].sess = req[r].sess
        /\ \A q \in Requests : q # r => req'[q] = req[q]
    BY <1>0, <1>3, GotoTyped, LabelFacts DEF ExpireIndex
  <2> QED BY <1>3, <2>1, <2>2, <2>3 DEF ExpireIndex, TypeOK, HasSession
<1>4. ASSUME NEW r \in Requests, DeleteBlob(r)
      PROVE  Typed'
  <2>1. req[r].sess \in Sessions
    BY <1>4 DEF DeleteBlob, HasSession, Bulk
  <2>2. /\ req' \in [Requests -> Request] /\ req'[r].sess = req[r].sess
        /\ \A q \in Requests : q # r => req'[q] = req[q]
    BY <1>0, <1>4, GotoTyped, LabelFacts DEF DeleteBlob
  <2> QED BY <1>0, <1>4, <2>1, <2>2 DEF DeleteBlob, TypeOK, HasSession
<1>5. ASSUME NEW r \in Requests, RemoveFromIndex(r)
      PROVE  Typed'
  <2>1. index \ {req[r].sess} \in SUBSET Sessions
    BY DEF TypeOK
  <2>2. /\ index' \subseteq Sessions /\ indexTTL' \in 0..Forever
        /\ (indexTTL' = 0 <=> index' = {})
    BY <1>5, <2>1, SetIndexTyped DEF RemoveFromIndex
  <2>3. harmed' \subseteq Sessions
    BY <1>5 DEF RemoveFromIndex, TypeOK, Stored
  <2> QED BY <1>0, <1>5, <2>2, <2>3, FinishTyped DEF RemoveFromIndex, TypeOK, HasSession
<1>6. ASSUME NEW r \in Requests, DeleteListed(r)
      PROVE  Typed'
  <2>1. CASE \E s \in req[r].left :
               /\ blob' = [blob EXCEPT ![s] = 0]
               /\ req' = [req EXCEPT ![r].left = @ \ {s}]
               /\ harmed' = harmed \ {s}
    <3>1. PICK s \in req[r].left :
               /\ blob' = [blob EXCEPT ![s] = 0]
               /\ req' = [req EXCEPT ![r].left = @ \ {s}]
               /\ harmed' = harmed \ {s}
      BY <2>1
    <3> DEFINE q1 == [req[r] EXCEPT !.left = req[r].left \ {s}]
    <3>2. q1 \in Request /\ q1.pc = "delete"
      BY <1>0, <1>6 DEF Request, DeleteListed
    <3>3. req' = [req EXCEPT ![r] = q1]
      BY <3>1
    <3>4. UNCHANGED <<index, indexTTL, row, known>>
      BY <1>6 DEF DeleteListed
    <3>5. 0 \in 0..TTL /\ blob' = [blob EXCEPT ![s] = 0]
      BY <1>0, <3>1
    <3>6. blob' \in [Sessions -> 0..TTL]
      BY <3>5 DEF TypeOK
    <3>7. harmed' \subseteq Sessions
      BY <3>1 DEF TypeOK
    <3> HIDE DEF q1
    <3>8. /\ req' \in [Requests -> Request] /\ req'[r].pc = "delete"
          /\ \A q \in Requests : q # r => req'[q] = req[q]
      BY <1>0, <3>2, <3>3
    <3> QED BY <3>4, <3>6, <3>7, <3>8 DEF TypeOK, HasSession, Bulk
  <2>2. CASE Goto(r, "delIndex") /\ UNCHANGED <<blob, harmed>>
    <3>1. /\ req' \in [Requests -> Request] /\ req'[r].pc = "delIndex"
          /\ \A q \in Requests : q # r => req'[q] = req[q]
      BY <1>0, <2>2, GotoTyped DEF Labels, Bulk
    <3> QED BY <1>6, <2>2, <3>1 DEF DeleteListed, TypeOK, HasSession, Bulk
  <2> QED BY <1>6, <2>1, <2>2 DEF DeleteListed
<1>7. ASSUME NEW r \in Requests, DeleteIndex(r)
      PROVE  Typed'
  <2>1. /\ index' \subseteq Sessions /\ indexTTL' \in 0..Forever
        /\ (indexTTL' = 0 <=> index' = {})
    BY <1>7, SetIndexTyped, {} \in SUBSET Sessions DEF DeleteIndex
  <2>2. harmed' \subseteq Sessions
    BY <1>7 DEF DeleteIndex, TypeOK, Stored
  <2> QED BY <1>0, <1>7, <2>1, <2>2, FinishTyped DEF DeleteIndex, TypeOK, HasSession
<1>8. CASE Tick
  <2>1. blob' \in [Sessions -> 0..TTL]
    BY <1>0, <1>8 DEF Tick, TypeOK
  <2>2. /\ index' \subseteq Sessions /\ indexTTL' \in 0..Forever
        /\ (indexTTL' = 0 <=> index' = {})
    BY <1>0, <1>8 DEF Tick, TypeOK, Forever
  <2>3. harmed' \subseteq Sessions
    BY <1>8 DEF Tick, TypeOK
  <2> QED BY <1>8, <2>1, <2>2, <2>3 DEF Tick, TypeOK, HasSession
<1> QED BY <1>1, <1>2, <1>3, <1>4, <1>5, <1>6, <1>7, <1>8

LEMMA TypedNext == Typed /\ [Next]_vars => Typed'
BY TypedAside, TypedRedis DEF Next, Step

-----------------------------------------------------------------------------
(* Every variable keeps its type, and the index set exists exactly as long  *)
(* as it has a time to live (stores.go:53-94).                              *)
THEOREM TypeCorrect == Spec => []TypeOK
<1>1. Typed => TypeOK
  BY DEF Typed
<1> QED BY TypedInit, TypedNext, <1>1, PTL DEF Spec

-----------------------------------------------------------------------------
\* The index and bulk revocation.

LEMMA ConsistentInit == Init => Consistent
BY DEF Init, Consistent, Listed, Lasting, BulkKnows, NoneLeft, Stored, Listing, Idle, At

\* A step of one request leaves the Saves of the others alone.
LEMMA SavesElsewhere ==
  ASSUME NEW r \in Requests, \A q \in Requests : q # r => req'[q] = req[q]
  PROVE  \A s :
    /\ Adding(s)' => Adding(s) \/ (req'[r].pc = "sadd" /\ req'[r].sess = s)
    /\ Adding(s) => Adding(s)' \/ (req[r].pc = "sadd" /\ req[r].sess = s)
    /\ InSave(s) => InSave(s)' \/ (req[r].pc \in Saving /\ req[r].sess = s)
    /\ Adding(s) => InSave(s)
BY DEF Adding, InSave, At, Saving

\* A request that is not in a Save, and does not enter one or the loop of
\* DeleteAllForUser, disturbs nothing as long as it leaves Redis alone.
LEMMA QuietStep ==
  ASSUME Consistent, UNCHANGED <<redis, harmed>>,
         \A r \in Requests :
           \/ req'[r] = req[r]
           \/ req[r].pc \notin Saving /\ req'[r].pc \notin Saving \cup Listing
  PROVE  Consistent'
<1>1. \A s : (Adding(s) <=> Adding(s)') /\ (InSave(s) <=> InSave(s)')
  BY DEF Adding, InSave, At, Saving
<1>2. Stored' = Stored
  BY DEF Stored, redis
<1>3. Listed' /\ Lasting'
  BY <1>1, <1>2 DEF Consistent, Listed, Lasting, redis
<1>4. \A r \in Requests : req'[r].pc \in Listing => req'[r] = req[r]
  OBVIOUS
<1>5. BulkKnows'
  BY <1>1, <1>2, <1>4 DEF Consistent, BulkKnows
<1>6. NoneLeft'
  BY <1>4 DEF Consistent, NoneLeft, At, Listing
<1> QED BY <1>3, <1>5, <1>6 DEF Consistent

LEMMA ConsistentAside ==
  ASSUME Typed, Consistent,
         \/ \E r \in Requests, s \in Sessions : Login(r, s) \/ Refresh(r, s) \/ Logout(r, s)
         \/ \E r \in Requests :
              \/ RevokeAll(r) \/ Revoke(r) \/ InsertRow(r)
              \/ SMembers(r) /\ Finish(r)
         \/ \E s \in Sessions : Forget(s)
         \/ UNCHANGED vars
  PROVE  Consistent'
<1>0. req \in [Requests -> Request]
  BY DEF Typed, TypeOK
<1>1. ASSUME NEW r \in Requests, NEW s \in Sessions,
             Login(r, s) \/ Refresh(r, s) \/ Logout(r, s)
      PROVE  Consistent'
  <2>1. PICK l \in {"set", "revoke", "del"} : Begin(r, l, s)
    BY <1>1 DEF Login, Refresh, Logout
  <2>2. req'[r].pc = l /\ \A q \in Requests : q # r => req'[q] = req[q]
    BY <1>0, <2>1, BeginTyped, LabelFacts
  <2>3. At(r, "idle") /\ UNCHANGED <<redis, harmed>>
    BY <1>1 DEF Login, Refresh, Logout
  <2> QED BY <2>1, <2>2, <2>3, QuietStep DEF At, Saving, Listing
<1>2. ASSUME NEW r \in Requests, RevokeAll(r)
      PROVE  Consistent'
  <2>1. req'[r].pc = "smembers" /\ \A q \in Requests : q # r => req'[q] = req[q]
    BY <1>0, <1>2 DEF RevokeAll, Request, Idle
  <2> QED BY <1>2, <2>1, QuietStep DEF RevokeAll, At, Saving, Listing
<1>3. ASSUME NEW r \in Requests, Revoke(r)
      PROVE  Consistent'
  <2>1. req'[r].pc = "set" /\ \A q \in Requests : q # r => req'[q] = req[q]
    BY <1>0, <1>3, GotoTyped, LabelFacts DEF Revoke
  <2> QED BY <1>3, <2>1, QuietStep DEF Revoke, At, Saving, Listing
<1>4. ASSUME NEW r \in Requests, InsertRow(r) \/ (SMembers(r) /\ Finish(r))
      PROVE  Consistent'
  <2>1. /\ Finish(r) /\ UNCHANGED <<redis, harmed>>
        /\ req[r].pc \in {"insert", "smembers"}
    BY <1>4 DEF InsertRow, SMembers, At
  <2>2. req'[r].pc = "idle" /\ \A q \in Requests : q # r => req'[q] = req[q]
    BY <1>0, <2>1, FinishTyped
  <2> QED BY <2>1, <2>2, QuietStep DEF Saving, Listing
<1>5. CASE \E s \in Sessions : Forget(s)
  BY <1>5, QuietStep DEF Forget
<1>6. CASE UNCHANGED vars
  BY <1>6, QuietStep DEF vars
<1> QED BY <1>1, <1>2, <1>3, <1>4, <1>5, <1>6

\* DeleteAllForUser reads the index: what it does not see is on its way into
\* the index, or has lost its entry.
LEMMA ConsistentSMembers ==
  ASSUME Typed, Consistent, NEW r \in Requests, SMembers(r), ~Finish(r)
  PROVE  Consistent'
<1> DEFINE q1 == [req[r] EXCEPT !.pc = "delete", !.left = index,
                                  !.late = {s \in Sessions \ index : InSave(s)}]
<1>1. /\ q1.pc = "delete" /\ q1.left = index
      /\ q1.late = {s \in Sessions \ index : InSave(s)}
  BY DEF Typed, TypeOK, Request
<1>2. req' = [req EXCEPT ![r] = q1] /\ UNCHANGED <<redis, harmed>> /\ At(r, "smembers")
  BY DEF SMembers
<1> HIDE DEF q1
<1>3. req'[r] = q1 /\ \A q \in Requests : q # r => req'[q] = req[q]
  BY <1>2 DEF Typed, TypeOK
<1>4. \A s : (Adding(s) <=> Adding(s)') /\ (InSave(s) <=> InSave(s)')
  BY <1>1, <1>2, <1>3 DEF Adding, InSave, At, Saving
<1>5. Stored' = Stored /\ Stored \subseteq Sessions
  BY <1>2 DEF Stored, redis
<1>6. Listed' /\ Lasting'
  BY <1>2, <1>4, <1>5 DEF Consistent, Listed, Lasting, redis
<1>7. \A s \in Stored \ (q1.left \cup q1.late) : s \in harmed /\ ~Adding(s)
  BY <1>1, <1>3, <1>5, SavesElsewhere DEF Consistent, Listed
<1>8. BulkKnows'
  BY <1>2, <1>3, <1>4, <1>5, <1>7 DEF Consistent, BulkKnows
<1>9. NoneLeft'
  BY <1>1, <1>3 DEF Consistent, NoneLeft, At
<1> QED BY <1>6, <1>8, <1>9 DEF Consistent

\* The SET of a Save: a bulk deletion that has read the index is told.
LEMMA ConsistentSetBlob ==
  ASSUME Typed, Consistent, NEW r \in Requests, SetBlob(r)
  PROVE  Consistent'
<1>0. req \in [Requests -> Request] /\ TTL \in Nat /\ TTL > 0 /\ blob \in [Sessions -> 0..TTL]
  BY TTLAssumption DEF Typed, TypeOK
<1>1. PICK s \in Sessions : s = req[r].sess
  BY DEF SetBlob, Typed, HasSession, At, Bulk
<1>2. At(r, "set") /\ UNCHANGED <<index, indexTTL, harmed>>
  BY DEF SetBlob
<1>3. \A q \in Requests :
        req'[q] = IF q = r THEN [req[q] EXCEPT !.pc = "sadd"]
                  ELSE IF req[q].pc \in Bulk \ {"smembers"}
                    THEN [req[q] EXCEPT !.late = req[q].late \cup ({s} \ req[q].left)]
                    ELSE req[q]
  BY <1>1 DEF SetBlob
<1>4. \A q \in Requests :
        /\ req'[q].pc = IF q = r THEN "sadd" ELSE req[q].pc
        /\ req'[q].sess = req[q].sess /\ req'[q].left = req[q].left
        /\ req[q].late \subseteq req'[q].late
        /\ q # r /\ req[q].pc \in Listing => s \in req'[q].left \cup req'[q].late
  <2> TAKE q \in Requests
  <2>1. req[q] \in Request
    BY <1>0
  <2>2. [req[q] EXCEPT !.pc = "sadd"] = req'[q] =>
          /\ req'[q].pc = "sadd" /\ req'[q].sess = req[q].sess
          /\ req'[q].left = req[q].left /\ req'[q].late = req[q].late
    BY <2>1 DEF Request
  <2>3. [req[q] EXCEPT !.late = req[q].late \cup ({s} \ req[q].left)] = req'[q] =>
          /\ req'[q].pc = req[q].pc /\ req'[q].sess = req[q].sess
          /\ req'[q].left = req[q].left
          /\ req'[q].late = req[q].late \cup ({s} \ req[q].left)
    BY <2>1 DEF Request
  <2> QED BY <1>3, <2>2, <2>3 DEF Listing, Bulk
<1>5. blob' = [blob EXCEPT ![s] = TTL]
  BY <1>1 DEF SetBlob, SavedFor
<1>6. Stored' \subseteq Stored \cup {s} /\ \A t \in Stored' : t # s => blob'[t] = blob[t]
  BY <1>0, <1>5 DEF Stored
<1>7. /\ Adding(s)' /\ InSave(s)'
      /\ \A t : t # s => (Adding(t)' <=> Adding(t)) /\ (InSave(t)' <=> InSave(t))
  BY <1>1, <1>2, <1>4 DEF Adding, InSave, At, Saving
<1>8. Listed' /\ Lasting'
  BY <1>2, <1>6, <1>7 DEF Consistent, Listed, Lasting
<1>9. BulkKnows'
  <2> SUFFICES ASSUME NEW q \in Requests, req'[q].pc \in Listing,
                      NEW t \in Stored', t \notin req'[q].left \cup req'[q].late
               PROVE  t \in harmed' /\ ~Adding(t)'
    BY DEF BulkKnows
  <2>1. q # r /\ req[q].pc \in Listing
    BY <1>4 DEF Listing
  <2>2. t # s /\ t \in Stored \ (req[q].left \cup req[q].late)
    BY <1>4, <1>6, <2>1
  <2> QED BY <1>2, <1>7, <2>1, <2>2 DEF Consistent, BulkKnows
<1>10. NoneLeft'
  BY <1>4 DEF Consistent, NoneLeft, At
<1> QED BY <1>8, <1>9, <1>10 DEF Consistent

\* The SADD of a Save.
LEMMA ConsistentAddToIndex ==
  ASSUME Typed, Consistent, NEW r \in Requests, AddToIndex(r)
  PROVE  Consistent'
<1>0. req \in [Requests -> Request] /\ blob \in [Sessions -> 0..TTL] /\ TTL \in Nat
      /\ indexTTL \in 0..Forever /\ (indexTTL = 0 <=> index = {})
  BY TTLAssumption DEF Typed, TypeOK
<1>1. PICK s \in Sessions : s = req[r].sess
  BY DEF AddToIndex, Typed, HasSession, At, Bulk
<1>2. /\ At(r, "sadd") /\ harmed' = harmed \ {s} /\ blob' = blob
      /\ SetIndex(index \cup {s}) /\ Goto(r, "expire")
  BY <1>1 DEF AddToIndex
<1>3. /\ req'[r].pc = "expire" /\ req'[r].sess = s
      /\ \A q \in Requests : q # r => req'[q] = req[q]
  BY <1>0, <1>1, <1>2, GotoTyped, LabelFacts
<1>4. index' = index \cup {s} /\ (index # {} => indexTTL' = indexTTL)
      /\ (index = {} => indexTTL' = Forever)
  BY <1>2 DEF SetIndex
<1>5. Stored' = Stored
  BY <1>2 DEF Stored
<1>6. /\ Adding(s) /\ InSave(s)'
      /\ \A t : t # s => (Adding(t)' <=> Adding(t)) /\ (InSave(t)' <=> InSave(t))
  BY <1>1, <1>2, <1>3 DEF Adding, InSave, At, Saving
<1>7. Listed'
  BY <1>2, <1>4, <1>5, <1>6 DEF Consistent, Listed
<1>8. Lasting'
  <2> SUFFICES ASSUME NEW t \in Stored' \ harmed'
               PROVE  InSave(t)' \/ indexTTL' >= blob'[t]
    BY DEF Lasting
  <2>1. CASE t = s
    BY <1>6, <2>1
  <2>2. CASE t # s /\ index = {}
    <3>1. t \in Sessions /\ blob'[t] <= TTL /\ indexTTL' = TTL + 1
      BY <1>0, <1>2, <1>4, <2>2 DEF Stored, Forever
    <3> QED BY <1>0, <1>2, <3>1
  <2>3. CASE t # s /\ index # {}
    BY <1>2, <1>4, <1>5, <1>6, <2>3 DEF Consistent, Lasting
  <2> QED BY <2>1, <2>2, <2>3
<1>9. BulkKnows'
  <2> SUFFICES ASSUME NEW q \in Requests, req'[q].pc \in Listing,
                      NEW t \in Stored', t \notin req'[q].left \cup req'[q].late
               PROVE  t \in harmed' /\ ~Adding(t)'
    BY DEF BulkKnows
  <2>1. q # r /\ req'[q] = req[q]
    BY <1>3 DEF Listing
  <2>2. t \in harmed /\ ~Adding(t)
    BY <1>5, <2>1 DEF Consistent, BulkKnows
  <2> QED BY <1>2, <1>6, <2>2
<1>10. NoneLeft'
  BY <1>3 DEF Consistent, NoneLeft, At
<1> QED BY <1>7, <1>8, <1>9, <1>10 DEF Consistent

\* The EXPIRE of a Save.
LEMMA ConsistentExpireIndex ==
  ASSUME Typed, Consistent, NEW r \in Requests, ExpireIndex(r)
  PROVE  Consistent'
<1>0. req \in [Requests -> Request] /\ blob \in [Sessions -> 0..TTL] /\ TTL \in Nat
  BY TTLAssumption DEF Typed, TypeOK
<1>1. /\ At(r, "expire") /\ UNCHANGED <<blob, index, harmed>> /\ Goto(r, "insert")
      /\ (index # {} => indexTTL' = TTL)
  BY DEF ExpireIndex, Renewed
<1>2. req'[r].pc = "insert" /\ \A q \in Requests : q # r => req'[q] = req[q]
  BY <1>0, <1>1, GotoTyped, LabelFacts
<1>3. Stored' = Stored /\ Stored \subseteq Sessions
  BY <1>1 DEF Stored
<1>4. \A t : (Adding(t)' <=> Adding(t)) /\ (Adding(t)' => InSave(t)')
  BY <1>1, <1>2 DEF Adding, InSave, At, Saving
<1>5. Listed'
  BY <1>1, <1>3, <1>4 DEF Consistent, Listed
<1>6. Lasting'
  <2> SUFFICES ASSUME NEW t \in Stored \ harmed, t \in index
               PROVE  indexTTL' >= blob'[t]
    BY <1>1, <1>3, <1>4, <1>5 DEF Lasting, Listed
  <2> QED BY <1>0, <1>1, <1>3
<1>7. BulkKnows' /\ NoneLeft'
  BY <1>1, <1>2, <1>3, <1>4 DEF Consistent, BulkKnows, NoneLeft, Listing, At
<1> QED BY <1>5, <1>6, <1>7 DEF Consistent

\* The DEL of a Delete.
LEMMA ConsistentDeleteBlob ==
  ASSUME Typed, Consistent, NEW r \in Requests, DeleteBlob(r)
  PROVE  Consistent'
<1>0. req \in [Requests -> Request] /\ blob \in [Sessions -> 0..TTL] /\ TTL \in Nat
  BY TTLAssumption DEF Typed, TypeOK
<1>1. PICK s \in Sessions : s = req[r].sess
  BY DEF DeleteBlob, Typed, HasSession, At, Bulk
<1>2. /\ At(r, "del") /\ UNCHANGED <<index, indexTTL>> /\ Goto(r, "srem")
      /\ blob' = [blob EXCEPT ![s] = 0] /\ harmed' = harmed \ {s}
  BY <1>1 DEF DeleteBlob
<1>3. req'[r].pc = "srem" /\ \A q \in Requests : q # r => req'[q] = req[q]
  BY <1>0, <1>2, GotoTyped, LabelFacts
<1>4. \A t \in Stored' : t # s /\ t \in Stored /\ blob'[t] = blob[t]
  BY <1>0, <1>2 DEF Stored
<1>5. \A t : (Adding(t)' <=> Adding(t)) /\ (InSave(t)' <=> InSave(t))
  BY <1>2, <1>3 DEF Adding, InSave, At, Saving
<1>6. Listed' /\ Lasting'
  BY <1>2, <1>4, <1>5 DEF Consistent, Listed, Lasting
<1>7. BulkKnows' /\ NoneLeft'
  BY <1>2, <1>3, <1>4, <1>5 DEF Consistent, BulkKnows, NoneLeft, Listing, At
<1> QED BY <1>6, <1>7 DEF Consistent

\* The SREM of a Delete.
LEMMA ConsistentRemoveFromIndex ==
  ASSUME Typed, Consistent, NEW r \in Requests, RemoveFromIndex(r)
  PROVE  Consistent'
<1>0. req \in [Requests -> Request] /\ Stored \subseteq Sessions
  BY DEF Typed, TypeOK, Stored
<1>1. PICK s \in Sessions : s = req[r].sess
  BY DEF RemoveFromIndex, Typed, HasSession, At, Bulk
<1>2. /\ At(r, "srem") /\ UNCHANGED blob /\ Finish(r)
      /\ SetIndex(index \ {s}) /\ harmed' = harmed \cup ({s} \cap Stored)
  BY <1>1 DEF RemoveFromIndex
<1>3. req'[r].pc = "idle" /\ \A q \in Requests : q # r => req'[q] = req[q]
  BY <1>0, <1>2, FinishTyped
<1>4. index' = index \ {s} /\ (index' # {} => indexTTL' = indexTTL)
  BY <1>2 DEF SetIndex
<1>5. Stored' = Stored
  BY <1>2 DEF Stored
<1>6. \A t : /\ (Adding(t)' <=> Adding(t)) /\ (InSave(t)' <=> InSave(t))
             /\ (Adding(t) => InSave(t))
  BY <1>2, <1>3 DEF Adding, InSave, At, Saving
<1>7. Listed'
  BY <1>2, <1>4, <1>5, <1>6 DEF Consistent, Listed
<1>8. Lasting'
  BY <1>2, <1>4, <1>5, <1>6, <1>7 DEF Consistent, Lasting, Listed
<1>9. BulkKnows' /\ NoneLeft'
  BY <1>2, <1>3, <1>5, <1>6 DEF Consistent, BulkKnows, NoneLeft, Listing, At
<1> QED BY <1>7, <1>8, <1>9 DEF Consistent

\* A DEL of DeleteAllForUser, or the end of its loop.
LEMMA ConsistentDeleteListed ==
  ASSUME Typed, Consistent, NEW r \in Requests, DeleteListed(r)
  PROVE  Consistent'
<1>0. req \in [Requests -> Request] /\ blob \in [Sessions -> 0..TTL] /\ TTL \in Nat
  BY TTLAssumption DEF Typed, TypeOK
<1>1. At(r, "delete") /\ UNCHANGED <<index, indexTTL>>
  BY DEF DeleteListed
<1>2. ASSUME NEW s \in req[r].left, blob' = [blob EXCEPT ![s] = 0],
             req' = [req EXCEPT ![r].left = @ \ {s}], harmed' = harmed \ {s}
      PROVE  Consistent'
  <2> DEFINE q1 == [req[r] EXCEPT !.left = req[r].left \ {s}]
  <2>1. /\ q1.pc = "delete" /\ q1.left = req[r].left \ {s} /\ q1.late = req[r].late
        /\ req' = [req EXCEPT ![r] = q1]
    BY <1>0, <1>1, <1>2 DEF Request, At
  <2> HIDE DEF q1
  <2>2. req'[r] = q1 /\ \A q \in Requests : q # r => req'[q] = req[q]
    BY <1>0, <2>1
  <2>3. \A t \in Stored' : t # s /\ t \in Stored /\ blob'[t] = blob[t]
    BY <1>0, <1>2 DEF Stored
  <2>4. \A t : (Adding(t)' <=> Adding(t)) /\ (InSave(t)' <=> InSave(t))
    BY <1>1, <2>1, <2>2 DEF Adding, InSave, At, Saving
  <2>5. Listed' /\ Lasting'
    BY <1>1, <1>2, <2>3, <2>4 DEF Consistent, Listed, Lasting
  <2>6. BulkKnows'
    <3> SUFFICES ASSUME NEW q \in Requests, req'[q].pc \in Listing,
                        NEW t \in Stored', t \notin req'[q].left \cup req'[q].late
                 PROVE  t \in harmed' /\ ~Adding(t)'
      BY DEF BulkKnows
    <3>1. t # s /\ t \in Stored /\ req[q].pc \in Listing
      BY <1>1, <2>1, <2>2, <2>3 DEF Listing, At
    <3>2. t \notin req[q].left \cup req[q].late
      BY <2>1, <2>2, <3>1
    <3> QED BY <1>2, <2>4, <3>1, <3>2 DEF Consistent, BulkKnows
  <2>7. NoneLeft'
    BY <2>1, <2>2 DEF Consistent, NoneLeft, At
  <2> QED BY <2>5, <2>6, <2>7 DEF Consistent
<1>3. CASE req[r].left = {} /\ Goto(r, "delIndex") /\ UNCHANGED <<blob, harmed>>
  <2>1. /\ req'[r].pc = "delIndex"
        /\ req'[r].left = req[r].left /\ req'[r].late = req[r].late
        /\ \A q \in Requests : q # r => req'[q] = req[q]
    BY <1>0, <1>3, GotoTyped DEF Labels, Bulk
  <2>2. Stored' = Stored
    BY <1>3 DEF Stored
  <2>3. \A t : (Adding(t)' <=> Adding(t)) /\ (InSave(t)' <=> InSave(t))
    BY <1>1, <2>1 DEF Adding, InSave, At, Saving
  <2>4. Listed' /\ Lasting'
    BY <1>1, <1>3, <2>2, <2>3 DEF Consistent, Listed, Lasting
  <2>5. BulkKnows'
    BY <1>1, <1>3, <2>1, <2>2, <2>3 DEF Consistent, BulkKnows, Listing, At
  <2>6. NoneLeft'
    BY <1>3, <2>1 DEF Consistent, NoneLeft, At
  <2> QED BY <2>4, <2>5, <2>6 DEF Consistent
<1> QED BY <1>2, <1>3 DEF DeleteListed, AllDeleted

\* DeleteAllForUser deletes the index, and with it every entry.
LEMMA ConsistentDeleteIndex ==
  ASSUME Typed, Consistent, NEW r \in Requests, DeleteIndex(r)
  PROVE  Consistent'
<1>0. req \in [Requests -> Request]
  BY DEF Typed, TypeOK
<1>1. /\ At(r, "delIndex") /\ UNCHANGED blob /\ Finish(r)
      /\ harmed' = harmed \cup Stored
  BY DEF DeleteIndex
<1>2. req'[r].pc = "idle" /\ \A q \in Requests : q # r => req'[q] = req[q]
  BY <1>0, <1>1, FinishTyped
<1>3. Stored' = Stored /\ \A t : Adding(t)' <=> Adding(t)
  BY <1>1, <1>2 DEF Stored, Adding, At
<1>4. Listed' /\ Lasting'
  BY <1>1, <1>3 DEF Listed, Lasting
<1>5. BulkKnows' /\ NoneLeft'
  BY <1>1, <1>2, <1>3 DEF Consistent, BulkKnows, NoneLeft, Listing, At
<1> QED BY <1>4, <1>5 DEF Consistent

\* A Save that is cut short, or starts over, has harmed what it had stored.
LEMMA ConsistentCut ==
  ASSUME Typed, Consistent, NEW r \in Requests, Cut(r) \/ Resend(r)
  PROVE  Consistent'
<1>0. req \in [Requests -> Request]
  BY DEF Typed, TypeOK
<1>1. /\ UNCHANGED <<blob, index, indexTTL>>
      /\ harmed' = harmed \cup (IF req[r].pc \in Saving THEN {req[r].sess} \cap Stored ELSE {})
  BY DEF Cut, Resend, redis
<1>2. /\ req'[r].pc \in {"idle", "set", "del"}
      /\ \A q \in Requests : q # r => req'[q] = req[q]
  <2>1. CASE Cut(r)
    BY <1>0, <2>1, FinishTyped DEF Cut
  <2>2. CASE Resend(r)
    <3>1. PICK l \in {"set", "del"} :
            req' = [req EXCEPT ![r] = [@ EXCEPT !.pc = l, !.resent = TRUE]]
      BY <2>2 DEF Resend
    <3> DEFINE q1 == [req[r] EXCEPT !.pc = l, !.resent = TRUE]
    <3>2. q1.pc = l /\ req' = [req EXCEPT ![r] = q1]
      BY <1>0, <3>1 DEF Request
    <3> HIDE DEF q1
    <3> QED BY <1>0, <3>2
  <2> QED BY <2>1, <2>2
<1>3. Stored' = Stored
  BY <1>1 DEF Stored
<1>4. \A s : Adding(s)' => Adding(s)
  BY <1>2, SavesElsewhere
<1>5. \A s \in Stored \ harmed' :
        (Adding(s) => Adding(s)') /\ (InSave(s) => InSave(s)')
  BY <1>1, <1>2, SavesElsewhere DEF Saving
<1>6. Listed' /\ Lasting'
  BY <1>1, <1>3, <1>5 DEF Consistent, Listed, Lasting
<1>7. BulkKnows' /\ NoneLeft'
  BY <1>1, <1>2, <1>3, <1>4 DEF Consistent, BulkKnows, NoneLeft, Listing, At
<1> QED BY <1>6, <1>7 DEF Consistent

\* Time passes: the index ends with the last session it lists, or harms it.
LEMMA ConsistentTick ==
  ASSUME Typed, Consistent, Tick
  PROVE  Consistent'
<1>0. /\ blob \in [Sessions -> 0..TTL] /\ TTL \in Nat /\ index \subseteq Sessions
      /\ indexTTL \in 0..(TTL + 1) /\ (indexTTL = 0 <=> index = {})
  BY TTLAssumption DEF Typed, TypeOK, Forever
<1>1. /\ req' = req
      /\ blob' = [s \in Sessions |-> IF blob[s] \in 1..TTL THEN blob[s] - 1 ELSE blob[s]]
      /\ indexTTL' = IF indexTTL \in 1..TTL THEN indexTTL - 1 ELSE indexTTL
      /\ index' = IF indexTTL = 1 THEN {} ELSE index
      /\ harmed' = (harmed \cup (IF indexTTL = 1 THEN {s \in index : InSave(s)} ELSE {}))
                     \ {s \in Sessions : blob[s] = 1}
  BY DEF Tick
<1>2. \A s \in Stored' : /\ s \in Stored /\ s \in Sessions /\ blob[s] > 1
                         /\ blob'[s] = blob[s] - 1 /\ blob[s] \in Nat
  BY <1>0, <1>1 DEF Stored
<1>3. \A s : /\ (Adding(s)' <=> Adding(s)) /\ (InSave(s)' <=> InSave(s))
             /\ (Adding(s) => InSave(s))
  BY <1>1 DEF Adding, InSave, At, Saving
<1>4. \A s \in Stored' : s \in harmed => s \in harmed'
  BY <1>1, <1>2
<1>5. Listed'
  <2> SUFFICES ASSUME NEW s \in Stored' \ harmed'
               PROVE  Adding(s) \/ s \in index'
    BY <1>3 DEF Listed
  <2>1. s \in Stored \ harmed /\ blob[s] > 1 /\ blob[s] \in Nat
    BY <1>2, <1>4
  <2>2. (Adding(s) \/ s \in index) /\ (InSave(s) \/ indexTTL >= blob[s])
    BY <2>1 DEF Consistent, Listed, Lasting
  <2>3. CASE indexTTL = 1 /\ s \in index
    <3>1. s \in Sessions /\ ~InSave(s)
      BY <1>1, <1>2, <2>1, <2>3
    <3> QED BY <2>1, <2>2, <2>3, <3>1
  <2> QED BY <1>1, <2>2, <2>3
<1>6. Lasting'
  <2> SUFFICES ASSUME NEW s \in Stored' \ harmed', ~InSave(s)
               PROVE  indexTTL' >= blob'[s]
    BY <1>3 DEF Lasting
  <2>1. s \in Stored \ harmed
    BY <1>2, <1>4
  <2>2. indexTTL >= blob[s] /\ blob[s] > 1 /\ blob'[s] = blob[s] - 1 /\ blob[s] \in Nat
    BY <1>2, <2>1 DEF Consistent, Lasting
  <2> QED BY <1>0, <1>1, <2>2
<1>7. BulkKnows'
  BY <1>1, <1>2, <1>3, <1>4 DEF Consistent, BulkKnows
<1>8. NoneLeft'
  BY <1>1 DEF Consistent, NoneLeft, At
<1> QED BY <1>5, <1>6, <1>7, <1>8 DEF Consistent

LEMMA ConsistentNext == Typed /\ Consistent /\ [Next]_vars => Consistent'
<1> SUFFICES ASSUME Typed, Consistent, [Next]_vars
             PROVE  Consistent'
  OBVIOUS
<1>1. ASSUME NEW r \in Requests, SMembers(r)
      PROVE  Consistent'
  BY <1>1, ConsistentAside, ConsistentSMembers
<1>2. ASSUME NEW r \in Requests, Step(r), ~SMembers(r)
      PROVE  Consistent'
  BY <1>2, ConsistentAside, ConsistentSetBlob, ConsistentAddToIndex,
     ConsistentExpireIndex, ConsistentDeleteBlob, ConsistentRemoveFromIndex,
     ConsistentDeleteListed, ConsistentDeleteIndex, ConsistentCut
  DEF Step
<1> QED BY <1>1, <1>2, ConsistentAside, ConsistentTick DEF Next

LEMMA Invariance == Spec => []IInv
<1>1. Init => IInv
  BY TypedInit, ConsistentInit DEF IInv
<1>2. IInv /\ [Next]_vars => IInv'
  BY TypedNext, ConsistentNext DEF IInv
<1> QED BY <1>1, <1>2, PTL DEF Spec

(* A stored session is indexed, and the index lives at least as long as the *)
(* session, unless its Save was cut or a deletion or the end of the index   *)
(* came in between (stores.go:53-70).                                       *)
THEOREM IndexIsComplete == Spec => []IndexCovers
<1>1. IInv => IndexCovers
  <2>1. \A s : Adding(s) => InSave(s)
    BY DEF Adding, InSave, At, Saving
  <2> QED BY <2>1 DEF IInv, Consistent, Listed, Lasting, IndexCovers
<1> QED BY Invariance, <1>1, PTL

(* DeleteAllForUser leaves only the sessions that were saved while it ran,  *)
(* or had lost their entry (stores.go:78-94).                               *)
THEOREM BulkIsComplete == Spec => []BulkDeletes
<1>1. IInv => BulkDeletes
  BY DEF IInv, Consistent, BulkKnows, NoneLeft, BulkDeletes, Listing, At
<1> QED BY Invariance, <1>1, PTL
=============================================================================
