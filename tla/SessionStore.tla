---------------------------- MODULE SessionStore ----------------------------
(***************************************************************************)
(* The sessions of one user in Redis, a blob for each with a time to live  *)
(* and the set that indexes them for bulk revocation, under the Login,     *)
(* Refresh, Logout and revokeAllSessions that call Save, Delete and        *)
(* DeleteAllForUser.  A pipeline is not a transaction: each of its         *)
(* commands is one step.  Nothing but DeleteAllForUser reads what is       *)
(* stored here.                                                            *)
(***************************************************************************)
EXTENDS Integers, FiniteSets

CONSTANTS
  Sessions,     \* session ids in use at one time (a bound)
  Requests,     \* requests served at the same time
  TTL,          \* jwt.refresh_ttl, in ticks
  Faulty,       \* TRUE: connections break, the process may die
  NoSession

ASSUME NoSessionAssumption == NoSession \notin Sessions
ASSUME TTLAssumption == TTL \in Nat \ {0}
ASSUME FaultyAssumption == Faulty \in BOOLEAN

Forever == TTL + 1      \* the TTL of a key without expiry

VARIABLES
  blob,         \* session:<id>: ticks it still lives, 0 when it does not exist
  index,        \* user_sessions:<user>: a set, and
  indexTTL,     \* the ticks it still lives
  row,          \* sessions with a refresh token that GetByHash accepts
  known,        \* sessions whose tokens a client has received
  req,
  harmed        \* sessions that lost their index entry, or its time to live,
                \* to a cut Save, or to a deletion or an expiry that came in
                \* between the commands of one (history)

redis == <<blob, index, indexTTL>>
vars == <<redis, row, known, req, harmed>>

Saving == {"sadd", "expire"}          \* the blob is set, its entry on the way
Bulk == {"smembers", "delete", "delIndex"}
Labels == {"idle", "revoke", "set", "insert", "del", "srem"} \cup Saving \cup Bulk

Request == [pc : Labels, sess : Sessions \cup {NoSession},
            left : SUBSET Sessions,   \* what SMEMBERS returned and DEL is still to do
            late : SUBSET Sessions,   \* sessions saved since, with no DEL to come (history)
            resent : BOOLEAN]         \* the pipeline was sent a second time
Idle == [pc |-> "idle", sess |-> NoSession, left |-> {}, late |-> {}, resent |-> FALSE]

Init ==
  /\ blob = [s \in Sessions |-> 0]
  /\ index = {} /\ indexTTL = 0
  /\ row = {} /\ known = {}
  /\ req = [r \in Requests |-> Idle]
  /\ harmed = {}

At(r, label) == req[r].pc = label
Goto(r, label) == req' = [req EXCEPT ![r].pc = label]
Finish(r) == req' = [req EXCEPT ![r] = Idle]
Begin(r, label, s) == req' = [req EXCEPT ![r] = [Idle EXCEPT !.pc = label, !.sess = s]]

Stored == {s \in Sessions : blob[s] > 0}
InSave(s) == \E r \in Requests : req[r].pc \in Saving /\ req[r].sess = s

\* An empty set is no key: its time to live is gone as well.
SetIndex(S) ==
  /\ index' = S
  /\ indexTTL' = IF S = {} THEN 0 ELSE IF index = {} THEN Forever ELSE indexTTL

-----------------------------------------------------------------------------
\* Login draws a session id.
Login(r, s) ==
  /\ At(r, "idle")
  /\ s \notin known \cup index \cup Stored
  /\ \A q \in Requests : req[q].sess # s
  /\ Begin(r, "set", s)
  /\ UNCHANGED <<redis, row, known, harmed>>

Refresh(r, s) ==
  /\ At(r, "idle")
  /\ s \in row
  /\ Begin(r, "revoke", s)
  /\ UNCHANGED <<redis, row, known, harmed>>

Revoke(r) ==
  /\ At(r, "revoke")
  /\ row' = row \ {req[r].sess}
  /\ Goto(r, "set")
  /\ UNCHANGED <<redis, known, harmed>>

\* The TTL of Save's SET; the mutant sets none.
SavedForever == Forever
SavedFor == TTL

(* Save: SET.  A DeleteAllForUser that is past its SMEMBERS does not know   *)
(* of the session.                                                          *)
SetBlob(r) ==
  LET s == req[r].sess IN
  /\ At(r, "set")
  /\ blob' = [blob EXCEPT ![s] = SavedFor]
  /\ req' = [q \in Requests |->
       IF q = r THEN [req[q] EXCEPT !.pc = "sadd"]
       ELSE IF req[q].pc \in Bulk \ {"smembers"}
         THEN [req[q] EXCEPT !.late = @ \cup ({s} \ req[q].left)]
         ELSE req[q]]
  /\ UNCHANGED <<index, indexTTL, row, known, harmed>>

\* Save: SADD.
AddToIndex(r) ==
  LET s == req[r].sess IN
  /\ At(r, "sadd")
  /\ SetIndex(index \cup {s})
  /\ Goto(r, "expire")
  /\ harmed' = harmed \ {s}
  /\ UNCHANGED <<blob, row, known>>

\* EXPIRE renews the time to live; the mutant, EXPIRE NX, only sets it.
RenewedNX == IF indexTTL = Forever THEN TTL ELSE indexTTL
Renewed == TTL

\* Save: EXPIRE of the index, if DEL or SREM have not removed it.
ExpireIndex(r) ==
  /\ At(r, "expire")
  /\ indexTTL' = IF index = {} THEN 0 ELSE Renewed
  /\ Goto(r, "insert")
  /\ UNCHANGED <<blob, index, row, known, harmed>>

\* issueTokens: refresh.Save, and the answer.
InsertRow(r) ==
  /\ At(r, "insert")
  /\ row' = row \cup {req[r].sess}
  /\ known' = known \cup {req[r].sess}
  /\ Finish(r)
  /\ UNCHANGED <<redis, harmed>>

-----------------------------------------------------------------------------
\* Logout, whose cookie may carry the refresh token of the session.
Logout(r, s) ==
  /\ At(r, "idle")
  /\ s \in known
  /\ row' \in {row, row \ {s}}
  /\ Begin(r, "del", s)
  /\ UNCHANGED <<redis, known, harmed>>

\* Delete: DEL.
DeleteBlob(r) ==
  /\ At(r, "del")
  /\ blob' = [blob EXCEPT ![req[r].sess] = 0]
  /\ Goto(r, "srem")
  /\ harmed' = harmed \ {req[r].sess}
  /\ UNCHANGED <<index, indexTTL, row, known>>

(* Delete: SREM, and the answer.  A refresh may have saved the session      *)
(* since the DEL.                                                           *)
RemoveFromIndex(r) ==
  LET s == req[r].sess IN
  /\ At(r, "srem")
  /\ SetIndex(index \ {s})
  /\ harmed' = harmed \cup ({s} \cap Stored)
  /\ Finish(r)
  /\ UNCHANGED <<blob, row, known>>

-----------------------------------------------------------------------------
\* revokeAllSessions: RevokeAllForUser, its error dropped.
RevokeAll(r) ==
  /\ At(r, "idle")
  /\ row' = {} \/ (Faulty /\ UNCHANGED row)
  /\ req' = [req EXCEPT ![r] = [Idle EXCEPT !.pc = "smembers"]]
  /\ UNCHANGED <<redis, known, harmed>>

\* DeleteAllForUser: SMEMBERS.
SMembers(r) ==
  /\ At(r, "smembers")
  /\ \/ index = {} /\ Finish(r)
     \/ /\ index # {}
        /\ req' = [req EXCEPT ![r] = [@ EXCEPT !.pc = "delete", !.left = index,
                                        !.late = {s \in Sessions \ index : InSave(s)}]]
  /\ UNCHANGED <<redis, row, known, harmed>>

\* The end of the loop over ids; the mutant stops one short.
AllDeletedButOne(S) == Cardinality(S) = 1
AllDeleted(S) == S = {}

\* DeleteAllForUser: DEL of a session, in the order of SMEMBERS.
DeleteListed(r) ==
  /\ At(r, "delete")
  /\ \/ /\ ~AllDeleted(req[r].left)
        /\ \E s \in req[r].left :
             /\ blob' = [blob EXCEPT ![s] = 0]
             /\ req' = [req EXCEPT ![r].left = @ \ {s}]
             /\ harmed' = harmed \ {s}
     \/ AllDeleted(req[r].left) /\ Goto(r, "delIndex") /\ UNCHANGED <<blob, harmed>>
  /\ UNCHANGED <<index, indexTTL, row, known>>

\* DeleteAllForUser: DEL of the index, with the sessions saved since SMEMBERS.
DeleteIndex(r) ==
  /\ At(r, "delIndex")
  /\ SetIndex({})
  /\ harmed' = harmed \cup Stored
  /\ Finish(r)
  /\ UNCHANGED <<blob, row, known>>

-----------------------------------------------------------------------------
\* A failed call or the death of the process ends a request anywhere.
Cut(r) ==
  /\ Faulty /\ ~At(r, "idle")
  /\ harmed' = harmed \cup (IF req[r].pc \in Saving THEN {req[r].sess} \cap Stored ELSE {})
  /\ Finish(r)
  /\ UNCHANGED <<redis, row, known>>

(* go-redis sends the pipeline of Save or Delete again, from its first      *)
(* command, when the connection broke under it (once here).  That of        *)
(* DeleteAllForUser is sent once here; what its second DEL of the index can *)
(* unlist was listed by a Save after the first.                             *)
Resend(r) ==
  /\ Faulty /\ ~req[r].resent
  /\ \/ /\ req[r].pc \in Saving
        /\ req' = [req EXCEPT ![r] = [@ EXCEPT !.pc = "set", !.resent = TRUE]]
     \/ /\ At(r, "srem")
        /\ req' = [req EXCEPT ![r] = [@ EXCEPT !.pc = "del", !.resent = TRUE]]
  /\ harmed' = harmed \cup (IF req[r].pc \in Saving THEN {req[r].sess} \cap Stored ELSE {})
  /\ UNCHANGED <<redis, row, known>>

\* The tokens of a session have expired or were revoked.
Forget(s) ==
  /\ s \in known
  /\ \A r \in Requests : req[r].sess # s
  /\ known' = known \ {s} /\ row' = row \ {s}
  /\ UNCHANGED <<redis, req, harmed>>

(* Time passes.  The index may end between the SADD and the EXPIRE of a     *)
(* Save, which then renews nothing.                                         *)
Tick ==
  /\ Stored # {} \/ indexTTL \in 1..TTL
  /\ blob' = [s \in Sessions |-> IF blob[s] \in 1..TTL THEN blob[s] - 1 ELSE blob[s]]
  /\ indexTTL' = IF indexTTL \in 1..TTL THEN indexTTL - 1 ELSE indexTTL
  /\ index' = IF indexTTL = 1 THEN {} ELSE index
  /\ harmed' = (harmed \cup (IF indexTTL = 1 THEN {s \in index : InSave(s)} ELSE {}))
                 \ {s \in Sessions : blob[s] = 1}
  /\ UNCHANGED <<row, known, req>>

Step(r) ==
  \/ Revoke(r) \/ SetBlob(r) \/ AddToIndex(r) \/ ExpireIndex(r) \/ InsertRow(r)
  \/ DeleteBlob(r) \/ RemoveFromIndex(r)
  \/ SMembers(r) \/ DeleteListed(r) \/ DeleteIndex(r)
  \/ Cut(r) \/ Resend(r)

Next ==
  \/ \E r \in Requests, s \in Sessions : Login(r, s) \/ Refresh(r, s) \/ Logout(r, s)
  \/ \E r \in Requests : RevokeAll(r) \/ Step(r)
  \/ \E s \in Sessions : Forget(s)
  \/ Tick

Spec == Init /\ [][Next]_vars

\* Redis counts the time to live of its keys.
FairSpec == Spec /\ WF_vars(Tick)

-----------------------------------------------------------------------------
(* Every variable has its type, and the index set exists exactly as long as *)
(* it has a time to live.                                                   *)
TypeOK ==
  /\ blob \in [Sessions -> 0..TTL]
  /\ index \subseteq Sessions
  /\ indexTTL \in 0..Forever /\ (indexTTL = 0 <=> index = {})
  /\ row \subseteq Sessions /\ known \subseteq Sessions
  /\ req \in [Requests -> Request]
  /\ harmed \subseteq Sessions

(* A stored session is indexed, and the index lives at least as long as the *)
(* session, unless its Save was cut or a deletion or the end of the index   *)
(* came in between its commands: "indexes it under the user for bulk        *)
(* revocation" (stores.go:53).                                              *)
IndexCovers ==
  \A s \in Stored \ harmed :
    InSave(s) \/ (s \in index /\ indexTTL >= blob[s])

(* When DeleteAllForUser has sent its last DEL of a session, only sessions  *)
(* that were saved while it ran, or had lost their entry, are left          *)
(* (stores.go:80-90).                                                       *)
BulkDeletes ==
  \A r \in Requests : At(r, "delIndex") => Stored \subseteq harmed \cup req[r].late

(* A session that no bulk revocation can find does not stay: it expires, or *)
(* its next refresh indexes it again (stores.go:65-67).                     *)
OrphansEnd == \A s \in Sessions : (s \in Stored \ index) ~> (s \notin Stored \ index)
=============================================================================
