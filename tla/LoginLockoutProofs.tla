------------------------- MODULE LoginLockoutProofs -------------------------
(***************************************************************************)
(* Proofs about LoginLockout, for any addresses, any number of workers,    *)
(* any limit and duration, with or without faults.                         *)
(***************************************************************************)
EXTENDS LoginLockout, FiniteSetTheorems, TLAPS

-----------------------------------------------------------------------------
\* The inductive invariant.

\* Logins that have counted the failure that reaches the limit, and not yet
\* set the lock.
Locking(e) == {r \in Requests : req[r].email = e /\ At(r, "lock")}

\* As long as the lock does not outlive the counter, each count from the limit
\* on belongs to a login that is about to set the lock, or lost it; and so does
\* each try that reached the limit.
FailuresCounted ==
  \A e \in Emails :
    count[e] >= MaxAttempts /\ lockTTL[e] < failTTL[e]
    => /\ count[e] < MaxAttempts + Cardinality(Locking(e)) + dropped[e]
       /\ tries[e] < MaxAttempts + Cardinality(Locking(e)) + dropped[e]

\* The counter passes the limit by no more than the tries do.
CountBounded ==
  \A e \in Emails :
    count[e] + Cardinality(Attempting(e)) < MaxAttempts + Cardinality(Requests) + dropped[e]

\* Below the limit a try is counted, or among the dropped.
TriesCounted ==
  \A e \in Emails : count[e] < MaxAttempts => tries[e] <= count[e] + dropped[e]

Bounded == FailuresCounted /\ CountBounded /\ TriesCounted /\ AttemptsBounded
IInv == TypeOK /\ Bounded

-----------------------------------------------------------------------------
\* Sets of requests.

LEMMA Sizes ==
  /\ Cardinality(Requests) \in Nat
  /\ \A A \in SUBSET Requests :
       IsFiniteSet(A) /\ Cardinality(A) \in Nat /\ Cardinality(A) <= Cardinality(Requests)
BY RequestsAssumption, FS_Subset, FS_CardinalityType

\* Two groups without a common request are together no more than there are.
LEMMA Apart ==
  ASSUME NEW A \in SUBSET Requests, NEW B \in SUBSET Requests, A \cap B = {}
  PROVE  Cardinality(A) + Cardinality(B) <= Cardinality(Requests)
<1>1. IsFiniteSet(A) /\ IsFiniteSet(B) /\ A \cup B \in SUBSET Requests
  BY Sizes
<1>2. Cardinality(A \cup B) = Cardinality(A) + Cardinality(B) - Cardinality(A \cap B)
  BY <1>1, FS_Union
<1>3. Cardinality(A \cap B) = 0
  BY FS_EmptySet
<1> QED BY <1>1, <1>2, <1>3, Sizes

\* What one request adds to a group, or takes away from it.
LEMMA Moved ==
  ASSUME NEW A \in SUBSET Requests, NEW B \in SUBSET Requests, NEW r \in Requests,
         A \ {r} = B \ {r}
  PROVE  Cardinality(B) = Cardinality(A) + (IF r \in B THEN 1 ELSE 0)
                                         - (IF r \in A THEN 1 ELSE 0)
<1>1. /\ Cardinality(A \ {r}) = Cardinality(A) - (IF r \in A THEN 1 ELSE 0)
      /\ Cardinality(B \ {r}) = Cardinality(B) - (IF r \in B THEN 1 ELSE 0)
  BY Sizes, FS_RemoveElement
<1>2. Cardinality(A) \in Nat /\ Cardinality(B) \in Nat
  BY Sizes
<1> DEFINE a == Cardinality(A)  b == Cardinality(B)
<1>3. a - (IF r \in A THEN 1 ELSE 0) = b - (IF r \in B THEN 1 ELSE 0) /\ a \in Nat /\ b \in Nat
  BY <1>1, <1>2
<1> HIDE DEF a, b
<1>4. b = a + (IF r \in B THEN 1 ELSE 0) - (IF r \in A THEN 1 ELSE 0)
  BY <1>3
<1> QED BY <1>4 DEF a, b

\* A step of one request changes the two groups of an address by this request.
LEMMA Groups ==
  ASSUME NEW r \in Requests, \A q \in Requests : q # r => req'[q] = req[q], NEW e
  PROVE  /\ Cardinality(Attempting(e)) \in Nat /\ Cardinality(Attempting(e)') \in Nat
         /\ Cardinality(Locking(e)) \in Nat /\ Cardinality(Locking(e)') \in Nat
         /\ Cardinality(Attempting(e)') = Cardinality(Attempting(e))
              + (IF req'[r].email = e /\ req'[r].pc \in {"compare", "incr"} THEN 1 ELSE 0)
              - (IF req[r].email = e /\ req[r].pc \in {"compare", "incr"} THEN 1 ELSE 0)
         /\ Cardinality(Locking(e)') = Cardinality(Locking(e))
              + (IF req'[r].email = e /\ req'[r].pc = "lock" THEN 1 ELSE 0)
              - (IF req[r].email = e /\ req[r].pc = "lock" THEN 1 ELSE 0)
         /\ Cardinality(Attempting(e)') + Cardinality(Locking(e)') <= Cardinality(Requests)
<1> DEFINE A == Attempting(e)  A1 == Attempting(e)'  L == Locking(e)  L1 == Locking(e)'
<1>1. /\ A \in SUBSET Requests /\ A1 \in SUBSET Requests
      /\ L \in SUBSET Requests /\ L1 \in SUBSET Requests
      /\ A \ {r} = A1 \ {r} /\ L \ {r} = L1 \ {r} /\ A1 \cap L1 = {}
  BY DEF Attempting, Locking, At
<1>2. /\ r \in A <=> req[r].email = e /\ req[r].pc \in {"compare", "incr"}
      /\ r \in A1 <=> req'[r].email = e /\ req'[r].pc \in {"compare", "incr"}
      /\ r \in L <=> req[r].email = e /\ req[r].pc = "lock"
      /\ r \in L1 <=> req'[r].email = e /\ req'[r].pc = "lock"
  BY DEF Attempting, Locking, At
<1> HIDE DEF A, A1, L, L1
<1>3. /\ Cardinality(A) \in Nat /\ Cardinality(A1) \in Nat
      /\ Cardinality(L) \in Nat /\ Cardinality(L1) \in Nat
  BY <1>1, Sizes
<1>4. Cardinality(A1) = Cardinality(A) + (IF r \in A1 THEN 1 ELSE 0) - (IF r \in A THEN 1 ELSE 0)
  BY <1>1, Moved
<1>5. Cardinality(L1) = Cardinality(L) + (IF r \in L1 THEN 1 ELSE 0) - (IF r \in L THEN 1 ELSE 0)
  BY <1>1, Moved
<1>6. Cardinality(A1) + Cardinality(L1) <= Cardinality(Requests)
  BY <1>1, Apart
<1> QED BY <1>2, <1>3, <1>4, <1>5, <1>6 DEF A, A1, L, L1

-----------------------------------------------------------------------------
\* What the helpers do.

LEMMA FinishTyped ==
  ASSUME TypeOK, NEW r \in Requests, Finish(r)
  PROVE  /\ req' \in [Requests -> [pc : Labels, email : Emails \cup {NoEmail}]]
         /\ req'[r].pc = "idle" /\ req'[r].email = NoEmail
         /\ \A q \in Requests : q # r => req'[q] = req[q]
BY DEF TypeOK, Finish, Idle, Labels

LEMMA GotoTyped ==
  ASSUME TypeOK, NEW r \in Requests, NEW l \in Labels, Goto(r, l)
  PROVE  /\ req' \in [Requests -> [pc : Labels, email : Emails \cup {NoEmail}]]
         /\ req'[r].pc = l /\ req'[r].email = req[r].email
         /\ \A q \in Requests : q # r => req'[q] = req[q]
BY DEF TypeOK, Goto

\* A request that is being served has an address.
LEMMA Served ==
  ASSUME TypeOK, NEW r \in Requests, ~At(r, "idle")
  PROVE  req[r].email \in Emails
BY NoEmailAssumption DEF TypeOK, At

\* The locks that are dropped are as many as the requests that drop them.
LEMMA Dropped ==
  ASSUME TypeOK, NEW R \in SUBSET Requests, Drop(R)
  PROVE  /\ dropped' \in [Emails -> Nat]
         /\ \A e \in Emails :
              dropped'[e] = dropped[e] + Cardinality({r \in R : req[r].email = e})
<1> DEFINE n(e) == Cardinality({r \in R : req[r].email = e})
<1>1. \A e : n(e) \in Nat
  BY Sizes
<1>2. dropped' = [e \in Emails |-> dropped[e] + n(e)] /\ dropped \in [Emails -> Nat]
  BY DEF TypeOK, Drop
<1>3. \A e \in Emails : dropped'[e] = dropped[e] + n(e)
  BY <1>2
<1> HIDE DEF n
<1>4. dropped' \in [Emails -> Nat]
  BY <1>1, <1>2
<1> QED BY <1>3, <1>4 DEF n

LEMMA DroppedOne ==
  ASSUME TypeOK, NEW r \in Requests, Drop({r})
  PROVE  /\ dropped' \in [Emails -> Nat]
         /\ \A e \in Emails :
              dropped'[e] = dropped[e] + (IF req[r].email = e THEN 1 ELSE 0)
<1>1. \A e : {q \in {r} : req[q].email = e} = IF req[r].email = e THEN {r} ELSE {}
  OBVIOUS
<1>2. Cardinality({r}) = 1 /\ Cardinality({}) = 0
  BY FS_Singleton, FS_EmptySet
<1> QED BY <1>1, <1>2, Dropped DEF TypeOK

-----------------------------------------------------------------------------
\* Types.

LEMMA TypedInit == Init => TypeOK
<1>1. MaxCount \in Nat /\ Duration \in Nat
  BY MaxCountAssumption, DurationAssumption
<1> QED BY <1>1 DEF Init, TypeOK, Idle, Labels, At

\* A step of one request keeps the requests typed.
LEMMA TypedRequest ==
  ASSUME TypeOK, NEW r \in Requests, Finish(r) \/ \E l \in Labels \ {"idle"} : Goto(r, l),
         ~At(r, "idle")
  PROVE  /\ req' \in [Requests -> [pc : Labels, email : Emails \cup {NoEmail}]]
         /\ \A q \in Requests : At(q, "idle")' <=> req'[q].email = NoEmail
<1>1. CASE Finish(r)
  BY <1>1, FinishTyped DEF TypeOK, At
<1>2. ASSUME NEW l \in Labels \ {"idle"}, Goto(r, l)
      PROVE  /\ req' \in [Requests -> [pc : Labels, email : Emails \cup {NoEmail}]]
             /\ \A q \in Requests : At(q, "idle")' <=> req'[q].email = NoEmail
  BY <1>2, GotoTyped DEF TypeOK, At
<1> QED BY <1>1, <1>2

\* The script keeps the types, and sets an expiry with the first count.
LEMMA IncrTyped ==
  ASSUME TypeOK, NEW e \in Emails, Incr(e)
  PROVE  /\ count' \in [Emails -> 0 .. MaxCount] /\ failTTL' \in [Emails -> 0 .. Duration]
         /\ \A d \in Emails : count'[d] = 0 <=> failTTL'[d] = 0
         /\ \A d \in Emails : /\ count'[d] = IF d = e THEN count[d] + 1 ELSE count[d]
                              /\ failTTL'[d] = IF d = e THEN Expiring(d) ELSE failTTL[d]
BY MaxCountAssumption, DurationAssumption DEF TypeOK, Incr, Expiring

LEMMA TypedNext == TypeOK /\ [Next]_vars => TypeOK'
<1> SUFFICES ASSUME TypeOK, [Next]_vars
             PROVE  TypeOK'
  OBVIOUS
<1>0. /\ MaxCount \in Nat /\ Duration \in Nat /\ Duration > 0
      /\ Cardinality(Requests) \in Nat
  BY MaxCountAssumption, DurationAssumption, Sizes
<1>l. {"incr", "clear", "lock", "clearCount", "compare"} \subseteq Labels \ {"idle"}
  BY DEF Labels
<1>1. ASSUME NEW r \in Requests, NEW e \in Emails, Login(r, e)
      PROVE  TypeOK'
  <2>1. /\ req' \in [Requests -> [pc : Labels, email : Emails \cup {NoEmail}]]
        /\ \A q \in Requests : At(q, "idle")' <=> req'[q].email = NoEmail
    BY <1>1, NoEmailAssumption DEF Login, TypeOK, At, Labels
  <2> QED BY <1>1, <2>1 DEF Login, TypeOK
<1>2. ASSUME NEW r \in Requests, Compare(r)
      PROVE  TypeOK'
  <2>1. ~At(r, "idle") /\ (Finish(r) \/ \E l \in Labels \ {"idle"} : Goto(r, l))
    BY <1>2, <1>l DEF Compare, At
  <2> QED BY <1>2, <2>1, TypedRequest DEF Compare, TypeOK
<1>3. ASSUME NEW r \in Requests, RecordFailure(r)
      PROVE  TypeOK'
  <2>1. ~At(r, "idle") /\ (Finish(r) \/ \E l \in Labels \ {"idle"} : Goto(r, l))
    BY <1>3, <1>l DEF RecordFailure, At
  <2>2. lockTTL' = lockTTL /\ dropped' \in [Emails -> Nat]
    BY <1>3, DroppedOne DEF RecordFailure, TypeOK
  <2>3. PICK e \in Emails : e = req[r].email
    BY <2>1, Served
  <2>5. tries' \in [Emails -> 0 .. MaxCount]
    BY <1>0, <1>3, <2>3 DEF RecordFailure, TypeOK
  <2>4. /\ count' \in [Emails -> 0 .. MaxCount] /\ failTTL' \in [Emails -> 0 .. Duration]
        /\ \A d \in Emails : count'[d] = 0 <=> failTTL'[d] = 0
    <3>1. CASE Incr(e)
      BY <3>1, IncrTyped
    <3>2. CASE UNCHANGED <<count, failTTL>>
      BY <3>2 DEF TypeOK
    <3> QED BY <1>3, <2>3, <3>1, <3>2 DEF RecordFailure
  <2> QED BY <2>1, <2>2, <2>4, <2>5, TypedRequest DEF TypeOK
<1>4. ASSUME NEW r \in Requests, SetLock(r)
      PROVE  TypeOK'
  <2>1. ~At(r, "idle") /\ Finish(r) /\ UNCHANGED <<count, failTTL, tries>>
    BY <1>4 DEF SetLock, At
  <2>2. lockTTL' \in [Emails -> 0 .. Duration]
    BY <1>0, <1>4 DEF SetLock, TypeOK
  <2>3. dropped' \in [Emails -> Nat]
    BY <1>4, DroppedOne DEF SetLock, TypeOK
  <2> QED BY <2>1, <2>2, <2>3, TypedRequest DEF TypeOK
<1>5. ASSUME NEW r \in Requests, ClearLock(r)
      PROVE  TypeOK'
  <2>1. /\ ~At(r, "idle") /\ (Finish(r) \/ \E l \in Labels \ {"idle"} : Goto(r, l))
        /\ UNCHANGED <<count, failTTL, tries>>
    BY <1>5, <1>l DEF ClearLock, At
  <2>2. lockTTL' \in [Emails -> 0 .. Duration] /\ dropped' \in [Emails -> Nat]
    BY <1>0, <1>5 DEF ClearLock, TypeOK
  <2> QED BY <2>1, <2>2, TypedRequest DEF TypeOK
<1>6. ASSUME NEW r \in Requests, ClearCount(r)
      PROVE  TypeOK'
  <2>1. ~At(r, "idle") /\ Finish(r) /\ UNCHANGED lockTTL
    BY <1>6 DEF ClearCount, At
  <2>2. /\ count' \in [Emails -> 0 .. MaxCount] /\ failTTL' \in [Emails -> 0 .. Duration]
        /\ dropped' \in [Emails -> Nat] /\ tries' \in [Emails -> 0 .. MaxCount]
        /\ \A d \in Emails : count'[d] = 0 <=> failTTL'[d] = 0
    BY <1>0, <1>6 DEF ClearCount, Forget, TypeOK
  <2> QED BY <2>1, <2>2, TypedRequest DEF TypeOK
<1>7. CASE Tick
  <2>1. /\ count' \in [Emails -> 0 .. MaxCount] /\ failTTL' \in [Emails -> 0 .. Duration]
        /\ lockTTL' \in [Emails -> 0 .. Duration] /\ dropped' \in [Emails -> Nat]
        /\ tries' \in [Emails -> 0 .. MaxCount]
    BY <1>0, <1>7 DEF Tick, TypeOK
  <2>2. \A d \in Emails : count'[d] = 0 <=> failTTL'[d] = 0
    BY <1>0, <1>7 DEF Tick, TypeOK
  <2> QED BY <1>7, <2>1, <2>2 DEF Tick, TypeOK, At
<1>8. CASE Crash
  <2>1. dropped' \in [Emails -> Nat]
    BY <1>8, Dropped DEF Crash
  <2>2. /\ req' \in [Requests -> [pc : Labels, email : Emails \cup {NoEmail}]]
        /\ \A q \in Requests : At(q, "idle")' <=> req'[q].email = NoEmail
    BY <1>8 DEF Crash, Idle, Labels, At
  <2> QED BY <1>8, <2>1, <2>2 DEF Crash, TypeOK
<1>9. ASSUME NEW r \in Requests, Resend(r)
      PROVE  TypeOK'
  <2>1. ~At(r, "idle")
    BY <1>9 DEF Resend, At
  <2>2. PICK e \in Emails : e = req[r].email
    BY <2>1, Served
  <2>3. CASE At(r, "incr") /\ Incr(e) /\ UNCHANGED <<lockTTL, tries, req>>
    <3>1. dropped' \in [Emails -> Nat]
      BY <1>9, <2>3, DroppedOne DEF Resend, TypeOK, At
    <3> QED BY <2>3, <3>1, IncrTyped DEF TypeOK, At
  <2>4. CASE /\ lockTTL' = [lockTTL EXCEPT ![e] = Duration]
             /\ UNCHANGED <<count, failTTL, tries, dropped, req>>
    BY <1>0, <2>4 DEF TypeOK, At
  <2>5. CASE /\ Goto(r, "clear") /\ UNCHANGED lockTTL
             /\ Forget(e) \/ UNCHANGED <<count, failTTL, tries, dropped>>
    <3>1. /\ count' \in [Emails -> 0 .. MaxCount] /\ failTTL' \in [Emails -> 0 .. Duration]
          /\ dropped' \in [Emails -> Nat] /\ tries' \in [Emails -> 0 .. MaxCount]
          /\ \A d \in Emails : count'[d] = 0 <=> failTTL'[d] = 0
      BY <1>0, <2>5 DEF Forget, TypeOK
    <3> QED BY <1>l, <2>1, <2>5, <3>1, TypedRequest DEF TypeOK
  <2> QED BY <1>9, <2>2, <2>3, <2>4, <2>5 DEF Resend
<1>10. CASE UNCHANGED vars
  BY <1>10 DEF vars, TypeOK, At
<1> QED BY <1>1, <1>2, <1>3, <1>4, <1>5, <1>6, <1>7, <1>8, <1>9, <1>10 DEF Next, Step

(* Every variable keeps its type, and a counter never stays without a time  *)
(* to live (stores.go:24-37).                                               *)
THEOREM TypeCorrect == Spec => []TypeOK
BY TypedInit, TypedNext, PTL DEF Spec

-----------------------------------------------------------------------------
\* The bound on the attempts.

\* What Bounded says of one address.
BoundedAt(e) ==
  /\ count[e] >= MaxAttempts /\ lockTTL[e] < failTTL[e] =>
       /\ count[e] < MaxAttempts + Cardinality(Locking(e)) + dropped[e]
       /\ tries[e] < MaxAttempts + Cardinality(Locking(e)) + dropped[e]
  /\ count[e] < MaxAttempts => tries[e] <= count[e] + dropped[e]
  /\ count[e] + Cardinality(Attempting(e)) < MaxAttempts + Cardinality(Requests) + dropped[e]
  /\ tries[e] + Cardinality(Attempting(e)) < MaxAttempts + Cardinality(Requests) + dropped[e]

LEMMA BoundedEverywhere == Bounded <=> \A e \in Emails : BoundedAt(e)
BY DEF Bounded, BoundedAt, FailuresCounted, CountBounded, TriesCounted, AttemptsBounded

\* The numbers of one address are numbers.
LEMMA Numbers ==
  ASSUME TypeOK, NEW e \in Emails
  PROVE  /\ count[e] \in Nat /\ failTTL[e] \in Nat /\ lockTTL[e] \in Nat /\ dropped[e] \in Nat
         /\ tries[e] \in Nat
         /\ failTTL[e] <= Duration /\ (count[e] = 0 <=> failTTL[e] = 0)
         /\ Cardinality(Locking(e)) \in Nat /\ Cardinality(Attempting(e)) \in Nat
         /\ MaxAttempts \in Nat /\ MaxAttempts > 0 /\ Duration \in Nat /\ Duration > 0
         /\ Cardinality(Requests) \in Nat
<1>1. Locking(e) \in SUBSET Requests /\ Attempting(e) \in SUBSET Requests
  BY DEF Locking, Attempting
<1>2. Cardinality(Locking(e)) \in Nat /\ Cardinality(Attempting(e)) \in Nat
  BY <1>1, Sizes
<1>3. MaxCount \in Nat /\ Duration \in Nat /\ Duration > 0
      /\ MaxAttempts \in Nat /\ MaxAttempts > 0
  BY MaxCountAssumption, DurationAssumption, MaxAttemptsAssumption
<1> QED BY <1>2, <1>3, Sizes DEF TypeOK

LEMMA BoundedInit == Init => Bounded
<1> SUFFICES ASSUME Init, NEW e \in Emails
             PROVE  BoundedAt(e)
  BY BoundedEverywhere
<1>1. count[e] = 0 /\ failTTL[e] = 0 /\ lockTTL[e] = 0 /\ tries[e] = 0 /\ dropped[e] = 0
  BY DEF Init
<1>2. Cardinality(Attempting(e)) <= Cardinality(Requests)
  BY Sizes, Attempting(e) \in SUBSET Requests DEF Attempting
<1> QED BY <1>1, <1>2, TypedInit, Numbers DEF BoundedAt

\* As long as an address may be tried, what is counted and what is being
\* tried stay below the limit and the number of workers.
LEMMA BoundedLogin ==
  ASSUME TypeOK, Bounded, NEW r \in Requests, NEW e \in Emails, Login(r, e), NEW d \in Emails
  PROVE  BoundedAt(d)'
<1>1. /\ lockTTL[e] = 0 /\ UNCHANGED <<count, failTTL, lockTTL, tries, dropped>>
      /\ req[r].pc = "idle" /\ req'[r].pc = "compare" /\ req'[r].email = e
      /\ \A q \in Requests : q # r => req'[q] = req[q]
  BY DEF Login, Unlocked, At, TypeOK
<1>2. BoundedAt(d)
  BY BoundedEverywhere
<1> USE Numbers, Groups
<1>3. CASE d = e
  <2>1. /\ Cardinality(Locking(d)') = Cardinality(Locking(d))
        /\ Cardinality(Attempting(d)') + Cardinality(Locking(d)') <= Cardinality(Requests)
        /\ Cardinality(Attempting(d)') \in Nat
    BY <1>1
  <2>2. count[d] >= MaxAttempts => lockTTL[d] < failTTL[d]
    BY <1>1, <1>3
  <2> QED BY <1>1, <1>2, <2>1, <2>2 DEF BoundedAt
<1>4. CASE d # e
  <2>1. /\ Cardinality(Locking(d)') = Cardinality(Locking(d))
        /\ Cardinality(Attempting(d)') = Cardinality(Attempting(d))
    BY <1>1, <1>4
  <2> QED BY <1>1, <1>2, <2>1 DEF BoundedAt
<1> QED BY <1>3, <1>4

\* A request that leaves the groups, or stays out of them, disturbs nothing
\* where Redis is left alone.
LEMMA BoundedCompare ==
  ASSUME TypeOK, Bounded, NEW r \in Requests, Compare(r), NEW d \in Emails
  PROVE  BoundedAt(d)'
<1>1. /\ UNCHANGED <<count, failTTL, lockTTL, tries, dropped>> /\ req[r].pc = "compare"
      /\ req'[r].pc \in {"incr", "clear", "idle"}
      /\ req'[r].pc # "idle" => req'[r].email = req[r].email
      /\ \A q \in Requests : q # r => req'[q] = req[q]
  BY FinishTyped, GotoTyped DEF Compare, At, Labels
<1>2. BoundedAt(d)
  BY BoundedEverywhere
<1>3. /\ Cardinality(Locking(d)') = Cardinality(Locking(d))
      /\ Cardinality(Attempting(d)') <= Cardinality(Attempting(d))
      /\ Cardinality(Attempting(d)') \in Nat
  BY <1>1, Groups
<1> QED BY <1>1, <1>2, <1>3, Numbers DEF BoundedAt

\* A failure that reaches the limit has a login that will set the lock, or
\* one that lost it.
LEMMA BoundedRecordFailure ==
  ASSUME TypeOK, Bounded, NEW r \in Requests, RecordFailure(r), NEW d \in Emails
  PROVE  BoundedAt(d)'
<1>0. BoundedAt(d)
  BY BoundedEverywhere
<1>1. PICK e \in Emails : e = req[r].email
  BY Served DEF RecordFailure, At
<1>2. /\ lockTTL' = lockTTL /\ req[r].pc = "incr"
      /\ tries'[d] = IF d = e THEN tries[d] + 1 ELSE tries[d]
  BY <1>1 DEF RecordFailure, At, TypeOK
<1>3. CASE UNCHANGED <<count, failTTL>> /\ Finish(r) /\ Drop({r})
  <2>1. req'[r].pc = "idle" /\ \A q \in Requests : q # r => req'[q] = req[q]
    BY <1>3, FinishTyped
  <2>2. /\ Cardinality(Locking(d)') = Cardinality(Locking(d))
        /\ Cardinality(Attempting(d)') = Cardinality(Attempting(d)) - (IF d = e THEN 1 ELSE 0)
    BY <1>1, <1>2, <2>1, Groups
  <2>3. dropped'[d] = dropped[d] + (IF d = e THEN 1 ELSE 0)
    BY <1>1, <1>3, DroppedOne
  <2> QED BY <1>0, <1>2, <1>3, <2>2, <2>3, Numbers DEF BoundedAt
<1>4. CASE /\ Incr(e)
           /\ \/ AtLimit(count[e] + 1) /\ Goto(r, "lock") /\ UNCHANGED dropped
              \/ ~AtLimit(count[e] + 1) /\ Finish(r) /\ UNCHANGED dropped
              \/ AtLimit(count[e] + 1) /\ Finish(r) /\ Drop({r})
  <2>1. /\ count'[d] = IF d = e THEN count[d] + 1 ELSE count[d]
        /\ failTTL'[d] = IF d = e THEN Expiring(d) ELSE failTTL[d]
    BY <1>4, IncrTyped
  <2>2. /\ \A q \in Requests : q # r => req'[q] = req[q]
        /\ \/ req'[r].pc = "lock" /\ req'[r].email = e /\ dropped'[d] = dropped[d]
           \/ /\ req'[r].pc = "idle" /\ dropped'[d] = dropped[d]
              /\ count[e] + 1 < MaxAttempts
           \/ /\ req'[r].pc = "idle"
              /\ dropped'[d] = dropped[d] + (IF d = e THEN 1 ELSE 0)
    <3>1. CASE Goto(r, "lock") /\ UNCHANGED dropped
      BY <1>1, <3>1, GotoTyped DEF Labels
    <3>2. CASE ~AtLimit(count[e] + 1) /\ Finish(r) /\ UNCHANGED dropped
      BY <3>2, FinishTyped, Numbers DEF AtLimit
    <3>3. CASE Finish(r) /\ Drop({r})
      BY <1>1, <3>3, FinishTyped, DroppedOne
    <3> QED BY <1>4, <3>1, <3>2, <3>3
  <2>3. CASE d # e
    <3>1. /\ Cardinality(Locking(d)') = Cardinality(Locking(d))
          /\ Cardinality(Attempting(d)') = Cardinality(Attempting(d))
      BY <1>1, <2>2, <2>3, Groups
    <3>2. /\ count'[d] = count[d] /\ failTTL'[d] = failTTL[d] /\ tries'[d] = tries[d]
          /\ lockTTL'[d] = lockTTL[d] /\ dropped'[d] = dropped[d]
      BY <1>2, <2>1, <2>2, <2>3, Numbers
    <3> QED BY <1>0, <3>1, <3>2 DEF BoundedAt
  <2>4. CASE d = e
    <3>1. /\ Cardinality(Attempting(d)') = Cardinality(Attempting(d)) - 1
          /\ Cardinality(Locking(d)') =
               Cardinality(Locking(d)) + (IF req'[r].pc = "lock" THEN 1 ELSE 0)
      BY <1>1, <1>2, <2>2, <2>4, Groups
    <3>2. count[d] > 0 => failTTL'[d] = failTTL[d]
      BY <2>1, <2>4, Numbers DEF Expiring
    <3>3. CASE count[d] >= MaxAttempts
      BY <1>0, <1>2, <2>1, <2>2, <2>4, <3>1, <3>2, <3>3, Numbers DEF BoundedAt
    <3>4. CASE count[d] < MaxAttempts
      BY <1>0, <1>2, <2>1, <2>2, <2>4, <3>1, <3>4, Numbers DEF BoundedAt
    <3> QED BY <3>3, <3>4, Numbers
  <2> QED BY <2>3, <2>4
<1> QED BY <1>1, <1>3, <1>4 DEF RecordFailure

LEMMA BoundedSetLock ==
  ASSUME TypeOK, Bounded, NEW r \in Requests, SetLock(r), NEW d \in Emails
  PROVE  BoundedAt(d)'
<1>0. BoundedAt(d)
  BY BoundedEverywhere
<1>1. PICK e \in Emails : e = req[r].email
  BY Served DEF SetLock, At
<1>2. /\ UNCHANGED <<count, failTTL, tries>> /\ req[r].pc = "lock" /\ req'[r].pc = "idle"
      /\ \A q \in Requests : q # r => req'[q] = req[q]
  BY FinishTyped DEF SetLock, At
<1>3. /\ Cardinality(Attempting(d)') = Cardinality(Attempting(d))
      /\ Cardinality(Locking(d)') = Cardinality(Locking(d)) - (IF d = e THEN 1 ELSE 0)
  BY <1>1, <1>2, Groups
<1>4. CASE lockTTL' = [lockTTL EXCEPT ![e] = Duration] /\ UNCHANGED dropped
  <2>1. lockTTL'[d] = (IF d = e THEN Duration ELSE lockTTL[d]) /\ dropped'[d] = dropped[d]
    BY <1>4 DEF TypeOK
  <2>2. d = e => ~(lockTTL'[d] < failTTL'[d])
    BY <1>2, <2>1, Numbers
  <2> QED BY <1>0, <1>2, <1>3, <2>1, <2>2, Numbers DEF BoundedAt
<1>5. CASE lockTTL' = lockTTL /\ Drop({r})
  <2>1. dropped'[d] = dropped[d] + (IF d = e THEN 1 ELSE 0)
    BY <1>1, <1>5, DroppedOne
  <2> QED BY <1>0, <1>2, <1>3, <1>5, <2>1, Numbers DEF BoundedAt
<1> QED BY <1>1, <1>4, <1>5 DEF SetLock

\* With the counter its window ends, and a new one begins.
LEMMA BoundedForget ==
  ASSUME TypeOK, Bounded, NEW e \in Emails, Forget(e), UNCHANGED lockTTL, NEW d \in Emails,
         Cardinality(Attempting(d)') = Cardinality(Attempting(d)),
         Cardinality(Locking(d)') = Cardinality(Locking(d))
  PROVE  BoundedAt(d)'
<1>1. CASE d = e
  <2>1. count'[d] = 0 /\ failTTL'[d] = 0 /\ tries'[d] = 0 /\ dropped'[d] = 0
    BY <1>1 DEF Forget, TypeOK
  <2>2. Cardinality(Attempting(d)) <= Cardinality(Requests)
    BY Sizes, Attempting(d) \in SUBSET Requests DEF Attempting
  <2> QED BY <2>1, <2>2, Numbers DEF BoundedAt
<1>2. CASE d # e
  <2>1. /\ count'[d] = count[d] /\ failTTL'[d] = failTTL[d] /\ tries'[d] = tries[d]
        /\ lockTTL'[d] = lockTTL[d] /\ dropped'[d] = dropped[d]
    BY <1>2 DEF Forget, TypeOK
  <2> QED BY <2>1, BoundedEverywhere DEF BoundedAt
<1> QED BY <1>1, <1>2

\* A deleted lock lets every worker try once.
LEMMA BoundedClear ==
  ASSUME TypeOK, Bounded, NEW r \in Requests, ClearLock(r) \/ ClearCount(r), NEW d \in Emails
  PROVE  BoundedAt(d)'
<1>0. BoundedAt(d)
  BY BoundedEverywhere
<1>1. PICK e \in Emails : e = req[r].email
  BY Served DEF ClearLock, ClearCount, At
<1>2. /\ req[r].pc \in {"clear", "clearCount"} /\ req'[r].pc \in {"idle", "clearCount"}
      /\ \A q \in Requests : q # r => req'[q] = req[q]
  BY FinishTyped, GotoTyped DEF ClearLock, ClearCount, At, Labels
<1>3. /\ Cardinality(Attempting(d)') = Cardinality(Attempting(d))
      /\ Cardinality(Locking(d)') = Cardinality(Locking(d))
  BY <1>2, Groups
<1>4. CASE /\ lockTTL' = [lockTTL EXCEPT ![e] = 0] /\ UNCHANGED <<count, failTTL, tries>>
           /\ dropped' = [dropped EXCEPT ![e] = @ + Cardinality(Requests)]
  <2>1. /\ lockTTL'[d] = IF d = e THEN 0 ELSE lockTTL[d]
        /\ dropped'[d] = IF d = e THEN dropped[d] + Cardinality(Requests) ELSE dropped[d]
    BY <1>4 DEF TypeOK
  <2> QED BY <1>0, <1>3, <1>4, <2>1, Numbers DEF BoundedAt
<1>5. CASE Forget(e) /\ UNCHANGED lockTTL
  BY <1>3, <1>5, BoundedForget
<1>6. CASE UNCHANGED <<count, failTTL, lockTTL, tries, dropped>>
  BY <1>0, <1>3, <1>6 DEF BoundedAt
<1> QED BY <1>1, <1>4, <1>5, <1>6 DEF ClearLock, ClearCount

\* What is sent again counts once more, or sets or clears once more.
LEMMA BoundedResend ==
  ASSUME TypeOK, Bounded, NEW r \in Requests, Resend(r), NEW d \in Emails
  PROVE  BoundedAt(d)'
<1>0. BoundedAt(d)
  BY BoundedEverywhere
<1>1. PICK e \in Emails : e = req[r].email
  BY Served DEF Resend, At
<1>2. /\ \A q \in Requests : q # r => req'[q] = req[q]
      /\ req'[r] = req[r] \/ (req[r].pc = "clearCount" /\ req'[r].pc = "clear")
  BY GotoTyped DEF Resend, At, Labels
<1>3. /\ Cardinality(Attempting(d)') = Cardinality(Attempting(d))
      /\ Cardinality(Locking(d)') = Cardinality(Locking(d))
  BY <1>2, Groups
<1>4. CASE /\ Incr(e) /\ UNCHANGED <<lockTTL, tries>>
           /\ IF AtLimit(count[e] + 1) THEN Drop({r}) ELSE UNCHANGED dropped
  <2>1. /\ count'[d] = IF d = e THEN count[d] + 1 ELSE count[d]
        /\ failTTL'[d] = IF d = e THEN Expiring(d) ELSE failTTL[d]
        /\ count[d] > 0 => failTTL'[d] = failTTL[d]
    BY <1>4, IncrTyped, Numbers DEF Expiring
  <2>2. dropped'[d] = dropped[d] + (IF d = e /\ count[d] + 1 >= MaxAttempts THEN 1 ELSE 0)
    BY <1>1, <1>4, DroppedOne, Numbers DEF AtLimit
  <2>3. CASE d # e
    BY <1>0, <1>3, <1>4, <2>1, <2>2, <2>3, Numbers DEF BoundedAt
  <2>4. CASE d = e
    <3>1. Cardinality(Attempting(d)) <= Cardinality(Requests)
      BY Sizes, Attempting(d) \in SUBSET Requests DEF Attempting
    <3>2. CASE count[d] + 1 >= MaxAttempts
      BY <1>0, <1>3, <1>4, <2>1, <2>2, <2>4, <3>1, <3>2, Numbers DEF BoundedAt
    <3>3. CASE count[d] + 1 < MaxAttempts
      BY <1>0, <1>3, <1>4, <2>1, <2>2, <2>4, <3>1, <3>3, Numbers DEF BoundedAt
    <3> QED BY <3>2, <3>3, Numbers
  <2> QED BY <2>3, <2>4
<1>5. CASE /\ lockTTL' = [lockTTL EXCEPT ![e] = Duration]
           /\ UNCHANGED <<count, failTTL, tries, dropped>>
  <2>1. lockTTL'[d] = IF d = e THEN Duration ELSE lockTTL[d]
    BY <1>5 DEF TypeOK
  <2> QED BY <1>0, <1>3, <1>5, <2>1, Numbers DEF BoundedAt
<1>6. CASE Forget(e) /\ UNCHANGED lockTTL
  BY <1>3, <1>6, BoundedForget
<1>7. CASE UNCHANGED <<count, failTTL, lockTTL, tries, dropped>>
  BY <1>0, <1>3, <1>7 DEF BoundedAt
<1> QED BY <1>1, <1>4, <1>5, <1>6, <1>7 DEF Resend

\* The counter never outlives a lock that was set after it.
LEMMA BoundedTick ==
  ASSUME TypeOK, Bounded, Tick, NEW d \in Emails
  PROVE  BoundedAt(d)'
<1>0. BoundedAt(d)
  BY BoundedEverywhere
<1>1. /\ failTTL'[d] = IF failTTL[d] > 0 THEN failTTL[d] - 1 ELSE 0
      /\ lockTTL'[d] = IF lockTTL[d] > 0 THEN lockTTL[d] - 1 ELSE 0
      /\ count'[d] = IF failTTL[d] = 1 THEN 0 ELSE count[d]
      /\ tries'[d] = IF failTTL[d] = 1 THEN 0 ELSE tries[d]
      /\ dropped'[d] = IF failTTL[d] = 1 THEN 0 ELSE dropped[d]
      /\ req' = req
  BY DEF Tick
<1>2. Locking(d)' = Locking(d) /\ Attempting(d)' = Attempting(d)
  BY <1>1 DEF Locking, Attempting, At
<1>3. Cardinality(Attempting(d)) <= Cardinality(Requests)
  BY Sizes, Attempting(d) \in SUBSET Requests DEF Attempting
<1> QED BY <1>0, <1>1, <1>2, <1>3, Numbers DEF BoundedAt

LEMMA BoundedCrash ==
  ASSUME TypeOK, Bounded, Crash, NEW d \in Emails
  PROVE  BoundedAt(d)'
<1>0. BoundedAt(d)
  BY BoundedEverywhere
<1>1. /\ UNCHANGED <<count, failTTL, lockTTL, tries>> /\ \A r \in Requests : req'[r] = Idle
      /\ Drop({r \in Requests : At(r, "lock")})
  BY DEF Crash
<1>2. {r \in {q \in Requests : At(q, "lock")} : req[r].email = d} = Locking(d)
  BY DEF Locking
<1>3. dropped'[d] = dropped[d] + Cardinality(Locking(d))
  BY <1>1, <1>2, Dropped
<1>4. Locking(d)' = {} /\ Attempting(d)' = {} /\ Cardinality({}) = 0
  BY <1>1, FS_EmptySet DEF Locking, Attempting, At, Idle
<1>5. Cardinality(Locking(d)) + Cardinality(Attempting(d)) <= Cardinality(Requests)
  <2>1. /\ Locking(d) \in SUBSET Requests /\ Attempting(d) \in SUBSET Requests
        /\ Locking(d) \cap Attempting(d) = {}
    BY DEF Locking, Attempting, At
  <2> QED BY <2>1, Apart
<1> QED BY <1>0, <1>1, <1>3, <1>4, <1>5, Numbers DEF BoundedAt

LEMMA BoundedNext == TypeOK /\ Bounded /\ [Next]_vars => Bounded'
<1> SUFFICES ASSUME TypeOK, Bounded, [Next]_vars, NEW d \in Emails
             PROVE  BoundedAt(d)'
  BY DEF Bounded, BoundedAt, FailuresCounted, CountBounded, TriesCounted, AttemptsBounded
<1>1. CASE UNCHANGED vars
  <2>1. Locking(d)' = Locking(d) /\ Attempting(d)' = Attempting(d)
    BY <1>1 DEF vars, Locking, Attempting, At
  <2> QED BY <1>1, <2>1, BoundedEverywhere DEF BoundedAt, vars
<1> QED BY <1>1, BoundedLogin, BoundedCompare, BoundedRecordFailure, BoundedSetLock,
        BoundedClear, BoundedResend, BoundedTick, BoundedCrash
     DEF Next, Step

LEMMA Invariance == Spec => []IInv
<1>1. Init => IInv
  BY TypedInit, BoundedInit DEF IInv
<1>2. IInv /\ [Next]_vars => IInv'
  BY TypedNext, BoundedNext DEF IInv
<1> QED BY <1>1, <1>2, PTL DEF Spec

(* The wrong passwords answered in a window of the counter, counted or not, *)
(* pass the limit by no more than the simultaneous logins, uncounted        *)
(* failures, lost and deleted locks, whatever the limit, the duration and   *)
(* the number of workers, and however often go-redis sends a command        *)
(* (auth.go:120-138, internal.go:52-56, stores.go:122-139).                 *)
THEOREM AttemptsAreBounded == Spec => []AttemptsBounded
<1>1. IInv => AttemptsBounded
  BY DEF IInv, Bounded
<1> QED BY Invariance, <1>1, PTL

(* When a lock ends the counter is below the limit, unless a login is about *)
(* to set the lock again or a lock was lost or deleted: who waits for the   *)
(* end is not locked out by the next failure (stores.go:122-139).           *)
THEOREM FreshCounter == Spec => FreshAfterLock
<1>1. ASSUME IInv, [Next]_vars, NEW e \in Emails, lockTTL[e] > 0, lockTTL'[e] = 0
      PROVE  \/ count'[e] < MaxAttempts
             \/ \E r \in Requests : At(r, "lock") /\ req[r].email = e
             \/ dropped'[e] > 0
  <2>0. TypeOK /\ BoundedAt(e)
    BY <1>1, BoundedEverywhere DEF IInv
  <2>1. CASE lockTTL' = lockTTL
    BY <1>1, <2>0, <2>1, Numbers
  <2>2. ASSUME NEW r \in Requests, ClearLock(r), lockTTL' # lockTTL
        PROVE  dropped'[e] > 0
    <3>1. PICK d \in Emails : d = req[r].email
      BY <2>0, <2>2, Served DEF ClearLock, At
    <3>2. /\ lockTTL' = [lockTTL EXCEPT ![d] = 0]
          /\ dropped' = [dropped EXCEPT ![d] = @ + Cardinality(Requests)]
      BY <2>2, <3>1 DEF ClearLock
    <3>3. d = e
      BY <1>1, <2>0, <3>2, Numbers DEF TypeOK
    <3>4. Cardinality(Requests) # 0
      BY RequestsAssumption, FS_EmptySet
    <3>5. dropped'[e] = dropped[e] + Cardinality(Requests)
      BY <2>0, <3>2, <3>3 DEF TypeOK
    <3> QED BY <2>0, <3>4, <3>5, Numbers
  <2>3. ASSUME NEW r \in Requests, SetLock(r) \/ Resend(r), lockTTL' # lockTTL
        PROVE  FALSE
    <3>1. lockTTL' = [lockTTL EXCEPT ![req[r].email] = Duration]
      BY <2>3 DEF SetLock, Resend
    <3> QED BY <1>1, <2>0, <3>1, Numbers DEF TypeOK
  <2>4. CASE Tick
    <3>1. /\ lockTTL[e] = 1
          /\ count'[e] = IF failTTL[e] = 1 THEN 0 ELSE count[e]
          /\ dropped'[e] = IF failTTL[e] = 1 THEN 0 ELSE dropped[e]
      BY <1>1, <2>0, <2>4, Numbers DEF Tick
    <3>2. CASE failTTL[e] <= 1 \/ count[e] < MaxAttempts
      BY <2>0, <3>1, <3>2, Numbers
    <3>3. CASE failTTL[e] > 1 /\ count[e] >= MaxAttempts
      <4>1. count[e] < MaxAttempts + Cardinality(Locking(e)) + dropped[e]
        BY <2>0, <3>1, <3>3 DEF BoundedAt
      <4>2. Cardinality(Locking(e)) > 0 \/ dropped[e] > 0
        BY <2>0, <3>3, <4>1, Numbers
      <4>3. Locking(e) # {} \/ dropped[e] > 0
        BY <4>2, FS_EmptySet
      <4> QED BY <2>0, <3>1, <3>3, <4>3, Numbers DEF Locking
    <3> QED BY <2>0, <3>2, <3>3, Numbers
  <2> QED BY <1>1, <2>1, <2>2, <2>3, <2>4
          DEF Next, Step, Login, Compare, RecordFailure, ClearCount, Crash, vars
<1>2. IInv /\ [Next]_vars =>
        [\A e \in Emails :
           lockTTL[e] > 0 /\ lockTTL'[e] = 0 =>
             \/ count'[e] < MaxAttempts
             \/ \E r \in Requests : At(r, "lock") /\ req[r].email = e
             \/ dropped'[e] > 0]_vars
  BY <1>1
<1> QED BY Invariance, <1>2, PTL DEF Spec, FreshAfterLock
=============================================================================
