-------------------------- MODULE RateLimiterProofs --------------------------
(***************************************************************************)
(* Proofs about RateLimiter, for any scopes, limits, length of the window  *)
(* and number of requests in flight, with or without faults.               *)
(***************************************************************************)
EXTENDS RateLimiter, FiniteSetTheorems, TLAPS

-----------------------------------------------------------------------------
\* The inductive invariant.

\* The ages of what earlier windows have admitted.
OldAges(s) == Ages \ CurrentAges(s)

\* What was admitted less than one window ago belongs to the window that is
\* open, whose counter has counted it, or to the one before.
Counted(s) ==
  /\ IsFiniteSet(Admissions(passed[s], Ages))
  /\ Cardinality(Admissions(passed[s], CurrentAges(s))) <= count[s]
  /\ Cardinality(Admissions(passed[s], CurrentAges(s))) <= Limit[s]
  /\ Cardinality(Admissions(passed[s], OldAges(s))) <= Limit[s]
  /\ ttl[s] = 0 => passed[s][0] = 0

IInv == TypeOK /\ \A s \in AllScopes : Counted(s)

-----------------------------------------------------------------------------
\* Sets of admissions.

LEMMA IsMember ==
  ASSUME NEW p, NEW A, NEW a \in A, NEW k \in 1 .. p[a]
  PROVE  <<a, k>> \in Admissions(p, A)
BY DEF Admissions

\* Fewer ages hold fewer admissions.
LEMMA Fewer ==
  ASSUME NEW p, NEW A, NEW B, A \subseteq B, IsFiniteSet(Admissions(p, B))
  PROVE  /\ IsFiniteSet(Admissions(p, A))
         /\ Cardinality(Admissions(p, A)) \in Nat
         /\ Cardinality(Admissions(p, A)) <= Cardinality(Admissions(p, B))
<1>1. Admissions(p, A) \in SUBSET Admissions(p, B)
  BY DEF Admissions
<1> QED BY <1>1, FS_Subset, FS_CardinalityType

\* The admissions of two sets of ages are at most those of each.
LEMMA Together ==
  ASSUME NEW p, NEW A, NEW B, A \subseteq B, IsFiniteSet(Admissions(p, B))
  PROVE  Cardinality(Admissions(p, B))
           <= Cardinality(Admissions(p, A)) + Cardinality(Admissions(p, B \ A))
<1>1. Admissions(p, B) = Admissions(p, A) \cup Admissions(p, B \ A)
  BY DEF Admissions
<1>2. /\ IsFiniteSet(Admissions(p, A)) /\ Cardinality(Admissions(p, A)) \in Nat
      /\ IsFiniteSet(Admissions(p, B \ A)) /\ Cardinality(Admissions(p, B \ A)) \in Nat
  BY Fewer
<1>3. Cardinality(Admissions(p, A) \cap Admissions(p, B \ A)) \in Nat
  BY <1>2, FS_Intersection, FS_CardinalityType
<1>4. Cardinality(Admissions(p, A) \cup Admissions(p, B \ A))
        = Cardinality(Admissions(p, A)) + Cardinality(Admissions(p, B \ A))
            - Cardinality(Admissions(p, A) \cap Admissions(p, B \ A))
  BY <1>2, FS_Union
<1> QED BY <1>1, <1>2, <1>3, <1>4

\* Ages at which nothing was admitted hold nothing.
LEMMA Nothing ==
  ASSUME NEW p, NEW A, \A a \in A : p[a] = 0
  PROVE  Admissions(p, A) = {}
<1>1. \A a \in A : 1 .. p[a] = {}
  OBVIOUS
<1> QED BY <1>1 DEF Admissions

\* A tick makes every admission one tick older.
LEMMA Aged ==
  ASSUME NEW p, NEW q, NEW A, NEW B \in SUBSET Nat, IsFiniteSet(Admissions(p, A)),
         \A b \in B : q[b] = 0 \/ (b - 1 \in A /\ q[b] = p[b - 1])
  PROVE  /\ IsFiniteSet(Admissions(q, B))
         /\ Cardinality(Admissions(q, B)) <= Cardinality(Admissions(p, A))
<1> DEFINE f == [x \in Admissions(q, B) |-> <<x[1] - 1, x[2]>>]
<1>1. ASSUME NEW x \in Admissions(q, B)
      PROVE  /\ x[1] \in B /\ x = <<x[1], x[2]>>
             /\ <<x[1] - 1, x[2]>> \in Admissions(p, A)
  <2>1. PICK b \in B : \E k \in 1 .. q[b] : x = <<b, k>>
    BY DEF Admissions
  <2> PICK k \in 1 .. q[b] : x = <<b, k>>
    BY <2>1
  <2>2. q[b] # 0
    BY <2>1
  <2>3. b - 1 \in A /\ k \in 1 .. p[b - 1]
    BY <2>1, <2>2
  <2> QED BY <2>1, <2>3, IsMember
<1>2. \A x, y \in Admissions(q, B) : f[x] = f[y] => x = y
  <2> SUFFICES ASSUME NEW x \in Admissions(q, B), NEW y \in Admissions(q, B), f[x] = f[y]
               PROVE  x = y
    OBVIOUS
  <2>1. x[1] - 1 = y[1] - 1 /\ x[2] = y[2]
    OBVIOUS
  <2>2. x[1] = y[1]
    BY <1>1, <2>1
  <2> QED BY <1>1, <2>1, <2>2
<1>3. f \in Injection(Admissions(q, B), Admissions(p, A))
  BY <1>1, <1>2 DEF Injection, IsInjective
<1> HIDE DEF f
<1> QED BY <1>3, FS_Injection

\* A request that is let through adds one admission of age 0.
LEMMA OneMore ==
  ASSUME NEW p \in [Ages -> Nat], NEW A \in SUBSET Ages, 0 \in A,
         IsFiniteSet(Admissions(p, A)), NEW q, q = [p EXCEPT ![0] = @ + 1]
  PROVE  /\ IsFiniteSet(Admissions(q, A))
         /\ Cardinality(Admissions(q, A)) = Cardinality(Admissions(p, A)) + 1
<1>1. q[0] = p[0] + 1 /\ p[0] \in Nat /\ \A a \in A \ {0} : q[a] = p[a]
  OBVIOUS
<1>2. Admissions(q, A) = Admissions(p, A) \cup {<<0, q[0]>>}
  <2>1. ASSUME NEW x \in Admissions(q, A)
        PROVE  x \in Admissions(p, A) \cup {<<0, q[0]>>}
    <3>1. PICK a \in A : \E k \in 1 .. q[a] : x = <<a, k>>
      BY DEF Admissions
    <3> PICK k \in 1 .. q[a] : x = <<a, k>>
      BY <3>1
    <3>2. (a = 0 /\ k = q[0]) \/ k \in 1 .. p[a]
      BY <1>1
    <3> QED BY <3>1, <3>2, IsMember
  <2>2. ASSUME NEW x \in Admissions(p, A)
        PROVE  x \in Admissions(q, A)
    <3>1. PICK a \in A : \E k \in 1 .. p[a] : x = <<a, k>>
      BY DEF Admissions
    <3> PICK k \in 1 .. p[a] : x = <<a, k>>
      BY <3>1
    <3>2. k \in 1 .. q[a]
      BY <1>1, <3>1
    <3> QED BY <3>1, <3>2, IsMember
  <2>3. <<0, q[0]>> \in Admissions(q, A)
    <3>1. q[0] \in 1 .. q[0]
      BY <1>1
    <3> QED BY <3>1, IsMember
  <2> QED BY <2>1, <2>2, <2>3
<1>3. <<0, q[0]>> \notin Admissions(p, A)
  <2> SUFFICES ASSUME NEW a \in A, NEW k \in 1 .. p[a], <<0, q[0]>> = <<a, k>>
               PROVE  FALSE
    BY DEF Admissions
  <2> QED BY <1>1
<1>4. /\ IsFiniteSet(Admissions(p, A) \cup {<<0, q[0]>>})
      /\ Cardinality(Admissions(p, A) \cup {<<0, q[0]>>}) = Cardinality(Admissions(p, A)) + 1
  BY <1>3, FS_AddElement
<1> QED BY <1>2, <1>4

-----------------------------------------------------------------------------
\* TypeOK.

LEMMA TypeInit == Init => TypeOK
BY ScopesAssumption, WindowAssumption, MaxCountAssumption DEF Init, TypeOK, Idle, Ages

\* What the script leaves in Redis.
LEMMA Script ==
  ASSUME TypeOK, NEW s \in AllScopes, IncrExpire(s)
  PROVE  /\ count' \in [AllScopes -> 0 .. MaxCount] /\ ttl' \in [AllScopes -> 0 .. Window]
         /\ \A z \in AllScopes : z # s => count'[z] = count[z] /\ ttl'[z] = ttl[z]
         /\ count'[s] > 0 /\ ttl'[s] > 0
         /\ ttl'[s] = IF ttl[s] = 0 THEN Window ELSE ttl[s]
         /\ count'[s] = IF count[s] < MaxCount THEN count[s] + 1 ELSE count[s]
<1> DEFINE c == IF count[s] < MaxCount THEN count[s] + 1 ELSE count[s]
           d == IF ttl[s] = 0 THEN Window ELSE ttl[s]
<1>1. count[s] \in 0 .. MaxCount /\ ttl[s] \in 0 .. Window /\ (count[s] = 0 <=> ttl[s] = 0)
  BY DEF TypeOK
<1>2. MaxCount \in Nat /\ MaxCount > 0 /\ Window \in Nat /\ Window > 0
  BY MaxCountAssumption, LimitAssumption, WindowAssumption
<1>3. c \in 1 .. MaxCount /\ d \in 1 .. Window
  BY <1>1, <1>2
<1>4. count' = [count EXCEPT ![s] = c] /\ ttl' = [ttl EXCEPT ![s] = d]
  BY <1>1 DEF IncrExpire, Incr, Expiring
<1>5. c > 0 /\ d > 0 /\ c \in 0 .. MaxCount /\ d \in 0 .. Window
  BY <1>2, <1>3
<1> HIDE DEF c, d
<1>6. count'[s] = c /\ ttl'[s] = d
  BY <1>4 DEF TypeOK
<1>7. /\ count' \in [AllScopes -> 0 .. MaxCount] /\ ttl' \in [AllScopes -> 0 .. Window]
      /\ \A z \in AllScopes : z # s => count'[z] = count[z] /\ ttl'[z] = ttl[z]
  BY <1>4, <1>5 DEF TypeOK
<1> QED BY <1>5, <1>6, <1>7 DEF c, d

\* What a request that is let through leaves.
LEMMA LetThrough ==
  ASSUME TypeOK, NEW r \in Requests, NEW s \in AllScopes, Admit(r, s), req[r].route \in Scopes
  PROVE  /\ passed' \in [AllScopes -> [Ages -> Nat]]
         /\ passed'[s] = [passed[s] EXCEPT ![0] = @ + 1]
         /\ \A z \in AllScopes : z # s => passed'[z] = passed[z]
         /\ req'[r].next = NoScope <=> req'[r].route = NoScope
         /\ req' \in [Requests -> [next : AllScopes \cup {NoScope}, route : Scopes \cup {NoScope}]]
         /\ \A q \in Requests : q # r => req'[q] = req[q]
<1> DEFINE p == [passed[s] EXCEPT ![0] = passed[s][0] + 1]
           q1 == [req[r] EXCEPT !.next = req[r].route]
<1>1. 0 \in Ages /\ passed[s] \in [Ages -> Nat]
  BY WindowAssumption DEF Ages, TypeOK
<1>2. p \in [Ages -> Nat] /\ passed' = [passed EXCEPT ![s] = p]
  BY <1>1 DEF Admit
<1>3. /\ passed' \in [AllScopes -> [Ages -> Nat]] /\ passed'[s] = p
      /\ \A z \in AllScopes : z # s => passed'[z] = passed[z]
  <2> HIDE DEF p
  <2> QED BY <1>2 DEF TypeOK
<1>4. /\ q1 \in [next : AllScopes \cup {NoScope}, route : Scopes \cup {NoScope}]
      /\ q1.next # NoScope /\ q1.route # NoScope
  BY ScopesAssumption DEF TypeOK, AllScopes
<1>5. /\ Idle \in [next : AllScopes \cup {NoScope}, route : Scopes \cup {NoScope}]
      /\ Idle.next = NoScope /\ Idle.route = NoScope
  BY DEF Idle
<1>6. req' = [req EXCEPT ![r] = q1] \/ req' = [req EXCEPT ![r] = Idle]
  BY DEF Admit
<1>7. /\ req'[r].next = NoScope <=> req'[r].route = NoScope
      /\ req' \in [Requests -> [next : AllScopes \cup {NoScope}, route : Scopes \cup {NoScope}]]
      /\ \A q \in Requests : q # r => req'[q] = req[q]
  <2> HIDE DEF q1
  <2> QED BY <1>4, <1>5, <1>6 DEF TypeOK
<1> QED BY <1>3, <1>7

LEMMA TypeStep == TypeOK /\ [Next]_vars => TypeOK'
<1> SUFFICES ASSUME TypeOK, [Next]_vars PROVE TypeOK'
  OBVIOUS
<1>1. ASSUME NEW r \in Requests, NEW s \in Scopes, Arrive(r, s)
      PROVE  TypeOK'
  BY <1>1, ScopesAssumption DEF Arrive, TypeOK, AllScopes
<1>2. ASSUME NEW r \in Requests, Pass(r)
      PROVE  TypeOK'
  <2> DEFINE s == req[r].next
  <2>1. s \in AllScopes /\ req[r].route \in Scopes
    BY <1>2 DEF Pass, TypeOK
  <2>2. /\ count' \in [AllScopes -> 0 .. MaxCount] /\ ttl' \in [AllScopes -> 0 .. Window]
        /\ \A z \in AllScopes : count'[z] = 0 <=> ttl'[z] = 0
    BY <1>2, <2>1, Script DEF Pass, TypeOK
  <2>3. CASE Admit(r, s)
    BY <2>1, <2>2, <2>3, LetThrough DEF TypeOK
  <2>4. CASE req' = [req EXCEPT ![r] = Idle] /\ UNCHANGED passed
    BY <2>2, <2>4 DEF TypeOK, Idle
  <2> QED BY <1>2, <2>3, <2>4 DEF Pass
<1>3. CASE Tick
  <2>1. /\ count' \in [AllScopes -> 0 .. MaxCount] /\ ttl' \in [AllScopes -> 0 .. Window]
        /\ \A z \in AllScopes : count'[z] = 0 <=> ttl'[z] = 0
    BY <1>3, WindowAssumption, MaxCountAssumption DEF Tick, TypeOK
  <2>2. passed' \in [AllScopes -> [Ages -> Nat]]
    BY <1>3, WindowAssumption DEF Tick, TypeOK, Ages
  <2> QED BY <1>3, <2>1, <2>2 DEF Tick, TypeOK
<1>4. CASE UNCHANGED vars
  BY <1>4 DEF vars, TypeOK
<1> QED BY <1>1, <1>2, <1>3, <1>4 DEF Next

(* Every variable keeps its type and no counter is left without a time to   *)
(* live: INCR and EXPIRE run in one script, whatever fails and whatever     *)
(* requests are in flight (stores.go:24-37).                                *)
THEOREM TypeCorrect == Spec => []TypeOK
BY TypeInit, TypeStep, PTL DEF Spec

-----------------------------------------------------------------------------
\* The admissions.

\* What the ages of the open window are, and what a request changes.
LEMMA Sizes ==
  ASSUME NEW p, IsFiniteSet(Admissions(p, Ages)), NEW A \in SUBSET Ages
  PROVE  IsFiniteSet(Admissions(p, A)) /\ Cardinality(Admissions(p, A)) \in Nat
BY Fewer

\* The script ran and the request was refused, or its answer was lost.
LEMMA RefusedStep ==
  ASSUME TypeOK, NEW s \in AllScopes, Counted(s),
         IncrExpire(s), passed'[s] = passed[s]
  PROVE  Counted(s)'
<1>1. CASE ttl[s] > 0
  <2>1. ttl'[s] = ttl[s] /\ count'[s] >= count[s] /\ count'[s] \in Nat /\ count[s] \in Nat
    BY <1>1, Script, MaxCountAssumption DEF TypeOK
  <2>2. CurrentAges(s)' = CurrentAges(s) /\ OldAges(s)' = OldAges(s)
    BY <2>1 DEF CurrentAges, OldAges
  <2>3. Cardinality(Admissions(passed[s], CurrentAges(s))) \in Nat
    BY Sizes DEF Counted, CurrentAges
  <2> QED BY <1>1, <2>1, <2>2, <2>3 DEF Counted
<1>2. CASE ttl[s] = 0
  <2>1. ttl'[s] = Window /\ count'[s] \in Nat
    BY <1>2, Script, MaxCountAssumption DEF TypeOK
  <2>2. CurrentAges(s) = {} /\ OldAges(s) = Ages
    BY <1>2 DEF CurrentAges, OldAges
  <2>3. CurrentAges(s)' = {0} /\ OldAges(s)' \subseteq Ages
    BY <2>1, WindowAssumption DEF CurrentAges, OldAges, Ages
  <2>4. Admissions(passed[s], {0}) = {}
    BY <1>2, Nothing DEF Counted
  <2>5. Cardinality(Admissions(passed[s], CurrentAges(s)')) = 0
    BY <2>3, <2>4, FS_EmptySet
  <2>6. Cardinality(Admissions(passed[s], OldAges(s)')) <= Limit[s]
    <3>1. /\ Cardinality(Admissions(passed[s], OldAges(s)'))
                <= Cardinality(Admissions(passed[s], Ages))
          /\ Cardinality(Admissions(passed[s], OldAges(s)')) \in Nat
      BY <2>3, Fewer DEF Counted
    <3>2. Cardinality(Admissions(passed[s], Ages)) \in Nat
      BY Sizes DEF Counted
    <3> QED BY <2>2, <3>1, <3>2, LimitAssumption DEF Counted
  <2>7. ttl'[s] # 0
    BY <2>1, WindowAssumption
  <2> QED BY <2>1, <2>5, <2>6, <2>7, LimitAssumption DEF Counted
<1> QED BY <1>1, <1>2 DEF TypeOK

\* The script ran and the request was let through.
LEMMA AdmittedStep ==
  ASSUME TypeOK, NEW s \in AllScopes, Counted(s),
         IncrExpire(s), Admitted(s), passed'[s] = [passed[s] EXCEPT ![0] = @ + 1]
  PROVE  Counted(s)'
<1>1. /\ passed[s] \in [Ages -> Nat] /\ 0 \in Ages /\ IsFiniteSet(Admissions(passed[s], Ages))
      /\ count[s] \in Nat /\ Limit[s] \in Nat \ {0} /\ MaxCount > Limit[s]
  BY WindowAssumption, LimitAssumption, MaxCountAssumption DEF TypeOK, Ages, Counted
<1>2. count'[s] = count[s] + 1 /\ count'[s] <= Limit[s]
  BY <1>1, Script, MaxCountAssumption DEF Admitted
<1>3. IsFiniteSet(Admissions(passed'[s], Ages))
  BY <1>1, OneMore
<1>4. ASSUME 0 \notin OldAges(s)'
      PROVE  Admissions(passed'[s], OldAges(s)') = Admissions(passed[s], OldAges(s)')
  <2>1. \A a \in OldAges(s)' : passed'[s][a] = passed[s][a]
    BY <1>1, <1>4 DEF OldAges
  <2> QED BY <2>1 DEF Admissions
<1>5. CASE ttl[s] > 0
  <2>1. ttl'[s] = ttl[s]
    BY <1>5, Script
  <2>2. CurrentAges(s)' = CurrentAges(s) /\ OldAges(s)' = OldAges(s)
    BY <2>1 DEF CurrentAges, OldAges
  <2>3. 0 \in CurrentAges(s) /\ CurrentAges(s) \in SUBSET Ages
    BY <1>1, <1>5, WindowAssumption DEF CurrentAges, TypeOK
  <2>4. /\ IsFiniteSet(Admissions(passed[s], CurrentAges(s)))
        /\ Cardinality(Admissions(passed[s], CurrentAges(s))) \in Nat
    BY <1>1, <2>3, Sizes
  <2>5. Cardinality(Admissions(passed'[s], CurrentAges(s)))
          = Cardinality(Admissions(passed[s], CurrentAges(s))) + 1
    BY <1>1, <2>3, <2>4, OneMore
  <2>6. /\ Cardinality(Admissions(passed'[s], CurrentAges(s)')) <= count'[s]
        /\ Cardinality(Admissions(passed'[s], CurrentAges(s)')) <= Limit[s]
    BY <1>1, <1>2, <2>2, <2>4, <2>5 DEF Counted
  <2>7. Cardinality(Admissions(passed'[s], OldAges(s)')) <= Limit[s]
    BY <1>4, <2>2, <2>3 DEF Counted, OldAges
  <2> QED BY <1>3, <1>5, <2>1, <2>6, <2>7 DEF Counted
<1>6. CASE ttl[s] = 0
  <2>1. ttl'[s] = Window /\ ttl'[s] # 0
    BY <1>6, Script, WindowAssumption
  <2>2. OldAges(s) = Ages /\ CurrentAges(s)' = {0} /\ OldAges(s)' = Ages \ {0}
    BY <1>6, <2>1, WindowAssumption DEF CurrentAges, OldAges, Ages
  <2>3. Admissions(passed[s], {0}) = {}
    BY <1>6, Nothing DEF Counted
  <2>4. Cardinality(Admissions(passed'[s], {0})) = 1
    <3>1. IsFiniteSet(Admissions(passed[s], {0})) /\ Cardinality(Admissions(passed[s], {0})) = 0
      BY <2>3, FS_EmptySet
    <3> QED BY <1>1, <3>1, OneMore
  <2>5. /\ Cardinality(Admissions(passed'[s], CurrentAges(s)')) <= count'[s]
        /\ Cardinality(Admissions(passed'[s], CurrentAges(s)')) <= Limit[s]
    BY <1>1, <1>2, <2>2, <2>4
  <2>6. Cardinality(Admissions(passed'[s], OldAges(s)')) <= Limit[s]
    <3>1. /\ Cardinality(Admissions(passed[s], OldAges(s)'))
                <= Cardinality(Admissions(passed[s], Ages))
          /\ Cardinality(Admissions(passed[s], OldAges(s)')) \in Nat
      BY <1>1, <2>2, Fewer
    <3>2. Cardinality(Admissions(passed[s], Ages)) \in Nat
      BY <1>1, Sizes
    <3>3. Admissions(passed'[s], OldAges(s)') = Admissions(passed[s], OldAges(s)')
      BY <1>4, <2>2
    <3> QED BY <1>1, <2>2, <3>1, <3>2, <3>3 DEF Counted
  <2> QED BY <1>3, <2>1, <2>5, <2>6 DEF Counted
<1> QED BY <1>5, <1>6 DEF TypeOK

\* Time passes: the window goes on, or it ends and becomes the one before.
LEMMA TickStep ==
  ASSUME TypeOK, NEW s \in AllScopes, Counted(s), Tick
  PROVE  Counted(s)'
<1>1. /\ passed[s] \in [Ages -> Nat] /\ IsFiniteSet(Admissions(passed[s], Ages))
      /\ ttl[s] \in 0 .. Window /\ Window \in Nat \ {0} /\ 0 \in Ages /\ Limit[s] \in Nat \ {0}
      /\ count[s] \in Nat
  BY WindowAssumption, LimitAssumption, MaxCountAssumption DEF TypeOK, Ages, Counted
<1>2. /\ ttl'[s] = IF ttl[s] > 0 THEN ttl[s] - 1 ELSE 0
      /\ count'[s] = IF ttl[s] = 1 THEN 0 ELSE count[s]
      /\ passed'[s] = [a \in Ages |-> IF a = 0 THEN 0 ELSE passed[s][a - 1]]
  BY DEF Tick
<1>3. /\ passed'[s][0] = 0
      /\ \A b \in Ages : b # 0 => b - 1 \in Ages /\ passed'[s][b] = passed[s][b - 1]
  BY <1>1, <1>2 DEF Ages
\* Ages that were b - 1 before the tick hold no more than they did.
<1>4. ASSUME NEW A \in SUBSET Ages, NEW B \in SUBSET Ages, \A b \in B : b # 0 => b - 1 \in A
      PROVE  /\ IsFiniteSet(Admissions(passed'[s], B))
             /\ Cardinality(Admissions(passed'[s], B)) \in Nat
             /\ Cardinality(Admissions(passed[s], A)) \in Nat
             /\ Cardinality(Admissions(passed'[s], B)) <= Cardinality(Admissions(passed[s], A))
  <2>1. IsFiniteSet(Admissions(passed[s], A)) /\ Cardinality(Admissions(passed[s], A)) \in Nat
    BY <1>1, Sizes
  <2>2. \A b \in B : passed'[s][b] = 0 \/ (b - 1 \in A /\ passed'[s][b] = passed[s][b - 1])
    BY <1>3, <1>4
  <2>3. B \in SUBSET Nat
    BY <1>1 DEF Ages
  <2>4. /\ IsFiniteSet(Admissions(passed'[s], B))
        /\ Cardinality(Admissions(passed'[s], B)) <= Cardinality(Admissions(passed[s], A))
    BY <2>1, <2>2, <2>3, Aged
  <2> QED BY <2>1, <2>4, FS_CardinalityType
<1>5. IsFiniteSet(Admissions(passed'[s], Ages))
  BY <1>3, <1>4
<1>6. CASE ttl[s] > 1
  <2>1. /\ CurrentAges(s)' \in SUBSET Ages /\ CurrentAges(s) \in SUBSET Ages
        /\ \A b \in CurrentAges(s)' : b # 0 => b - 1 \in CurrentAges(s)
    BY <1>1, <1>2, <1>6 DEF CurrentAges, Ages
  <2>2. /\ OldAges(s)' \in SUBSET Ages /\ OldAges(s) \in SUBSET Ages
        /\ \A b \in OldAges(s)' : b # 0 => b - 1 \in OldAges(s)
    <3>1. \A b \in Ages : b \in OldAges(s) <=> b > Window - ttl[s]
      BY <1>1, <1>6 DEF CurrentAges, OldAges, Ages
    <3>2. \A b \in OldAges(s)' : b > Window - (ttl[s] - 1)
      BY <1>1, <1>2, <1>6 DEF CurrentAges, OldAges, Ages
    <3>3. \A b \in OldAges(s)' : b \in Ages
      BY DEF OldAges
    <3>4. ASSUME NEW b \in OldAges(s)', b # 0
          PROVE  b - 1 \in OldAges(s)
      <4>1. b \in Nat /\ b - 1 \in Ages
        BY <1>1, <3>3, <3>4 DEF Ages
      <4> QED BY <1>1, <3>1, <3>2, <4>1
    <3> QED BY <3>4 DEF OldAges
  <2>3. /\ Cardinality(Admissions(passed'[s], CurrentAges(s)')) <= count[s]
        /\ Cardinality(Admissions(passed'[s], CurrentAges(s)')) <= Limit[s]
    BY <1>1, <1>4, <2>1 DEF Counted
  <2>4. Cardinality(Admissions(passed'[s], OldAges(s)')) <= Limit[s]
    BY <1>1, <1>4, <2>2 DEF Counted
  <2>5. count'[s] = count[s]
    BY <1>2, <1>6
  <2> QED BY <1>3, <1>5, <2>3, <2>4, <2>5 DEF Counted
<1>7. CASE ttl[s] \in {0, 1}
  <2>1. ttl'[s] = 0 /\ count'[s] \in Nat
    BY <1>1, <1>2, <1>7
  <2>2. CurrentAges(s)' = {} /\ OldAges(s)' = Ages
    BY <2>1 DEF CurrentAges, OldAges
  <2>3. Admissions(passed'[s], CurrentAges(s)') = {}
    BY <2>2, Nothing
  <2>4. OldAges(s) = Ages \/ CurrentAges(s) = Ages
    BY <1>1, <1>7 DEF CurrentAges, OldAges, Ages
  <2>5. Cardinality(Admissions(passed[s], Ages)) <= Limit[s]
    BY <2>4 DEF Counted
  <2>6. Cardinality(Admissions(passed'[s], OldAges(s)')) <= Limit[s]
    BY <1>1, <1>3, <1>4, <2>2, <2>5
  <2>7. Cardinality(Admissions(passed'[s], CurrentAges(s)')) = 0
    BY <2>3, FS_EmptySet
  <2> QED BY <1>1, <1>3, <1>5, <2>1, <2>6, <2>7 DEF Counted
<1> QED BY <1>1, <1>6, <1>7

LEMMA InvariantInit == Init => IInv
<1> SUFFICES ASSUME Init, NEW s \in AllScopes PROVE Counted(s)
  BY TypeInit DEF IInv
<1>1. \A a \in Ages : passed[s][a] = 0
  BY DEF Init
<1>2. \A A \in SUBSET Ages : Admissions(passed[s], A) = {}
  BY <1>1, Nothing
<1>3. /\ CurrentAges(s) \in SUBSET Ages /\ OldAges(s) \in SUBSET Ages
      /\ count[s] = 0 /\ 0 \in Ages /\ Limit[s] \in Nat
  BY WindowAssumption, LimitAssumption DEF CurrentAges, OldAges, Ages, Init
<1>4. IsFiniteSet(Admissions(passed[s], Ages))
  BY <1>2, FS_EmptySet
<1>5. /\ Cardinality(Admissions(passed[s], CurrentAges(s))) = 0
      /\ Cardinality(Admissions(passed[s], OldAges(s))) = 0
  BY <1>2, <1>3, FS_EmptySet
<1> QED BY <1>1, <1>3, <1>4, <1>5 DEF Counted

LEMMA InvariantStep == IInv /\ [Next]_vars => IInv'
<1> SUFFICES ASSUME IInv, [Next]_vars, NEW s \in AllScopes PROVE Counted(s)'
  BY TypeStep DEF IInv
<1>1. TypeOK /\ Counted(s)
  BY DEF IInv
<1>2. ASSUME count'[s] = count[s], ttl'[s] = ttl[s], passed'[s] = passed[s]
      PROVE  Counted(s)'
  BY <1>1, <1>2 DEF Counted, CurrentAges, OldAges
<1>3. ASSUME NEW r \in Requests, Pass(r)
      PROVE  Counted(s)'
  <2> DEFINE z == req[r].next
  <2>1. z \in AllScopes /\ req[r].route \in Scopes
    BY <1>1, <1>3 DEF Pass, TypeOK
  <2>2. CASE IncrExpire(z) /\ Admitted(z) /\ Admit(r, z)
    <3>1. CASE z = s
      BY <1>1, <2>1, <2>2, <3>1, LetThrough, AdmittedStep
    <3>2. CASE z # s
      BY <1>1, <1>2, <2>1, <2>2, <3>2, LetThrough, Script
    <3> QED BY <3>1, <3>2
  <2>3. CASE IncrExpire(z) /\ UNCHANGED passed
    <3>1. CASE z = s
      BY <1>1, <2>1, <2>3, <3>1, RefusedStep
    <3>2. CASE z # s
      BY <1>1, <1>2, <2>1, <2>3, <3>2, Script
    <3> QED BY <3>1, <3>2
  <2>4. CASE UNCHANGED <<count, ttl, passed>>
    BY <1>2, <2>4
  <2> QED BY <1>3, <2>2, <2>3, <2>4 DEF Pass
<1>4. CASE (\E r \in Requests, z \in Scopes : Arrive(r, z)) \/ UNCHANGED vars
  BY <1>2, <1>4 DEF Arrive, vars
<1>5. CASE Tick
  BY <1>1, <1>5, TickStep
<1> QED BY <1>3, <1>4, <1>5 DEF Next

(* The window that is open has admitted at most the limit, for any number   *)
(* of requests in flight: the counter is read in the script that increments *)
(* it (stores.go:147-154).                                                  *)
THEOREM WindowIsBounded == Spec => []WindowBounded
<1>1. IInv => WindowBounded
  BY DEF IInv, Counted, WindowBounded
<1> QED BY <1>1, InvariantInit, InvariantStep, PTL DEF Spec

(* No span of one window's length admits more than twice the limit: it      *)
(* meets at most two windows, the open one and the one before, whatever     *)
(* fails and whenever requests come (stores.go:148-154).                    *)
THEOREM BurstIsBounded == Spec => []BurstBounded
<1>1. ASSUME IInv, NEW s \in AllScopes
      PROVE  Cardinality(Admissions(passed[s], Ages)) <= 2 * Limit[s]
  <2>1. CurrentAges(s) \in SUBSET Ages /\ OldAges(s) \in SUBSET Ages /\ Counted(s)
    BY <1>1 DEF IInv, CurrentAges, OldAges
  <2>2. /\ Cardinality(Admissions(passed[s], CurrentAges(s))) \in Nat
        /\ Cardinality(Admissions(passed[s], OldAges(s))) \in Nat
        /\ Cardinality(Admissions(passed[s], Ages)) \in Nat
    BY <2>1, Sizes DEF Counted
  <2>3. Cardinality(Admissions(passed[s], Ages))
          <= Cardinality(Admissions(passed[s], CurrentAges(s)))
               + Cardinality(Admissions(passed[s], OldAges(s)))
    BY <2>1, Together DEF OldAges, Counted
  <2> QED BY <2>1, <2>2, <2>3, LimitAssumption DEF Counted
<1>2. IInv => BurstBounded
  BY <1>1 DEF BurstBounded
<1> QED BY <1>2, InvariantInit, InvariantStep, PTL DEF Spec
===============================================================================
