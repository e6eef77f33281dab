---------------------------- MODULE RateLimiter ----------------------------
(***************************************************************************)
(* The fixed-window counters of RateLimiter.Allow, as the RateLimit        *)
(* middleware chains them: every route under /api/v1 counts against the    *)
(* "global" scope of the client, and then against the scope of the route.  *)
(* The mail quota of Register and ForgotPassword is one more such counter. *)
(*                                                                         *)
(* A counter belongs to a scope and a client, and the counters of two      *)
(* clients are independent: the module has one client, with Requests of    *)
(* its requests in flight.  The script of Allow runs in Redis in one step. *)
(***************************************************************************)
EXTENDS Naturals, FiniteSets

CONSTANTS
  Scopes,       \* the scopes of the routes, without "global"
  Limit,        \* requests a window admits, by scope
  Window,       \* length of a window in ticks
  Requests,     \* requests of the client served at the same time
  Faulty,       \* TRUE: calls to Redis may fail
  MaxCount,     \* bound on a counter, above every limit
  NoScope

AllScopes == Scopes \cup {"global"}

ASSUME ScopesAssumption == NoScope \notin AllScopes /\ "global" \notin Scopes
ASSUME LimitAssumption == Limit \in [AllScopes -> Nat \ {0}]
ASSUME WindowAssumption == Window \in Nat \ {0}
ASSUME FaultyAssumption == Faulty \in BOOLEAN
ASSUME MaxCountAssumption == MaxCount \in Nat /\ \A s \in AllScopes : MaxCount > Limit[s]

VARIABLES
  count,      \* ratelimit:<scope>:ip:<client>, 0 if absent
  ttl,        \* its time to live
  req,        \* the scope whose limiter a request has yet to pass, and its route
  passed      \* requests each scope admitted, by their age in ticks (history)

vars == <<count, ttl, req, passed>>

Idle == [next |-> NoScope, route |-> NoScope]
Ages == 0 .. Window - 1

Init ==
  /\ count = [s \in AllScopes |-> 0]
  /\ ttl = [s \in AllScopes |-> 0]
  /\ req = [r \in Requests |-> Idle]
  /\ passed = [s \in AllScopes |-> [a \in Ages |-> 0]]

Arrive(r, s) ==
  /\ req[r] = Idle
  /\ req' = [req EXCEPT ![r] = [next |-> "global", route |-> s]]
  /\ UNCHANGED <<count, ttl, passed>>

\* INCR; beyond every limit the counter's value makes no difference.
Incr(s) == count' = [count EXCEPT ![s] = IF @ < MaxCount THEN @ + 1 ELSE @]

(* What ttl becomes in runIncrExpire, whose EXPIRE follows the INCR that    *)
(* created the key; one mutant has it after every INCR, the other never.    *)
ExpiringAlways(s) == Window
NotExpiring(s) == ttl[s]
Expiring(s) == IF count[s] = 0 THEN Window ELSE ttl[s]

\* runIncrExpire.
IncrExpire(s) == Incr(s) /\ ttl' = [ttl EXCEPT ![s] = Expiring(s)]

\* Mutant: the counter before INCR is compared.
AdmittedBefore(s) == count[s] <= Limit[s]

\* Allow: the counter after INCR.
Admitted(s) == count'[s] <= Limit[s]

\* Past its limiter a request goes to the next one, and then to the handler.
Admit(r, s) ==
  /\ req' = [req EXCEPT ![r] = IF s = "global" THEN [@ EXCEPT !.next = req[r].route] ELSE Idle]
  /\ passed' = [passed EXCEPT ![s][0] = @ + 1]

(* One limiter of the chain.  An error, after or before the script ran,     *)
(* refuses the request like an exceeded limit.                              *)
Pass(r) ==
  LET s == req[r].next
      Refuse == req' = [req EXCEPT ![r] = Idle] /\ UNCHANGED passed
  IN
  /\ s # NoScope
  /\ \/ /\ IncrExpire(s)
        /\ \/ Admitted(s) /\ Admit(r, s)
           \/ (~Admitted(s) \/ Faulty) /\ Refuse
     \/ Faulty /\ Refuse /\ UNCHANGED <<count, ttl>>

\* Redis drops the counters whose window is over.
Tick ==
  /\ ttl' = [s \in AllScopes |-> IF ttl[s] > 0 THEN ttl[s] - 1 ELSE 0]
  /\ count' = [s \in AllScopes |-> IF ttl[s] = 1 THEN 0 ELSE count[s]]
  /\ passed' = [s \in AllScopes |-> [a \in Ages |-> IF a = 0 THEN 0 ELSE passed[s][a - 1]]]
  /\ UNCHANGED req

Next ==
  \/ \E r \in Requests, s \in Scopes : Arrive(r, s)
  \/ \E r \in Requests : Pass(r)
  \/ Tick

Spec == Init /\ [][Next]_vars

\* Time passes.
FairSpec == Spec /\ WF_vars(Tick)

-----------------------------------------------------------------------------
(* Every variable has its type, and a counter exists exactly as long as its *)
(* time to live runs: runIncrExpire never leaves a counter without an       *)
(* expiry (stores.go:24-37).                                                *)
TypeOK ==
  /\ count \in [AllScopes -> 0 .. MaxCount]
  /\ ttl \in [AllScopes -> 0 .. Window]
  /\ \A s \in AllScopes : count[s] = 0 <=> ttl[s] = 0
  /\ req \in [Requests -> [next : AllScopes \cup {NoScope}, route : Scopes \cup {NoScope}]]
  /\ \A r \in Requests : req[r].next = NoScope <=> req[r].route = NoScope
  /\ passed \in [AllScopes -> [Ages -> Nat]]

\* The requests that p counts at these ages, the k-th of age a as <<a, k>>.
Admissions(p, A) == UNION {{a} \X (1 .. p[a]) : a \in A}

\* The ages of what the window that is open has admitted.
CurrentAges(s) == {a \in Ages : ttl[s] > 0 /\ a <= Window - ttl[s]}

(* However requests interleave, no span of one window's length admits more  *)
(* than twice the limit: a fixed window lets a burst through on either side *)
(* of its boundary, and no more (stores.go:148-154, ratelimit.go:13).       *)
BurstBounded == \A s \in AllScopes : Cardinality(Admissions(passed[s], Ages)) <= 2 * Limit[s]

(* The window that is open has admitted at most the limit: no two requests  *)
(* see the same count, and none is let through uncounted (stores.go:147).   *)
WindowBounded ==
  \A s \in AllScopes : Cardinality(Admissions(passed[s], CurrentAges(s))) <= Limit[s]

(* A client that keeps calling while refused is admitted again: its calls   *)
(* do not extend the window (stores.go:25-29).                              *)
RefusalEnds == \A s \in AllScopes : count[s] >= Limit[s] ~> count[s] < Limit[s]
=============================================================================
