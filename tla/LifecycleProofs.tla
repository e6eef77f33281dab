--------------------------- MODULE LifecycleProofs ---------------------------
(***************************************************************************)
(* Proofs about Lifecycle, for any set of requests.                        *)
(***************************************************************************)
EXTENDS Lifecycle, TLAPS

-----------------------------------------------------------------------------
\* The inductive invariant.

Draining == {"closeRedis", "closeTracing", "closePool", "waitPool"}
Drained == Draining \cup {"return"}
Running == {"notify", "entering", "select", "stop", "drain"}

\* The process has ended when the main goroutine has.
Ended ==
  /\ main = "gone" <=> exit # "running"
  /\ main = "gone" => InFlight = {}

\* Requests come from a server, which starts after the clients were opened.
Served ==
  /\ main \in Boot => server = "none"
  /\ server = "none" => main \in Boot \cup {"gone"} /\ InFlight = {}

\* How far New has come, or Shutdown.
Clients ==
  /\ main = "tracing" => tracing = "none" /\ pg = "none" /\ rdb = "none"
  /\ main = "resource" => tracing = "made" /\ pg = "none" /\ rdb = "none"
  /\ main = "postgres" => tracing = "open" /\ pg = "none" /\ rdb = "none"
  /\ main \in {"pingPostgres", "redis"} => tracing = "open" /\ pg = "open" /\ rdb = "none"
  /\ main \in {"pingRedis", "spawn"} \cup Running => tracing = "open" /\ pg = "open" /\ rdb = "open"
  /\ main \in Drained \ {"closeRedis"} => rdb = "closed"
  /\ main \in {"closePool", "waitPool", "return"} => tracing = "closed"
  /\ main = "return" => pg = "closed"

\* Nothing is lost before the clients are closed, nor after a drain that left nothing.
Losses ==
  /\ main \in Boot \cup Running => lost = {}
  /\ main \in {"drain"} \cup Drained => stopping
  /\ main \in Drained /\ ~err => InFlight = {} /\ lost = {}

IInv == TypeOK /\ Ended /\ Served /\ Clients /\ Losses /\ CleanExit /\ BootCleansUp

-----------------------------------------------------------------------------
LEMMA IInvInit == Init => IInv
BY DEF Init, IInv, TypeOK, Ended, Served, Clients, Losses, CleanExit, BootCleansUp, InFlight,
       Boot, Stop, Client, Draining, Drained, Running

\* The steps of New, up to the start of the server.
LEMMA IInvBoot ==
  ASSUME IInv,
         \/ OpenTracing \/ MergeResource \/ OpenPostgres \/ PingPostgres \/ OpenRedis
         \/ PingRedis \/ Spawn
  PROVE  IInv'
<1> USE DEF IInv, TypeOK, Ended, Served, Clients, Losses, CleanExit, BootCleansUp, InFlight,
            Boot, Stop, Client, Draining, Drained, Running, Goto, Exit, clients, serving
<1>1. CASE OpenTracing
  BY <1>1 DEF OpenTracing
<1>2. CASE MergeResource
  BY <1>2 DEF MergeResource
<1>3. CASE OpenPostgres
  BY <1>3 DEF OpenPostgres
<1>4. CASE PingPostgres
  BY <1>4 DEF PingPostgres
<1>5. CASE OpenRedis
  BY <1>5 DEF OpenRedis
<1>6. CASE PingRedis
  BY <1>6 DEF PingRedis
<1>7. CASE Spawn
  BY <1>7 DEF Spawn
<1> QED BY <1>1, <1>2, <1>3, <1>4, <1>5, <1>6, <1>7

\* The main goroutine from signal.Notify to the exit.
LEMMA IInvRun ==
  ASSUME IInv,
         \/ Notify \/ EnterSelect \/ ServerFailed \/ Quit \/ StopAccepting \/ Drain
         \/ CloseRedis \/ CloseTracing \/ ClosePool \/ WaitPool \/ Return
  PROVE  IInv'
<1> USE DEF IInv, TypeOK, Ended, Served, Clients, Losses, CleanExit, BootCleansUp, InFlight,
            Boot, Stop, Client, Draining, Drained, Running, Goto, Exit, clients, serving
<1>1. CASE Notify \/ EnterSelect
  BY <1>1 DEF Notify, EnterSelect
<1>2. CASE ServerFailed
  BY <1>2 DEF ServerFailed
<1>3. CASE Quit \/ StopAccepting
  BY <1>3 DEF Quit, StopAccepting
<1>4. CASE Drain
  BY <1>4 DEF Drain
<1>5. CASE CloseRedis
  BY <1>5 DEF CloseRedis
<1>6. CASE CloseTracing
  BY <1>6 DEF CloseTracing
<1>7. CASE ClosePool
  BY <1>7 DEF ClosePool
<1>8. CASE WaitPool
  BY <1>8 DEF WaitPool
<1>9. CASE Return
  BY <1>9 DEF Return
<1> QED BY <1>1, <1>2, <1>3, <1>4, <1>5, <1>6, <1>7, <1>8, <1>9

\* Signals, the server and the requests.
LEMMA IInvOthers ==
  ASSUME IInv, Signal \/ Listen \/ Unlisten \/ \E r \in Requests : Accept(r) \/ Step(r)
  PROVE  IInv'
<1> USE DEF IInv, TypeOK, Ended, Served, Clients, Losses, CleanExit, BootCleansUp, InFlight,
            Boot, Stop, Client, Draining, Drained, Running, Goto, Exit, clients, serving
<1>1. CASE Signal
  BY <1>1 DEF Signal
<1>2. CASE Listen
  BY <1>2 DEF Listen
<1>3. CASE Unlisten
  BY <1>3 DEF Unlisten
<1>4. ASSUME NEW r \in Requests, Accept(r)
      PROVE  IInv'
  BY <1>4 DEF Accept
<1>5. ASSUME NEW r \in Requests, Step(r)
      PROVE  IInv'
  BY <1>5 DEF Step, Acquire, Release, CallRedis, Answer
<1> QED BY <1>1, <1>2, <1>3, <1>4, <1>5

LEMMA IInvStep == IInv /\ [Next]_vars => IInv'
<1> SUFFICES ASSUME IInv, [Next]_vars
             PROVE  IInv'
  OBVIOUS
<1>1. CASE Next
  BY <1>1, IInvBoot, IInvRun, IInvOthers DEF Next, Main
<1>2. CASE UNCHANGED vars
  BY <1>2 DEF vars, clients, IInv, TypeOK, Ended, Served, Clients, Losses, CleanExit,
              BootCleansUp, InFlight
<1> QED BY <1>1, <1>2

(* No call is on a connection of a pool that has been closed (app.go:115).  *)
THEOREM TypeCorrect == Spec => []TypeOK
<1>1. IInv => TypeOK
  BY DEF IInv
<1> QED BY <1>1, IInvInit, IInvStep, PTL DEF Spec

(* A start that fails closes every client that New was handed, and leaves   *)
(* at most a tracing exporter that never was (app.go:32-52).                *)
THEOREM FailedBootCleansUp == Spec => []BootCleansUp
<1>1. IInv => BootCleansUp
  BY DEF IInv
<1> QED BY <1>1, IInvInit, IInvStep, PTL DEF Spec

(* A request loses a client, or is cut off, only if the exit status says so *)
(* (app.go:107, main.go:61).                                                *)
THEOREM ExitIsClean == Spec => []CleanExit
<1>1. IInv => CleanExit
  BY DEF IInv
<1> QED BY <1>1, IInvInit, IInvStep, PTL DEF Spec
=============================================================================
