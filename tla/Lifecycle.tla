------------------------------ MODULE Lifecycle ------------------------------
(***************************************************************************)
(* From start to exit: run of cmd/api/main.go and App.New, Run, Shutdown   *)
(* of internal/app, with the requests that are in flight meanwhile.        *)
(*                                                                         *)
(* A request makes the calls of a refresh: Postgres, Redis, Postgres.  It  *)
(* holds a connection of the pool during a call to Postgres.  Every call   *)
(* may fail, and ends under the deadline of the Timeout middleware.        *)
(***************************************************************************)
CONSTANTS
  Requests      \* requests in flight at the same time

VARIABLES
  main,         \* what the main goroutine does next
  server,       \* the goroutine that runs ListenAndServe
  stopping,     \* http.Server.inShutdown
  tracing, pg, rdb,   \* the clients
  quit,         \* a signal is in the channel
  err,          \* Shutdown has met an error
  exit,         \* how the process ended
  req,          \* the call each request makes next
  signalled,    \* a signal came after signal.Notify (history)
  lost          \* requests that found a client closed or were cut off (history)

clients == <<tracing, pg, rdb>>
serving == <<server, req, lost>>
vars == <<main, server, stopping, clients, quit, err, exit, req, signalled, lost>>

Boot == {"tracing", "resource", "postgres", "pingPostgres", "redis", "pingRedis", "spawn"}
Stop == {"stop", "drain", "closeRedis", "closeTracing", "closePool", "waitPool"}
Client == {"none", "made", "open", "closing", "closed"}   \* made: not handed to New yet

Init ==
  /\ main = "tracing"
  /\ server = "none"
  /\ stopping = FALSE
  /\ tracing = "none" /\ pg = "none" /\ rdb = "none"
  /\ quit = FALSE /\ signalled = FALSE
  /\ err = FALSE
  /\ exit = "running"
  /\ req = [r \in Requests |-> "idle"]
  /\ lost = {}

Goto(label) == main' = label /\ UNCHANGED exit
InFlight == {r \in Requests : req[r] # "idle"}

\* The process ends, and with it what it was doing.
Exit(how) ==
  /\ main' = "gone"
  /\ exit' = how
  /\ lost' = lost \cup InFlight
  /\ req' = [r \in Requests |-> "idle"]

-----------------------------------------------------------------------------
(* New: InitTracing makes the exporter, or hands New a shutdown that does   *)
(* nothing if tracing is disabled.                                          *)
OpenTracing ==
  /\ main = "tracing"
  /\ \/ Goto("resource") /\ tracing' = "made" /\ UNCHANGED <<req, lost>>
     \/ Goto("postgres") /\ tracing' = "open" /\ UNCHANGED <<req, lost>>
     \/ Exit("failed") /\ UNCHANGED tracing
  /\ UNCHANGED <<server, stopping, pg, rdb, quit, err, signalled>>

\* InitTracing: resource.Merge; if it fails nobody shuts the exporter down.
MergeResource ==
  /\ main = "resource"
  /\ \/ Goto("postgres") /\ tracing' = "open" /\ UNCHANGED <<req, lost>>
     \/ Exit("failed") /\ UNCHANGED tracing
  /\ UNCHANGED <<server, stopping, pg, rdb, quit, err, signalled>>

\* postgres.New: the pool, and the cleanup of New if there is none.
OpenPostgres ==
  /\ main = "postgres"
  /\ \/ Goto("pingPostgres") /\ pg' = "open" /\ UNCHANGED <<tracing, req, lost>>
     \/ Exit("failed") /\ tracing' = "closed" /\ UNCHANGED pg
  /\ UNCHANGED <<server, stopping, rdb, quit, err, signalled>>

\* Mutant: the pool is not closed when the ping fails.
PingPostgresLeaking ==
  /\ main = "pingPostgres"
  /\ \/ Goto("redis") /\ UNCHANGED <<tracing, pg, req, lost>>
     \/ Exit("failed") /\ tracing' = "closed" /\ UNCHANGED pg
  /\ UNCHANGED <<server, stopping, rdb, quit, err, signalled>>

\* postgres.New: dial.Ping; if it fails the pool is closed.
PingPostgres ==
  /\ main = "pingPostgres"
  /\ \/ Goto("redis") /\ UNCHANGED <<tracing, pg, req, lost>>
     \/ Exit("failed") /\ tracing' = "closed" /\ pg' = "closed"
  /\ UNCHANGED <<server, stopping, rdb, quit, err, signalled>>

\* redis.New: NewClient connects later.
OpenRedis ==
  /\ main = "redis"
  /\ Goto("pingRedis")
  /\ rdb' = "open"
  /\ UNCHANGED <<serving, stopping, tracing, pg, quit, err, signalled>>

\* redis.New: dial.Ping; if it fails redis.New closes the client, and New the others.
PingRedis ==
  /\ main = "pingRedis"
  /\ \/ Goto("spawn") /\ UNCHANGED <<clients, req, lost>>
     \/ Exit("failed") /\ tracing' = "closed" /\ pg' = "closed" /\ rdb' = "closed"
  /\ UNCHANGED <<server, stopping, quit, err, signalled>>

\* run: "go func() { errCh <- application.Run() }()".
Spawn ==
  /\ main = "spawn"
  /\ Goto("notify")
  /\ server' = "starting"
  /\ UNCHANGED <<stopping, clients, quit, err, req, signalled, lost>>

\* run: signal.Notify; until then a signal kills the process.
Notify ==
  /\ main = "notify"
  /\ Goto("entering")
  /\ UNCHANGED <<serving, stopping, clients, quit, err, signalled>>

\* run: the main goroutine goes to wait in the select.
EnterSelect ==
  /\ main = "entering"
  /\ Goto("select")
  /\ UNCHANGED <<serving, stopping, clients, quit, err, signalled>>

-----------------------------------------------------------------------------
(* run: the select.  A server that failed ends the process at once.  (Run   *)
(* returns nil only after Shutdown, so errCh holds no nil here.)            *)
ServerFailed ==
  /\ main = "select" /\ server = "failed"
  /\ Exit("failed")
  /\ UNCHANGED <<server, stopping, clients, quit, err, signalled>>

Quit ==
  /\ main = "select" /\ quit
  /\ Goto("stop")
  /\ quit' = FALSE
  /\ UNCHANGED <<serving, stopping, clients, err, signalled>>

\* Shutdown: http.Server.Shutdown stops the listener ...
StopAccepting ==
  /\ main = "stop"
  /\ Goto("drain")
  /\ stopping' = TRUE
  /\ UNCHANGED <<serving, clients, quit, err, signalled>>

\* Mutant: the error of http.Server.Shutdown is dropped.
DrainIgnoringError ==
  /\ main = "drain"
  /\ Goto("closeRedis")
  /\ UNCHANGED <<serving, stopping, clients, quit, err, signalled>>

\* ... and waits for the requests in flight, or for shutdown_timeout.
Drain ==
  /\ main = "drain"
  /\ Goto("closeRedis")
  /\ err' = (InFlight # {})
  /\ UNCHANGED <<serving, stopping, clients, quit, signalled>>

CloseRedis ==
  /\ main = "closeRedis"
  /\ Goto("closeTracing")
  /\ rdb' = "closed"
  /\ err' \in {err, TRUE}
  /\ UNCHANGED <<serving, stopping, tracing, pg, quit, signalled>>

CloseTracing ==
  /\ main = "closeTracing"
  /\ Goto("closePool")
  /\ tracing' = "closed"
  /\ err' \in {err, TRUE}
  /\ UNCHANGED <<serving, stopping, pg, rdb, quit, signalled>>

\* Shutdown: pgxpool.Close gives out no more connections ...
ClosePool ==
  /\ main = "closePool"
  /\ Goto("waitPool")
  /\ pg' = "closing"
  /\ UNCHANGED <<serving, stopping, tracing, rdb, quit, err, signalled>>

\* Mutant: the pool is closed under the calls that use it.
WaitPoolNot ==
  /\ main = "waitPool"
  /\ pg' = "closed" /\ main' = "return"
  /\ UNCHANGED <<serving, stopping, tracing, rdb, quit, err, exit, signalled>>

\* ... and returns when it has got back those it gave.
WaitPool ==
  /\ main = "waitPool"
  /\ \A r \in Requests : req[r] \notin {"revoking", "inserting"}
  /\ pg' = "closed" /\ Goto("return")
  /\ UNCHANGED <<serving, stopping, tracing, rdb, quit, err, signalled>>

\* run returns, and main exits with 1 if Shutdown returned an error.
Return ==
  /\ main = "return"
  /\ Exit(IF err THEN "failed" ELSE "ok")
  /\ UNCHANGED <<server, stopping, clients, quit, err, signalled>>

-----------------------------------------------------------------------------
\* Mutant: a channel without a buffer takes a signal only while it is waited for.
SignalUnbuffered ==
  /\ main # "gone"
  /\ main \notin Boot \cup {"notify"}
  /\ quit' = (main = "select")
  /\ signalled' = TRUE
  /\ UNCHANGED <<main, serving, stopping, clients, err, exit>>

\* SIGINT or SIGTERM: one signal fits the channel, a second is dropped.
Signal ==
  /\ main # "gone"
  /\ \/ /\ main \in Boot \cup {"notify"}
        /\ Exit("killed")
        /\ UNCHANGED <<quit, signalled>>
     \/ /\ main \notin Boot \cup {"notify"}
        /\ quit' = TRUE /\ signalled' = TRUE
        /\ UNCHANGED <<main, exit, req, lost>>
  /\ UNCHANGED <<server, stopping, clients, err>>

\* Run: ListenAndServe, which refuses to start a server that is stopping.
Listen ==
  /\ main # "gone" /\ server = "starting"
  /\ \/ stopping /\ server' = "closed"
     \/ ~stopping /\ server' \in {"serving", "failed"}
  /\ UNCHANGED <<main, stopping, clients, quit, err, exit, req, signalled, lost>>

\* Run: the listener fails, or is closed by Shutdown.
Unlisten ==
  /\ main # "gone" /\ server = "serving"
  /\ server' = IF stopping THEN "closed" ELSE "failed"
  /\ UNCHANGED <<main, stopping, clients, quit, err, exit, req, signalled, lost>>

Accept(r) ==
  /\ server = "serving" /\ ~stopping /\ main # "gone"
  /\ req[r] = "idle"
  /\ req' = [req EXCEPT ![r] = "revoke"]
  /\ UNCHANGED <<main, server, stopping, clients, quit, err, exit, signalled, lost>>

Answer(r) == req' = [req EXCEPT ![r] = "idle"]

\* The pool gives a connection for a call, or none once it is being closed.
Acquire(r, call, calling) ==
  /\ req[r] = call
  /\ \/ pg = "open" /\ req' = [req EXCEPT ![r] = calling] /\ UNCHANGED lost
     \/ pg # "open" /\ Answer(r) /\ lost' = lost \cup {r}

\* The call returns the connection, with an answer or an error.
Release(r, calling, next) ==
  /\ req[r] = calling
  /\ Answer(r) \/ req' = [req EXCEPT ![r] = next]
  /\ UNCHANGED lost

CallRedis(r) ==
  /\ req[r] = "save"
  /\ \/ rdb = "open" /\ req' = [req EXCEPT ![r] = "insert"] /\ UNCHANGED lost
     \/ rdb = "open" /\ Answer(r) /\ UNCHANGED lost
     \/ rdb # "open" /\ Answer(r) /\ lost' = lost \cup {r}

Step(r) ==
  /\ \/ Acquire(r, "revoke", "revoking") \/ Release(r, "revoking", "save")
     \/ CallRedis(r)
     \/ Acquire(r, "insert", "inserting") \/ Release(r, "inserting", "idle")
  /\ UNCHANGED <<main, server, stopping, clients, quit, err, exit, signalled>>

Main ==
  \/ OpenTracing \/ MergeResource \/ OpenPostgres \/ PingPostgres \/ OpenRedis
  \/ PingRedis \/ Spawn \/ Notify \/ EnterSelect \/ ServerFailed \/ Quit \/ StopAccepting \/ Drain
  \/ CloseRedis \/ CloseTracing \/ ClosePool \/ WaitPool \/ Return

Next ==
  \/ Main
  \/ Signal \/ Listen \/ Unlisten
  \/ \E r \in Requests : Accept(r) \/ Step(r)

Spec == Init /\ [][Next]_vars

(* Go runs every goroutine that can run; calls end under their deadlines.   *)
(* Nothing obliges anyone to send a signal or a request.                    *)
FairSpec == Spec /\ WF_vars(Main) /\ \A r \in Requests : WF_vars(Step(r))

-----------------------------------------------------------------------------
(* Every variable has its type, and no call is on a connection of a pool    *)
(* that has been closed: pgxpool.Close waits for them (app.go:115).         *)
TypeOK ==
  /\ main \in Boot \cup Stop \cup {"notify", "entering", "select", "return", "gone"}
  /\ server \in {"none", "starting", "serving", "failed", "closed"}
  /\ {tracing, pg, rdb} \subseteq Client
  /\ {stopping, quit, err, signalled} \subseteq BOOLEAN
  /\ exit \in {"running", "ok", "failed", "killed"}
  /\ req \in [Requests -> {"idle", "revoke", "revoking", "save", "insert", "inserting"}]
  /\ \A r \in Requests : req[r] \in {"revoking", "inserting"} => pg # "closed"
  /\ lost \subseteq Requests

(* "Shutdown stops accepting requests, then closes Redis, tracing, and      *)
(* Postgres": a request finds a client closed, or is cut off by the exit,   *)
(* only if the drain timed out, and the exit status then says so            *)
(* (app.go:107, main.go:61).                                                *)
CleanExit ==
  /\ exit = "ok" => lost = {} /\ {tracing, pg, rdb} = {"closed"}
  /\ lost # {} => err \/ exit \in {"failed", "killed"}

(* A start that fails closes every client that New was handed, at whichever *)
(* it failed (app.go:32-52).  What it can leave open is the exporter of a   *)
(* tracing set-up that failed after making it (tracing.go:40-42), and then  *)
(* no other client exists.                                                  *)
BootCleansUp ==
  exit = "failed" /\ server = "none" =>
    /\ "open" \notin {tracing, pg, rdb}
    /\ tracing = "made" => pg = "none" /\ rdb = "none"

(* A signal that came after signal.Notify ends the process, also if it came *)
(* before the select, while requests are stuck or during the shutdown       *)
(* (main.go:47-60).                                                         *)
SignalStops == signalled ~> main = "gone"
=============================================================================
