---------------------------- MODULE LoginLockout ----------------------------
(***************************************************************************)
(* The lockout of AuthService.Login: a counter of failures and a lock per  *)
(* address, both Redis keys with the same time to live, read and written   *)
(* by logins that run at the same time.                                    *)
(*                                                                         *)
(* A time to live is a number of ticks; 0 is a key that does not exist.    *)
(* Between Redis calls a login compares the password, which bcrypt makes   *)
(* slow.  What a successful login does next is in TokenLifecycle.          *)
(***************************************************************************)
EXTENDS Naturals, FiniteSets

CONSTANTS
  Emails,
  Requests,       \* workers of the HTTP server
  MaxAttempts,    \* security.login_max_attempts
  Duration,       \* security.login_lockout_duration, in ticks: whole seconds
  Faulty,         \* TRUE: Redis and Postgres calls may fail, the process may die
  MaxCount,       \* bound on the counter and the tries, reached only with faults
  NoEmail

ASSUME MaxAttemptsAssumption == MaxAttempts \in Nat \ {0}
ASSUME DurationAssumption == Duration \in Nat \ {0}
ASSUME FaultyAssumption == Faulty \in BOOLEAN
ASSUME NoEmailAssumption == NoEmail \notin Emails
ASSUME RequestsAssumption == IsFiniteSet(Requests)
ASSUME MaxCountAssumption == MaxCount \in Nat /\ MaxCount >= MaxAttempts + Cardinality(Requests)

VARIABLES
  count,      \* login_fail:<email>, 0 if absent
  failTTL,    \* its time to live
  lockTTL,    \* time to live of lockout:<email>
  \* history, forgotten with the counter
  tries,      \* wrong passwords answered
  dropped,    \* tries let past the limit: failures not counted, answers and locks
              \* lost at the limit, locks deleted before the counter
  req

vars == <<count, failTTL, lockTTL, tries, dropped, req>>

Labels == {"idle", "compare", "incr", "lock", "clear", "clearCount"}
Idle == [pc |-> "idle", email |-> NoEmail]

Init ==
  /\ count = [e \in Emails |-> 0]
  /\ failTTL = [e \in Emails |-> 0]
  /\ lockTTL = [e \in Emails |-> 0]
  /\ tries = [e \in Emails |-> 0]
  /\ dropped = [e \in Emails |-> 0]
  /\ req = [r \in Requests |-> Idle]

At(r, label) == req[r].pc = label
Goto(r, label) == req' = [req EXCEPT ![r].pc = label]
Finish(r) == req' = [req EXCEPT ![r] = Idle]

\* The requests R lose the failure or the lock that each of them should count or set.
Drop(R) ==
  dropped' = [e \in Emails |-> dropped[e] + Cardinality({r \in R : req[r].email = e})]

(* IsLocked's answer; the mutant looks at the lock only after the password. *)
UnlockedAlways(e) == TRUE
Unlocked(e) == lockTTL[e] = 0

\* Login: IsLocked.  A locked address, or an error, ends the login here.
Login(r, e) ==
  /\ At(r, "idle")
  /\ Unlocked(e)
  /\ req' = [req EXCEPT ![r] = [pc |-> "compare", email |-> e]]
  /\ UNCHANGED <<count, failTTL, lockTTL, tries, dropped>>

(* Login: GetByEmail and password.Compare.  An unknown address, an inactive *)
(* user and a wrong password all fail the login; an error of the database   *)
(* ends it.                                                                 *)
Compare(r) ==
  /\ At(r, "compare")
  /\ Goto(r, "incr") \/ Goto(r, "clear") \/ (Faulty /\ Finish(r))
  /\ UNCHANGED <<count, failTTL, lockTTL, tries, dropped>>

(* What failTTL becomes in runIncrExpire, whose EXPIRE follows only the     *)
(* first INCR; the mutant has no EXPIRE.                                    *)
NotExpiring(e) == failTTL[e]
Expiring(e) == IF count[e] = 0 THEN Duration ELSE failTTL[e]

\* "count >= max"; the mutant has ">".
OverLimit(n) == n > MaxAttempts
AtLimit(n) == n >= MaxAttempts

\* The script runIncrExpire (the guard is the bound on the counter).
Incr(e) ==
  /\ count[e] < MaxCount
  /\ count' = [count EXCEPT ![e] = @ + 1]
  /\ failTTL' = [failTTL EXCEPT ![e] = Expiring(e)]

(* RecordFailure: the script.  failLogin drops its error, before the script *)
(* ran or after, and answers a wrong password in any case.                  *)
RecordFailure(r) ==
  LET e == req[r].email
      n == count[e] + 1
  IN
  /\ At(r, "incr") /\ tries[e] < MaxCount
  /\ \/ /\ Incr(e)
        /\ \/ AtLimit(n) /\ Goto(r, "lock") /\ UNCHANGED dropped
           \/ ~AtLimit(n) /\ Finish(r) /\ UNCHANGED dropped
           \/ Faulty /\ AtLimit(n) /\ Finish(r) /\ Drop({r})
     \/ Faulty /\ UNCHANGED <<count, failTTL>> /\ Finish(r) /\ Drop({r})
  /\ tries' = [tries EXCEPT ![e] = @ + 1]
  /\ UNCHANGED lockTTL

\* RecordFailure: SET of the lock, a call of its own.
SetLock(r) ==
  /\ At(r, "lock")
  /\ \/ lockTTL' = [lockTTL EXCEPT ![req[r].email] = Duration] /\ UNCHANGED dropped
     \/ Faulty /\ UNCHANGED lockTTL /\ Drop({r})
  /\ Finish(r)
  /\ UNCHANGED <<count, failTTL, tries>>

(* Login: Clear sends DEL of the lock and DEL of the counter in one         *)
(* pipeline, which is no transaction.  As long as the counter stays, every  *)
(* worker may fail once before one of them sets the lock again.             *)
ClearLock(r) ==
  LET e == req[r].email IN
  /\ At(r, "clear")
  /\ \/ /\ dropped[e] < MaxCount
        /\ lockTTL' = [lockTTL EXCEPT ![e] = 0]
        /\ dropped' = [dropped EXCEPT ![e] = @ + Cardinality(Requests)]
        /\ Goto(r, "clearCount")
     \/ Faulty /\ UNCHANGED <<lockTTL, dropped>> /\ Finish(r)
  /\ UNCHANGED <<count, failTTL, tries>>

\* DEL of the counter, with which the history of its window ends.
Forget(e) ==
  /\ count' = [count EXCEPT ![e] = 0]
  /\ failTTL' = [failTTL EXCEPT ![e] = 0]
  /\ tries' = [tries EXCEPT ![e] = 0]
  /\ dropped' = [dropped EXCEPT ![e] = 0]

ClearCount(r) ==
  /\ At(r, "clearCount")
  /\ Forget(req[r].email) \/ (Faulty /\ UNCHANGED <<count, failTTL, tries, dropped>>)
  /\ Finish(r)
  /\ UNCHANGED lockTTL

(* go-redis sends a command or a pipeline whose answer is lost again        *)
(* (redis.go:27 leaves MaxRetries at its default), though Redis may have    *)
(* applied it: one failure counts twice, a lock is set again after it was   *)
(* cleared, and a Clear that reached its second command starts anew.        *)
Resend(r) ==
  LET e == req[r].email IN
  /\ Faulty
  /\ \/ /\ At(r, "incr") /\ Incr(e)
        /\ IF AtLimit(count[e] + 1) THEN dropped[e] < MaxCount /\ Drop({r})
                                     ELSE UNCHANGED dropped
        /\ UNCHANGED <<lockTTL, tries, req>>
     \/ /\ At(r, "lock") /\ lockTTL' = [lockTTL EXCEPT ![e] = Duration]
        /\ UNCHANGED <<count, failTTL, tries, dropped, req>>
     \/ /\ At(r, "clearCount") /\ Goto(r, "clear")
        /\ Forget(e) \/ UNCHANGED <<count, failTTL, tries, dropped>>
        /\ UNCHANGED lockTTL

\* A tick passes: Redis drops the keys whose time is up.
Tick ==
  /\ \E e \in Emails : failTTL[e] > 0 \/ lockTTL[e] > 0
  /\ failTTL' = [e \in Emails |-> IF failTTL[e] > 0 THEN failTTL[e] - 1 ELSE 0]
  /\ lockTTL' = [e \in Emails |-> IF lockTTL[e] > 0 THEN lockTTL[e] - 1 ELSE 0]
  /\ count' = [e \in Emails |-> IF failTTL[e] = 1 THEN 0 ELSE count[e]]
  /\ tries' = [e \in Emails |-> IF failTTL[e] = 1 THEN 0 ELSE tries[e]]
  /\ dropped' = [e \in Emails |-> IF failTTL[e] = 1 THEN 0 ELSE dropped[e]]
  /\ UNCHANGED req

Crash ==
  /\ Faulty
  /\ \E r \in Requests : ~At(r, "idle")
  /\ Drop({r \in Requests : At(r, "lock")})
  /\ req' = [r \in Requests |-> Idle]
  /\ UNCHANGED <<count, failTTL, lockTTL, tries>>

Step(r) == Compare(r) \/ RecordFailure(r) \/ SetLock(r) \/ ClearLock(r) \/ ClearCount(r)

Next ==
  \/ \E r \in Requests, e \in Emails : Login(r, e)
  \/ \E r \in Requests : Step(r) \/ Resend(r)
  \/ Tick
  \/ Crash

Spec == Init /\ [][Next]_vars

\* Time passes, and a login that has been accepted is served to its end.
Fairness == WF_vars(Tick) /\ \A r \in Requests : WF_vars(Step(r))
FairSpec == Spec /\ Fairness

-----------------------------------------------------------------------------
(* Every variable has its type, and a counter exists exactly as long as its *)
(* time to live runs: runIncrExpire never leaves a counter without an       *)
(* expiry (stores.go:24-37).                                                *)
TypeOK ==
  /\ count \in [Emails -> 0 .. MaxCount]
  /\ failTTL \in [Emails -> 0 .. Duration]
  /\ lockTTL \in [Emails -> 0 .. Duration]
  /\ tries \in [Emails -> 0 .. MaxCount] /\ dropped \in [Emails -> Nat]
  /\ req \in [Requests -> [pc : Labels, email : Emails \cup {NoEmail}]]
  /\ \A r \in Requests : At(r, "idle") <=> req[r].email = NoEmail
  /\ \A e \in Emails : count[e] = 0 <=> failTTL[e] = 0

\* Logins that have passed IsLocked and may still count as a failure.
Attempting(e) == {r \in Requests : req[r].email = e /\ req[r].pc \in {"compare", "incr"}}

(* Passwords that one window of the counter lets clients try: those that    *)
(* were answered as wrong, counted or not, and those still being compared.  *)
(* IsLocked and RecordFailure are apart, so n simultaneous logins may pass  *)
(* the limit by n - 1; a failure that is not counted or a lock that is lost *)
(* lets one more through, a lock that a success deletes n more, but no more *)
(* than that.  A failure counted twice lets none through (auth.go:120-138,  *)
(* internal.go:52-56).                                                      *)
AttemptsBounded ==
  \A e \in Emails :
    tries[e] + Cardinality(Attempting(e)) < MaxAttempts + Cardinality(Requests) + dropped[e]

(* A lock, which the failures still in flight may renew, always comes to an *)
(* end, however often the locked user tries (auth.go:120-126).              *)
LockEnds == \A e \in Emails : lockTTL[e] > 0 ~> lockTTL[e] = 0

(* When a lock ends, the failures that caused it are forgotten: the counter *)
(* leaves a full window of attempts, unless a request is about to set the   *)
(* lock again or the lock was lost or deleted (stores.go:122-139).          *)
FreshAfterLock ==
  [][\A e \in Emails :
       lockTTL[e] > 0 /\ lockTTL'[e] = 0 =>
         \/ count'[e] < MaxAttempts
         \/ \E r \in Requests : At(r, "lock") /\ req[r].email = e
         \/ dropped'[e] > 0]_vars
=============================================================================
