---------------------------- MODULE OneTimeToken ----------------------------
(***************************************************************************)
(* What OneTimeRepo and its two users promise of a token that is sent by   *)
(* mail (password reset, e-mail verification): it acts at most once, only  *)
(* after it was delivered, only on the account it was issued for, and      *)
(* never again once it is void.                                            *)
(***************************************************************************)
CONSTANTS
  Tokens, Owners, NoOwner,
  Initial,      \* values an account can start with
  Written       \* values the act can give it

VARIABLES
  stage,        \* "void", "sealed" (stored), "live" (delivered) or "claimed"
  owner,        \* the account a token was last issued for
  value         \* what the act changes: the password, the verified flag

vars == <<stage, owner, value>>
Stages == {"void", "sealed", "live", "claimed"}

Init ==
  /\ stage = [t \in Tokens |-> "void"]
  /\ owner = [t \in Tokens |-> NoOwner]
  /\ value \in [Owners -> Initial]

\* token.Random never returns a token that is still good.
Issue(t, u) ==
  /\ stage[t] = "void"
  /\ stage' = [stage EXCEPT ![t] = "sealed"]
  /\ owner' = [owner EXCEPT ![t] = u]
  /\ UNCHANGED value

Deliver(t) ==
  /\ stage[t] = "sealed"
  /\ stage' = [stage EXCEPT ![t] = "live"]
  /\ UNCHANGED <<owner, value>>

Claim(t) ==
  /\ stage[t] = "live"
  /\ stage' = [stage EXCEPT ![t] = "claimed"]
  /\ UNCHANGED <<owner, value>>

Act(t) ==
  /\ stage[t] = "claimed"
  /\ stage' = [stage EXCEPT ![t] = "void"]
  /\ \E v \in Written : value' = [value EXCEPT ![owner[t]] = v]
  /\ UNCHANGED owner

\* Expiry, a failed or unanswered call, the death of the requests that act.
Void(S) ==
  /\ stage' = [t \in Tokens |-> IF t \in S THEN "void" ELSE stage[t]]
  /\ UNCHANGED <<owner, value>>

Next ==
  \/ \E t \in Tokens :
       \/ \E u \in Owners : Issue(t, u)
       \/ Deliver(t) \/ Claim(t) \/ Act(t)
  \/ \E S \in SUBSET Tokens : Void(S)

Spec == Init /\ [][Next]_vars
=============================================================================
