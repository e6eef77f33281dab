--------------------------- MODULE RefreshLedger ---------------------------
(***************************************************************************)
(* What the refresh_tokens table promises, however many requests write to  *)
(* it: a family is a tree of tokens that grows from the one its login was  *)
(* given, by successors of tokens that are spent, and a spent token stays  *)
(* spent.                                                                  *)
(***************************************************************************)
CONSTANTS Tokens, Families, NoFamily, NoToken

VARIABLES
  state,        \* "absent", "live" or "revoked"
  family,
  parent        \* the token that was exchanged for this one

vars == <<state, family, parent>>

Init ==
  /\ state = [t \in Tokens |-> "absent"]
  /\ family = [t \in Tokens |-> NoFamily]
  /\ parent = [t \in Tokens |-> NoToken]

Mint(t, f, p) ==
  /\ state[t] = "absent"
  /\ state' = [state EXCEPT ![t] = "live"]
  /\ family' = [family EXCEPT ![t] = f]
  /\ parent' = [parent EXCEPT ![t] = p]

\* A login: the first token of a family, and the only one without a parent.
Open(t, f) ==
  /\ \A s \in Tokens : state[s] # "absent" => family[s] # f
  /\ Mint(t, f, NoToken)

\* A refresh: the successor stays in the family of the token it replaces.
Succeed(t, p) == state[p] = "revoked" /\ Mint(t, family[p], p)

\* One statement may spend any number of tokens.
Revoke(S) ==
  /\ state' = [t \in Tokens |-> IF t \in S /\ state[t] = "live" THEN "revoked" ELSE state[t]]
  /\ UNCHANGED <<family, parent>>

Next ==
  \/ \E t \in Tokens, f \in Families : Open(t, f)
  \/ \E t, p \in Tokens : Succeed(t, p)
  \/ \E S \in SUBSET Tokens : Revoke(S)

Spec == Init /\ [][Next]_vars

Issued == {t \in Tokens : state[t] # "absent"}

(* Each family is a tree: a token has its parent in its own family, only    *)
(* one has none, and no set of tokens is closed under parents, so from any  *)
(* token the exchanges lead back to the login that opened its family.       *)
Lineage ==
  /\ \A t \in Issued :
       parent[t] # NoToken => parent[t] \in Issued /\ family[parent[t]] = family[t]
  /\ \A s, t \in Issued :
       parent[s] = NoToken /\ parent[t] = NoToken /\ family[s] = family[t] => s = t
  /\ \A S \in SUBSET Issued : S # {} => \E t \in S : parent[t] \notin S
=============================================================================
