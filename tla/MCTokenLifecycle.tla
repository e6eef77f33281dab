-------------------------- MODULE MCTokenLifecycle --------------------------
EXTENDS TokenLifecycle, TLC

\* Ids, tokens, passwords and workers are interchangeable.
Symmetry == Permutations(Families) \cup Permutations(Tokens) \cup Permutations(Passwords)
              \cup Permutations(Requests)
=============================================================================
