--------------------------- MODULE MCAccessTokens ---------------------------
EXTENDS AccessTokens, TLC

\* Tokens and workers are interchangeable.
Symmetry == Permutations(Tokens) \cup Permutations(Requests)
=============================================================================
