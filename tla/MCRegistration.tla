--------------------------- MODULE MCRegistration ---------------------------
EXTENDS Registration

\* Every key of the instance registers one of the addresses, so that two keys
\* (another header or another password) compete for it.
MCEmailOf == [k \in Keys |-> CHOOSE e \in Emails : TRUE]
=============================================================================
