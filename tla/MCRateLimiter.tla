--------------------------- MODULE MCRateLimiter ---------------------------
EXTENDS RateLimiter

\* The global limit is above that of a route and below that of all routes together.
MCLimit == [s \in AllScopes |-> IF s = "global" THEN 3 ELSE 2]
=============================================================================
