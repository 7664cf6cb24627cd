----------------------------- MODULE MCMiddleware -----------------------------
EXTENDS Middleware, TLC

CONSTANTS r1, r2

MCReqs == {r1, r2}

\* A login policy with everything, one that opts out of the global limit, and
\* a path without a policy.
Login == [guard |-> TRUE, limit |-> TRUE, limiter |-> TRUE]
OptedOut == [guard |-> TRUE, limit |-> FALSE, limiter |-> FALSE]
Plain == [guard |-> FALSE, limit |-> FALSE, limiter |-> TRUE]
MCRoutes == {Login, OptedOut, Plain}
=============================================================================
