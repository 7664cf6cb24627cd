--------------------------- MODULE MCRateLimiter ---------------------------
EXTENDS RateLimiter, TLC

CONSTANTS k1, r1, r2, r3

MCKeys == {k1}
MCReqs == {r1, r2, r3}
MCKeyOf == [r \in MCReqs |-> k1]

\* The requests of one address are interchangeable.
Symmetry == Permutations(MCReqs)
=============================================================================
