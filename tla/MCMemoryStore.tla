--------------------------- MODULE MCMemoryStore ---------------------------
EXTENDS MemoryStore

CONSTANTS k1, MaxHits, MaxCount

MCKeys == {k1}

\* Bounds: the size of a log and of a count.
Bounded ==
    \A k \in Keys :
        /\ Cardinality(rateLimits[k].timestamps) <= MaxHits
        /\ suspicious[k].count <= MaxCount
        /\ counters[k].count <= MaxCount

MCNext == Next /\ Bounded'

MCSpec == Init /\ [][MCNext]_vars

MCFairSpec == MCSpec /\ FairSweep
=============================================================================
