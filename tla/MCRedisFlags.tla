---------------------------- MODULE MCRedisFlags ----------------------------
EXTENDS RedisFlags, TLC

CONSTANTS p1, p2, k1, k2

MCProcs == {p1, p2}
MCKeys == {k1, k2}
MCOneKey == {k1}
Symmetry == Permutations(MCProcs)
=============================================================================
