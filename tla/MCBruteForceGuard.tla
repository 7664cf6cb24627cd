------------------------- MODULE MCBruteForceGuard -------------------------
EXTENDS BruteForceGuard, TLC

CONSTANTS name, mail, r1, r2, r3

\* A policy with the keys body.username and body.email.  One request gives both;
\* two guess at the same account by its mail alone, which is one key less to walk.
MCKeys == {name, mail}
MCReqs == {r1, r2, r3}
MCKeysOf == r1 :> <<name, mail>> @@ r2 :> <<mail>> @@ r3 :> <<mail>>

\* Of the shared key as many failures as three requests can add to a full count,
\* and one more; of the other enough to block it.
MCMaxFailures == name :> 2 @@ mail :> 5

\* The requests with one key may trade places.
Symmetry == Permutations({r2, r3})
=============================================================================
