---------------------------- MODULE ExpiringStore ----------------------------
(***************************************************************************)
(* What a store promises its callers about everything that carries a       *)
(* deadline: bans, strikes (suspicious requests), failure counters and     *)
(* blocks.  Expiry is eager here: an entry is gone at its deadline, with   *)
(* nobody having to look at it.  src/src/stores keeps no timer: the        *)
(* MemoryStore deletes an expired entry when a read or a sweep meets it,   *)
(* and implements this specification all the same.                         *)
(***************************************************************************)
EXTENDS Naturals

CONSTANTS Keys, BanTtl, SuspiciousTtl, CounterTtl, BlockTtl, MaxTime

VARIABLES now, banned, strikes, counts, blocked

vars == <<now, banned, strikes, counts, blocked>>

\* An entry that is not there: deadline 0 for a flag, count 0 for a counter.
None == [count |-> 0, resetAt |-> 0]

Init ==
    /\ now = 0
    /\ banned = [k \in Keys |-> 0]
    /\ strikes = [k \in Keys |-> None]
    /\ counts = [k \in Keys |-> None]
    /\ blocked = [k \in Keys |-> 0]

LiveFlag(deadline, t) == IF deadline > t THEN deadline ELSE 0
LiveCount(entry, t) == IF entry.resetAt > t THEN entry ELSE None

\* A count opens its window at its first increment and keeps that deadline.
Incremented(entry, ttl) ==
    IF entry = None THEN [count |-> 1, resetAt |-> now + ttl]
    ELSE [entry EXCEPT !.count = @ + 1]

-----------------------------------------------------------------------------
Tick ==
    /\ now < MaxTime
    /\ now' = now + 1
    /\ banned' = [k \in Keys |-> LiveFlag(banned[k], now')]
    /\ strikes' = [k \in Keys |-> LiveCount(strikes[k], now')]
    /\ counts' = [k \in Keys |-> LiveCount(counts[k], now')]
    /\ blocked' = [k \in Keys |-> LiveFlag(blocked[k], now')]

Ban(k) ==
    /\ banned' = [banned EXCEPT ![k] = now + BanTtl]
    /\ UNCHANGED <<now, strikes, counts, blocked>>

Unban(k) ==
    /\ banned' = [banned EXCEPT ![k] = 0]
    /\ strikes' = [strikes EXCEPT ![k] = None]
    /\ UNCHANGED <<now, counts, blocked>>

Strike(k) ==
    /\ strikes' = [strikes EXCEPT ![k] = Incremented(@, SuspiciousTtl)]
    /\ UNCHANGED <<now, banned, counts, blocked>>

\* The store may forget the strikes of keys, but never of a banned one.
Forgive(S) ==
    /\ \A k \in S : banned[k] = 0
    /\ strikes' = [k \in Keys |-> IF k \in S THEN None ELSE strikes[k]]
    /\ UNCHANGED <<now, banned, counts, blocked>>

Count(k) ==
    /\ counts' = [counts EXCEPT ![k] = Incremented(@, CounterTtl)]
    /\ UNCHANGED <<now, banned, strikes, blocked>>

ResetCount(k) ==
    /\ counts' = [counts EXCEPT ![k] = None]
    /\ UNCHANGED <<now, banned, strikes, blocked>>

Block(k) ==
    /\ blocked' = [blocked EXCEPT ![k] = now + BlockTtl]
    /\ UNCHANGED <<now, banned, strikes, counts>>

Unblock(k) ==
    /\ blocked' = [blocked EXCEPT ![k] = 0]
    /\ UNCHANGED <<now, banned, strikes, counts>>

Clear ==
    /\ banned' = [k \in Keys |-> 0]
    /\ strikes' = [k \in Keys |-> None]
    /\ counts' = [k \in Keys |-> None]
    /\ blocked' = [k \in Keys |-> 0]
    /\ UNCHANGED now

Next ==
    \/ Tick
    \/ Clear
    \/ \E S \in SUBSET Keys : Forgive(S)
    \/ \E k \in Keys :
          Ban(k) \/ Unban(k) \/ Strike(k) \/ Count(k) \/ ResetCount(k)
                 \/ Block(k) \/ Unblock(k)

Spec == Init /\ [][Next]_vars
=============================================================================
