----------------------------- MODULE MemoryStore -----------------------------
(***************************************************************************)
(* src/src/stores/memory-store.js: the in-process store behind the rate    *)
(* limiter and the brute-force guard.  Every method is synchronous, so one *)
(* method is one step.  Date.now() is the clock `now', which only grows.   *)
(*                                                                         *)
(* Five Maps.  A key that is not in a Map has the entry None, EmptyLog or  *)
(* deadline 0; an entry that is there has a deadline that is not 0, past   *)
(* or not: nothing removes an entry at its deadline, a later read or the   *)
(* sweep does.  metadata and createdAt are left out, no branch reads them. *)
(***************************************************************************)
EXTENDS Integers, FiniteSets

CONSTANTS
    Keys,            \* rate limit, ban and brute-force keys
    Window,          \* windowMs of the rate limit
    BanTtl,          \* banDurationMs
    SuspiciousTtl,   \* life of a strike count
    CounterTtl,      \* windowMs of the brute-force counters
    BlockTtl,        \* blockDurationMs
    MaxTime          \* bound: the clock stops there

ASSUME TtlAssumption ==
    /\ Window \in Nat \ {0}
    /\ BanTtl \in Nat \ {0}
    /\ SuspiciousTtl \in Nat \ {0}
    /\ CounterTtl \in Nat \ {0}
    /\ BlockTtl \in Nat \ {0}
    /\ MaxTime \in Nat

VARIABLES
    now,
    rateLimits,   \* [Keys -> log of request timestamps and its resetAt]
    bans,         \* [Keys -> expiresAt]
    suspicious,   \* [Keys -> strike count and its resetAt]
    counters,     \* [Keys -> failure count and its resetAt]
    blocks        \* [Keys -> blockExpiresAt]

storeVars == <<rateLimits, bans, suspicious, counters, blocks>>
vars == <<now, rateLimits, bans, suspicious, counters, blocks>>

None == [count |-> 0, resetAt |-> 0]
EmptyLog == [timestamps |-> {}, resetAt |-> 0]

\* A timestamp is a pair <<time, n>>: the n-th request logged in that instant.
\* The array of the code is the set of them in order.
Timestamps == Nat \X Nat
Logs == [timestamps : SUBSET Timestamps, resetAt : Nat]
Entries == [count : Nat, resetAt : Nat]

TypeOK ==
    /\ now \in Nat
    /\ rateLimits \in [Keys -> Logs]
    /\ bans \in [Keys -> Nat]
    /\ suspicious \in [Keys -> Entries]
    /\ counters \in [Keys -> Entries]
    /\ blocks \in [Keys -> Nat]

Init ==
    /\ now = 0
    /\ rateLimits = [k \in Keys |-> EmptyLog]
    /\ bans = [k \in Keys |-> 0]
    /\ suspicious = [k \in Keys |-> None]
    /\ counters = [k \in Keys |-> None]
    /\ blocks = [k \in Keys |-> 0]

-----------------------------------------------------------------------------
(* What the reads answer. *)

IsBanned(k) == bans[k] > now
IsBlocked(k) == blocks[k] > now
GetCounter(k) == IF counters[k].resetAt > now THEN counters[k].count ELSE 0

\* Mutant: the filter of the timestamps is forgotten.
TimestampsUnfiltered(k) == rateLimits[k].timestamps

\* The timestamps an increment keeps: those after now - windowMs.
LiveTimestamps(k) ==
    {ts \in rateLimits[k].timestamps : ts[1] > now - Window}

\* The new timestamp: one more in this instant.
Stamp(k) == <<now, Cardinality({ts \in LiveTimestamps(k) : ts[1] = now})>>

\* Mutant: the request that is counted is not part of the answer.
NextRateCountShort(k) == Cardinality(LiveTimestamps(k))

\* The count incrementRateLimit answers.
NextRateCount(k) == Cardinality(LiveTimestamps(k)) + 1

\* timestamps[0] of the array: the time of the oldest.
Oldest(S) == CHOOSE t \in {ts[1] : ts \in S} : \A ts \in S : t <= ts[1]

\* getRateLimit and cleanup call a log expired by the resetAt of its OLDEST
\* timestamp, whatever came after it.
LogExpired(k) == rateLimits[k].resetAt <= now

-----------------------------------------------------------------------------
(* The rate limit log. *)

IncrementRateLimit(k) ==
    LET kept == LiveTimestamps(k) \cup {Stamp(k)}
    IN  /\ rateLimits' = [rateLimits EXCEPT ![k] =
              [timestamps |-> kept, resetAt |-> Oldest(kept) + Window]]
        /\ UNCHANGED <<now, bans, suspicious, counters, blocks>>

GetRateLimit(k) ==
    /\ rateLimits' = [rateLimits EXCEPT ![k] = IF LogExpired(k) THEN EmptyLog ELSE @]
    /\ UNCHANGED <<now, bans, suspicious, counters, blocks>>

ResetRateLimit(k) ==
    /\ rateLimits' = [rateLimits EXCEPT ![k] = EmptyLog]
    /\ UNCHANGED <<now, bans, suspicious, counters, blocks>>

-----------------------------------------------------------------------------
(* Bans and strikes. *)

Ban(k) ==
    /\ bans' = [bans EXCEPT ![k] = now + BanTtl]
    /\ UNCHANGED <<now, rateLimits, suspicious, counters, blocks>>

\* The keys whose ban is there but over.
BanLapsed(k) == bans[k] # 0 /\ bans[k] <= now

\* isBanned of every key of S: a ban that is over goes, and takes the strikes
\* and the rate limit log of its key with it.
CheckBans(S) ==
    LET lapsed == {k \in S : BanLapsed(k)}
    IN  /\ bans' = [k \in Keys |-> IF k \in lapsed THEN 0 ELSE bans[k]]
        /\ suspicious' = [k \in Keys |-> IF k \in lapsed THEN None ELSE suspicious[k]]
        /\ rateLimits' = [k \in Keys |-> IF k \in lapsed THEN EmptyLog ELSE rateLimits[k]]
        /\ UNCHANGED <<now, counters, blocks>>

CheckBan(k) == CheckBans({k})

\* snapshot asks isBanned of every key of the first three Maps; a key that is
\* in none of them has no ban to lapse.
Snapshot == CheckBans(Keys)

Unban(k) ==
    /\ suspicious' = [suspicious EXCEPT ![k] = None]
    /\ bans' = [bans EXCEPT ![k] = 0]
    /\ UNCHANGED <<now, rateLimits, counters, blocks>>

\* Mutants: each increment renews the window; the window never ends; a new
\* deadline is before now.
IncrementedSliding(entry, ttl) ==
    [count |-> IF entry.resetAt > now THEN entry.count + 1 ELSE 1, resetAt |-> now + ttl]

IncrementedForever(entry, ttl) ==
    [count |-> entry.count + 1,
     resetAt |-> IF entry.count > 0 THEN entry.resetAt ELSE now + ttl]

IncrementedBackwards(entry, ttl) == [count |-> entry.count + 1, resetAt |-> now - ttl]

\* recordSuspicious and incrementCounter: an entry whose window is over, or
\* that is not there, is replaced; its deadline is otherwise kept.
Incremented(entry, ttl) ==
    IF entry.resetAt > now THEN [entry EXCEPT !.count = @ + 1]
    ELSE [count |-> 1, resetAt |-> now + ttl]

RecordSuspicious(k) ==
    /\ suspicious' = [suspicious EXCEPT ![k] = Incremented(@, SuspiciousTtl)]
    /\ UNCHANGED <<now, rateLimits, bans, counters, blocks>>

-----------------------------------------------------------------------------
(* Brute-force counters and blocks. *)

IncrementCounter(k) ==
    /\ counters' = [counters EXCEPT ![k] = Incremented(@, CounterTtl)]
    /\ UNCHANGED <<now, rateLimits, bans, suspicious, blocks>>

ReadCounter(k) ==
    /\ counters' = [counters EXCEPT ![k] = IF @.resetAt <= now THEN None ELSE @]
    /\ UNCHANGED <<now, rateLimits, bans, suspicious, blocks>>

ResetCounter(k) ==
    /\ counters' = [counters EXCEPT ![k] = None]
    /\ UNCHANGED <<now, rateLimits, bans, suspicious, blocks>>

BlockKey(k) ==
    /\ blocks' = [blocks EXCEPT ![k] = now + BlockTtl]
    /\ UNCHANGED <<now, rateLimits, bans, suspicious, counters>>

CheckBlock(k) ==
    /\ blocks' = [blocks EXCEPT ![k] = IF @ <= now THEN 0 ELSE @]
    /\ UNCHANGED <<now, rateLimits, bans, suspicious, counters>>

UnblockKey(k) ==
    /\ blocks' = [blocks EXCEPT ![k] = 0]
    /\ UNCHANGED <<now, rateLimits, bans, suspicious, counters>>

-----------------------------------------------------------------------------
(* The sweep: the limiter's interval calls it, and so do listBans and       *)
(* listBlocks.  It drops what is over, each Map on its own: unlike isBanned *)
(* it leaves the strikes of a lapsed ban.                                   *)

\* Mutant: the Map of the blocks is forgotten.
CleanupKeepsBlocks ==
    /\ rateLimits' = [k \in Keys |-> IF LogExpired(k) THEN EmptyLog ELSE rateLimits[k]]
    /\ bans' = [k \in Keys |-> IF bans[k] <= now THEN 0 ELSE bans[k]]
    /\ suspicious' = [k \in Keys |->
          IF suspicious[k].resetAt <= now THEN None ELSE suspicious[k]]
    /\ counters' = [k \in Keys |->
          IF counters[k].resetAt <= now THEN None ELSE counters[k]]
    /\ UNCHANGED <<now, blocks>>

Cleanup ==
    /\ rateLimits' = [k \in Keys |-> IF LogExpired(k) THEN EmptyLog ELSE rateLimits[k]]
    /\ bans' = [k \in Keys |-> IF bans[k] <= now THEN 0 ELSE bans[k]]
    /\ suspicious' = [k \in Keys |->
          IF suspicious[k].resetAt <= now THEN None ELSE suspicious[k]]
    /\ counters' = [k \in Keys |->
          IF counters[k].resetAt <= now THEN None ELSE counters[k]]
    /\ blocks' = [k \in Keys |-> IF blocks[k] <= now THEN 0 ELSE blocks[k]]
    /\ UNCHANGED now

ListBans == Cleanup
ListBlocks == Cleanup

Clear ==
    /\ rateLimits' = [k \in Keys |-> EmptyLog]
    /\ bans' = [k \in Keys |-> 0]
    /\ suspicious' = [k \in Keys |-> None]
    /\ counters' = [k \in Keys |-> None]
    /\ blocks' = [k \in Keys |-> 0]
    /\ UNCHANGED now

Tick ==
    /\ now < MaxTime
    /\ now' = now + 1
    /\ UNCHANGED storeVars

-----------------------------------------------------------------------------
Next ==
    \/ Tick
    \/ Snapshot
    \/ ListBans
    \/ ListBlocks
    \/ Clear
    \/ \E k \in Keys :
          \/ IncrementRateLimit(k) \/ GetRateLimit(k) \/ ResetRateLimit(k)
          \/ Ban(k) \/ CheckBan(k) \/ Unban(k) \/ RecordSuspicious(k)
          \/ IncrementCounter(k) \/ ReadCounter(k) \/ ResetCounter(k)
          \/ BlockKey(k) \/ CheckBlock(k) \/ UnblockKey(k)

Spec == Init /\ [][Next]_vars

\* The interval that every RateLimiter starts, and only destroy() clears
\* (limiter.js 31, 99-107), sweeps again and again.
FairSweep == WF_vars(Cleanup)

-----------------------------------------------------------------------------
(* Properties. *)

\* A log is the last window of its key's requests ...
OneWindow(log) ==
    \/ log = EmptyLog
    \/ /\ log.timestamps # {}
       /\ \E ts \in log.timestamps : log.resetAt = ts[1] + Window
       /\ \A ts \in log.timestamps :
             /\ ts[1] <= now
             /\ ts[1] + Window >= log.resetAt
             /\ ts[1] < log.resetAt

\* ... whatever the order of increments, reads, resets and sweeps: no timestamp
\* is in the future, none is a whole window older than the newest, and resetAt
\* is the moment the oldest leaves the window.  resetAt is what the client is
\* told and what the sweep trusts (memory-store.js 17-22, 34, 168).
LogIsOneWindow == \A k \in Keys : OneWindow(rateLimits[k])

\* Lazy expiry is not visible: seen through the reads, the store is one whose
\* entries vanish at their deadline, whatever the order of reads and sweeps.
VisibleFlag(deadline) == IF deadline > now THEN deadline ELSE 0
VisibleCount(entry) == IF entry.resetAt > now THEN entry ELSE None

Promise == INSTANCE ExpiringStore WITH
    banned <- [k \in Keys |-> VisibleFlag(bans[k])],
    strikes <- [k \in Keys |-> VisibleCount(suspicious[k])],
    counts <- [k \in Keys |-> VisibleCount(counters[k])],
    blocked <- [k \in Keys |-> VisibleFlag(blocks[k])]

ImplementsExpiringStore == Promise!Spec

\* Sweeping is maintenance: it removes no request that is still in the window,
\* so the next request of a key is counted as if no sweep had run.  The test
\* memoryStore.test.js 45-48 says 'cleanup does not remove active item'.
SweepKeepsLiveTimestamps ==
    [][Cleanup => \A k \in Keys : LiveTimestamps(k)' = LiveTimestamps(k)]_vars

\* The Maps do not grow with every address that ever called: whatever is left
\* of a key past its deadline is removed in the end even when nobody asks
\* about that key again, in each of the five Maps (memory-store.js 161-188).
Over(deadline) == deadline # 0 /\ deadline <= now

HoldsOver(k) ==
    \/ Over(rateLimits[k].resetAt) \/ Over(bans[k]) \/ Over(suspicious[k].resetAt)
    \/ Over(counters[k].resetAt) \/ Over(blocks[k])

OverIsForgotten == \A k \in Keys : HoldsOver(k) ~> ~HoldsOver(k)
=============================================================================
