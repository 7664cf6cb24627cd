------------------------- MODULE RateLimiter_proofs -------------------------
(***************************************************************************)
(* Proofs about MemoryStore and RateLimiter: for any requests, any         *)
(* addresses they share and any limits.                                    *)
(*                                                                         *)
(* The first part is about the store alone, and any calls.  Its inductive  *)
(* invariant is the type, the window shape of every log, and that a log is *)
(* finite: without the last the number of timestamps in it, which is part  *)
(* of the next timestamp, would not be known to be a natural.  The limiter *)
(* uses the store through its own operations, so that it has the invariant *)
(* of the store from there; what the second part adds is what the          *)
(* histories say of the entries the store keeps.                           *)
(***************************************************************************)
EXTENDS RateLimiter, FiniteSetTheorems, WellFoundedInduction, TLAPS

-----------------------------------------------------------------------------
(* The store, whoever calls it. *)

LogsFinite == \A k \in Keys : IsFiniteSet(rateLimits[k].timestamps)

IInv == TypeOK /\ LogsFinite /\ LogIsOneWindow

Kept(k) == LiveTimestamps(k) \cup {Stamp(k)}

-----------------------------------------------------------------------------
(* Lemmas about the operators. *)

\* A set of naturals that is not empty has a least element: the one whose
\* initial segment has no smaller one beside it.
LEMMA NatMin ==
  ASSUME NEW T, T \in SUBSET Nat, T # {}
  PROVE  \E x \in T : \A y \in T : x <= y
<1> DEFINE Segments == {0 .. x : x \in T}
           Order == StrictSubsetOrdering(Nat)
<1>1. IsWellFoundedOn(Order, FiniteSubsetsOf(Nat))
  BY FS_StrictSubsetOrderingWellFounded
<1>2. \A x \in T : 0 .. x \in SUBSET Nat /\ IsFiniteSet(0 .. x)
  BY FS_Interval
<1>3. Segments \subseteq FiniteSubsetsOf(Nat) /\ Segments # {}
  BY <1>2 DEF FiniteSubsetsOf
<1>4. PICK U \in Segments : \A V \in Segments : ~ (<<V, U>> \in Order)
  <2> HIDE DEF Segments, Order
  <2>1. QED
    BY <1>1, <1>3, WFMin
<1>5. PICK x \in T : U = 0 .. x
  OBVIOUS
<1>6. ASSUME NEW y \in T, y < x
      PROVE  FALSE
  <2>1. 0 .. y \subseteq 0 .. x /\ x \in 0 .. x /\ x \notin 0 .. y
    BY <1>6
  <2>2. <<0 .. y, 0 .. x>> \in Order
    BY <1>2, <2>1 DEF StrictSubsetOrdering
  <2>3. QED
    BY <1>4, <1>5, <2>2
<1>7. QED
  BY <1>6

\* The oldest timestamp is one of them, and none is older.
LEMMA OldestIsOldest ==
  ASSUME NEW S \in SUBSET Timestamps, S # {}
  PROVE  /\ Oldest(S) \in Nat
         /\ \E ts \in S : Oldest(S) = ts[1]
         /\ \A ts \in S : Oldest(S) <= ts[1]
<1> DEFINE T == {ts[1] : ts \in S}
<1>1. T \in SUBSET Nat /\ T # {}
  BY DEF Timestamps
<1>2. \E x \in T : \A y \in T : x <= y
  <2> HIDE DEF T
  <2>1. QED
    BY <1>1, NatMin
<1>3. Oldest(S) \in T /\ \A ts \in S : Oldest(S) <= ts[1]
  BY <1>2 DEF Oldest
<1>4. QED
  BY <1>1, <1>3

\* An increment of a log of one window leaves a log of one window, and finite.
LEMMA IncrementedLog ==
  ASSUME IInv, NEW k \in Keys, TtlAssumption
  PROVE  /\ Kept(k) \in SUBSET Timestamps
         /\ IsFiniteSet(Kept(k))
         /\ Oldest(Kept(k)) \in Nat
         /\ \E ts \in Kept(k) : Oldest(Kept(k)) = ts[1]
         /\ \A ts \in Kept(k) : /\ Oldest(Kept(k)) <= ts[1]
                                /\ ts[1] <= now
                                /\ ts[1] > now - Window
<1> DEFINE live == LiveTimestamps(k)
           instant == {ts \in live : ts[1] = now}
<1>1. rateLimits[k].timestamps \in SUBSET Timestamps /\ IsFiniteSet(rateLimits[k].timestamps)
  BY DEF IInv, TypeOK, LogsFinite, Logs
<1>2. live \in SUBSET rateLimits[k].timestamps /\ IsFiniteSet(live)
  BY <1>1, FS_Subset DEF LiveTimestamps
<1>3. IsFiniteSet(instant) /\ Cardinality(instant) \in Nat
  BY <1>2, FS_Subset, FS_CardinalityType
<1>4. now \in Nat /\ Window \in Nat \ {0}
  BY DEF IInv, TypeOK, TtlAssumption
<1>5. Stamp(k) \in Timestamps /\ Stamp(k)[1] = now
  BY <1>3, <1>4 DEF Stamp, Timestamps
<1>6. Kept(k) \in SUBSET Timestamps /\ IsFiniteSet(Kept(k)) /\ Kept(k) # {}
  BY <1>1, <1>2, <1>5, FS_AddElement DEF Kept
<1>7. /\ Oldest(Kept(k)) \in Nat
      /\ \E ts \in Kept(k) : Oldest(Kept(k)) = ts[1]
      /\ \A ts \in Kept(k) : Oldest(Kept(k)) <= ts[1]
  BY <1>6, OldestIsOldest
<1>8. \A ts \in rateLimits[k].timestamps : ts[1] \in Nat /\ ts[1] <= now
  BY <1>1 DEF IInv, LogIsOneWindow, OneWindow, EmptyLog, Timestamps
<1>9. \A ts \in Kept(k) : ts[1] <= now /\ ts[1] > now - Window
  BY <1>2, <1>4, <1>5, <1>8 DEF LiveTimestamps, Kept
<1>10. QED
  BY <1>6, <1>7, <1>9

\* A new count and its deadline are an entry.
LEMMA IncrementedType ==
  ASSUME NEW entry \in Entries, NEW ttl \in Nat, now \in Nat
  PROVE  Incremented(entry, ttl) \in Entries
  BY DEF Incremented, Entries

\* The values of the keys that are not in a Map.
LEMMA EntryTypes ==
  /\ EmptyLog \in Logs
  /\ None \in Entries
  BY DEF EmptyLog, None, Logs, Entries

\* The initial state has no logs at all.
LEMMA InitIsSound ==
  ASSUME Init
  PROVE  IInv
<1>1. TypeOK /\ LogIsOneWindow
  BY EntryTypes DEF Init, TypeOK, LogIsOneWindow, OneWindow
<1>2. LogsFinite
  BY FS_EmptySet DEF Init, LogsFinite, EmptyLog
<1>3. QED
  BY <1>1, <1>2 DEF IInv

-----------------------------------------------------------------------------
(* Every operation keeps the invariant. *)

\* The operations that remove logs, or leave them alone, and touch the rest as
\* its type says.
LEMMA RemovalIsSound ==
  ASSUME IInv, TypeOK', now' = now,
         \A k \in Keys : rateLimits'[k] \in {rateLimits[k], EmptyLog}
  PROVE  IInv'
<1>1. LogsFinite'
  <2>1. IsFiniteSet(EmptyLog.timestamps)
    BY FS_EmptySet DEF EmptyLog
  <2>2. \A k \in Keys : IsFiniteSet(rateLimits'[k].timestamps)
    BY <2>1 DEF IInv, LogsFinite
  <2>3. QED
    BY <2>2 DEF LogsFinite
<1>2. LogIsOneWindow'
  BY DEF IInv, LogIsOneWindow, OneWindow
<1>3. QED
  BY <1>1, <1>2 DEF IInv

LEMMA IncrementRateLimitIsSound ==
  ASSUME IInv, NEW k \in Keys, IncrementRateLimit(k)
  PROVE  IInv'
<1> DEFINE log == [timestamps |-> Kept(k), resetAt |-> Oldest(Kept(k)) + Window]
<1>1. /\ Kept(k) \in SUBSET Timestamps
      /\ IsFiniteSet(Kept(k))
      /\ Oldest(Kept(k)) \in Nat
      /\ \E ts \in Kept(k) : Oldest(Kept(k)) = ts[1]
      /\ \A ts \in Kept(k) : /\ Oldest(Kept(k)) <= ts[1]
                             /\ ts[1] <= now
                             /\ ts[1] > now - Window
  BY IncrementedLog, TtlAssumption
<1>2. /\ rateLimits' = [rateLimits EXCEPT ![k] = log]
      /\ UNCHANGED <<now, bans, suspicious, counters, blocks>>
  BY DEF IncrementRateLimit, Kept
<1>3. Window \in Nat \ {0} /\ now \in Nat
  BY TtlAssumption DEF TtlAssumption, IInv, TypeOK
<1>4. log \in Logs
  BY <1>1, <1>3 DEF Logs
<1>5. TypeOK'
  BY <1>2, <1>4 DEF IInv, TypeOK
<1>6. LogsFinite'
  BY <1>1, <1>2 DEF IInv, TypeOK, LogsFinite
<1>7. \A ts \in Kept(k) : ts[1] \in Nat
  BY <1>1 DEF Timestamps
<1>8. OneWindow(log)
  BY <1>1, <1>3, <1>7 DEF OneWindow
<1>9. LogIsOneWindow'
  <2> HIDE DEF log
  <2>1. rateLimits'[k] = log /\ now' = now
    BY <1>2 DEF IInv, TypeOK
  <2>2. \A q \in Keys : q # k => rateLimits'[q] = rateLimits[q]
    BY <1>2 DEF IInv, TypeOK
  <2>3. QED
    BY <1>8, <2>1, <2>2 DEF IInv, LogIsOneWindow, OneWindow
<1>10. QED
  BY <1>5, <1>6, <1>9 DEF IInv

LEMMA TickIsSound ==
  ASSUME IInv, Tick
  PROVE  IInv'
<1>1. now' = now + 1 /\ UNCHANGED storeVars
  BY DEF Tick
<1>2. TypeOK'
  BY <1>1 DEF IInv, TypeOK, storeVars
<1>3. LogsFinite'
  BY <1>1 DEF IInv, LogsFinite, storeVars
<1>4. \A k \in Keys : \A ts \in rateLimits[k].timestamps : ts[1] \in Nat
  BY DEF IInv, TypeOK, Logs, Timestamps
<1>5. LogIsOneWindow'
  BY <1>1, <1>4 DEF IInv, TypeOK, LogIsOneWindow, OneWindow, EmptyLog, storeVars
<1>6. QED
  BY <1>2, <1>3, <1>5 DEF IInv

\* A step of any operation keeps the invariant.
LEMMA StepIsSound ==
  ASSUME IInv, [Next]_vars
  PROVE  IInv'
<1> USE TtlAssumption DEF TtlAssumption
<1>1. CASE UNCHANGED vars
  BY <1>1 DEF vars, IInv, TypeOK, LogsFinite, LogIsOneWindow, OneWindow
<1>2. CASE Tick
  BY <1>2, TickIsSound
<1>3. CASE ListBans \/ ListBlocks
  <2>1. Cleanup
    BY <1>3 DEF ListBans, ListBlocks
  <2>2. TypeOK'
    BY <2>1, EntryTypes DEF Cleanup, IInv, TypeOK
  <2>3. QED
    BY <2>1, <2>2, RemovalIsSound DEF Cleanup
<1>4. CASE Clear
  <2>1. TypeOK'
    BY <1>4, EntryTypes DEF Clear, IInv, TypeOK
  <2>2. QED
    BY <1>4, <2>1, RemovalIsSound DEF Clear
<1>5. ASSUME NEW S \in SUBSET Keys, CheckBans(S)
      PROVE  IInv'
  <2>1. TypeOK'
    BY <1>5, EntryTypes DEF CheckBans, IInv, TypeOK
  <2>2. QED
    BY <1>5, <2>1, RemovalIsSound DEF CheckBans
<1>6. ASSUME NEW k \in Keys, GetRateLimit(k) \/ ResetRateLimit(k)
      PROVE  IInv'
  <2>1. TypeOK'
    BY <1>6, EntryTypes DEF GetRateLimit, ResetRateLimit, IInv, TypeOK
  <2>2. now' = now /\ \A q \in Keys : rateLimits'[q] \in {rateLimits[q], EmptyLog}
    BY <1>6 DEF GetRateLimit, ResetRateLimit, IInv, TypeOK
  <2>3. QED
    BY <2>1, <2>2, RemovalIsSound
<1>7. ASSUME NEW k \in Keys, IncrementRateLimit(k)
      PROVE  IInv'
  BY <1>7, IncrementRateLimitIsSound
<1>8. ASSUME NEW k \in Keys,
             \/ Ban(k) \/ Unban(k) \/ BlockKey(k) \/ CheckBlock(k) \/ UnblockKey(k)
             \/ RecordSuspicious(k) \/ IncrementCounter(k) \/ ReadCounter(k) \/ ResetCounter(k)
      PROVE  IInv'
  <2>1. UNCHANGED <<now, rateLimits>>
    BY <1>8 DEF Ban, Unban, BlockKey, CheckBlock, UnblockKey,
                RecordSuspicious, IncrementCounter, ReadCounter, ResetCounter
  <2>2. /\ Incremented(suspicious[k], SuspiciousTtl) \in Entries
        /\ Incremented(counters[k], CounterTtl) \in Entries
    BY IncrementedType DEF IInv, TypeOK
  <2>3. CASE Ban(k) \/ BlockKey(k) \/ CheckBlock(k) \/ UnblockKey(k)
    <3>1. TypeOK'
      BY <2>3 DEF Ban, BlockKey, CheckBlock, UnblockKey, IInv, TypeOK
    <3>2. QED
      BY <2>1, <3>1, RemovalIsSound
  <2>4. CASE Unban(k) \/ ReadCounter(k) \/ ResetCounter(k)
    <3>1. TypeOK'
      BY <2>4, EntryTypes DEF Unban, ReadCounter, ResetCounter, IInv, TypeOK
    <3>2. QED
      BY <2>1, <3>1, RemovalIsSound
  <2>5. CASE RecordSuspicious(k) \/ IncrementCounter(k)
    <3>1. TypeOK'
      BY <2>2, <2>5 DEF RecordSuspicious, IncrementCounter, IInv, TypeOK
    <3>2. QED
      BY <2>1, <3>1, RemovalIsSound
  <2>6. QED
    BY <1>8, <2>3, <2>4, <2>5
<1>9. QED
  BY <1>1, <1>2, <1>3, <1>4, <1>5, <1>6, <1>7, <1>8 DEF Next, Snapshot, CheckBan

-----------------------------------------------------------------------------
LEMMA Invariance == Spec => []IInv
<1>1. Init => IInv
  BY InitIsSound
<1>2. IInv /\ [Next]_vars => IInv'
  BY StepIsSound
<1>3. QED
  BY <1>1, <1>2, PTL DEF Spec

\* Whatever sequence of calls is made, and whatever the lengths of the windows,
\* the Maps keep their types (memory-store.js).
THEOREM TypeCorrect == Spec => []TypeOK
<1>1. IInv => TypeOK
  BY DEF IInv
<1>2. QED
  BY <1>1, Invariance, PTL

\* Every rate limit log is always one window of its key's requests, with the
\* resetAt of its oldest: for any keys, any window and any number of requests
\* (memory-store.js incrementRateLimit).
THEOREM LogCorrect == Spec => []LogIsOneWindow
<1>1. IInv => LogIsOneWindow
  BY DEF IInv
<1>2. QED
  BY <1>1, Invariance, PTL

-----------------------------------------------------------------------------
(* The refinement: what a caller sees of the lazy store is a step of the    *)
(* eager one, or nothing.                                                   *)

Flags(f) == [k \in Keys |-> VisibleFlag(f[k])]
Counts(f) == [k \in Keys |-> VisibleCount(f[k])]

\* What an operation leaves alone looks the same, and so does what it removes
\* that was over.
LEMMA UnseenRemoval ==
  ASSUME TypeOK, now' = now, TtlAssumption
  PROVE  /\ (bans' = bans => Flags(bans)' = Flags(bans))
         /\ (blocks' = blocks => Flags(blocks)' = Flags(blocks))
         /\ (suspicious' = suspicious => Counts(suspicious)' = Counts(suspicious))
         /\ (counters' = counters => Counts(counters)' = Counts(counters))
         /\ ((\A k \in Keys : bans'[k] = bans[k] \/ (bans[k] <= now /\ bans'[k] = 0))
              => Flags(bans)' = Flags(bans))
         /\ ((\A k \in Keys : blocks'[k] = blocks[k] \/ (blocks[k] <= now /\ blocks'[k] = 0))
              => Flags(blocks)' = Flags(blocks))
         /\ ((\A k \in Keys : \/ suspicious'[k] = suspicious[k]
                              \/ suspicious[k].resetAt <= now /\ suspicious'[k] = None)
              => Counts(suspicious)' = Counts(suspicious))
         /\ ((\A k \in Keys : \/ counters'[k] = counters[k]
                              \/ counters[k].resetAt <= now /\ counters'[k] = None)
              => Counts(counters)' = Counts(counters))
<1>1. now \in Nat /\ None.resetAt = 0
  BY DEF TypeOK, None
<1>2. \A k \in Keys : /\ bans[k] \in Nat /\ blocks[k] \in Nat
                      /\ suspicious[k].resetAt \in Nat /\ counters[k].resetAt \in Nat
  BY DEF TypeOK, Entries
<1>3. QED
  BY <1>1, <1>2 DEF Flags, Counts, VisibleFlag, VisibleCount

LEMMA InitRefines ==
  ASSUME Init
  PROVE  Promise!Init
  BY DEF Init, Promise!Init, Promise!None, None, VisibleFlag, VisibleCount

LEMMA CleanupIsUnseen ==
  ASSUME TypeOK, Cleanup
  PROVE  UNCHANGED <<now, Flags(bans), Counts(suspicious), Counts(counters), Flags(blocks)>>
<1>1. now' = now
  BY DEF Cleanup
<1>2. /\ \A k \in Keys : bans'[k] = bans[k] \/ (bans[k] <= now /\ bans'[k] = 0)
      /\ \A k \in Keys : blocks'[k] = blocks[k] \/ (blocks[k] <= now /\ blocks'[k] = 0)
      /\ \A k \in Keys : \/ suspicious'[k] = suspicious[k]
                         \/ suspicious[k].resetAt <= now /\ suspicious'[k] = None
      /\ \A k \in Keys : \/ counters'[k] = counters[k]
                         \/ counters[k].resetAt <= now /\ counters'[k] = None
  BY DEF Cleanup
<1>3. QED
  BY <1>1, <1>2, UnseenRemoval, TtlAssumption

\* A read that meets a ban that is over forgets the strikes of its key.
LEMMA CheckBansForgets ==
  ASSUME TypeOK, NEW S \in SUBSET Keys, CheckBans(S)
  PROVE  Promise!Next
<1> DEFINE lapsed == {k \in S : BanLapsed(k)}
<1>1. lapsed \in SUBSET Keys /\ \A k \in lapsed : bans[k] <= now
  BY DEF BanLapsed
<1>2. /\ now' = now /\ counters' = counters /\ blocks' = blocks
      /\ \A k \in Keys : bans'[k] = IF k \in lapsed THEN 0 ELSE bans[k]
      /\ \A k \in Keys : suspicious'[k] = IF k \in lapsed THEN None ELSE suspicious[k]
  BY DEF CheckBans
<1> HIDE DEF lapsed
<1>3. UNCHANGED <<now, Flags(bans), Counts(counters), Flags(blocks)>>
  BY <1>1, <1>2, UnseenRemoval, TtlAssumption
<1>4. \A k \in lapsed : Flags(bans)[k] = 0
  BY <1>1 DEF Flags, VisibleFlag, TypeOK
<1>5. Counts(suspicious)' = [k \in Keys |-> IF k \in lapsed THEN None ELSE Counts(suspicious)[k]]
  BY <1>1, <1>2 DEF Counts, VisibleCount, TypeOK, None
<1>6. Promise!Forgive(lapsed)
  BY <1>3, <1>4, <1>5 DEF Promise!Forgive, Promise!None, None, Flags, Counts
<1>7. QED
  BY <1>1, <1>6 DEF Promise!Next

\* The same increment, seen: a count whose window is over is not there.
LEMMA IncrementedIsSeen ==
  ASSUME NEW entry \in Entries, NEW ttl \in Nat \ {0}, now \in Nat
  PROVE  LET after == Incremented(entry, ttl)
         IN  (IF after.resetAt > now THEN after ELSE None)
                = Promise!Incremented(VisibleCount(entry), ttl)
<1>1. CASE entry.resetAt > now
  <2>1. VisibleCount(entry) = entry /\ entry # Promise!None
    BY <1>1 DEF VisibleCount, Promise!None
  <2>2. Promise!Incremented(entry, ttl) = [entry EXCEPT !.count = @ + 1]
    BY <2>1 DEF Promise!Incremented
  <2>3. [entry EXCEPT !.count = @ + 1].resetAt = entry.resetAt
    BY DEF Entries
  <2>4. QED
    BY <1>1, <2>1, <2>2, <2>3 DEF Incremented
<1>2. CASE ~(entry.resetAt > now)
  <2>1. VisibleCount(entry) = Promise!None
    BY <1>2 DEF VisibleCount, Promise!None, None
  <2>2. now + ttl > now
    OBVIOUS
  <2>3. QED
    BY <1>2, <2>1, <2>2 DEF Incremented, Promise!Incremented
<1>3. QED
  BY <1>1, <1>2

\* RecordSuspicious and IncrementCounter are Strike and Count.
LEMMA IncrementsRefine ==
  ASSUME TypeOK, NEW k \in Keys, RecordSuspicious(k) \/ IncrementCounter(k)
  PROVE  Promise!Next
<1> DEFINE strike == Incremented(suspicious[k], SuspiciousTtl)
           count == Incremented(counters[k], CounterTtl)
<1>1. /\ (IF strike.resetAt > now THEN strike ELSE None)
            = Promise!Incremented(VisibleCount(suspicious[k]), SuspiciousTtl)
      /\ (IF count.resetAt > now THEN count ELSE None)
            = Promise!Incremented(VisibleCount(counters[k]), CounterTtl)
  BY IncrementedIsSeen, TtlAssumption DEF TypeOK, TtlAssumption
<1>2. CASE RecordSuspicious(k)
  <2>1. /\ suspicious' = [suspicious EXCEPT ![k] = strike]
        /\ now' = now /\ bans' = bans /\ counters' = counters /\ blocks' = blocks
    BY <1>2 DEF RecordSuspicious
  <2> HIDE DEF strike
  <2>2. UNCHANGED <<now, Flags(bans), Counts(counters), Flags(blocks)>>
    BY <2>1, UnseenRemoval, TtlAssumption
  <2>3. Counts(suspicious)' = [Counts(suspicious) EXCEPT ![k] =
                                  Promise!Incremented(@, SuspiciousTtl)]
    BY <1>1, <2>1 DEF Counts, VisibleCount, TypeOK
  <2>4. Promise!Strike(k)
    BY <2>2, <2>3 DEF Promise!Strike, Flags, Counts
  <2>5. QED
    BY <2>4 DEF Promise!Next
<1>3. CASE IncrementCounter(k)
  <2>1. /\ counters' = [counters EXCEPT ![k] = count]
        /\ now' = now /\ bans' = bans /\ suspicious' = suspicious /\ blocks' = blocks
    BY <1>3 DEF IncrementCounter
  <2> HIDE DEF count
  <2>2. UNCHANGED <<now, Flags(bans), Counts(suspicious), Flags(blocks)>>
    BY <2>1, UnseenRemoval, TtlAssumption
  <2>3. Counts(counters)' = [Counts(counters) EXCEPT ![k] = Promise!Incremented(@, CounterTtl)]
    BY <1>1, <2>1 DEF Counts, VisibleCount, TypeOK
  <2>4. Promise!Count(k)
    BY <2>2, <2>3 DEF Promise!Count, Flags, Counts
  <2>5. QED
    BY <2>4 DEF Promise!Next
<1>4. QED
  BY <1>2, <1>3

\* Setting and lifting a flag, and resetting a counter.
LEMMA FlagsRefine ==
  ASSUME TypeOK, NEW k \in Keys,
         Ban(k) \/ Unban(k) \/ BlockKey(k) \/ UnblockKey(k) \/ ResetCounter(k)
  PROVE  Promise!Next
<1> USE TtlAssumption
<1>0. now + BanTtl > now /\ now + BlockTtl > now
  BY DEF TtlAssumption, TypeOK
<1>1. CASE Ban(k)
  <2>1. UNCHANGED <<now, Counts(suspicious), Counts(counters), Flags(blocks)>>
    BY <1>1, UnseenRemoval DEF Ban
  <2>2. Flags(bans)' = [Flags(bans) EXCEPT ![k] = now + BanTtl]
    BY <1>0, <1>1 DEF Ban, Flags, VisibleFlag, TypeOK
  <2>3. Promise!Ban(k)
    BY <2>1, <2>2 DEF Promise!Ban, Flags, Counts
  <2>4. QED
    BY <2>3 DEF Promise!Next
<1>2. CASE Unban(k)
  <2>1. UNCHANGED <<now, Counts(counters), Flags(blocks)>>
    BY <1>2, UnseenRemoval DEF Unban
  <2>2. Flags(bans)' = [Flags(bans) EXCEPT ![k] = 0]
    BY <1>2 DEF Unban, Flags, VisibleFlag, TypeOK
  <2>3. Counts(suspicious)' = [Counts(suspicious) EXCEPT ![k] = None]
    BY <1>2 DEF Unban, Counts, VisibleCount, TypeOK, None
  <2>4. Promise!Unban(k)
    BY <2>1, <2>2, <2>3 DEF Promise!Unban, Promise!None, None, Flags, Counts
  <2>5. QED
    BY <2>4 DEF Promise!Next
<1>3. CASE BlockKey(k)
  <2>1. UNCHANGED <<now, Flags(bans), Counts(suspicious), Counts(counters)>>
    BY <1>3, UnseenRemoval DEF BlockKey
  <2>2. Flags(blocks)' = [Flags(blocks) EXCEPT ![k] = now + BlockTtl]
    BY <1>0, <1>3 DEF BlockKey, Flags, VisibleFlag, TypeOK
  <2>3. Promise!Block(k)
    BY <2>1, <2>2 DEF Promise!Block, Flags, Counts
  <2>4. QED
    BY <2>3 DEF Promise!Next
<1>4. CASE UnblockKey(k)
  <2>1. UNCHANGED <<now, Flags(bans), Counts(suspicious), Counts(counters)>>
    BY <1>4, UnseenRemoval DEF UnblockKey
  <2>2. Flags(blocks)' = [Flags(blocks) EXCEPT ![k] = 0]
    BY <1>4 DEF UnblockKey, Flags, VisibleFlag, TypeOK
  <2>3. Promise!Unblock(k)
    BY <2>1, <2>2 DEF Promise!Unblock, Flags, Counts
  <2>4. QED
    BY <2>3 DEF Promise!Next
<1>5. CASE ResetCounter(k)
  <2>1. UNCHANGED <<now, Flags(bans), Counts(suspicious), Flags(blocks)>>
    BY <1>5, UnseenRemoval DEF ResetCounter
  <2>2. Counts(counters)' = [Counts(counters) EXCEPT ![k] = None]
    BY <1>5 DEF ResetCounter, Counts, VisibleCount, TypeOK, None
  <2>3. Promise!ResetCount(k)
    BY <2>1, <2>2 DEF Promise!ResetCount, Promise!None, None, Flags, Counts
  <2>4. QED
    BY <2>3 DEF Promise!Next
<1>6. QED
  BY <1>1, <1>2, <1>3, <1>4, <1>5

\* The rate limit log is not part of the promise, and a read that meets an
\* entry that is over removes what is not seen.
LEMMA ReadsAreUnseen ==
  ASSUME TypeOK, NEW k \in Keys,
         \/ IncrementRateLimit(k) \/ GetRateLimit(k) \/ ResetRateLimit(k)
         \/ ReadCounter(k) \/ CheckBlock(k)
  PROVE  UNCHANGED <<now, Flags(bans), Counts(suspicious), Counts(counters), Flags(blocks)>>
<1>1. /\ now' = now /\ bans' = bans /\ suspicious' = suspicious
      /\ \A q \in Keys : \/ counters'[q] = counters[q]
                         \/ counters[q].resetAt <= now /\ counters'[q] = None
      /\ \A q \in Keys : blocks'[q] = blocks[q] \/ (blocks[q] <= now /\ blocks'[q] = 0)
  <2>1. CASE ReadCounter(k)
    BY <2>1 DEF ReadCounter, TypeOK
  <2>2. CASE CheckBlock(k)
    BY <2>2 DEF CheckBlock, TypeOK
  <2>3. CASE IncrementRateLimit(k) \/ GetRateLimit(k) \/ ResetRateLimit(k)
    BY <2>3 DEF IncrementRateLimit, GetRateLimit, ResetRateLimit
  <2>4. QED
    BY <2>1, <2>2, <2>3
<1>2. QED
  BY <1>1, UnseenRemoval, TtlAssumption

LEMMA TickRefines ==
  ASSUME TypeOK, Tick
  PROVE  Promise!Tick
<1>1. /\ now \in Nat /\ now < MaxTime /\ now' = now + 1
      /\ UNCHANGED <<bans, suspicious, counters, blocks>>
  BY DEF Tick, TypeOK, storeVars
<1>2. \A k \in Keys : /\ bans[k] \in Nat /\ blocks[k] \in Nat
                      /\ suspicious[k].resetAt \in Nat /\ counters[k].resetAt \in Nat
  BY DEF TypeOK, Entries
<1>3. /\ Flags(bans)' = [k \in Keys |-> Promise!LiveFlag(Flags(bans)[k], now')]
      /\ Flags(blocks)' = [k \in Keys |-> Promise!LiveFlag(Flags(blocks)[k], now')]
  BY <1>1, <1>2 DEF Flags, VisibleFlag, Promise!LiveFlag
<1>4. None.resetAt = 0
  BY DEF None
<1>5. /\ Counts(suspicious)' = [k \in Keys |-> Promise!LiveCount(Counts(suspicious)[k], now')]
      /\ Counts(counters)' = [k \in Keys |-> Promise!LiveCount(Counts(counters)[k], now')]
  BY <1>1, <1>2, <1>4 DEF Counts, VisibleCount, Promise!LiveCount, Promise!None, None
<1>6. QED
  BY <1>1, <1>3, <1>5 DEF Promise!Tick, Flags, Counts

LEMMA ClearRefines ==
  ASSUME TypeOK, Clear
  PROVE  Promise!Clear
  BY DEF Clear, TypeOK, Promise!Clear, Promise!None, None, VisibleFlag, VisibleCount

LEMMA StepRefines ==
  ASSUME IInv, [Next]_vars
  PROVE  [Promise!Next]_(Promise!vars)
<1>1. TypeOK
  BY DEF IInv
<1>2. CASE UNCHANGED vars
  BY <1>2 DEF vars, Promise!vars, VisibleFlag, VisibleCount
<1>3. CASE Tick
  BY <1>1, <1>3, TickRefines DEF Promise!Next
<1>4. CASE ListBans \/ ListBlocks
  BY <1>1, <1>4, CleanupIsUnseen DEF ListBans, ListBlocks, Promise!vars, Flags, Counts
<1>5. CASE Clear
  BY <1>1, <1>5, ClearRefines DEF Promise!Next
<1>6. ASSUME NEW S \in SUBSET Keys, CheckBans(S)
      PROVE  Promise!Next
  BY <1>1, <1>6, CheckBansForgets
<1>7. ASSUME NEW k \in Keys,
             \/ IncrementRateLimit(k) \/ GetRateLimit(k) \/ ResetRateLimit(k)
             \/ ReadCounter(k) \/ CheckBlock(k)
      PROVE  UNCHANGED Promise!vars
  BY <1>1, <1>7, ReadsAreUnseen DEF Promise!vars, Flags, Counts
<1>8. ASSUME NEW k \in Keys,
             Ban(k) \/ Unban(k) \/ BlockKey(k) \/ UnblockKey(k) \/ ResetCounter(k)
      PROVE  Promise!Next
  BY <1>1, <1>8, FlagsRefine
<1>9. ASSUME NEW k \in Keys, RecordSuspicious(k) \/ IncrementCounter(k)
      PROVE  Promise!Next
  BY <1>1, <1>9, IncrementsRefine
<1>10. QED
  BY <1>2, <1>3, <1>4, <1>5, <1>6, <1>7, <1>8, <1>9 DEF Next, Snapshot, CheckBan

\* The MemoryStore keeps the promise of a store whose entries vanish at their
\* deadline, for any keys and any lives of the entries, although it deletes
\* them only when a read or a sweep meets them (memory-store.js).
THEOREM StoreImplementsPromise == Spec => ImplementsExpiringStore
<1>1. Init => Promise!Init
  BY InitRefines
<1>2. IInv /\ [Next]_vars => [Promise!Next]_(Promise!vars)
  BY StepRefines
<1>3. QED
  BY <1>1, <1>2, Invariance, PTL DEF Spec, ImplementsExpiringStore, Promise!Spec

-----------------------------------------------------------------------------
(* The limiter. *)

\* The timestamps of an instant are numbered from 0, so that one more is new.
Numbered(S) == \A ts \in S : ts[2] < Cardinality({u \in S : u[1] = ts[1]})

WellLogged(S) == IsFiniteSet(S) /\ Numbered(S)

LogsNumbered == \A k \in Keys :
    /\ WellLogged(rateLimits[k].timestamps)
    /\ WellLogged(strikeLog[k]) /\ WellLogged(admissions[k])

\* The strikes that an entry of the store counts: those since its window began.
Behind(k) == {ts \in strikeLog[k] : ts[1] + SuspiciousTtl >= suspicious[k].resetAt}

\* A strike count that is not over counts strikes of the log.
StrikesLogged == \A k \in Keys :
    suspicious[k].resetAt > now =>
        /\ suspicious[k].resetAt <= now + SuspiciousTtl
        /\ suspicious[k].count <= Cardinality(Behind(k))

LimiterInv == IInv /\ LimiterTypeOK /\ LogsNumbered /\ StrikesLogged

-----------------------------------------------------------------------------
(* Lemmas about sets of timestamps. *)

\* One more timestamp in this instant is one that was not there.
LEMMA LoggedAddsOne ==
  ASSUME NEW S \in SUBSET Timestamps, WellLogged(S), now \in Nat
  PROVE  LET stamp == <<now, Cardinality({ts \in S : ts[1] = now})>>
         IN  /\ stamp \in Timestamps /\ stamp \notin S
             /\ Logged(S) = S \cup {stamp}
             /\ Logged(S) \in SUBSET Timestamps
             /\ WellLogged(Logged(S))
             /\ Cardinality(Logged(S)) = Cardinality(S) + 1
             /\ Cardinality(S) \in Nat
<1> DEFINE here == {ts \in S : ts[1] = now}
           stamp == <<now, Cardinality(here)>>
<1>1. IsFiniteSet(S) /\ IsFiniteSet(here) /\ Cardinality(here) \in Nat /\ Cardinality(S) \in Nat
  BY FS_Subset, FS_CardinalityType DEF WellLogged
<1>2. stamp \in Timestamps /\ stamp[1] = now /\ stamp[2] = Cardinality(here)
  BY <1>1 DEF Timestamps
<1>3. stamp \notin S
  <2>1. ASSUME stamp \in S
        PROVE  FALSE
    <3>1. stamp[2] < Cardinality({u \in S : u[1] = stamp[1]})
      BY <2>1 DEF WellLogged, Numbered
    <3>2. {u \in S : u[1] = stamp[1]} = here
      BY <1>2
    <3>3. QED
      BY <1>1, <1>2, <3>1, <3>2
  <2>2. QED
    BY <2>1
<1>4. Logged(S) = S \cup {stamp}
  BY DEF Logged
<1>5. IsFiniteSet(Logged(S)) /\ Cardinality(Logged(S)) = Cardinality(S) + 1
  <2> HIDE DEF stamp
  <2>1. QED
    BY <1>1, <1>3, <1>4, FS_AddElement
<1>6. Numbered(Logged(S))
  <2>1. ASSUME NEW ts \in Logged(S)
        PROVE  ts[2] < Cardinality({u \in Logged(S) : u[1] = ts[1]})
    <3>1. CASE ts[1] = now
      <4>1. {u \in Logged(S) : u[1] = ts[1]} = here \cup {stamp}
        BY <1>2, <1>4, <3>1
      <4>2. stamp \notin here
        BY <1>3
      <4>3. Cardinality(here \cup {stamp}) = Cardinality(here) + 1
        <5> HIDE DEF stamp, here
        <5>1. QED
          BY <1>1, <4>2, FS_AddElement
      <4>4. ts[2] <= Cardinality(here) /\ ts[2] \in Nat
        <5>1. CASE ts \in S
          <6>1. ts[2] < Cardinality({u \in S : u[1] = ts[1]})
            BY <5>1 DEF WellLogged, Numbered
          <6>2. {u \in S : u[1] = ts[1]} = here
            BY <3>1
          <6>3. ts[2] \in Nat
            BY <5>1 DEF Timestamps
          <6>4. ts[2] < Cardinality(here) /\ Cardinality(here) \in Nat
            BY <1>1, <6>1, <6>2
          <6> HIDE DEF here
          <6>5. QED
            BY <6>3, <6>4
        <5>2. CASE ts = stamp
          BY <1>1, <1>2, <5>2
        <5>3. QED
          BY <1>4, <5>1, <5>2
      <4>5. QED
        BY <1>1, <4>1, <4>3, <4>4
    <3>2. CASE ts[1] # now
      <4>1. ts \in S
        BY <1>2, <1>4, <3>2
      <4>2. {u \in Logged(S) : u[1] = ts[1]} = {u \in S : u[1] = ts[1]}
        BY <1>2, <1>4, <3>2
      <4>3. QED
        BY <4>1, <4>2 DEF WellLogged, Numbered
    <3>3. QED
      BY <3>1, <3>2
  <2>2. QED
    BY <2>1 DEF Numbered
<1>7. QED
  BY <1>1, <1>2, <1>3, <1>4, <1>5, <1>6 DEF WellLogged

\* What is left of a log when whole instants go is a log.
LEMMA RecentIsLogged ==
  ASSUME NEW S \in SUBSET Timestamps, WellLogged(S), NEW b \in Int
  PROVE  /\ {ts \in S : ts[1] > b} \in SUBSET Timestamps
         /\ WellLogged({ts \in S : ts[1] > b})
<1> DEFINE T == {ts \in S : ts[1] > b}
<1>1. IsFiniteSet(T)
  BY FS_Subset DEF WellLogged
<1>2. ASSUME NEW ts \in T
      PROVE  ts[2] < Cardinality({u \in T : u[1] = ts[1]})
  <2>1. {u \in T : u[1] = ts[1]} = {u \in S : u[1] = ts[1]}
    OBVIOUS
  <2>2. ts[2] < Cardinality({u \in S : u[1] = ts[1]})
    BY DEF WellLogged, Numbered
  <2>3. QED
    BY <2>1, <2>2
<1>3. QED
  BY <1>1, <1>2 DEF WellLogged, Numbered

LEMMA EmptyIsLogged == WellLogged({})
  BY FS_EmptySet DEF WellLogged, Numbered

-----------------------------------------------------------------------------
\* The store is used through its own operations only.
LEMMA LimiterUsesStore ==
  ASSUME [LimiterNext]_allVars
  PROVE  [Next]_vars
<1> USE LimiterAssumption DEF LimiterAssumption
<1>1. CASE UNCHANGED allVars
  BY <1>1 DEF allVars
<1>2. ASSUME NEW r \in Reqs, CheckFails(r) \/ ScanClean(r) \/ StrikeFails(r)
      PROVE  UNCHANGED vars
  BY <1>2 DEF CheckFails, ScanClean, StrikeFails
<1>3. ASSUME NEW r \in Reqs,
             Arrive(r) \/ CountRequest(r) \/ ScanThreat(r) \/ PlaceBan(r)
      PROVE  Next
  <2>1. KeyOf[r] \in Keys
    OBVIOUS
  <2>2. QED
    BY <1>3, <2>1 DEF Arrive, CountRequest, ScanThreat, PlaceBan, Next
<1>4. ASSUME NEW k \in Keys, LiftBan(k)
      PROVE  Next
  BY <1>4 DEF LiftBan, Next
<1>5. CASE Sweep \/ TakeSnapshot \/ TimePasses
  BY <1>5 DEF Sweep, TakeSnapshot, TimePasses, Next, ListBans
<1>6. QED
  BY <1>1, <1>2, <1>3, <1>4, <1>5 DEF LimiterNext

LEMMA LimiterInitIsSound ==
  ASSUME LimiterInit
  PROVE  LimiterInv
<1>1. IInv
  BY InitIsSound DEF LimiterInit
<1>2. LimiterTypeOK
  BY <1>1 DEF LimiterInit, LimiterTypeOK, IInv
<1>3. LogsNumbered
  BY EmptyIsLogged DEF LimiterInit, Init, LogsNumbered, EmptyLog
<1>4. StrikesLogged
  BY DEF LimiterInit, Init, StrikesLogged, None
<1>5. QED
  BY <1>1, <1>2, <1>3, <1>4 DEF LimiterInv

\* The parts of the state that the steps of a request move.
LEMMA PlacesAndOverlap ==
  ASSUME LimiterInv, [LimiterNext]_allVars
  PROVE  /\ pc' \in [Reqs -> {"idle", "counting", "scanning", "banning"}]
         /\ overlap' \in [Keys -> SUBSET Reqs]
<1> USE LimiterAssumption DEF LimiterAssumption
<1>1. /\ pc \in [Reqs -> {"idle", "counting", "scanning", "banning"}]
      /\ overlap \in [Keys -> SUBSET Reqs]
  BY DEF LimiterInv, LimiterTypeOK
<1>2. CASE UNCHANGED allVars
  BY <1>1, <1>2 DEF allVars, limiterVars
<1>3. ASSUME NEW r \in Reqs, Arrive(r)
      PROVE  /\ pc' \in [Reqs -> {"idle", "counting", "scanning", "banning"}]
             /\ overlap' \in [Keys -> SUBSET Reqs]
  BY <1>1, <1>3 DEF Arrive, Goto
<1>4. ASSUME NEW r \in Reqs, CountRequest(r) \/ ScanThreat(r)
      PROVE  /\ pc' \in [Reqs -> {"idle", "counting", "scanning", "banning"}]
             /\ overlap' = overlap
  BY <1>1, <1>4 DEF CountRequest, ScanThreat, Goto
<1>5. ASSUME NEW r \in Reqs, CheckFails(r) \/ ScanClean(r) \/ StrikeFails(r)
      PROVE  /\ pc' \in [Reqs -> {"idle", "counting", "scanning", "banning"}]
             /\ overlap' = overlap
  BY <1>1, <1>5 DEF CheckFails, ScanClean, StrikeFails, Goto, history
<1>6. ASSUME NEW r \in Reqs, PlaceBan(r)
      PROVE  /\ pc' \in [Reqs -> {"idle", "counting", "scanning", "banning"}]
             /\ overlap' \in [Keys -> SUBSET Reqs]
  BY <1>1, <1>6 DEF PlaceBan, Goto, InFlight
<1>7. CASE Sweep \/ TakeSnapshot \/ TimePasses \/ \E k \in Keys : LiftBan(k)
  BY <1>1, <1>7 DEF Sweep, TakeSnapshot, TimePasses, LiftBan, limiterVars
<1>8. QED
  BY <1>1, <1>2, <1>3, <1>4, <1>5, <1>6, <1>7 DEF LimiterNext

\* What any step does to the three logs of a key.
LEMMA LogsMove ==
  ASSUME LimiterInv, [LimiterNext]_allVars
  PROVE  /\ admissions' = [k \in Keys |-> admissions'[k]]
         /\ strikeLog' = [k \in Keys |-> strikeLog'[k]]
         /\ \A k \in Keys :
               /\ \/ rateLimits'[k] \in {rateLimits[k], EmptyLog}
                  \/ rateLimits'[k].timestamps = Logged(LiveTimestamps(k))
               /\ \/ admissions'[k] \in {admissions[k], Logged(admissions[k])}
                  \/ admissions'[k] = {ts \in admissions[k] : ts[1] > now' - Window}
               /\ \/ strikeLog'[k] \in {strikeLog[k], Logged(strikeLog[k])}
                  \/ strikeLog'[k] = {ts \in strikeLog[k] : ts[1] > now' - SuspiciousTtl}
<1> USE LimiterAssumption DEF LimiterAssumption
<1>1. /\ rateLimits = [k \in Keys |-> rateLimits[k]]
      /\ admissions = [k \in Keys |-> admissions[k]]
      /\ strikeLog = [k \in Keys |-> strikeLog[k]]
  BY DEF LimiterInv, LimiterTypeOK, TypeOK
<1>2. CASE UNCHANGED allVars
  BY <1>1, <1>2 DEF allVars, limiterVars, vars
<1>3. ASSUME NEW r \in Reqs, Arrive(r)
      PROVE  /\ UNCHANGED <<admissions, strikeLog>>
             /\ \A k \in Keys : rateLimits'[k] \in {rateLimits[k], EmptyLog}
  BY <1>1, <1>3 DEF Arrive, CheckBan, CheckBans
<1>4. ASSUME NEW r \in Reqs, CountRequest(r)
      PROVE  /\ strikeLog' = strikeLog
             /\ \/ admissions' = admissions
                \/ admissions' = [admissions EXCEPT ![KeyOf[r]] = Logged(@)]
             /\ \A k \in Keys : \/ rateLimits'[k] = rateLimits[k]
                                \/ rateLimits'[k].timestamps = Logged(LiveTimestamps(k))
  BY <1>1, <1>4 DEF CountRequest, IncrementRateLimit, Logged, Stamp
<1>5. ASSUME NEW r \in Reqs,
             CheckFails(r) \/ ScanClean(r) \/ StrikeFails(r) \/ PlaceBan(r)
      PROVE  UNCHANGED <<admissions, strikeLog, rateLimits>>
  BY <1>5 DEF CheckFails, ScanClean, StrikeFails, PlaceBan, Ban, vars, history
<1>6. ASSUME NEW r \in Reqs, ScanThreat(r)
      PROVE  /\ UNCHANGED <<admissions, rateLimits>>
             /\ strikeLog' = [strikeLog EXCEPT ![KeyOf[r]] = Logged(@)]
  BY <1>6 DEF ScanThreat, RecordSuspicious
<1>7. ASSUME \/ \E k \in Keys : LiftBan(k)
             \/ Sweep \/ TakeSnapshot
      PROVE  /\ UNCHANGED <<admissions, strikeLog>>
             /\ \A k \in Keys : rateLimits'[k] \in {rateLimits[k], EmptyLog}
  BY <1>1, <1>7 DEF LiftBan, Unban, Sweep, Cleanup, TakeSnapshot, Snapshot, CheckBans,
                    limiterVars
<1>8. CASE TimePasses
  BY <1>1, <1>8 DEF TimePasses, Tick, storeVars, Recent
<1>9. QED
  <2>1. ASSUME NEW r \in Reqs, Arrive(r)
        PROVE  UNCHANGED <<admissions, strikeLog>>
               /\ \A k \in Keys : rateLimits'[k] \in {rateLimits[k], EmptyLog}
    BY <1>3, <2>1
  <2>2. CASE \E r \in Reqs : Arrive(r)
    BY <1>1, <1>3, <2>2
  <2>3. CASE \E r \in Reqs : CountRequest(r)
    <3>1. PICK r \in Reqs : CountRequest(r)
      BY <2>3
    <3>2. QED
      BY <1>1, <1>4, <3>1
  <2>4. CASE \E r \in Reqs : CheckFails(r) \/ ScanClean(r) \/ StrikeFails(r) \/ PlaceBan(r)
    BY <1>1, <1>5, <2>4
  <2>5. CASE \E r \in Reqs : ScanThreat(r)
    <3>1. PICK r \in Reqs : ScanThreat(r)
      BY <2>5
    <3>2. QED
      BY <1>1, <1>6, <3>1
  <2>6. CASE (\E k \in Keys : LiftBan(k)) \/ Sweep \/ TakeSnapshot
    BY <1>1, <1>7, <2>6
  <2>7. QED
    BY <1>2, <1>8, <2>2, <2>3, <2>4, <2>5, <2>6 DEF LimiterNext

\* The logs stay logs: finite, and numbered within each instant.
LEMMA LogsStayNumbered ==
  ASSUME LimiterInv, [LimiterNext]_allVars, IInv'
  PROVE  /\ admissions' \in [Keys -> SUBSET Timestamps]
         /\ strikeLog' \in [Keys -> SUBSET Timestamps]
         /\ LogsNumbered'
<1>1. now \in Nat /\ now' \in Nat /\ Window \in Nat /\ SuspiciousTtl \in Nat
  BY TtlAssumption DEF TtlAssumption, LimiterInv, IInv, TypeOK
<1>2. ASSUME NEW k \in Keys
      PROVE  /\ WellLogged(rateLimits'[k].timestamps)
             /\ admissions'[k] \in SUBSET Timestamps /\ WellLogged(admissions'[k])
             /\ strikeLog'[k] \in SUBSET Timestamps /\ WellLogged(strikeLog'[k])
  <2>1. /\ rateLimits[k].timestamps \in SUBSET Timestamps
        /\ admissions[k] \in SUBSET Timestamps /\ strikeLog[k] \in SUBSET Timestamps
        /\ WellLogged(rateLimits[k].timestamps)
        /\ WellLogged(admissions[k]) /\ WellLogged(strikeLog[k])
    BY DEF LimiterInv, LimiterTypeOK, TypeOK, Logs, LogsNumbered
  <2>2. LiveTimestamps(k) \in SUBSET Timestamps /\ WellLogged(LiveTimestamps(k))
    BY <1>1, <2>1, RecentIsLogged DEF LiveTimestamps
  <2>3. WellLogged(EmptyLog.timestamps)
    BY EmptyIsLogged DEF EmptyLog
  <2>4. WellLogged(rateLimits'[k].timestamps)
    <3>1. WellLogged(Logged(LiveTimestamps(k)))
      BY <1>1, <2>2, LoggedAddsOne
    <3>2. \/ rateLimits'[k] = rateLimits[k]
          \/ rateLimits'[k] = EmptyLog
          \/ rateLimits'[k].timestamps = Logged(LiveTimestamps(k))
      BY LogsMove
    <3>3. QED
      BY <2>1, <2>3, <3>1, <3>2
  <2>5. /\ Logged(admissions[k]) \in SUBSET Timestamps /\ WellLogged(Logged(admissions[k]))
        /\ Logged(strikeLog[k]) \in SUBSET Timestamps /\ WellLogged(Logged(strikeLog[k]))
    BY <1>1, <2>1, LoggedAddsOne
  <2>6. now' - Window \in Int /\ now' - SuspiciousTtl \in Int
    BY <1>1
  <2>7. admissions'[k] \in SUBSET Timestamps /\ WellLogged(admissions'[k])
    BY <2>1, <2>5, <2>6, LogsMove, RecentIsLogged
  <2>8. strikeLog'[k] \in SUBSET Timestamps /\ WellLogged(strikeLog'[k])
    BY <2>1, <2>5, <2>6, LogsMove, RecentIsLogged
  <2>9. QED
    BY <2>4, <2>7, <2>8
<1>3. QED
  BY <1>2, LogsMove DEF LogsNumbered

-----------------------------------------------------------------------------
(* The strikes. *)

\* An entry that is left, or removed, under a log that is left.
LEMMA StrikesLeft ==
  ASSUME LimiterInv, now' = now, strikeLog' = strikeLog,
         \A k \in Keys : suspicious'[k] \in {suspicious[k], None}
  PROVE  StrikesLogged'
<1>1. now \in Nat
  BY DEF LimiterInv, IInv, TypeOK
<1>2. ASSUME NEW k \in Keys, suspicious'[k].resetAt > now'
      PROVE  /\ suspicious'[k].resetAt <= now' + SuspiciousTtl
             /\ suspicious'[k].count <= Cardinality(Behind(k)')
  <2>1. suspicious'[k] = suspicious[k]
    BY <1>1, <1>2 DEF None
  <2>2. Behind(k)' = Behind(k)
    BY <2>1 DEF Behind
  <2>3. QED
    BY <1>2, <2>1, <2>2 DEF LimiterInv, StrikesLogged
<1>3. QED
  BY <1>2 DEF StrikesLogged

\* A strike is counted in the entry and in the log.
LEMMA StrikeIsLogged ==
  ASSUME LimiterInv, NEW k \in Keys,
         RecordSuspicious(k), strikeLog' = [strikeLog EXCEPT ![k] = Logged(@)]
  PROVE  /\ StrikesLogged'
         /\ Incremented(suspicious[k], SuspiciousTtl).count <= Cardinality(strikeLog'[k])
         /\ Cardinality(strikeLog'[k]) \in Nat
<1> DEFINE before == Behind(k)
           stamp == <<now, Cardinality({ts \in strikeLog[k] : ts[1] = now})>>
           entry == Incremented(suspicious[k], SuspiciousTtl)
<1>1. /\ now \in Nat /\ now' = now /\ SuspiciousTtl \in Nat \ {0}
      /\ suspicious \in [Keys -> Entries]
      /\ strikeLog \in [Keys -> SUBSET Timestamps]
      /\ WellLogged(strikeLog[k])
      /\ suspicious[k].resetAt \in Nat /\ suspicious[k].count \in Nat
  BY TtlAssumption DEF TtlAssumption, RecordSuspicious, LimiterInv, LimiterTypeOK, IInv,
                       TypeOK, LogsNumbered, Entries
<1>2. /\ stamp \in Timestamps /\ stamp \notin strikeLog[k]
      /\ Logged(strikeLog[k]) = strikeLog[k] \cup {stamp}
      /\ IsFiniteSet(Logged(strikeLog[k]))
      /\ strikeLog'[k] = Logged(strikeLog[k])
  BY <1>1, LoggedAddsOne DEF WellLogged
<1>3. stamp[1] = now
  OBVIOUS
<1> HIDE DEF stamp
<1>4. suspicious'[k] = entry
  BY <1>1 DEF RecordSuspicious
<1>5. IsFiniteSet(before) /\ Cardinality(before) \in Nat
  <2>1. before \subseteq strikeLog[k]
    BY DEF Behind
  <2>2. QED
    BY <1>1, <2>1, FS_Subset, FS_CardinalityType DEF WellLogged
<1>6. /\ entry.resetAt > now => entry.resetAt <= now + SuspiciousTtl
      /\ entry.count <= Cardinality(Behind(k)')
  <2>1. CASE suspicious[k].resetAt > now
    <3>1. entry.count = suspicious[k].count + 1 /\ entry.resetAt = suspicious[k].resetAt
      BY <1>1, <2>1 DEF Incremented, Entries
    <3>2. /\ suspicious[k].resetAt <= now + SuspiciousTtl
          /\ suspicious[k].count <= Cardinality(before)
      BY <2>1 DEF LimiterInv, StrikesLogged
    <3>3. Behind(k)' = before \cup {stamp}
      BY <1>1, <1>2, <1>3, <1>4, <3>1, <3>2 DEF Behind
    <3>4. stamp \notin before
      BY <1>2 DEF Behind
    <3> HIDE DEF before, entry
    <3>5. Cardinality(Behind(k)') = Cardinality(before) + 1
      BY <1>5, <3>3, <3>4, FS_AddElement
    <3>6. QED
      BY <1>1, <1>5, <3>1, <3>2, <3>5
  <2>2. CASE ~(suspicious[k].resetAt > now)
    <3>1. entry.count = 1 /\ entry.resetAt = now + SuspiciousTtl
      BY <2>2 DEF Incremented
    <3>2. stamp \in Behind(k)' /\ Behind(k)' \subseteq Logged(strikeLog[k])
      BY <1>1, <1>2, <1>3, <1>4, <3>1 DEF Behind
    <3>3. Cardinality({stamp}) = 1 /\ {stamp} \subseteq Behind(k)' /\ IsFiniteSet(Behind(k)')
      BY <1>2, <3>2, FS_Singleton, FS_Subset
    <3>4. 1 <= Cardinality(Behind(k)')
      BY <3>3, FS_Subset
    <3>5. QED
      BY <1>1, <3>1, <3>4
  <2>3. QED
    BY <2>1, <2>2
<1>7. ASSUME NEW q \in Keys, q # k
      PROVE  suspicious'[q] = suspicious[q] /\ Behind(q)' = Behind(q)
  BY <1>1, <1>7 DEF RecordSuspicious, Behind
<1>8. StrikesLogged'
  <2>1. ASSUME NEW q \in Keys, suspicious'[q].resetAt > now'
        PROVE  /\ suspicious'[q].resetAt <= now' + SuspiciousTtl
               /\ suspicious'[q].count <= Cardinality(Behind(q)')
    <3>1. CASE q = k
      BY <1>1, <1>4, <1>6, <2>1, <3>1
    <3>2. CASE q # k
      BY <1>1, <1>7, <2>1, <3>2 DEF LimiterInv, StrikesLogged
    <3>3. QED
      BY <3>1, <3>2
  <2>2. QED
    BY <2>1 DEF StrikesLogged
<1>9. /\ Cardinality(Behind(k)') <= Cardinality(strikeLog'[k])
      /\ Cardinality(Behind(k)') \in Nat /\ Cardinality(strikeLog'[k]) \in Nat
  <2>1. Behind(k)' \subseteq strikeLog'[k] /\ IsFiniteSet(strikeLog'[k])
    BY <1>2 DEF Behind
  <2>2. QED
    BY <2>1, FS_Subset, FS_CardinalityType
<1>10. entry.count \in Nat
  BY <1>1 DEF Incremented, Entries
<1>11. QED
  BY <1>6, <1>8, <1>9, <1>10

LEMMA StrikesStayLogged ==
  ASSUME LimiterInv, [LimiterNext]_allVars
  PROVE  StrikesLogged'
<1> USE LimiterAssumption DEF LimiterAssumption
<1>1. /\ now \in Nat /\ SuspiciousTtl \in Nat
      /\ suspicious \in [Keys -> Entries]
  BY TtlAssumption DEF TtlAssumption, LimiterInv, IInv, TypeOK
<1>2. CASE UNCHANGED allVars
  BY <1>2, StrikesLeft DEF allVars, vars, limiterVars
<1>3. ASSUME NEW r \in Reqs,
             \/ Arrive(r) \/ CountRequest(r) \/ CheckFails(r) \/ ScanClean(r)
             \/ StrikeFails(r) \/ PlaceBan(r)
      PROVE  StrikesLogged'
  <2>1. /\ now' = now /\ strikeLog' = strikeLog
        /\ \A k \in Keys : suspicious'[k] \in {suspicious[k], None}
    BY <1>1, <1>3 DEF Arrive, CheckBan, CheckBans, CountRequest, IncrementRateLimit, CheckFails,
                      ScanClean, StrikeFails, PlaceBan, Ban, vars, history
  <2>2. QED
    BY <2>1, StrikesLeft
<1>4. ASSUME NEW r \in Reqs, ScanThreat(r)
      PROVE  StrikesLogged'
  BY <1>4, StrikeIsLogged DEF ScanThreat
<1>5. CASE (\E k \in Keys : LiftBan(k)) \/ Sweep \/ TakeSnapshot
  <2>1. /\ now' = now /\ strikeLog' = strikeLog
        /\ \A k \in Keys : suspicious'[k] \in {suspicious[k], None}
    BY <1>1, <1>5 DEF LiftBan, Unban, Sweep, Cleanup, TakeSnapshot, Snapshot, CheckBans,
                      limiterVars
  <2>2. QED
    BY <2>1, StrikesLeft
<1>6. CASE TimePasses
  <2>1. /\ now' = now + 1 /\ suspicious' = suspicious
        /\ strikeLog' = [k \in Keys |-> {ts \in strikeLog[k] : ts[1] > now' - SuspiciousTtl}]
    BY <1>6 DEF TimePasses, Tick, storeVars, Recent
  <2>2. ASSUME NEW k \in Keys, suspicious'[k].resetAt > now'
        PROVE  /\ suspicious'[k].resetAt <= now' + SuspiciousTtl
               /\ suspicious'[k].count <= Cardinality(Behind(k)')
    <3>1. suspicious[k].resetAt \in Nat
      BY <1>1 DEF Entries
    <3>2. \A ts \in strikeLog[k] : ts[1] \in Nat
      BY DEF LimiterInv, LimiterTypeOK, Timestamps
    <3>3. Behind(k)' = Behind(k)
      BY <1>1, <2>1, <2>2, <3>1, <3>2 DEF Behind
    <3>4. QED
      BY <1>1, <2>1, <2>2, <3>1, <3>3 DEF LimiterInv, StrikesLogged
  <2>3. QED
    BY <2>2 DEF StrikesLogged
<1>7. QED
  BY <1>2, <1>3, <1>4, <1>5, <1>6 DEF LimiterNext

LEMMA LimiterStepIsSound ==
  ASSUME LimiterInv, [LimiterNext]_allVars
  PROVE  LimiterInv'
<1>1. IInv'
  BY LimiterUsesStore, StepIsSound DEF LimiterInv
<1>2. QED
  BY <1>1, PlacesAndOverlap, LogsStayNumbered, StrikesStayLogged
     DEF LimiterInv, LimiterTypeOK, IInv

LEMMA LimiterInvariance == LimiterSpec => []LimiterInv
<1>1. LimiterInit => LimiterInv
  BY LimiterInitIsSound
<1>2. LimiterInv /\ [LimiterNext]_allVars => LimiterInv'
  BY LimiterStepIsSound
<1>3. QED
  BY <1>1, <1>2, PTL DEF LimiterSpec

\* The limiter, its histories and the store under it keep their types.
THEOREM LimiterTypeCorrect == LimiterSpec => []LimiterTypeOK
<1>1. LimiterInv => LimiterTypeOK
  BY DEF LimiterInv
<1>2. QED
  BY <1>1, LimiterInvariance, PTL

\* For any requests and limits: a request goes to ban only over as many strikes
\* as the threshold asks for, none older than the life of a strike count.
THEOREM BansHaveStrikes == LimiterSpec => StrikesBehindBan
<1> DEFINE Decided == \A r \in Reqs :
               pc[r] # "banning" /\ pc'[r] = "banning"
                   => Cardinality(strikeLog'[KeyOf[r]]) >= Threshold
<1>1. ASSUME LimiterInv, LimiterNext, NEW r \in Reqs, pc[r] # "banning", pc'[r] = "banning"
      PROVE  Cardinality(strikeLog'[KeyOf[r]]) >= Threshold
  <2>1. pc \in [Reqs -> {"idle", "counting", "scanning", "banning"}] /\ KeyOf[r] \in Keys
    BY <1>1, LimiterAssumption DEF LimiterInv, LimiterTypeOK, LimiterAssumption
  <2>2. ScanThreat(r)
    <3>1. \A q \in Reqs : ~(\/ Arrive(q) \/ CountRequest(q) \/ CheckFails(q) \/ ScanClean(q)
                            \/ PlaceBan(q) \/ StrikeFails(q))
      BY <1>1, <2>1 DEF Arrive, CountRequest, CheckFails, ScanClean, PlaceBan, StrikeFails, Goto
    <3>2. ~(Sweep \/ TakeSnapshot \/ TimePasses \/ \E k \in Keys : LiftBan(k))
      BY <1>1 DEF Sweep, TakeSnapshot, TimePasses, LiftBan, limiterVars
    <3>3. \A q \in Reqs : ScanThreat(q) => q = r
      BY <1>1, <2>1 DEF ScanThreat, Goto
    <3>4. QED
      BY <1>1, <3>1, <3>2, <3>3 DEF LimiterNext
  <2>3. Incremented(suspicious[KeyOf[r]], SuspiciousTtl).count >= Threshold
    BY <1>1, <2>1, <2>2 DEF ScanThreat, Goto
  <2>4. /\ RecordSuspicious(KeyOf[r])
        /\ strikeLog' = [strikeLog EXCEPT ![KeyOf[r]] = Logged(@)]
    BY <2>2 DEF ScanThreat
  <2>5. /\ Incremented(suspicious[KeyOf[r]], SuspiciousTtl).count <= Cardinality(strikeLog'[KeyOf[r]])
        /\ Cardinality(strikeLog'[KeyOf[r]]) \in Nat
    BY <1>1, <2>1, <2>4, StrikeIsLogged
  <2>6. Incremented(suspicious[KeyOf[r]], SuspiciousTtl).count \in Nat
    BY <1>1, <2>1, TtlAssumption, IncrementedType
       DEF TtlAssumption, LimiterInv, IInv, TypeOK, Entries
  <2>7. QED
    BY <2>3, <2>5, <2>6, LimiterAssumption DEF LimiterAssumption
<1>2. LimiterInv /\ [LimiterNext]_allVars => [Decided]_allVars
  BY <1>1
<1>3. QED
  BY <1>2, LimiterInvariance, PTL DEF LimiterSpec, StrikesBehindBan

-----------------------------------------------------------------------------
(* Who is past the check of a banned key.  Two readings of it: a ban that   *)
(* is in force, and a ban that the store still holds, over or not.  The     *)
(* second is what a request that counts itself can rely on.                 *)

\* Past the check of isBanned and about to be counted.
Counting(r) == pc[r] = "counting"

\* A held ban: no request that is about to be counted came after it, and no
\* admission is younger than it.
HeldBanStops == \A k \in Keys : bans[k] # 0 =>
    /\ \A r \in Reqs : KeyOf[r] = k /\ Counting(r) => r \in overlap[k]
    /\ \A ts \in admissions[k] : ts[1] + BanTtl <= bans[k]

\* The histories of admissions hold the last window only.
AdmissionsRecent == \A k \in Keys : \A ts \in admissions[k] :
    ts[1] <= now /\ now < ts[1] + Window

LEMMA StayOutOfBan ==
  ASSUME LimiterInv, OnlyOverlapPastBan, FailClosed \/ ~StoreMayFail,
         [LimiterNext]_allVars
  PROVE  OnlyOverlapPastBan'
<1> USE LimiterAssumption DEF LimiterAssumption
<1>1. /\ pc \in [Reqs -> {"idle", "counting", "scanning", "banning"}]
      /\ overlap \in [Keys -> SUBSET Reqs] /\ bans \in [Keys -> Nat] /\ now \in Nat
  BY DEF LimiterInv, LimiterTypeOK, IInv, TypeOK
<1>2. ASSUME \A k \in Keys : IsBanned(k)' => IsBanned(k),
             \A r \in Reqs : pc'[r] # "idle" => pc[r] # "idle",
             overlap' = overlap
      PROVE  OnlyOverlapPastBan'
  BY <1>2 DEF OnlyOverlapPastBan
<1>3. CASE UNCHANGED allVars
  BY <1>2, <1>3 DEF allVars, vars, limiterVars, IsBanned
<1>4. ASSUME NEW r \in Reqs, Arrive(r)
      PROVE  OnlyOverlapPastBan'
  <2>1. /\ pc[r] = "idle"
        /\ pc' = IF IsBanned(KeyOf[r]) THEN pc ELSE [pc EXCEPT ![r] = "counting"]
        /\ \A k \in Keys : IsBanned(k)' => IsBanned(k)
        /\ overlap' = [overlap EXCEPT ![KeyOf[r]] = @ \ {r}]
    BY <1>1, <1>4 DEF Arrive, CheckBan, CheckBans, IsBanned, Goto
  <2>2. ASSUME NEW q \in Reqs, pc'[q] # "idle", IsBanned(KeyOf[q])'
        PROVE  q \in overlap'[KeyOf[q]]
    <3>1. IsBanned(KeyOf[q])
      BY <2>1, <2>2
    <3>2. q # r
      BY <1>1, <2>1, <2>2, <3>1
    <3>3. pc[q] # "idle"
      BY <1>1, <2>1, <2>2, <3>2
    <3>4. QED
      BY <1>1, <2>1, <3>1, <3>2, <3>3 DEF OnlyOverlapPastBan
  <2>3. QED
    BY <2>2 DEF OnlyOverlapPastBan
<1>5. ASSUME NEW r \in Reqs,
             \/ CountRequest(r) \/ CheckFails(r) \/ ScanClean(r) \/ ScanThreat(r)
             \/ StrikeFails(r)
      PROVE  OnlyOverlapPastBan'
  <2>1. /\ \A k \in Keys : IsBanned(k)' => IsBanned(k)
        /\ overlap' = overlap
    BY <1>5 DEF CountRequest, IncrementRateLimit, CheckFails, ScanClean, ScanThreat,
                RecordSuspicious, StrikeFails, vars, history, IsBanned
  <2>2. \A q \in Reqs : pc'[q] # "idle" => pc[q] # "idle"
    BY <1>1, <1>5 DEF CountRequest, CheckFails, ScanClean, ScanThreat, StrikeFails, Goto
  <2>3. QED
    BY <1>2, <2>1, <2>2
<1>6. ASSUME NEW r \in Reqs, PlaceBan(r)
      PROVE  OnlyOverlapPastBan'
  <2>1. /\ pc' = [pc EXCEPT ![r] = "idle"]
        /\ \A k \in Keys : k # KeyOf[r] =>
              (IsBanned(k)' => IsBanned(k)) /\ overlap'[k] = overlap[k]
        /\ overlap'[KeyOf[r]] =
              IF IsBanned(KeyOf[r]) THEN overlap[KeyOf[r]] ELSE InFlight(KeyOf[r]) \ {r}
    BY <1>1, <1>6 DEF PlaceBan, Ban, Goto, IsBanned
  <2>2. ASSUME NEW q \in Reqs, pc'[q] # "idle", IsBanned(KeyOf[q])'
        PROVE  q \in overlap'[KeyOf[q]]
    <3>1. q # r /\ pc[q] # "idle"
      BY <1>1, <2>1, <2>2
    <3>2. QED
      BY <2>1, <2>2, <3>1 DEF OnlyOverlapPastBan, InFlight
  <2>3. QED
    BY <2>2 DEF OnlyOverlapPastBan
<1>7. CASE Sweep \/ TakeSnapshot \/ TimePasses \/ \E k \in Keys : LiftBan(k)
  <2>1. /\ \A k \in Keys : IsBanned(k)' => IsBanned(k)
        /\ overlap' = overlap /\ pc' = pc
    BY <1>1, <1>7 DEF Sweep, Cleanup, TakeSnapshot, Snapshot, CheckBans, TimePasses, Tick,
                      LiftBan, Unban, limiterVars, storeVars, IsBanned
  <2>2. QED
    BY <1>2, <2>1
<1>8. QED
  BY <1>3, <1>4, <1>5, <1>6, <1>7 DEF LimiterNext

\* For any requests, addresses and limits: what is past the check of a banned
\* address was in flight when the ban was placed, unless the store may fail and
\* the mode is fail-open.
THEOREM BansKeepOut ==
  ASSUME FailClosed \/ ~StoreMayFail
  PROVE  LimiterSpec => []OnlyOverlapPastBan
<1>1. LimiterInit => OnlyOverlapPastBan
  BY DEF LimiterInit, OnlyOverlapPastBan
<1>2. LimiterInv /\ OnlyOverlapPastBan /\ [LimiterNext]_allVars => OnlyOverlapPastBan'
  BY StayOutOfBan
<1>3. QED
  BY <1>1, <1>2, LimiterInvariance, PTL DEF LimiterSpec

-----------------------------------------------------------------------------
(* The quota.  What was admitted within a window falls into two parts: the  *)
(* admissions before the log was last dropped, and those after it.  The     *)
(* second are no more than the log has timestamps, from any time on; the    *)
(* first lack the one whose age was the reason for dropping.                *)

Since(S, t) == {ts \in S : ts[1] >= t}
After(S, t) == {ts \in S : ts[1] > t}

\* Of the admissions A, those of P are from before the log was last dropped.
SplitBy(A, log, P) ==
    /\ P \subseteq A
    /\ \A t \in Nat : Cardinality(Since(A \ P, t)) <= Cardinality(Since(log, t))
    /\ Cardinality(A \ P) <= MaxRequests
    /\ Cardinality(P) <= MaxRequests - 1
    /\ \A p \in P, ts \in log : p[1] <= ts[1]
    /\ \A ts \in log : Cardinality(After(A \ P, ts[1])) <= MaxRequests - 1

TwoLogs == \A k \in Keys :
    \E P \in SUBSET admissions[k] : SplitBy(admissions[k], rateLimits[k].timestamps, P)

QuotaInv == HeldBanStops /\ AdmissionsRecent /\ TwoLogs

\* A smaller set has no more elements, and both numbers are naturals.
LEMMA FewerIn ==
  ASSUME NEW S, NEW T, T \subseteq S, IsFiniteSet(S)
  PROVE  /\ IsFiniteSet(T) /\ Cardinality(T) <= Cardinality(S)
         /\ Cardinality(T) \in Nat /\ Cardinality(S) \in Nat
  BY FS_Subset, FS_CardinalityType

\* What is since or after a time is part of the set, and as finite.
LEMMA PartsOf ==
  ASSUME NEW S, IsFiniteSet(S), NEW t
  PROVE  /\ IsFiniteSet(Since(S, t)) /\ Cardinality(Since(S, t)) \in Nat
         /\ Cardinality(Since(S, t)) <= Cardinality(S)
         /\ IsFiniteSet(After(S, t)) /\ Cardinality(After(S, t)) \in Nat
         /\ Cardinality(S) \in Nat
<1>1. Since(S, t) \subseteq S /\ After(S, t) \subseteq S
  BY DEF Since, After
<1>2. QED
  BY <1>1, FewerIn

\* Admissions that get too old do no harm.
LEMMA SplitOfFewer ==
  ASSUME NEW A, IsFiniteSet(A), NEW log, IsFiniteSet(log), NEW P, SplitBy(A, log, P),
         NEW B \in SUBSET A
  PROVE  SplitBy(B, log, P \cap B)
<1> DEFINE Q == P \cap B
<1>1. B \ Q \subseteq A \ P /\ Q \subseteq P
  OBVIOUS
<1>2. IsFiniteSet(A \ P) /\ IsFiniteSet(P)
  BY FewerIn DEF SplitBy
<1> HIDE DEF Q
<1>3. ASSUME NEW t
      PROVE  /\ Cardinality(Since(B \ Q, t)) <= Cardinality(Since(A \ P, t))
             /\ Cardinality(Since(B \ Q, t)) \in Nat /\ Cardinality(Since(A \ P, t)) \in Nat
             /\ Cardinality(After(B \ Q, t)) <= Cardinality(After(A \ P, t))
             /\ Cardinality(After(B \ Q, t)) \in Nat /\ Cardinality(After(A \ P, t)) \in Nat
  <2>1. /\ Since(B \ Q, t) \subseteq Since(A \ P, t)
        /\ After(B \ Q, t) \subseteq After(A \ P, t)
    BY <1>1 DEF Since, After
  <2>2. QED
    BY <1>2, <2>1, FewerIn, PartsOf
<1>4. /\ Cardinality(B \ Q) <= Cardinality(A \ P) /\ Cardinality(Q) <= Cardinality(P)
      /\ Cardinality(B \ Q) \in Nat /\ Cardinality(A \ P) \in Nat
      /\ Cardinality(Q) \in Nat /\ Cardinality(P) \in Nat
  BY <1>1, <1>2, FewerIn
<1>5. MaxRequests \in Nat
  BY LimiterAssumption DEF LimiterAssumption
<1>6. ASSUME NEW t \in Nat
      PROVE  Cardinality(Since(B \ Q, t)) <= Cardinality(Since(log, t))
  <2>1. Cardinality(Since(A \ P, t)) <= Cardinality(Since(log, t))
    BY DEF SplitBy
  <2>2. Cardinality(Since(log, t)) \in Nat
    BY PartsOf
  <2>3. QED
    BY <1>3, <2>1, <2>2
<1>7. ASSUME NEW ts \in log
      PROVE  Cardinality(After(B \ Q, ts[1])) <= MaxRequests - 1
  <2>1. Cardinality(After(A \ P, ts[1])) <= MaxRequests - 1
    BY DEF SplitBy
  <2>2. QED
    BY <1>3, <1>5, <2>1
<1>8. /\ Q \subseteq B
      /\ Cardinality(B \ Q) <= MaxRequests /\ Cardinality(Q) <= MaxRequests - 1
      /\ \A p \in Q, ts \in log : p[1] <= ts[1]
  BY <1>1, <1>4, <1>5 DEF SplitBy, Q
<1>9. QED
  BY <1>6, <1>7, <1>8 DEF SplitBy, Q

\* What an increment trims off the log is too old to be matched by an admission.
LEMMA CountedInLive ==
  ASSUME NEW A \in SUBSET Timestamps, IsFiniteSet(A),
         NEW log \in SUBSET Timestamps, IsFiniteSet(log),
         NEW P, SplitBy(A, log, P),
         now \in Nat, \A a \in A : a[1] <= now /\ now < a[1] + Window,
         NEW t \in Nat
  PROVE  Cardinality(Since(A \ P, t))
             <= Cardinality(Since({ts \in log : ts[1] > now - Window}, t))
<1> DEFINE live == {ts \in log : ts[1] > now - Window}
           first == IF now >= Window THEN now - Window + 1 ELSE 0
           u == IF t >= first THEN t ELSE first
<1>1. Window \in Nat /\ first \in Nat /\ u \in Nat
  BY TtlAssumption DEF TtlAssumption
<1>2. \A a \in A \cup log : a[1] \in Nat
  BY DEF Timestamps
<1>3. Since(A \ P, t) = Since(A \ P, u)
  BY <1>1, <1>2 DEF Since
<1>4. Since(log, u) \subseteq Since(live, t)
  BY <1>1, <1>2 DEF Since
<1>5. IsFiniteSet(live)
  BY FewerIn
<1>6. IsFiniteSet(A \ P)
  BY FewerIn
<1> HIDE DEF live, u
<1>7. Cardinality(Since(A \ P, u)) <= Cardinality(Since(log, u))
  BY <1>1 DEF SplitBy
<1>8. /\ Cardinality(Since(log, u)) <= Cardinality(Since(live, t))
      /\ Cardinality(Since(log, u)) \in Nat /\ Cardinality(Since(live, t)) \in Nat
      /\ Cardinality(Since(A \ P, u)) \in Nat
  BY <1>4, <1>5, <1>6, FewerIn, PartsOf
<1>9. QED
  BY <1>3, <1>7, <1>8 DEF live

\* A request that is counted and not admitted, or that a ban overtook.
LEMMA SplitOfCounted ==
  ASSUME NEW A \in SUBSET Timestamps, IsFiniteSet(A),
         NEW log \in SUBSET Timestamps, IsFiniteSet(log),
         NEW P, SplitBy(A, log, P),
         now \in Nat, \A a \in A : a[1] <= now /\ now < a[1] + Window,
         NEW stamp \in Timestamps, stamp[1] = now
  PROVE  SplitBy(A, {ts \in log : ts[1] > now - Window} \cup {stamp}, P)
<1> DEFINE live == {ts \in log : ts[1] > now - Window}
           kept == live \cup {stamp}
<1>1. \A a \in A \cup log : a[1] \in Nat
  BY DEF Timestamps
<1>2. IsFiniteSet(live) /\ IsFiniteSet(kept) /\ IsFiniteSet(A \ P)
  BY FewerIn, FS_AddElement
<1>3. MaxRequests \in Nat \ {0}
  BY LimiterAssumption DEF LimiterAssumption
<1>4. ASSUME NEW t \in Nat
      PROVE  Cardinality(Since(A \ P, t)) <= Cardinality(Since(kept, t))
  <2>1. Cardinality(Since(A \ P, t)) <= Cardinality(Since(live, t))
    BY CountedInLive
  <2>2. Since(live, t) \subseteq Since(kept, t)
    BY DEF Since
  <2> HIDE DEF live, kept
  <2>3. /\ Cardinality(Since(live, t)) <= Cardinality(Since(kept, t))
        /\ Cardinality(Since(live, t)) \in Nat /\ Cardinality(Since(kept, t)) \in Nat
        /\ Cardinality(Since(A \ P, t)) \in Nat
    BY <1>2, <2>2, FewerIn, PartsOf
  <2>4. QED
    BY <2>1, <2>3
<1>5. \A p \in P, ts \in kept : p[1] <= ts[1]
  BY DEF SplitBy
<1>6. ASSUME NEW ts \in kept
      PROVE  Cardinality(After(A \ P, ts[1])) <= MaxRequests - 1
  <2>1. CASE ts \in log
    BY <2>1 DEF SplitBy
  <2>2. CASE ts = stamp
    <3>1. After(A \ P, ts[1]) = {}
      BY <1>1, <2>2 DEF After
    <3>2. Cardinality(After(A \ P, ts[1])) = 0
      BY <3>1, FS_EmptySet
    <3> HIDE DEF kept
    <3>3. QED
      BY <1>3, <3>2
  <2>3. QED
    BY <2>1, <2>2
<1> HIDE DEF kept
<1>7. SplitBy(A, kept, P)
  BY <1>4, <1>5, <1>6 DEF SplitBy
<1>8. QED
  BY <1>7 DEF kept

\* A request that is admitted: it is counted with the others since the log was
\* last dropped, and they are within the maximum.
LEMMA SplitOfAdmitted ==
  ASSUME NEW A \in SUBSET Timestamps, IsFiniteSet(A),
         NEW log \in SUBSET Timestamps, IsFiniteSet(log),
         NEW P, SplitBy(A, log, P),
         now \in Nat, \A a \in A : a[1] <= now /\ now < a[1] + Window,
         NEW stamp \in Timestamps, stamp[1] = now,
         stamp \notin {ts \in log : ts[1] > now - Window},
         Cardinality({ts \in log : ts[1] > now - Window}) + 1 <= MaxRequests,
         NEW new \in Timestamps, new[1] = now, new \notin A
  PROVE  SplitBy(A \cup {new}, {ts \in log : ts[1] > now - Window} \cup {stamp}, P)
<1> DEFINE live == {ts \in log : ts[1] > now - Window}
           kept == live \cup {stamp}
           C == A \ P
           D == C \cup {new}
<1>1. MaxRequests \in Nat \ {0}
  BY LimiterAssumption DEF LimiterAssumption
<1>2. IsFiniteSet(live) /\ IsFiniteSet(kept) /\ IsFiniteSet(C) /\ IsFiniteSet(D)
  BY FewerIn, FS_AddElement
<1>3. (A \cup {new}) \ P = D
  BY DEF SplitBy
<1>4. new \notin C /\ stamp \notin live
  OBVIOUS
<1>5. Cardinality(kept) = Cardinality(live) + 1 /\ Cardinality(live) \in Nat
  <2> HIDE DEF live
  <2>1. QED
    BY <1>2, <1>4, FS_AddElement, FS_CardinalityType
<1>6. ASSUME NEW t \in Nat
      PROVE  Cardinality(Since(D, t)) <= Cardinality(Since(kept, t))
  <2>1. CASE t <= now
    <3>1. Since(D, t) = Since(C, t) \cup {new} /\ Since(kept, t) = Since(live, t) \cup {stamp}
      BY <2>1 DEF Since
    <3>2. new \notin Since(C, t) /\ stamp \notin Since(live, t)
      BY <1>4 DEF Since
    <3>3. Cardinality(Since(C, t)) <= Cardinality(Since(live, t))
      BY CountedInLive
    <3> HIDE DEF live, kept, C, D
    <3>4. /\ IsFiniteSet(Since(C, t)) /\ IsFiniteSet(Since(live, t))
          /\ Cardinality(Since(C, t)) \in Nat /\ Cardinality(Since(live, t)) \in Nat
      BY <1>2, PartsOf
    <3>5. /\ Cardinality(Since(C, t) \cup {new}) = Cardinality(Since(C, t)) + 1
          /\ Cardinality(Since(live, t) \cup {stamp}) = Cardinality(Since(live, t)) + 1
      BY <3>2, <3>4, FS_AddElement
    <3>6. QED
      BY <3>1, <3>3, <3>4, <3>5
  <2>2. CASE ~(t <= now)
    <3>1. Since(D, t) = {}
      BY <2>2 DEF Since, Timestamps
    <3> HIDE DEF kept, D
    <3>2. Cardinality(Since(kept, t)) \in Nat
      BY <1>2, PartsOf
    <3>3. QED
      BY <3>1, <3>2, FS_EmptySet
  <2>3. QED
    BY <2>1, <2>2
<1>7. Cardinality(D) <= MaxRequests
  <2>1. Since(D, 0) = D
    BY DEF Since, Timestamps
  <2> HIDE DEF kept, D
  <2>2. Cardinality(D) <= Cardinality(Since(kept, 0))
    BY <1>6, <2>1
  <2>3. /\ Cardinality(Since(kept, 0)) <= Cardinality(kept)
        /\ Cardinality(Since(kept, 0)) \in Nat /\ Cardinality(D) \in Nat
    BY <1>2, PartsOf, FS_CardinalityType
  <2>4. QED
    BY <1>1, <1>5, <2>2, <2>3 DEF live
<1>8. \A p \in P, ts \in kept : p[1] <= ts[1]
  BY DEF SplitBy
<1>9. ASSUME NEW ts \in kept
       PROVE  Cardinality(After(D, ts[1])) <= MaxRequests - 1
  <2>1. ts[1] \in Nat /\ ts[1] + 1 \in Nat
    BY DEF Timestamps
  <2>2. After(D, ts[1]) = Since(D, ts[1] + 1)
    BY <2>1 DEF After, Since, Timestamps
  <2>3. Since(kept, ts[1] + 1) \subseteq kept \ {ts}
    BY <2>1 DEF Since
  <2> HIDE DEF kept, D
  <2>4. Cardinality(kept \ {ts}) = Cardinality(kept) - 1 /\ IsFiniteSet(kept \ {ts})
    BY <1>2, FS_RemoveElement
  <2>5. /\ Cardinality(Since(kept, ts[1] + 1)) <= Cardinality(kept \ {ts})
        /\ Cardinality(Since(kept, ts[1] + 1)) \in Nat
    BY <2>3, <2>4, FewerIn
  <2>6. /\ Cardinality(Since(D, ts[1] + 1)) <= Cardinality(Since(kept, ts[1] + 1))
        /\ Cardinality(Since(D, ts[1] + 1)) \in Nat
    BY <1>2, <1>6, <2>1, PartsOf
  <2>7. QED
    BY <1>1, <1>5, <2>2, <2>4, <2>5, <2>6 DEF live
<1>10. P \subseteq A \cup {new} /\ Cardinality(P) <= MaxRequests - 1
  BY DEF SplitBy
<1> HIDE DEF kept, D
<1>11. SplitBy(A \cup {new}, kept, P)
  BY <1>3, <1>6, <1>7, <1>8, <1>9, <1>10 DEF SplitBy
<1>12. QED
  BY <1>11 DEF kept

\* An empty log under no admissions, or under those of a dropped log.
LEMMA SplitOfDropped ==
  ASSUME NEW A, IsFiniteSet(A), Cardinality(A) <= MaxRequests - 1
  PROVE  SplitBy(A, {}, A)
<1>1. MaxRequests \in Nat \ {0}
  BY LimiterAssumption DEF LimiterAssumption
<1>2. A \ A = {} /\ \A t : Since(A \ A, t) = {} /\ Since({}, t) = {}
  BY DEF Since
<1>3. QED
  BY <1>1, <1>2, FS_EmptySet DEF SplitBy

\* The sweep drops a log whose oldest timestamp is a window old.  Admissions
\* before the log was begun are older still, and among those since then one
\* makes no difference to the window any more.
LEMMA SplitOfSwept ==
  ASSUME NEW A \in SUBSET Timestamps, IsFiniteSet(A), NEW log, NEW P, SplitBy(A, log, P),
         now \in Nat, \A a \in A : a[1] <= now /\ now < a[1] + Window,
         NEW oldest \in log, oldest[1] \in Nat, oldest[1] + Window <= now
  PROVE  SplitBy(A, {}, A)
<1>1. Window \in Nat /\ \A a \in A : a[1] \in Nat /\ a[1] > oldest[1]
  BY TtlAssumption DEF TtlAssumption, Timestamps
<1>2. P = {}
  BY <1>1 DEF SplitBy
<1>3. After(A \ P, oldest[1]) = A
  BY <1>1, <1>2 DEF After
<1>4. Cardinality(A) <= MaxRequests - 1
  BY <1>3 DEF SplitBy
<1>5. QED
  BY <1>4, SplitOfDropped

\* A ban that outlasts the window leaves no admission behind it.
LEMMA OverBanLeavesNone ==
  ASSUME LimiterInv, HeldBanStops, AdmissionsRecent, BanTtl >= Window,
         NEW k \in Keys, BanLapsed(k)
  PROVE  admissions[k] = {}
<1>1. /\ bans[k] # 0 /\ bans[k] <= now /\ bans[k] \in Nat /\ now \in Nat
      /\ Window \in Nat /\ BanTtl \in Nat
  BY TtlAssumption DEF TtlAssumption, BanLapsed, LimiterInv, IInv, TypeOK
<1>2. \A ts \in admissions[k] : /\ ts[1] \in Nat /\ ts[1] + BanTtl <= bans[k]
                                /\ now < ts[1] + Window
  BY <1>1 DEF HeldBanStops, AdmissionsRecent, LimiterInv, LimiterTypeOK, Timestamps
<1>3. QED
  BY <1>1, <1>2

LEMMA HeldBanStep ==
  ASSUME LimiterInv, HeldBanStops, AdmissionsRecent, [LimiterNext]_allVars
  PROVE  HeldBanStops'
<1> USE LimiterAssumption DEF LimiterAssumption
<1>1. /\ pc \in [Reqs -> {"idle", "counting", "scanning", "banning"}]
      /\ overlap \in [Keys -> SUBSET Reqs] /\ bans \in [Keys -> Nat] /\ now \in Nat
      /\ BanTtl \in Nat \ {0}
      /\ admissions \in [Keys -> SUBSET Timestamps]
  BY TtlAssumption DEF TtlAssumption, LimiterInv, LimiterTypeOK, IInv, TypeOK
<1>2. ASSUME \A k \in Keys : bans'[k] \in {bans[k], 0},
             \A r \in Reqs : pc'[r] = "counting" => pc[r] = "counting",
             overlap' = overlap,
             \A k \in Keys : admissions'[k] \subseteq admissions[k]
      PROVE  HeldBanStops'
  BY <1>2 DEF HeldBanStops, Counting
<1>3. CASE UNCHANGED allVars
  BY <1>2, <1>3 DEF allVars, vars, limiterVars
<1>4. ASSUME NEW r \in Reqs, Arrive(r)
      PROVE  HeldBanStops'
  <2> DEFINE a == KeyOf[r]
  <2>1. /\ a \in Keys /\ pc[r] = "idle"
        /\ pc' = IF IsBanned(a) THEN pc ELSE [pc EXCEPT ![r] = "counting"]
        /\ bans' = [k \in Keys |-> IF k \in {q \in {a} : BanLapsed(q)} THEN 0 ELSE bans[k]]
        /\ overlap' = [overlap EXCEPT ![a] = @ \ {r}]
        /\ admissions' = admissions
    BY <1>4 DEF Arrive, CheckBan, CheckBans, Goto
  <2>2. ~IsBanned(a) => bans'[a] = 0
    BY <1>1, <2>1 DEF IsBanned, BanLapsed
  <2> HIDE DEF a
  <2>3. ASSUME NEW k \in Keys, bans'[k] # 0
        PROVE  /\ \A q \in Reqs : KeyOf[q] = k /\ Counting(q)' => q \in overlap'[k]
               /\ \A ts \in admissions'[k] : ts[1] + BanTtl <= bans'[k]
    <3>1. bans'[k] = bans[k]
      BY <2>1, <2>3
    <3>2. ASSUME NEW q \in Reqs, KeyOf[q] = k, Counting(q)'
          PROVE  q \in overlap'[k]
      <4>1. q # r /\ Counting(q)
        BY <1>1, <2>1, <2>2, <2>3, <3>2 DEF Counting, a
      <4>2. q \in overlap[k]
        BY <2>3, <3>1, <3>2, <4>1 DEF HeldBanStops
      <4>3. QED
        BY <1>1, <2>1, <4>1, <4>2
    <3>3. QED
      BY <2>1, <2>3, <3>1, <3>2 DEF HeldBanStops
  <2>4. QED
    BY <2>3 DEF HeldBanStops
<1>5. ASSUME NEW r \in Reqs, CountRequest(r)
      PROVE  HeldBanStops'
  <2>1. /\ KeyOf[r] \in Keys /\ Counting(r)
        /\ bans' = bans /\ overlap' = overlap
        /\ \A q \in Reqs : pc'[q] = "counting" => pc[q] = "counting"
        /\ \/ admissions' = admissions
           \/ /\ admissions' = [admissions EXCEPT ![KeyOf[r]] = Logged(@)]
              /\ r \notin overlap[KeyOf[r]]
    BY <1>1, <1>5 DEF CountRequest, IncrementRateLimit, Goto, Counting
  <2>2. r \notin overlap[KeyOf[r]] => bans[KeyOf[r]] = 0
    BY <2>1 DEF HeldBanStops
  <2>3. ASSUME NEW k \in Keys, bans'[k] # 0
        PROVE  admissions'[k] = admissions[k]
    BY <1>1, <2>1, <2>2, <2>3
  <2>4. QED
    BY <2>1, <2>3 DEF HeldBanStops, Counting
<1>6. ASSUME NEW r \in Reqs,
             CheckFails(r) \/ ScanClean(r) \/ ScanThreat(r) \/ StrikeFails(r)
      PROVE  HeldBanStops'
  <2>1. bans' = bans /\ overlap' = overlap /\ admissions' = admissions
    BY <1>6 DEF CheckFails, ScanClean, ScanThreat, RecordSuspicious, StrikeFails, vars, history
  <2>2. \A q \in Reqs : pc'[q] = "counting" => pc[q] = "counting"
    BY <1>1, <1>6 DEF CheckFails, ScanClean, ScanThreat, StrikeFails, Goto
  <2>3. QED
    BY <1>2, <2>1, <2>2
<1>7. ASSUME NEW r \in Reqs, PlaceBan(r)
      PROVE  HeldBanStops'
  <2> DEFINE a == KeyOf[r]
  <2>1. /\ a \in Keys
        /\ pc' = [pc EXCEPT ![r] = "idle"]
        /\ bans' = [bans EXCEPT ![a] = now + BanTtl]
        /\ overlap' = [overlap EXCEPT ![a] = IF IsBanned(a) THEN @ ELSE InFlight(a) \ {r}]
        /\ admissions' = admissions
    BY <1>7 DEF PlaceBan, Ban, Goto
  <2> HIDE DEF a
  <2>2. \A k \in Keys : k # a => bans'[k] = bans[k] /\ overlap'[k] = overlap[k]
    BY <1>1, <2>1
  <2>3. \A q \in Reqs : Counting(q)' => Counting(q) /\ q # r
    BY <1>1, <2>1 DEF Counting
  <2>4. \A q \in Reqs : KeyOf[q] = a /\ Counting(q)' => q \in overlap'[a]
    BY <1>1, <2>1, <2>3 DEF HeldBanStops, Counting, InFlight, IsBanned
  <2>5. \A ts \in admissions[a] : ts[1] + BanTtl <= bans'[a]
    BY <1>1, <2>1 DEF AdmissionsRecent, Timestamps
  <2>6. QED
    BY <2>1, <2>2, <2>3, <2>4, <2>5 DEF HeldBanStops
<1>8. CASE (\E k \in Keys : LiftBan(k)) \/ Sweep \/ TakeSnapshot \/ TimePasses
  <2>1. /\ \A k \in Keys : bans'[k] \in {bans[k], 0}
        /\ overlap' = overlap /\ pc' = pc
        /\ \A k \in Keys : admissions'[k] \subseteq admissions[k]
    BY <1>1, <1>8 DEF LiftBan, Unban, Sweep, Cleanup, TakeSnapshot, Snapshot, CheckBans,
                      TimePasses, Tick, Recent, limiterVars, storeVars
  <2>2. QED
    BY <1>2, <2>1
<1>9. QED
  BY <1>3, <1>4, <1>5, <1>6, <1>7, <1>8 DEF LimiterNext

LEMMA RecentStep ==
  ASSUME LimiterInv, AdmissionsRecent, [LimiterNext]_allVars
  PROVE  AdmissionsRecent'
<1>1. now \in Nat /\ Window \in Nat \ {0} /\ admissions \in [Keys -> SUBSET Timestamps]
  BY TtlAssumption DEF TtlAssumption, LimiterInv, LimiterTypeOK, IInv, TypeOK
<1>2. \/ now' = now /\ \A k \in Keys : admissions'[k] \in {admissions[k], Logged(admissions[k])}
      \/ TimePasses
  BY <1>1, LimiterAssumption
     DEF LimiterNext, Arrive, CheckBan, CheckBans, CountRequest, IncrementRateLimit, CheckFails,
         ScanClean, ScanThreat, RecordSuspicious, PlaceBan, Ban, StrikeFails, LiftBan, Unban,
         Sweep, Cleanup, TakeSnapshot, Snapshot, allVars, vars, limiterVars, history,
         LimiterAssumption
<1>3. CASE now' = now /\ \A k \in Keys : admissions'[k] \in {admissions[k], Logged(admissions[k])}
  <2>1. ASSUME NEW k \in Keys, NEW ts \in admissions'[k]
        PROVE  ts[1] <= now /\ now < ts[1] + Window
    <3>1. CASE ts \in admissions[k]
      BY <3>1 DEF AdmissionsRecent
    <3>2. CASE ts \notin admissions[k]
      <4>1. ts = <<now, Cardinality({u \in admissions[k] : u[1] = now})>>
        BY <1>3, <2>1, <3>2 DEF Logged
      <4>2. ts[1] = now
        BY <4>1
      <4>3. QED
        BY <1>1, <4>2
    <3>3. QED
      BY <3>1, <3>2
  <2>2. QED
    BY <1>3, <2>1 DEF AdmissionsRecent
<1>4. CASE TimePasses
  <2>1. /\ now' = now + 1
        /\ \A k \in Keys : admissions'[k] = {ts \in admissions[k] : ts[1] > now' - Window}
    BY <1>4 DEF TimePasses, Tick, Recent
  <2>2. ASSUME NEW k \in Keys, NEW ts \in admissions'[k]
        PROVE  ts[1] <= now' /\ now' < ts[1] + Window
    <3>1. ts \in admissions[k] /\ ts[1] > now' - Window /\ ts[1] \in Nat
      BY <1>1, <2>1 DEF Timestamps
    <3>2. ts[1] <= now
      BY <3>1 DEF AdmissionsRecent
    <3>3. QED
      BY <1>1, <2>1, <3>1, <3>2
  <2>3. QED
    BY <2>2 DEF AdmissionsRecent
<1>5. QED
  BY <1>2, <1>3, <1>4

\* A key whose log is left and whose admissions are left or too old.
LEMMA SplitLeft ==
  ASSUME LimiterInv, TwoLogs, NEW k \in Keys,
         rateLimits'[k] = rateLimits[k], admissions'[k] \subseteq admissions[k]
  PROVE  \E P \in SUBSET admissions'[k] :
            SplitBy(admissions'[k], rateLimits'[k].timestamps, P)
<1>1. PICK P \in SUBSET admissions[k] :
         SplitBy(admissions[k], rateLimits[k].timestamps, P)
  BY DEF TwoLogs
<1>2. IsFiniteSet(admissions[k]) /\ IsFiniteSet(rateLimits[k].timestamps)
  BY DEF LimiterInv, LogsNumbered, WellLogged
<1>3. SplitBy(admissions'[k], rateLimits[k].timestamps, P \cap admissions'[k])
  BY <1>1, <1>2, SplitOfFewer
<1>4. QED
  BY <1>3

\* isBanned: a log goes with a ban that is over, and nothing is behind it.
LEMMA SplitChecked ==
  ASSUME LimiterInv, QuotaInv, BanTtl >= Window, NEW S \in SUBSET Keys, CheckBans(S),
         admissions' = admissions
  PROVE  TwoLogs'
<1>1. ASSUME NEW k \in Keys
      PROVE  \E P \in SUBSET admissions'[k] :
                SplitBy(admissions'[k], rateLimits'[k].timestamps, P)
  <2>1. CASE k \in S /\ BanLapsed(k)
    <3>1. admissions'[k] = {}
      BY <2>1, OverBanLeavesNone DEF QuotaInv
    <3>2. rateLimits'[k].timestamps = {}
      BY <2>1 DEF CheckBans, EmptyLog
    <3>3. IsFiniteSet({}) /\ Cardinality({}) <= MaxRequests - 1
      BY FS_EmptySet, LimiterAssumption DEF LimiterAssumption
    <3>4. SplitBy({}, {}, {})
      BY <3>3, SplitOfDropped
    <3>5. QED
      BY <3>1, <3>2, <3>4
  <2>2. CASE ~(k \in S /\ BanLapsed(k))
    <3>1. rateLimits'[k] = rateLimits[k] /\ admissions'[k] \subseteq admissions[k]
      BY <2>2 DEF CheckBans
    <3>2. QED
      BY <3>1, SplitLeft DEF QuotaInv
  <2>3. QED
    BY <2>1, <2>2
<1>2. QED
  BY <1>1 DEF TwoLogs

LEMMA SplitSwept ==
  ASSUME LimiterInv, QuotaInv, Cleanup, admissions' = admissions
  PROVE  TwoLogs'
<1>1. ASSUME NEW k \in Keys
      PROVE  \E P \in SUBSET admissions'[k] :
                SplitBy(admissions'[k], rateLimits'[k].timestamps, P)
  <2> DEFINE log == rateLimits[k]
  <2>1. /\ now \in Nat /\ log \in Logs /\ OneWindow(log) /\ Window \in Nat
        /\ admissions[k] \in SUBSET Timestamps /\ IsFiniteSet(admissions[k])
        /\ \A a \in admissions[k] : a[1] <= now /\ now < a[1] + Window
    BY TtlAssumption DEF TtlAssumption, QuotaInv, AdmissionsRecent, LimiterInv, LimiterTypeOK,
                         IInv, TypeOK, LogIsOneWindow, LogsNumbered, WellLogged
  <2>2. CASE rateLimits'[k] = log
    BY <2>2, SplitLeft DEF QuotaInv
  <2>3. CASE rateLimits'[k] # log
    <3>1. /\ log.resetAt <= now /\ log # EmptyLog
          /\ rateLimits'[k].timestamps = {}
      BY <2>3 DEF Cleanup, LogExpired, EmptyLog
    <3>2. PICK oldest \in log.timestamps : log.resetAt = oldest[1] + Window
      BY <2>1, <3>1 DEF OneWindow
    <3>3. oldest[1] \in Nat /\ oldest[1] + Window <= now
      BY <2>1, <3>1, <3>2 DEF Logs, Timestamps
    <3>4. PICK P \in SUBSET admissions[k] : SplitBy(admissions[k], log.timestamps, P)
      BY DEF QuotaInv, TwoLogs
    <3> HIDE DEF log
    <3>5. SplitBy(admissions[k], {}, admissions[k])
      BY <2>1, <3>2, <3>3, <3>4, SplitOfSwept
    <3>6. QED
      BY <3>1, <3>5
  <2>4. QED
    BY <2>2, <2>3
<1>2. QED
  BY <1>1 DEF TwoLogs

LEMMA SplitCounted ==
  ASSUME LimiterInv, QuotaInv, NEW r \in Reqs, CountRequest(r)
  PROVE  TwoLogs'
<1> DEFINE a == KeyOf[r]
           log == rateLimits[a].timestamps
           live == {ts \in log : ts[1] > now - Window}
<1>1. a \in Keys
  BY LimiterAssumption DEF LimiterAssumption
<1>2. /\ now \in Nat /\ log \in SUBSET Timestamps /\ WellLogged(log)
      /\ Window \in Nat /\ MaxRequests \in Nat
      /\ rateLimits \in [Keys -> Logs] /\ admissions \in [Keys -> SUBSET Timestamps]
      /\ admissions[a] \in SUBSET Timestamps /\ WellLogged(admissions[a])
      /\ \A t \in admissions[a] : t[1] <= now /\ now < t[1] + Window
  BY <1>1, TtlAssumption, LimiterAssumption
     DEF TtlAssumption, LimiterAssumption, QuotaInv, AdmissionsRecent, LimiterInv,
         LimiterTypeOK, IInv, TypeOK, LogsNumbered, Logs
<1>3. live = LiveTimestamps(a) /\ live \in SUBSET Timestamps /\ WellLogged(live)
  <2>1. now - Window \in Int
    BY <1>2
  <2>2. QED
    BY <1>2, <2>1, RecentIsLogged DEF LiveTimestamps
<1>4. /\ Stamp(a) \in Timestamps /\ Stamp(a) \notin live /\ Stamp(a)[1] = now
      /\ Cardinality(live) \in Nat
  <2> HIDE DEF live
  <2>1. QED
    BY <1>2, <1>3, LoggedAddsOne DEF Stamp
<1>5. /\ rateLimits'[a].timestamps = live \cup {Stamp(a)}
      /\ \A k \in Keys : k # a => rateLimits'[k] = rateLimits[k]
  BY <1>1, <1>2, <1>3 DEF CountRequest, IncrementRateLimit
<1>6. PICK P \in SUBSET admissions[a] : SplitBy(admissions[a], log, P)
  BY <1>1 DEF QuotaInv, TwoLogs
<1>7. IsFiniteSet(log) /\ IsFiniteSet(admissions[a])
  BY <1>2 DEF WellLogged
<1>8. CASE admissions' = admissions
  <2>1. SplitBy(admissions[a], live \cup {Stamp(a)}, P)
    BY <1>2, <1>4, <1>6, <1>7, SplitOfCounted
  <2>2. ASSUME NEW k \in Keys
        PROVE  \E Q \in SUBSET admissions'[k] :
                  SplitBy(admissions'[k], rateLimits'[k].timestamps, Q)
    <3> HIDE DEF a, live, log
    <3>1. CASE k = a
      BY <1>5, <1>8, <2>1, <3>1
    <3>2. CASE k # a
      BY <1>5, <1>8, <3>2, SplitLeft DEF QuotaInv
    <3>3. QED
      BY <3>1, <3>2
  <2>3. QED
    BY <2>2 DEF TwoLogs
<1>9. CASE admissions' # admissions
  <2> DEFINE new == <<now, Cardinality({t \in admissions[a] : t[1] = now})>>
  <2>1. /\ ~(NextRateCount(a) > MaxRequests)
        /\ admissions' = [admissions EXCEPT ![a] = Logged(@)]
    BY <1>2, <1>9 DEF CountRequest
  <2>2. Cardinality(live) + 1 <= MaxRequests
    <3> HIDE DEF live
    <3>1. QED
      BY <1>2, <1>3, <1>4, <2>1 DEF NextRateCount
  <2>3. /\ new \in Timestamps /\ new \notin admissions[a] /\ new[1] = now
        /\ Logged(admissions[a]) = admissions[a] \cup {new}
    BY <1>2, LoggedAddsOne
  <2> HIDE DEF new
  <2>4. admissions'[a] = admissions[a] \cup {new}
    BY <1>1, <1>2, <2>1, <2>3
  <2>5. SplitBy(admissions[a] \cup {new}, live \cup {Stamp(a)}, P)
    BY <1>2, <1>4, <1>6, <1>7, <2>2, <2>3, SplitOfAdmitted
  <2>6. ASSUME NEW k \in Keys
        PROVE  \E Q \in SUBSET admissions'[k] :
                  SplitBy(admissions'[k], rateLimits'[k].timestamps, Q)
    <3> HIDE DEF a, live, log
    <3>1. CASE k = a
      BY <1>5, <2>4, <2>5, <3>1
    <3>2. CASE k # a
      <4>1. admissions'[k] = admissions[k]
        BY <1>2, <2>1, <3>2
      <4>2. QED
        BY <1>5, <3>2, <4>1, SplitLeft DEF QuotaInv
    <3>3. QED
      BY <3>1, <3>2
  <2>7. QED
    BY <2>6 DEF TwoLogs
<1>10. QED
  BY <1>8, <1>9

LEMMA TwoLogsStep ==
  ASSUME LimiterInv, QuotaInv, BanTtl >= Window, [LimiterNext]_allVars
  PROVE  TwoLogs'
<1> USE LimiterAssumption DEF LimiterAssumption
<1>1. ASSUME rateLimits' = rateLimits, \A k \in Keys : admissions'[k] \subseteq admissions[k]
      PROVE  TwoLogs'
  BY <1>1, SplitLeft DEF TwoLogs, QuotaInv
<1>2. CASE UNCHANGED allVars
  BY <1>1, <1>2 DEF allVars, vars, limiterVars
<1>3. ASSUME NEW r \in Reqs, Arrive(r)
      PROVE  TwoLogs'
  <2>1. CheckBans({KeyOf[r]}) /\ {KeyOf[r]} \in SUBSET Keys /\ admissions' = admissions
    BY <1>3 DEF Arrive, CheckBan
  <2>2. QED
    BY <2>1, SplitChecked
<1>4. ASSUME NEW r \in Reqs, CountRequest(r)
      PROVE  TwoLogs'
  BY <1>4, SplitCounted
<1>5. ASSUME NEW r \in Reqs,
             CheckFails(r) \/ ScanClean(r) \/ ScanThreat(r) \/ StrikeFails(r) \/ PlaceBan(r)
      PROVE  TwoLogs'
  <2>1. rateLimits' = rateLimits /\ admissions' = admissions
    BY <1>5 DEF CheckFails, ScanClean, ScanThreat, RecordSuspicious, StrikeFails, PlaceBan, Ban,
                vars, history
  <2>2. QED
    BY <1>1, <2>1
<1>6. CASE \E k \in Keys : LiftBan(k)
  BY <1>1, <1>6 DEF LiftBan, Unban, limiterVars
<1>7. CASE Sweep
  BY <1>7, SplitSwept DEF Sweep, limiterVars
<1>8. CASE TakeSnapshot
  BY <1>8, SplitChecked DEF TakeSnapshot, Snapshot, limiterVars
<1>9. CASE TimePasses
  <2>1. rateLimits' = rateLimits /\ \A k \in Keys : admissions'[k] \subseteq admissions[k]
    BY <1>9 DEF TimePasses, Tick, storeVars, Recent
  <2>2. QED
    BY <1>1, <2>1
<1>10. QED
  BY <1>2, <1>3, <1>4, <1>5, <1>6, <1>7, <1>8, <1>9 DEF LimiterNext

LEMMA QuotaStep ==
  ASSUME LimiterInv, QuotaInv, BanTtl >= Window, [LimiterNext]_allVars
  PROVE  QuotaInv'
  BY HeldBanStep, RecentStep, TwoLogsStep DEF QuotaInv

LEMMA QuotaInitIsSound ==
  ASSUME LimiterInit
  PROVE  QuotaInv
<1>1. HeldBanStops /\ AdmissionsRecent
  BY DEF LimiterInit, Init, HeldBanStops, AdmissionsRecent
<1>2. \A k \in Keys : admissions[k] = {} /\ rateLimits[k].timestamps = {}
  BY DEF LimiterInit, Init, EmptyLog
<1>3. IsFiniteSet({}) /\ Cardinality({}) <= MaxRequests - 1
  BY FS_EmptySet, LimiterAssumption DEF LimiterAssumption
<1>4. SplitBy({}, {}, {})
  BY <1>3, SplitOfDropped
<1>5. TwoLogs
  BY <1>2, <1>4 DEF TwoLogs
<1>6. QED
  BY <1>1, <1>5 DEF QuotaInv

\* Two logs have room for less than two quotas.
LEMMA QuotaIsBounded ==
  ASSUME LimiterInv, QuotaInv
  PROVE  LessThanTwoQuotas
<1>1. ASSUME NEW k \in Keys
      PROVE  Cardinality(admissions[k]) < 2 * MaxRequests
  <2> DEFINE A == admissions[k]
  <2>1. PICK P \in SUBSET A : SplitBy(A, rateLimits[k].timestamps, P)
    BY DEF QuotaInv, TwoLogs
  <2>2. IsFiniteSet(A)
    BY DEF LimiterInv, LogsNumbered, WellLogged
  <2> HIDE DEF A
  <2>3. /\ IsFiniteSet(P) /\ IsFiniteSet(A \ P)
        /\ Cardinality(P) \in Nat /\ Cardinality(A \ P) \in Nat
    BY <2>2, FewerIn
  <2>4. A = P \cup (A \ P) /\ P \cap (A \ P) = {}
    OBVIOUS
  <2>5. Cardinality(A) = Cardinality(P) + Cardinality(A \ P)
    <3>1. Cardinality(P \cup (A \ P))
             = Cardinality(P) + Cardinality(A \ P) - Cardinality(P \cap (A \ P))
      BY <2>3, FS_Union
    <3>2. Cardinality(A) = Cardinality(P \cup (A \ P)) /\ Cardinality(P \cap (A \ P)) = 0
      BY <2>4, FS_EmptySet
    <3>3. QED
      BY <2>3, <3>1, <3>2
  <2>6. Cardinality(P) <= MaxRequests - 1 /\ Cardinality(A \ P) <= MaxRequests
    BY <2>1 DEF SplitBy
  <2>7. MaxRequests \in Nat
    BY LimiterAssumption DEF LimiterAssumption
  <2>8. QED
    BY <2>3, <2>5, <2>6, <2>7 DEF A
<1>2. QED
  BY <1>1 DEF LessThanTwoQuotas

\* For any number of requests, any maximum and any times of which a ban's is no
\* shorter than the window: no window sees two quotas of an address admitted.
THEOREM QuotaHolds ==
  ASSUME BanTtl >= Window
  PROVE  LimiterSpec => []LessThanTwoQuotas
<1>1. LimiterInit => QuotaInv
  BY QuotaInitIsSound
<1>2. LimiterInv /\ QuotaInv /\ [LimiterNext]_allVars => QuotaInv'
  BY QuotaStep
<1>3. LimiterInv /\ QuotaInv => LessThanTwoQuotas
  BY QuotaIsBounded
<1>4. QED
  BY <1>1, <1>2, <1>3, LimiterInvariance, PTL DEF LimiterSpec
=============================================================================
