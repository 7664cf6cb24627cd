--------------------------- MODULE BruteForceGuard ---------------------------
(***************************************************************************)
(* src/src/brute-force/brute-force-guard.js over one MemoryStore: the      *)
(* requests of the authentication routes.  A request walks its keys three  *)
(* times at most, with an await at every key: to ask whether one of them   *)
(* is blocked, then, once the response is finished, to count a failure on  *)
(* each of them, and last to block each of them when a count reached       *)
(* maxAttempts.  A success resets the counters instead.  Requests that     *)
(* share a key interleave between any two keys.                            *)
(***************************************************************************)
EXTENDS MemoryStore, Sequences

CONSTANTS
    Reqs,            \* requests in flight at the same time
    KeysOf,          \* context.keys of a request, in order
    MaxAttempts,     \* bruteForce.maxAttempts
    ResetOnSuccess,  \* bruteForce.resetOnSuccess
    FailClosed,      \* storeFailureMode = 'fail-closed'
    StoreMayFail,    \* a call of a custom or remote store may reject
    MaxFailures      \* bound: failures of each key within CounterTtl

ASSUME GuardAssumption ==
    /\ IsFiniteSet(Reqs)
    /\ KeysOf \in [Reqs -> Seq(Keys)]
    /\ MaxAttempts \in Nat \ {0}
    /\ ResetOnSuccess \in BOOLEAN
    /\ FailClosed \in BOOLEAN
    /\ StoreMayFail \in BOOLEAN
    /\ MaxFailures \in [Keys -> Nat]

VARIABLES
    pc,         \* where a request is
    next,       \* the index of its next key
    reached,    \* some attempt.count >= maxAttempts
    overlap,    \* history: [Keys -> requests past the check of the key when its
                \*           block was placed, and not back since]
    settled,    \* history: [Keys -> the count at the last block since the counter
                \*           opened, placed or lost to a rejected call, or 0]
    failures    \* history: [Keys -> times of the failures counted within CounterTtl
                \*           and since the last success]

history == <<overlap, settled, failures>>
guardVars == <<pc, next, reached, overlap, settled, failures>>
allVars == <<vars, guardVars>>

Places == {"idle", "checking", "handling", "recording", "blocking", "resetting"}

GuardTypeOK ==
    /\ TypeOK
    /\ pc \in [Reqs -> Places]
    /\ next \in [Reqs -> Nat \ {0}]
    /\ reached \in [Reqs -> BOOLEAN]
    /\ overlap \in [Keys -> SUBSET Reqs]
    /\ settled \in [Keys -> Nat]
    /\ failures \in [Keys -> SUBSET Timestamps]

GuardInit ==
    /\ Init
    /\ pc = [r \in Reqs |-> "idle"]
    /\ next = [r \in Reqs |-> 1]
    /\ reached = [r \in Reqs |-> FALSE]
    /\ overlap = [k \in Keys |-> {}]
    /\ settled = [k \in Keys |-> 0]
    /\ failures = [k \in Keys |-> {}]

KeySet(r) == {KeysOf[r][i] : i \in 1 .. Len(KeysOf[r])}
Current(r) == KeysOf[r][next[r]]

\* Start the walk of a phase, or end the request.
Enter(r, place) ==
    /\ pc' = [pc EXCEPT ![r] = place]
    /\ next' = [next EXCEPT ![r] = 1]

Leave(r) == Enter(r, "idle") /\ reached' = [reached EXCEPT ![r] = FALSE]

\* The next key of the walk, or what follows the last one.
Advance(r, place) ==
    IF next[r] < Len(KeysOf[r])
    THEN next' = [next EXCEPT ![r] = @ + 1] /\ UNCHANGED pc
    ELSE Enter(r, place)

\* The request has got past the check of key k.
Past(r, k) ==
    \/ pc[r] \notin {"idle", "checking"} /\ k \in KeySet(r)
    \/ pc[r] = "checking" /\ \E i \in 1 .. next[r] - 1 : KeysOf[r][i] = k

-----------------------------------------------------------------------------
(* checkBruteForceBlock. *)

\* A request without keys is allowed, and never observed.
Arrive(r) ==
    /\ pc[r] = "idle"
    /\ Len(KeysOf[r]) > 0
    /\ Enter(r, "checking")
    /\ overlap' = [k \in Keys |-> overlap[k] \ {r}]
    /\ UNCHANGED <<vars, reached, settled, failures>>

\* Mutant: only the first key is asked about.
CheckFirstKey(r) ==
    LET k == Current(r)
    IN  /\ pc[r] = "checking"
        /\ CheckBlock(k)
        /\ IF IsBlocked(k) THEN Leave(r)
           ELSE Enter(r, "handling") /\ UNCHANGED reached
        /\ UNCHANGED history

\* The first blocked key answers blockedStatusCode: the request is over, and
\* it is not observed.
CheckKey(r) ==
    LET k == Current(r)
    IN  /\ pc[r] = "checking"
        /\ CheckBlock(k)
        /\ IF IsBlocked(k) THEN Leave(r)
           ELSE Advance(r, "handling") /\ UNCHANGED reached
        /\ UNCHANGED history

\* handleStoreFailure: 503, or on to the handler with the other keys unasked.
CheckFails(r) ==
    /\ StoreMayFail
    /\ pc[r] = "checking"
    /\ IF FailClosed THEN Leave(r) ELSE Enter(r, "handling") /\ UNCHANGED reached
    /\ UNCHANGED <<vars, history>>

-----------------------------------------------------------------------------
(* The response and finalizeAuthenticationResult.                           *)

\* The route rate limit answers before the response is observed, the client
\* goes away and 'finish' never comes, or resolveAction says neither.
Unobserved(r) ==
    /\ pc[r] = "handling"
    /\ Leave(r)
    /\ UNCHANGED <<vars, history>>

\* resolveAction: the status, or what the handler said, is a failure ...
FinishFailure(r) ==
    /\ pc[r] = "handling"
    /\ Enter(r, "recording")
    /\ UNCHANGED <<vars, reached, history>>

\* ... or a success.
FinishSuccess(r) ==
    /\ pc[r] = "handling"
    /\ IF ResetOnSuccess THEN Enter(r, "resetting") /\ UNCHANGED reached ELSE Leave(r)
    /\ UNCHANGED <<vars, history>>

-----------------------------------------------------------------------------
(* recordFailure and resetCounters. *)

\* Mutant: one failure more before the block.
ReachesLate(count) == count > MaxAttempts

Reaches(count) == count >= MaxAttempts

\* The failure is counted on one key.
RecordKey(r) ==
    LET k == Current(r)
        counted == Incremented(counters[k], CounterTtl).count
        instant == {ts \in failures[k] : ts[1] = now}
    IN  /\ pc[r] = "recording"
        /\ Cardinality(failures[k]) < MaxFailures[k]
        /\ IncrementCounter(k)
        /\ reached' = [reached EXCEPT ![r] = @ \/ Reaches(counted)]
        /\ Advance(r, IF reached'[r] THEN "blocking" ELSE "idle")
        /\ settled' = [settled EXCEPT ![k] = IF counted = 1 THEN 0 ELSE @]
        /\ failures' = [failures EXCEPT ![k] = @ \cup {<<now, Cardinality(instant)>>}]
        /\ UNCHANGED overlap

\* Every key of the request is blocked, not only the one that reached the
\* maximum.  Its counter goes on.
BlockOne(r) ==
    LET k == Current(r)
    IN  /\ pc[r] = "blocking"
        /\ BlockKey(k)
        /\ Advance(r, "idle")
        /\ reached' = [reached EXCEPT ![r] = @ /\ next[r] < Len(KeysOf[r])]
        /\ overlap' = [overlap EXCEPT ![k] =
              IF IsBlocked(k) THEN @ ELSE {q \in Reqs : Past(q, k)}]
        /\ settled' = [settled EXCEPT ![k] = counters[k].count]
        /\ UNCHANGED failures

ResetOne(r) ==
    LET k == Current(r)
    IN  /\ pc[r] = "resetting"
        /\ ResetCounter(k)
        /\ Advance(r, "idle")
        /\ settled' = [settled EXCEPT ![k] = 0]
        /\ failures' = [failures EXCEPT ![k] = {}]
        /\ UNCHANGED <<reached, overlap>>

\* A rejected call: logged, and the keys not yet done stay undone.
FinalizeFails(r) ==
    /\ StoreMayFail
    /\ pc[r] \in {"recording", "blocking", "resetting"}
    /\ Leave(r)
    /\ settled' = [k \in Keys |->
          IF k \in KeySet(r) THEN counters[k].count ELSE settled[k]]
    /\ UNCHANGED <<vars, overlap, failures>>

-----------------------------------------------------------------------------
\* The interval of the limiter, and the listings of the admin API.
Sweep ==
    /\ Cleanup
    /\ settled' = [k \in Keys |-> IF counters[k].resetAt <= now THEN 0 ELSE settled[k]]
    /\ UNCHANGED <<pc, next, reached, overlap, failures>>

TimePasses ==
    /\ Tick
    /\ failures' = [k \in Keys |-> {ts \in failures[k] : ts[1] > now' - CounterTtl}]
    /\ UNCHANGED <<pc, next, reached, overlap, settled>>

GuardNext ==
    \/ \E r \in Reqs :
          \/ Arrive(r) \/ CheckKey(r) \/ CheckFails(r)
          \/ Unobserved(r) \/ FinishFailure(r) \/ FinishSuccess(r)
          \/ RecordKey(r) \/ BlockOne(r) \/ ResetOne(r) \/ FinalizeFails(r)
    \/ Sweep
    \/ TimePasses

GuardSpec == GuardInit /\ [][GuardNext]_allVars

-----------------------------------------------------------------------------
(* Properties. *)

\* While a key is blocked, the only requests past its check are those that
\* had passed it when the block was placed: nobody new gets in and a client
\* that is kept out cannot prolong its block, whatever the order in which
\* requests walk keys they share (brute-force-guard.js 42-69, 145-151).
BlockedStayOut ==
    \A r \in Reqs, k \in Keys :
        IsBlocked(k) /\ Past(r, k) => r \in overlap[k]

\* Checking and counting are apart, so concurrent guesses can overshoot
\* maxAttempts; by one per request in flight, and no more: between two blocks
\* of a key, placed or lost to a rejected call, its count grows past
\* maxAttempts - 1 by at most that, even when failing checks let guesses in.
OvershootBounded ==
    \A k \in Keys :
        LET base == IF settled[k] > MaxAttempts - 1 THEN settled[k] ELSE MaxAttempts - 1
        IN  counters[k].count <= base + Cardinality(Reqs)

\* Nobody is blocked for less than maxAttempts failures of one of the keys, all
\* within windowMs and none of them older than the last success on that key
\* (brute-force-guard.js 97-98, 114-143).
BlockJustified ==
    [][\A r \in Reqs :
          ~reached[r] /\ reached'[r]
              => Cardinality(failures'[Current(r)]) >= MaxAttempts]_allVars
=============================================================================
