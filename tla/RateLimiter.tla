----------------------------- MODULE RateLimiter -----------------------------
(***************************************************************************)
(* src/src/rate-limit/limiter.js as src/src/core/engine.js drives it, over *)
(* one MemoryStore.  A request is a process: it asks isBanned, counts      *)
(* itself, is scanned, and when it carries a threat records a strike and   *)
(* perhaps a ban.  There is an await between any two of these, so requests *)
(* interleave there; unban calls and sweeps come at any time.              *)
(***************************************************************************)
EXTENDS MemoryStore

CONSTANTS
    Reqs,           \* requests in flight at the same time
    KeyOf,          \* the client address of a request
    MaxRequests,    \* maxRequests
    Threshold,      \* suspiciousThreshold
    FailClosed,     \* storeFailureMode = 'fail-closed'
    StoreMayFail,   \* a call of a custom or remote store may reject
    MaxHits,        \* bound: requests counted per log
    MaxStrikes      \* bound: strikes of a key within SuspiciousTtl

ASSUME LimiterAssumption ==
    /\ KeyOf \in [Reqs -> Keys]
    /\ MaxRequests \in Nat \ {0}
    /\ Threshold \in Nat \ {0}
    /\ FailClosed \in BOOLEAN
    /\ StoreMayFail \in BOOLEAN
    /\ MaxHits \in Nat
    /\ MaxStrikes \in Nat

VARIABLES
    pc,           \* where a request is
    admissions,   \* history: [Keys -> times of the requests of the last window
                  \*           that were admitted and were not in an overlap]
    strikeLog,    \* history: [Keys -> times of the strikes of the last SuspiciousTtl]
    overlap       \* history: [Keys -> requests that were in flight when the
                  \*           last ban was placed and have not come back since]

history == <<admissions, strikeLog, overlap>>
limiterVars == <<pc, admissions, strikeLog, overlap>>
allVars == <<vars, limiterVars>>

LimiterTypeOK ==
    /\ TypeOK
    /\ pc \in [Reqs -> {"idle", "counting", "scanning", "banning"}]
    /\ admissions \in [Keys -> SUBSET Timestamps]
    /\ strikeLog \in [Keys -> SUBSET Timestamps]
    /\ overlap \in [Keys -> SUBSET Reqs]

LimiterInit ==
    /\ Init
    /\ pc = [r \in Reqs |-> "idle"]
    /\ admissions = [k \in Keys |-> {}]
    /\ strikeLog = [k \in Keys |-> {}]
    /\ overlap = [k \in Keys |-> {}]

Goto(r, place) == pc' = [pc EXCEPT ![r] = place]

\* A set of timestamps with one more in this instant.
Logged(S) == S \cup {<<now, Cardinality({ts \in S : ts[1] = now})>>}

InFlight(k) == {r \in Reqs : KeyOf[r] = k /\ pc[r] # "idle"}

\* The bounds: what a request that starts now may add.
Room(k) ==
    /\ Cardinality(rateLimits[k].timestamps) + Cardinality(InFlight(k)) < MaxHits
    /\ Cardinality(strikeLog[k]) + Cardinality(InFlight(k)) < MaxStrikes

-----------------------------------------------------------------------------
(* RateLimiter.check. *)

\* Mutant: the answer of isBanned is not looked at.
ArriveUnasked(r) ==
    /\ pc[r] = "idle"
    /\ Room(KeyOf[r])
    /\ CheckBan(KeyOf[r])
    /\ Goto(r, "counting")
    /\ overlap' = [overlap EXCEPT ![KeyOf[r]] = @ \ {r}]
    /\ UNCHANGED <<admissions, strikeLog>>

\* check, up to the answer of isBanned: a banned request is over (429).
Arrive(r) ==
    /\ pc[r] = "idle"
    /\ Room(KeyOf[r])
    /\ CheckBan(KeyOf[r])
    /\ IF IsBanned(KeyOf[r]) THEN UNCHANGED pc ELSE Goto(r, "counting")
    /\ overlap' = [overlap EXCEPT ![KeyOf[r]] = @ \ {r}]
    /\ UNCHANGED <<admissions, strikeLog>>

\* check, from incrementRateLimit: over the maximum the request is over (429),
\* but it has been counted.
CountRequest(r) ==
    LET k == KeyOf[r]
    IN  /\ pc[r] = "counting"
        /\ IncrementRateLimit(k)
        /\ IF NextRateCount(k) > MaxRequests
           THEN Goto(r, "idle") /\ UNCHANGED admissions
           ELSE /\ Goto(r, "scanning")
                /\ admissions' = [admissions EXCEPT ![k] =
                      IF r \in overlap[k] THEN @ ELSE Logged(@)]
        /\ UNCHANGED <<strikeLog, overlap>>

\* A rejected isBanned or incrementRateLimit: engine.js answers 503 or lets
\* the request on to the scan, uncounted.
CheckFails(r) ==
    /\ StoreMayFail
    /\ pc[r] \in {"idle", "counting"}
    /\ pc[r] = "idle" => Room(KeyOf[r])
    /\ Goto(r, IF FailClosed THEN "idle" ELSE "scanning")
    /\ UNCHANGED <<vars, history>>

-----------------------------------------------------------------------------
(* The scan of engine.js and RateLimiter.recordSuspicious. *)

\* No threat: the request goes to the application.
ScanClean(r) ==
    /\ pc[r] = "scanning"
    /\ Goto(r, "idle")
    /\ UNCHANGED <<vars, history>>

\* A threat: a strike.  At the threshold the request goes on to the ban.
ScanThreat(r) ==
    LET k == KeyOf[r]
    IN  /\ pc[r] = "scanning"
        /\ RecordSuspicious(k)
        /\ Goto(r, IF Incremented(suspicious[k], SuspiciousTtl).count >= Threshold
                   THEN "banning" ELSE "idle")
        /\ strikeLog' = [strikeLog EXCEPT ![k] = Logged(@)]
        /\ UNCHANGED <<admissions, overlap>>

PlaceBan(r) ==
    LET k == KeyOf[r]
    IN  /\ pc[r] = "banning"
        /\ Ban(k)
        /\ Goto(r, "idle")
        /\ overlap' = [overlap EXCEPT ![k] =
              IF IsBanned(k) THEN @ ELSE InFlight(k) \ {r}]
        /\ UNCHANGED <<admissions, strikeLog>>

\* A rejected recordSuspicious or ban: logged, the answer stays 400.
StrikeFails(r) ==
    /\ StoreMayFail
    /\ pc[r] \in {"scanning", "banning"}
    /\ Goto(r, "idle")
    /\ UNCHANGED <<vars, history>>

-----------------------------------------------------------------------------
(* Around the requests. *)

\* limiter.unban, called by the application.
LiftBan(k) ==
    /\ Unban(k)
    /\ UNCHANGED limiterVars

\* The interval of the limiter, and the listings of the admin API.
Sweep ==
    /\ Cleanup
    /\ UNCHANGED limiterVars

\* limiter.snapshot, of the admin API.
TakeSnapshot ==
    /\ Snapshot
    /\ UNCHANGED limiterVars

\* The histories keep what is within their window.
Recent(S, ttl) == {ts \in S : ts[1] > now' - ttl}

TimePasses ==
    /\ Tick
    /\ admissions' = [k \in Keys |-> Recent(admissions[k], Window)]
    /\ strikeLog' = [k \in Keys |-> Recent(strikeLog[k], SuspiciousTtl)]
    /\ UNCHANGED <<pc, overlap>>

LimiterNext ==
    \/ \E r \in Reqs :
          \/ Arrive(r) \/ CountRequest(r) \/ CheckFails(r)
          \/ ScanClean(r) \/ ScanThreat(r) \/ PlaceBan(r) \/ StrikeFails(r)
    \/ \E k \in Keys : LiftBan(k)
    \/ Sweep
    \/ TakeSnapshot
    \/ TimePasses

LimiterSpec == LimiterInit /\ [][LimiterNext]_allVars

-----------------------------------------------------------------------------
(* Properties. *)

\* A quota of maxRequests per windowMs, up to a factor of two: a sweep can
\* drop a log whose oldest request is a window old while newer ones are not
\* (memory-store.js 168), but that log began at least a window ago, so no
\* window of windowMs meets more than two logs and one request of the first is
\* always too old to count.  Holds when no call is let through uncounted and a
\* ban outlasts the window, as in the defaults.  Requests a ban overtook are
\* left out: a ban that is over drops the log with whatever they added to it.
LessThanTwoQuotas ==
    \A k \in Keys : Cardinality(admissions[k]) < 2 * MaxRequests

\* A ban is decided only on strikes that are all recent: Threshold of them,
\* none older than the life of a strike count (limiter.js 71-84).
StrikesBehindBan ==
    [][\A r \in Reqs :
          pc[r] # "banning" /\ pc'[r] = "banning"
              => Cardinality(strikeLog'[KeyOf[r]]) >= Threshold]_allVars

\* A client that is banned stays out and cannot prolong its ban: what is past
\* the ban check under a ban was already in flight when the ban was placed.
OnlyOverlapPastBan ==
    \A r \in Reqs :
        pc[r] # "idle" /\ IsBanned(KeyOf[r]) => r \in overlap[KeyOf[r]]
=============================================================================
