---------------------------- MODULE RedisCounters ----------------------------
(***************************************************************************)
(* src/src/stores/redis-store.js, _incrementWithTtl: the rate limit,       *)
(* strike and brute-force counters of RedisStore.  A client with eval runs *)
(* one script; one without runs SET NX and then a MULTI of INCR and PTTL,  *)
(* two round trips.  Several processes share the counters; what runs in    *)
(* Redis is atomic, and a key is gone at its deadline.                     *)
(***************************************************************************)
EXTENDS Integers, FiniteSets

CONSTANTS
    Procs,      \* calls in flight, of one or several Node processes
    Keys,
    CounterTtl, \* windowMs
    MaxTime,    \* bound: the clock stops there
    MaxCount    \* bound: value of a counter

ASSUME CounterAssumption ==
    /\ CounterTtl \in Nat \ {0}
    /\ MaxTime \in Nat
    /\ MaxCount \in Nat

\* PTTL of a key that has no deadline and of a key that is not there.
NoDeadline == -1
Missing == -2

VARIABLES
    hasEval,    \* [Procs -> whether the process's client has eval]
    now,
    value,      \* Redis: [Keys -> value of the counter, Missing if none]
    deadline,   \* Redis: [Keys -> when it expires, NoDeadline, or Missing]
    pc, key,    \* the calls
    answer,     \* [Procs -> what the last increment answered: count and ttlMs]
    vanished    \* history: [Procs -> the key went away between SET NX and MULTI]

vars == <<hasEval, now, value, deadline, pc, key, answer, vanished>>

Answers == [count : Nat, ttlMs : Nat]

TypeOK ==
    /\ hasEval \in [Procs -> BOOLEAN]
    /\ now \in Nat
    /\ value \in [Keys -> Nat \cup {Missing}]
    /\ deadline \in [Keys -> Nat \cup {NoDeadline, Missing}]
    /\ pc \in [Procs -> {"idle", "exec"}]
    /\ key \in [Procs -> Keys]
    /\ answer \in [Procs -> Answers]
    /\ vanished \in [Procs -> BOOLEAN]

Init ==
    /\ hasEval \in [Procs -> BOOLEAN]
    /\ now = 0
    /\ value = [k \in Keys |-> Missing]
    /\ deadline = [k \in Keys |-> Missing]
    /\ pc = [p \in Procs |-> "idle"]
    /\ key \in [Procs -> Keys]
    /\ answer = [p \in Procs |-> [count |-> 0, ttlMs |-> 0]]
    /\ vanished = [p \in Procs |-> FALSE]

Exists(k) == value[k] # Missing

\* INCR creates a missing key, without a deadline.
Incr(k) == IF Exists(k) THEN value[k] + 1 ELSE 1
Kept(k) == IF Exists(k) THEN deadline[k] ELSE NoDeadline

\* Mutants: the deadline is set when the count was 0 and is 1 by then, that is
\* never; it is set by every increment.
OpensNever(k) == Incr(k) = 0
OpensAlways(k) == Incr(k) >= 1

\* The script sets the deadline when its INCR made the key.
Opens(k) == Incr(k) = 1

\* Mutant: SET without PX.
NoExpiry == NoDeadline

\* PX or PEXPIRE windowMs.
Expiry == now + CounterTtl

\* Mutant: SET without NX.
Always(k) == TRUE

\* NX: only a key that is not there is set.
Sets(k) == ~Exists(k)

\* The bound: the increments under way, and one more, stay within MaxCount.
Room(k) ==
    Incr(k) + Cardinality({p \in Procs : pc[p] = "exec" /\ key[p] = k}) <= MaxCount

\* Mutant: the rest of the window is taken the wrong way round.
CounterResultSwapped(count, deadlineThen) ==
    [count |-> count, ttlMs |-> now - deadlineThen]

\* counterResult: a PTTL that is not positive is a ttlMs of 0.
CounterResult(count, deadlineThen) ==
    [count |-> count, ttlMs |-> IF deadlineThen > now THEN deadlineThen - now ELSE 0]

\* The keys of S go away under the calls that are between their round trips.
Vanished(S) ==
    [p \in Procs |-> vanished[p] \/ (pc[p] = "exec" /\ key[p] \in S)]

-----------------------------------------------------------------------------
\* The script: INCR, PEXPIRE when it made the key, PTTL.
Eval(p, k) ==
    LET then == IF Opens(k) THEN Expiry ELSE Kept(k)
    IN  /\ hasEval[p]
        /\ pc[p] = "idle"
        /\ Room(k)
        /\ value' = [value EXCEPT ![k] = Incr(k)]
        /\ deadline' = [deadline EXCEPT ![k] = then]
        /\ answer' = [answer EXCEPT ![p] = CounterResult(Incr(k), then)]
        /\ UNCHANGED <<hasEval, now, pc, key, vanished>>

\* Without eval: SET key '0' NX PX ...
SetNx(p, k) ==
    /\ ~hasEval[p]
    /\ pc[p] = "idle"
    /\ Room(k)
    /\ value' = [value EXCEPT ![k] = IF Sets(k) THEN 0 ELSE @]
    /\ deadline' = [deadline EXCEPT ![k] = IF Sets(k) THEN Expiry ELSE @]
    /\ pc' = [pc EXCEPT ![p] = "exec"]
    /\ key' = [key EXCEPT ![p] = k]
    /\ vanished' = [vanished EXCEPT ![p] = FALSE]
    /\ UNCHANGED <<hasEval, now, answer>>

\* ... then MULTI INCR PTTL EXEC; the key may be gone by now.
Exec(p) ==
    LET k == key[p]
        then == Kept(k)
    IN  /\ pc[p] = "exec"
        /\ value' = [value EXCEPT ![k] = Incr(k)]
        /\ deadline' = [deadline EXCEPT ![k] = then]
        /\ answer' = [answer EXCEPT ![p] = CounterResult(Incr(k), then)]
        /\ pc' = [pc EXCEPT ![p] = "idle"]
        /\ UNCHANGED <<hasEval, now, key, vanished>>

\* resetRateLimit and resetCounter, and unban for the strikes: DEL.
Reset(p, k) ==
    /\ pc[p] = "idle"
    /\ value' = [value EXCEPT ![k] = Missing]
    /\ deadline' = [deadline EXCEPT ![k] = Missing]
    /\ vanished' = Vanished({k})
    /\ UNCHANGED <<hasEval, now, pc, key, answer>>

Tick ==
    /\ now < MaxTime
    /\ now' = now + 1
    /\ value' = [k \in Keys |-> IF deadline[k] = now' THEN Missing ELSE value[k]]
    /\ deadline' = [k \in Keys |-> IF deadline[k] = now' THEN Missing ELSE deadline[k]]
    /\ vanished' = Vanished({k \in Keys : deadline[k] = now'})
    /\ UNCHANGED <<hasEval, pc, key, answer>>

Next ==
    \/ \E p \in Procs, k \in Keys : Eval(p, k) \/ SetNx(p, k) \/ Reset(p, k)
    \/ \E p \in Procs : Exec(p)
    \/ Tick

Spec == Init /\ [][Next]_vars

-----------------------------------------------------------------------------
(* Properties. *)

AllEval == \A p \in Procs : hasEval[p]

\* A counter ends: as long as every process has eval, every counter that exists
\* has a deadline ahead of it, no later than a window from now, so a client at
\* its limit is let in again.
EveryCounterExpires ==
    AllEval => \A k \in Keys :
        Exists(k) => deadline[k] \in now + 1 .. now + CounterTtl

\* Without eval it is lost in one way only: the key went away, by expiry or by
\* a reset, between the two round trips of an increment.
OnlyOverlapLosesDeadline ==
    [][\A k \in Keys :
          deadline[k] # NoDeadline /\ deadline'[k] = NoDeadline
              => \E p \in Procs : pc[p] = "exec" /\ pc'[p] = "idle"
                                 /\ key[p] = k /\ vanished[p]]_vars

\* Counting again buys no time and no forgetting: an increment neither lowers a
\* counter nor, once something is counted in it, moves the end of its window.
\* (Before that it may: the script takes a counter that the SET NX of another
\* process just made for one it made itself, and starts the window again.)
WindowIsFixed ==
    [][\A k \in Keys :
          Exists(k) /\ Exists(k)'
              => /\ value'[k] >= value[k]
                 /\ value[k] > 0 => deadline'[k] = deadline[k]]_vars

\* As long as every process has eval the counters keep the promise MemoryStore
\* keeps: none is lost, none outlives its window.  The other parts of the promise
\* are not touched, and without eval nothing is promised.
NoFlags == [k \in Keys |-> 0]
NoCounts == [k \in Keys |-> [count |-> 0, resetAt |-> 0]]

Promise == INSTANCE ExpiringStore WITH
    BanTtl <- 1, SuspiciousTtl <- 1, BlockTtl <- 1,
    banned <- NoFlags, strikes <- NoCounts, blocked <- NoFlags,
    counts <- [k \in Keys |->
        IF AllEval /\ Exists(k) THEN [count |-> value[k], resetAt |-> deadline[k]]
        ELSE [count |-> 0, resetAt |-> 0]]

ImplementsExpiringStore == Promise!Spec
=============================================================================
