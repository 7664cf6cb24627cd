-------------------------- MODULE Middleware_proofs --------------------------
(***************************************************************************)
(* Proofs about Middleware, for any connections, routes and statuses and   *)
(* in both failure modes.  The books are kept by an invariant that counts  *)
(* the requests by where they are: those at a check, and those that may    *)
(* still make an attempt or be turned away.                                *)
(***************************************************************************)
EXTENDS Middleware, FiniteSetTheorems, TLAPS

At(W) == {r \in Reqs : pc[r] \in W}

\* Where a request is that is not yet paid for: it can still be turned away,
\* fall silent, record its attempt or reset the counters.
Open == Checks \cup {"handler", "finished", "recording", "resetting"}

PlacesOK ==
    /\ failClosed \in Modes
    /\ pc \in [Reqs -> Places]
    /\ route \in [Reqs -> RouteType]
    /\ observed \in [Reqs -> BOOLEAN]
    /\ status \in [Reqs -> Nat]
    \* Nobody listens yet to the response of the guard or of the route limit.
    /\ \A r \in Reqs : pc[r] \in {"guard", "limit"} => ~observed[r]
    \* As many requests are under way as ever came, that is finitely many.
    /\ IsFiniteSet(At(Open))

AccountsOK ==
    /\ metrics \in [Counters -> Nat]
    /\ emitted \in [Types -> Nat]
    /\ silent \in Nat /\ failures \in Nat /\ closed \in Nat /\ placed \in Nat
    /\ unasked \subseteq Reqs

\* Every attempt, reset or refusal is of a request of its own.
AttemptsPaid ==
    /\ placed <= emitted["BRUTE_FORCE_BLOCKED"]
    /\ emitted["BRUTE_FORCE_ATTEMPT"] + emitted["BRUTE_FORCE_RESET"]
           + emitted["ROUTE_RATE_LIMIT_EXCEEDED"] + emitted["BRUTE_FORCE_BLOCKED"]
           + silent + Cardinality(At(Open))
       <= metrics.total + placed

Books == EveryRequestIsCounted /\ EventsMatchCounters /\ AttemptsPaid

MiddlewareInv == PlacesOK /\ AccountsOK /\ Books /\ FailClosedAsksAll

-----------------------------------------------------------------------------
(* Lemmas about where the requests are. *)

\* One request moves: the number of those at the places W follows it.
LEMMA CountMoves ==
  ASSUME pc \in [Reqs -> Places], NEW W, IsFiniteSet(At(W)),
         NEW r \in Reqs, NEW place, pc' = [pc EXCEPT ![r] = place]
  PROVE  /\ IsFiniteSet(At(W)')
         /\ Cardinality(At(W)) \in Nat /\ Cardinality(At(W)') \in Nat
         /\ (pc[r] \in W <=> place \in W) => Cardinality(At(W)') = Cardinality(At(W))
         /\ pc[r] \in W /\ place \notin W => Cardinality(At(W)') = Cardinality(At(W)) - 1
         /\ pc[r] \notin W /\ place \in W => Cardinality(At(W)') = Cardinality(At(W)) + 1
<1>1. At(W)' = IF place \in W THEN At(W) \cup {r} ELSE At(W) \ {r}
  BY DEF At
<1>2. r \in At(W) <=> pc[r] \in W
  BY DEF At
<1>3. /\ IsFiniteSet(At(W) \cup {r}) /\ IsFiniteSet(At(W) \ {r})
      /\ r \in At(W) => /\ Cardinality(At(W) \ {r}) = Cardinality(At(W)) - 1
                        /\ At(W) \cup {r} = At(W)
      /\ r \notin At(W) => /\ Cardinality(At(W) \cup {r}) = Cardinality(At(W)) + 1
                           /\ At(W) \ {r} = At(W)
  BY FS_AddElement, FS_RemoveElement
<1>4. Cardinality(At(W)) \in Nat /\ Cardinality(At(W)') \in Nat
  BY <1>1, <1>3, FS_CardinalityType
<1>5. QED
  BY <1>1, <1>2, <1>3, <1>4

\* The two numbers the books need, after a move of one request.
LEMMA BothCountsMove ==
  ASSUME PlacesOK, NEW r \in Reqs, NEW place \in Places, pc' = [pc EXCEPT ![r] = place]
  PROVE  /\ IsFiniteSet(At(Open)') /\ pc' \in [Reqs -> Places] /\ pc'[r] = place
         /\ \A q \in Reqs : q # r => pc'[q] = pc[q]
         /\ Cardinality(InFlight) \in Nat /\ Cardinality(InFlight') \in Nat
         /\ Cardinality(At(Open)) \in Nat /\ Cardinality(At(Open)') \in Nat
         /\ Cardinality(InFlight') = Cardinality(InFlight)
               + (IF place \in Checks THEN 1 ELSE 0) - (IF pc[r] \in Checks THEN 1 ELSE 0)
         /\ Cardinality(At(Open)') = Cardinality(At(Open))
               + (IF place \in Open THEN 1 ELSE 0) - (IF pc[r] \in Open THEN 1 ELSE 0)
<1>1. pc \in [Reqs -> Places] /\ IsFiniteSet(At(Open))
  BY DEF PlacesOK
<1>2. At(Checks) \subseteq At(Open) /\ At(Checks) = InFlight /\ At(Checks)' = InFlight'
  BY DEF At, Open, InFlight
<1>3. IsFiniteSet(At(Checks))
  BY <1>1, <1>2, FS_Subset
<1>4. /\ Cardinality(At(Checks)) \in Nat /\ Cardinality(At(Checks)') \in Nat
      /\ (pc[r] \in Checks <=> place \in Checks)
            => Cardinality(At(Checks)') = Cardinality(At(Checks))
      /\ pc[r] \in Checks /\ place \notin Checks
            => Cardinality(At(Checks)') = Cardinality(At(Checks)) - 1
      /\ pc[r] \notin Checks /\ place \in Checks
            => Cardinality(At(Checks)') = Cardinality(At(Checks)) + 1
  BY <1>1, <1>3, CountMoves
<1>5. /\ IsFiniteSet(At(Open)')
      /\ Cardinality(At(Open)) \in Nat /\ Cardinality(At(Open)') \in Nat
      /\ (pc[r] \in Open <=> place \in Open)
            => Cardinality(At(Open)') = Cardinality(At(Open))
      /\ pc[r] \in Open /\ place \notin Open
            => Cardinality(At(Open)') = Cardinality(At(Open)) - 1
      /\ pc[r] \notin Open /\ place \in Open
            => Cardinality(At(Open)') = Cardinality(At(Open)) + 1
  BY <1>1, CountMoves
<1>6. /\ pc' \in [Reqs -> Places] /\ pc'[r] = place
      /\ \A q \in Reqs : q # r => pc'[q] = pc[q]
  BY <1>1
<1>7. Cardinality(InFlight') = Cardinality(InFlight)
         + (IF place \in Checks THEN 1 ELSE 0) - (IF pc[r] \in Checks THEN 1 ELSE 0)
  BY <1>2, <1>4
<1>8. Cardinality(At(Open)') = Cardinality(At(Open))
         + (IF place \in Open THEN 1 ELSE 0) - (IF pc[r] \in Open THEN 1 ELSE 0)
  BY <1>5
<1>9. QED
  BY <1>2, <1>4, <1>5, <1>6, <1>7, <1>8

\* The check after a check is a check; the response is observed only from the
\* limiter or the scan on.
LEMMA AfterIsACheck ==
  ASSUME NEW check, NEW rt \in RouteType
  PROVE  /\ After(check, rt) \in {"guard", "limit", "limiter", "scan"}
         /\ check \in {"limiter"} => After(check, rt) = "scan"
  BY DEF After

\* On to the next check.
LEMMA MovedOn ==
  ASSUME PlacesOK, NEW r \in Reqs, pc[r] \in {"guard", "limit", "limiter"}, MoveOn(r, pc[r])
  PROVE  /\ PlacesOK'
         /\ failClosed' = failClosed
         /\ Cardinality(InFlight) \in Nat /\ Cardinality(At(Open)) \in Nat
         /\ Cardinality(InFlight') = Cardinality(InFlight)
         /\ Cardinality(At(Open)') = Cardinality(At(Open))
<1> DEFINE place == After(pc[r], route[r])
<1>1. /\ pc' = [pc EXCEPT ![r] = place]
      /\ observed' = [observed EXCEPT ![r] = route[r].guard /\ place \in {"limiter", "scan"}]
      /\ UNCHANGED <<failClosed, route, status>>
  BY DEF MoveOn
<1>2. route[r] \in RouteType /\ route[r].guard \in BOOLEAN
  BY DEF PlacesOK, RouteType
<1>3. place \in {"guard", "limit", "limiter", "scan"}
  BY <1>2, AfterIsACheck
<1> HIDE DEF place
<1>4. place \in Places /\ place \in Checks /\ pc[r] \in Checks /\ Checks \subseteq Open
  BY <1>3 DEF Places, Checks, Open
<1>5. observed' \in [Reqs -> BOOLEAN]
      /\ (place \in {"guard", "limit"} => ~observed'[r])
      /\ \A q \in Reqs : q # r => observed'[q] = observed[q]
  BY <1>1, <1>2, <1>3 DEF PlacesOK
<1>6. /\ IsFiniteSet(At(Open)') /\ pc' \in [Reqs -> Places] /\ pc'[r] = place
      /\ \A q \in Reqs : q # r => pc'[q] = pc[q]
  BY <1>1, <1>4, BothCountsMove
<1>7. PlacesOK'
  BY <1>1, <1>5, <1>6 DEF PlacesOK
<1>8. /\ Cardinality(InFlight) \in Nat /\ Cardinality(InFlight') \in Nat
      /\ Cardinality(At(Open)) \in Nat /\ Cardinality(At(Open)') \in Nat
      /\ Cardinality(InFlight') = Cardinality(InFlight)
            + (IF place \in Checks THEN 1 ELSE 0) - (IF pc[r] \in Checks THEN 1 ELSE 0)
      /\ Cardinality(At(Open)') = Cardinality(At(Open))
            + (IF place \in Open THEN 1 ELSE 0) - (IF pc[r] \in Open THEN 1 ELSE 0)
  BY <1>1, <1>4, BothCountsMove
<1>9. place \in Open /\ pc[r] \in Open
  BY <1>4
<1>10. Cardinality(InFlight') = Cardinality(InFlight)
  BY <1>4, <1>8
<1>11. Cardinality(At(Open)') = Cardinality(At(Open))
  BY <1>8, <1>9
<1>12. QED
  BY <1>1, <1>7, <1>8, <1>10, <1>11

\* Answered at a check: what is left of the request is its observer, and there
\* is none at the guard and the route limit.
LEMMA Answered ==
  ASSUME PlacesOK, NEW r \in Reqs, pc[r] \in Checks, NEW code \in Nat, Respond(r, code)
  PROVE  /\ PlacesOK'
         /\ failClosed' = failClosed
         /\ Cardinality(InFlight) \in Nat /\ Cardinality(InFlight') \in Nat
         /\ Cardinality(At(Open)) \in Nat /\ Cardinality(At(Open)') \in Nat
         /\ Cardinality(InFlight') = Cardinality(InFlight) - 1
         /\ Cardinality(At(Open)') <= Cardinality(At(Open))
         /\ pc[r] \in {"guard", "limit"}
               => Cardinality(At(Open)') = Cardinality(At(Open)) - 1
<1> DEFINE place == IF observed[r] THEN "finished" ELSE "idle"
<1>1. /\ pc' = [pc EXCEPT ![r] = place]
      /\ status' = [status EXCEPT ![r] = code]
      /\ UNCHANGED <<failClosed, route, observed>>
  BY DEF Respond
<1>2. place \in Places /\ place \notin Checks /\ pc[r] \in Open /\ place \notin {"guard", "limit"}
  BY DEF Places, Checks, AfterResponse, Open
<1>3. pc[r] \in {"guard", "limit"} => place \notin Open
  BY DEF PlacesOK, Open, Checks
<1> HIDE DEF place
<1>4. /\ IsFiniteSet(At(Open)') /\ pc' \in [Reqs -> Places] /\ pc'[r] = place
      /\ \A q \in Reqs : q # r => pc'[q] = pc[q]
  BY <1>1, <1>2, BothCountsMove
<1>5. PlacesOK'
  BY <1>1, <1>2, <1>4 DEF PlacesOK
<1>6. /\ Cardinality(InFlight) \in Nat /\ Cardinality(InFlight') \in Nat
      /\ Cardinality(At(Open)) \in Nat /\ Cardinality(At(Open)') \in Nat
      /\ Cardinality(InFlight') = Cardinality(InFlight)
            + (IF place \in Checks THEN 1 ELSE 0) - (IF pc[r] \in Checks THEN 1 ELSE 0)
      /\ Cardinality(At(Open)') = Cardinality(At(Open))
            + (IF place \in Open THEN 1 ELSE 0) - (IF pc[r] \in Open THEN 1 ELSE 0)
  BY <1>1, <1>2, BothCountsMove
<1>7. Cardinality(InFlight') = Cardinality(InFlight) - 1
  BY <1>2, <1>6
<1>8. Cardinality(At(Open)') <= Cardinality(At(Open))
  BY <1>2, <1>6
<1>9. pc[r] \in {"guard", "limit"} => Cardinality(At(Open)') = Cardinality(At(Open)) - 1
  BY <1>2, <1>3, <1>6
<1>10. QED
  BY <1>1, <1>5, <1>6, <1>7, <1>8, <1>9

\* A step of a request that is past its checks, or from the scan to beyond it.
LEMMA WentOn ==
  ASSUME PlacesOK, NEW r \in Reqs, NEW place \in Places \ {"guard", "limit"},
         pc' = [pc EXCEPT ![r] = place], UNCHANGED <<failClosed, route, observed>>,
         status' \in [Reqs -> Nat]
  PROVE  /\ PlacesOK'
         /\ Cardinality(InFlight) \in Nat /\ Cardinality(InFlight') \in Nat
         /\ Cardinality(At(Open)) \in Nat /\ Cardinality(At(Open)') \in Nat
         /\ Cardinality(InFlight') = Cardinality(InFlight)
               + (IF place \in Checks THEN 1 ELSE 0) - (IF pc[r] \in Checks THEN 1 ELSE 0)
         /\ Cardinality(At(Open)') = Cardinality(At(Open))
               + (IF place \in Open THEN 1 ELSE 0) - (IF pc[r] \in Open THEN 1 ELSE 0)
<1>1. /\ IsFiniteSet(At(Open)') /\ pc' \in [Reqs -> Places] /\ pc'[r] = place
      /\ \A q \in Reqs : q # r => pc'[q] = pc[q]
  BY BothCountsMove
<1>2. PlacesOK'
  BY <1>1 DEF PlacesOK
<1>3. QED
  BY <1>2, BothCountsMove

-----------------------------------------------------------------------------
(* Lemmas about what is counted and told. *)

\* An event changes the count of its type only, the counters that go with the
\* event and those of the request.
LEMMA TellCounts ==
  ASSUME AccountsOK, NEW t \in Types, NEW cs \in SUBSET Counters, Tell(t, cs)
  PROVE  /\ metrics' \in [Counters -> Nat] /\ emitted' \in [Types -> Nat]
         /\ \A u \in Types : emitted'[u] = IF u = t THEN emitted[u] + 1 ELSE emitted[u]
         /\ \A c \in Counters :
               metrics'[c] = IF c \in Counted(t) \cup cs THEN metrics[c] + 1 ELSE metrics[c]
<1>1. metrics \in [Counters -> Nat] /\ emitted \in [Types -> Nat]
  BY DEF AccountsOK
<1>2. /\ emitted' = [emitted EXCEPT ![t] = @ + 1]
      /\ metrics' = [c \in Counters |->
                       IF c \in Counted(t) \cup cs THEN metrics[c] + 1 ELSE metrics[c]]
  BY DEF Tell, Emit, Count
<1> HIDE DEF Counted
<1>3. QED
  BY <1>1, <1>2

\* A rejected call is told of n times.
LEMMA ErrorCounts ==
  ASSUME AccountsOK, NEW n \in Nat, Emit("STORE_ERROR", n)
  PROVE  /\ emitted' \in [Types -> Nat]
         /\ emitted'["STORE_ERROR"] = emitted["STORE_ERROR"] + n
         /\ \A u \in Types \ {"STORE_ERROR"} : emitted'[u] = emitted[u]
BY DEF AccountsOK, Emit, Types

\* A request counted by itself.
LEMMA CountCounts ==
  ASSUME AccountsOK, NEW cs \in SUBSET Counters, Count(cs)
  PROVE  /\ metrics' \in [Counters -> Nat]
         /\ \A c \in Counters : metrics'[c] = IF c \in cs THEN metrics[c] + 1 ELSE metrics[c]
BY DEF AccountsOK, Count

-----------------------------------------------------------------------------
(* The invariant is inductive: one lemma per action. *)

LEMMA ArriveKeeps ==
  ASSUME MiddlewareInv, NEW r \in Reqs, NEW rt \in RouteType, Arrive(r, rt)
  PROVE  MiddlewareInv'
<1> DEFINE place == After("arrival", rt)
<1>1. /\ pc[r] = "idle"
      /\ route' = [route EXCEPT ![r] = rt]
      /\ pc' = [pc EXCEPT ![r] = place]
      /\ observed' = [observed EXCEPT ![r] = FALSE]
      /\ status' = [status EXCEPT ![r] = 200]
      /\ Count({"total"})
      /\ unasked' = unasked \ {r}
      /\ UNCHANGED <<failClosed, emitted, silent, failures, closed, placed>>
  BY DEF Arrive
<1>2. PlacesOK /\ AccountsOK /\ Books /\ FailClosedAsksAll
  BY DEF MiddlewareInv
<1>3. place \in Places /\ place \in Checks /\ place \in Open /\ pc[r] \notin Open /\ pc[r] \notin Checks
  BY <1>1, AfterIsACheck DEF Places, Checks, Open, AfterResponse
<1> HIDE DEF place
<1>4. /\ IsFiniteSet(At(Open)') /\ pc' \in [Reqs -> Places] /\ pc'[r] = place
      /\ \A q \in Reqs : q # r => pc'[q] = pc[q]
      /\ Cardinality(InFlight) \in Nat /\ Cardinality(InFlight') \in Nat
      /\ Cardinality(At(Open)) \in Nat /\ Cardinality(At(Open)') \in Nat
      /\ Cardinality(InFlight') = Cardinality(InFlight)
            + (IF place \in Checks THEN 1 ELSE 0) - (IF pc[r] \in Checks THEN 1 ELSE 0)
      /\ Cardinality(At(Open)') = Cardinality(At(Open))
            + (IF place \in Open THEN 1 ELSE 0) - (IF pc[r] \in Open THEN 1 ELSE 0)
  BY <1>1, <1>2, <1>3, BothCountsMove
<1>5. /\ Cardinality(InFlight') = Cardinality(InFlight) + 1
      /\ Cardinality(At(Open)') = Cardinality(At(Open)) + 1
  BY <1>3, <1>4
<1>6. PlacesOK'
  BY <1>1, <1>2, <1>4 DEF PlacesOK
<1>7. /\ metrics' \in [Counters -> Nat]
      /\ metrics'["total"] = metrics["total"] + 1
      /\ metrics'["allowed"] = metrics["allowed"] /\ metrics'["blocked"] = metrics["blocked"]
      /\ metrics'["bruteForce"] = metrics["bruteForce"]
      /\ metrics'["rateLimited"] = metrics["rateLimited"]
  BY <1>1, <1>2, CountCounts DEF Counters
<1>8. AccountsOK' /\ FailClosedAsksAll'
  BY <1>1, <1>2, <1>7 DEF AccountsOK, FailClosedAsksAll
<1>9. Books'
  BY <1>1, <1>2, <1>4, <1>5, <1>7
     DEF Books, EveryRequestIsCounted, EventsMatchCounters, AttemptsPaid, AccountsOK, Counters, Types
<1>10. QED
  BY <1>6, <1>8, <1>9 DEF MiddlewareInv

LEMMA KeyFunctionThrowsKeeps ==
  ASSUME MiddlewareInv, NEW r \in Reqs, KeyFunctionThrows(r)
  PROVE  MiddlewareInv'
<1>1. /\ pc[r] \in {"guard", "limit"}
      /\ Respond(r, 500)
      /\ silent' = silent + 1
      /\ UNCHANGED <<metrics, emitted, failures, closed, placed, unasked>>
  BY DEF KeyFunctionThrows, Quiet
<1>2. PlacesOK /\ AccountsOK /\ Books /\ FailClosedAsksAll
  BY DEF MiddlewareInv
<1>3. pc[r] \in Checks /\ 500 \in Nat
  BY <1>1 DEF Checks
<1>4. /\ PlacesOK' /\ failClosed' = failClosed
      /\ Cardinality(InFlight) \in Nat /\ Cardinality(InFlight') \in Nat
      /\ Cardinality(At(Open)) \in Nat /\ Cardinality(At(Open)') \in Nat
      /\ Cardinality(InFlight') = Cardinality(InFlight) - 1
      /\ Cardinality(At(Open)') = Cardinality(At(Open)) - 1
  BY <1>1, <1>2, <1>3, Answered
<1>5. AccountsOK' /\ FailClosedAsksAll'
  BY <1>1, <1>2, <1>4 DEF AccountsOK, FailClosedAsksAll
<1>6. /\ metrics' = metrics /\ emitted' = emitted /\ failures' = failures
      /\ closed' = closed /\ placed' = placed /\ silent' = silent + 1
  BY <1>1
<1>7. EveryRequestIsCounted' /\ EventsMatchCounters'
  BY <1>2, <1>4, <1>6
     DEF Books, EveryRequestIsCounted, EventsMatchCounters, AccountsOK, Counters, Types
<1>8. AttemptsPaid'
  BY <1>2, <1>4, <1>6 DEF Books, AttemptsPaid, AccountsOK, Counters, Types
<1>9. QED
  BY <1>4, <1>5, <1>7, <1>8 DEF MiddlewareInv, Books

\* Nothing is counted or told: the books are those of before, and so is every
\* account but unasked.
LEMMA QuietKeeps ==
  ASSUME MiddlewareInv, PlacesOK', UNCHANGED <<failClosed, metrics, emitted, history>>,
         Cardinality(InFlight) \in Nat, Cardinality(At(Open)) \in Nat, Cardinality(At(Open)') \in Nat,
         Cardinality(InFlight') = Cardinality(InFlight),
         Cardinality(At(Open)') <= Cardinality(At(Open))
  PROVE  MiddlewareInv'
<1>1. PlacesOK /\ AccountsOK /\ Books /\ FailClosedAsksAll
  BY DEF MiddlewareInv
<1>2. UNCHANGED <<failClosed, metrics, emitted, silent, failures, closed, placed, unasked>>
  BY DEF history
<1>3. AccountsOK' /\ FailClosedAsksAll'
  BY <1>1, <1>2 DEF AccountsOK, FailClosedAsksAll
<1>4. Books'
  BY <1>1, <1>2
     DEF Books, EveryRequestIsCounted, EventsMatchCounters, AttemptsPaid, AccountsOK, Counters, Types
<1>5. QED
  BY <1>3, <1>4 DEF MiddlewareInv

LEMMA PassKeeps ==
  ASSUME MiddlewareInv, NEW r \in Reqs, Pass(r) \/ LimiterPass(r)
  PROVE  MiddlewareInv'
<1>1. /\ pc[r] \in {"guard", "limit", "limiter"}
      /\ MoveOn(r, pc[r])
      /\ UNCHANGED <<metrics, emitted, history>>
  BY DEF Pass, LimiterPass, Quiet
<1>2. PlacesOK
  BY DEF MiddlewareInv
<1>3. /\ PlacesOK' /\ failClosed' = failClosed
      /\ Cardinality(InFlight) \in Nat /\ Cardinality(At(Open)) \in Nat
      /\ Cardinality(InFlight') = Cardinality(InFlight)
      /\ Cardinality(At(Open)') = Cardinality(At(Open))
  BY <1>1, <1>2, MovedOn
<1>4. QED
  BY <1>1, <1>3, QuietKeeps

LEMMA TurnAwayKeeps ==
  ASSUME MiddlewareInv, NEW r \in Reqs, TurnAway(r)
  PROVE  MiddlewareInv'
<1> DEFINE type == IF pc[r] = "guard" THEN "BRUTE_FORCE_BLOCKED" ELSE "ROUTE_RATE_LIMIT_EXCEEDED"
<1>1. /\ pc[r] \in {"guard", "limit"}
      /\ Respond(r, 429)
      /\ Tell(type, {"blocked"})
      /\ UNCHANGED <<silent, failures, closed, placed, unasked>>
  BY DEF TurnAway, history
<1>2. PlacesOK /\ AccountsOK /\ Books /\ FailClosedAsksAll
  BY DEF MiddlewareInv
<1>3. pc[r] \in Checks
  BY <1>1 DEF Checks
<1>4. /\ PlacesOK' /\ failClosed' = failClosed
      /\ Cardinality(InFlight) \in Nat /\ Cardinality(InFlight') \in Nat
      /\ Cardinality(At(Open)) \in Nat /\ Cardinality(At(Open)') \in Nat
      /\ Cardinality(InFlight') = Cardinality(InFlight) - 1
      /\ Cardinality(At(Open)') = Cardinality(At(Open)) - 1
  BY <1>1, <1>2, <1>3, Answered
<1>5. /\ type \in Types /\ {"blocked"} \in SUBSET Counters
      /\ type \in {"BRUTE_FORCE_BLOCKED", "ROUTE_RATE_LIMIT_EXCEEDED"}
  BY DEF Types, Counters
<1> HIDE DEF type
<1>6. /\ metrics' \in [Counters -> Nat] /\ emitted' \in [Types -> Nat]
      /\ \A u \in Types : emitted'[u] = IF u = type THEN emitted[u] + 1 ELSE emitted[u]
      /\ \A c \in Counters :
            metrics'[c] = IF c \in Counted(type) \cup {"blocked"} THEN metrics[c] + 1 ELSE metrics[c]
  BY <1>1, <1>2, <1>5, TellCounts
<1>7. AccountsOK' /\ FailClosedAsksAll'
  BY <1>1, <1>2, <1>4, <1>6 DEF AccountsOK, FailClosedAsksAll
<1>8. /\ metrics'["total"] = metrics["total"] /\ metrics'["allowed"] = metrics["allowed"]
      /\ metrics'["blocked"] = metrics["blocked"] + 1
      /\ emitted'["TEMPORARY_BAN_HIT"] = emitted["TEMPORARY_BAN_HIT"]
      /\ emitted'["THREAT_BLOCKED"] = emitted["THREAT_BLOCKED"]
      /\ emitted'["STORE_ERROR"] = emitted["STORE_ERROR"]
      /\ emitted'["BRUTE_FORCE_ATTEMPT"] = emitted["BRUTE_FORCE_ATTEMPT"]
      /\ emitted'["BRUTE_FORCE_RESET"] = emitted["BRUTE_FORCE_RESET"]
  BY <1>5, <1>6 DEF Counted, Counters, Types
<1>9. CASE type = "BRUTE_FORCE_BLOCKED"
  <2>1. /\ metrics'["bruteForce"] = metrics["bruteForce"] + 1
        /\ metrics'["rateLimited"] = metrics["rateLimited"]
        /\ emitted'["BRUTE_FORCE_BLOCKED"] = emitted["BRUTE_FORCE_BLOCKED"] + 1
        /\ emitted'["ROUTE_RATE_LIMIT_EXCEEDED"] = emitted["ROUTE_RATE_LIMIT_EXCEEDED"]
    BY <1>6, <1>9 DEF Counted, Counters, Types
  <2>2. Books'
    BY <1>1, <1>2, <1>4, <1>8, <2>1
       DEF Books, EveryRequestIsCounted, EventsMatchCounters, AttemptsPaid, AccountsOK, Counters, Types
  <2>3. QED
    BY <1>4, <1>7, <2>2 DEF MiddlewareInv
<1>10. CASE type = "ROUTE_RATE_LIMIT_EXCEEDED"
  <2>1. /\ metrics'["bruteForce"] = metrics["bruteForce"]
        /\ metrics'["rateLimited"] = metrics["rateLimited"] + 1
        /\ emitted'["BRUTE_FORCE_BLOCKED"] = emitted["BRUTE_FORCE_BLOCKED"]
        /\ emitted'["ROUTE_RATE_LIMIT_EXCEEDED"] = emitted["ROUTE_RATE_LIMIT_EXCEEDED"] + 1
    BY <1>6, <1>10 DEF Counted, Counters, Types
  <2>2. Books'
    BY <1>1, <1>2, <1>4, <1>8, <2>1
       DEF Books, EveryRequestIsCounted, EventsMatchCounters, AttemptsPaid, AccountsOK, Counters, Types
  <2>3. QED
    BY <1>4, <1>7, <2>2 DEF MiddlewareInv
<1>11. QED
  BY <1>5, <1>9, <1>10

LEMMA CheckFailsKeeps ==
  ASSUME MiddlewareInv, NEW r \in Reqs, CheckFails(r)
  PROVE  MiddlewareInv'
<1>1. /\ pc[r] \in {"guard", "limit"}
      /\ failures' = failures + 1
      /\ Emit("STORE_ERROR", 1)
      /\ UNCHANGED <<metrics, closed, placed>>
  BY DEF CheckFails, StoreFails
<1>2. PlacesOK /\ AccountsOK /\ Books /\ FailClosedAsksAll
  BY DEF MiddlewareInv
<1>3. pc[r] \in Checks /\ pc[r] \in {"guard", "limit", "limiter"} /\ 503 \in Nat /\ 1 \in Nat
  BY <1>1 DEF Checks
<1>4. /\ emitted' \in [Types -> Nat]
      /\ emitted'["STORE_ERROR"] = emitted["STORE_ERROR"] + 1
      /\ \A u \in Types \ {"STORE_ERROR"} : emitted'[u] = emitted[u]
  BY <1>1, <1>2, <1>3, ErrorCounts
<1>5. CASE failClosed
  <2>1. Respond(r, 503) /\ silent' = silent + 1 /\ unasked' = unasked
    BY <1>5 DEF CheckFails
  <2>2. /\ PlacesOK' /\ failClosed' = failClosed
        /\ Cardinality(InFlight) \in Nat /\ Cardinality(InFlight') \in Nat
        /\ Cardinality(At(Open)) \in Nat /\ Cardinality(At(Open)') \in Nat
        /\ Cardinality(InFlight') = Cardinality(InFlight) - 1
        /\ Cardinality(At(Open)') = Cardinality(At(Open)) - 1
    BY <1>1, <1>2, <1>3, <2>1, Answered
  <2>3. AccountsOK' /\ FailClosedAsksAll'
    BY <1>1, <1>2, <1>4, <2>1, <2>2 DEF AccountsOK, FailClosedAsksAll
  <2>4. Books'
    BY <1>1, <1>2, <1>4, <2>1, <2>2
       DEF Books, EveryRequestIsCounted, EventsMatchCounters, AttemptsPaid, AccountsOK, Counters, Types
  <2>5. QED
    BY <2>2, <2>3, <2>4 DEF MiddlewareInv
<1>6. CASE ~failClosed
  <2>1. MoveOn(r, pc[r]) /\ unasked' = unasked \cup {r} /\ silent' = silent
    BY <1>6 DEF CheckFails
  <2>2. /\ PlacesOK' /\ failClosed' = failClosed
        /\ Cardinality(InFlight) \in Nat /\ Cardinality(At(Open)) \in Nat
        /\ Cardinality(InFlight') = Cardinality(InFlight)
        /\ Cardinality(At(Open)') = Cardinality(At(Open))
    BY <1>2, <1>3, <2>1, MovedOn
  <2>3. AccountsOK' /\ FailClosedAsksAll'
    BY <1>1, <1>2, <1>4, <1>6, <2>1, <2>2 DEF AccountsOK, FailClosedAsksAll
  <2>4. Books'
    BY <1>1, <1>2, <1>4, <2>1, <2>2
       DEF Books, EveryRequestIsCounted, EventsMatchCounters, AttemptsPaid, AccountsOK, Counters, Types
  <2>5. QED
    BY <2>2, <2>3, <2>4 DEF MiddlewareInv
<1>7. QED
  BY <1>5, <1>6

LEMMA LimiterBlocksKeeps ==
  ASSUME MiddlewareInv, NEW r \in Reqs, LimiterBlocks(r)
  PROVE  MiddlewareInv'
<1>1. /\ pc[r] = "limiter"
      /\ Respond(r, 429)
      /\ UNCHANGED <<silent, failures, closed, placed, unasked>>
  BY DEF LimiterBlocks, history
<1>2. PICK type \in {"TEMPORARY_BAN_HIT", "RATE_LIMIT_EXCEEDED"} : Tell(type, {"blocked"})
  BY DEF LimiterBlocks
<1>3. PlacesOK /\ AccountsOK /\ Books /\ FailClosedAsksAll
  BY DEF MiddlewareInv
<1>4. pc[r] \in Checks
  BY <1>1 DEF Checks
<1>5. /\ PlacesOK' /\ failClosed' = failClosed
      /\ Cardinality(InFlight) \in Nat /\ Cardinality(InFlight') \in Nat
      /\ Cardinality(At(Open)) \in Nat /\ Cardinality(At(Open)') \in Nat
      /\ Cardinality(InFlight') = Cardinality(InFlight) - 1
      /\ Cardinality(At(Open)') <= Cardinality(At(Open))
  BY <1>1, <1>3, <1>4, Answered
<1>6. type \in Types /\ {"blocked"} \in SUBSET Counters
  BY DEF Types, Counters
<1>7. /\ metrics' \in [Counters -> Nat] /\ emitted' \in [Types -> Nat]
      /\ \A u \in Types : emitted'[u] = IF u = type THEN emitted[u] + 1 ELSE emitted[u]
      /\ \A c \in Counters :
            metrics'[c] = IF c \in Counted(type) \cup {"blocked"} THEN metrics[c] + 1 ELSE metrics[c]
  BY <1>2, <1>3, <1>6, TellCounts
<1>8. AccountsOK' /\ FailClosedAsksAll'
  BY <1>1, <1>3, <1>5, <1>7 DEF AccountsOK, FailClosedAsksAll
<1>9. /\ metrics'["total"] = metrics["total"] /\ metrics'["allowed"] = metrics["allowed"]
      /\ metrics'["blocked"] = metrics["blocked"] + 1
      /\ metrics'["bruteForce"] = metrics["bruteForce"]
      /\ \A u \in Types \ {"TEMPORARY_BAN_HIT", "RATE_LIMIT_EXCEEDED"} : emitted'[u] = emitted[u]
  BY <1>7 DEF Counted, Counters, Types
<1>10. \/ /\ metrics'["rateLimited"] = metrics["rateLimited"]
          /\ emitted'["TEMPORARY_BAN_HIT"] = emitted["TEMPORARY_BAN_HIT"] + 1
       \/ /\ metrics'["rateLimited"] = metrics["rateLimited"] + 1
          /\ emitted'["TEMPORARY_BAN_HIT"] = emitted["TEMPORARY_BAN_HIT"]
  BY <1>7 DEF Counted, Counters, Types
<1>11. Books'
  BY <1>1, <1>3, <1>5, <1>9, <1>10
     DEF Books, EveryRequestIsCounted, EventsMatchCounters, AttemptsPaid, AccountsOK, Counters, Types
<1>12. QED
  BY <1>5, <1>8, <1>11 DEF MiddlewareInv

LEMMA LimiterFailsKeeps ==
  ASSUME MiddlewareInv, NEW r \in Reqs, LimiterFails(r)
  PROVE  MiddlewareInv'
<1>1. /\ pc[r] = "limiter"
      /\ failures' = failures + 1
      /\ UNCHANGED <<silent, placed>>
  BY DEF LimiterFails, StoreFails
<1>2. PlacesOK /\ AccountsOK /\ Books /\ FailClosedAsksAll
  BY DEF MiddlewareInv
<1>3. pc[r] \in Checks /\ pc[r] \in {"guard", "limit", "limiter"} /\ 503 \in Nat /\ 1 \in Nat /\ 2 \in Nat
      /\ {"blocked"} \in SUBSET Counters
  BY <1>1 DEF Checks, Counters
<1>4. CASE failClosed
  <2>1. /\ Respond(r, 503) /\ Emit("STORE_ERROR", 2) /\ Count({"blocked"})
        /\ closed' = closed + 1 /\ unasked' = unasked
    BY <1>4 DEF LimiterFails
  <2>2. /\ PlacesOK' /\ failClosed' = failClosed
        /\ Cardinality(InFlight) \in Nat /\ Cardinality(InFlight') \in Nat
        /\ Cardinality(At(Open)) \in Nat /\ Cardinality(At(Open)') \in Nat
        /\ Cardinality(InFlight') = Cardinality(InFlight) - 1
        /\ Cardinality(At(Open)') <= Cardinality(At(Open))
    BY <1>2, <1>3, <2>1, Answered
  <2>3. /\ emitted' \in [Types -> Nat]
        /\ emitted'["STORE_ERROR"] = emitted["STORE_ERROR"] + 2
        /\ \A u \in Types \ {"STORE_ERROR"} : emitted'[u] = emitted[u]
    BY <1>2, <1>3, <2>1, ErrorCounts
  <2>4. /\ metrics' \in [Counters -> Nat]
        /\ metrics'["blocked"] = metrics["blocked"] + 1
        /\ metrics'["total"] = metrics["total"]
        /\ metrics'["allowed"] = metrics["allowed"]
        /\ metrics'["rateLimited"] = metrics["rateLimited"]
        /\ metrics'["bruteForce"] = metrics["bruteForce"]
    BY <1>2, <1>3, <2>1, CountCounts DEF Counters
  <2>5. AccountsOK' /\ FailClosedAsksAll'
    BY <1>1, <1>2, <2>1, <2>2, <2>3, <2>4 DEF AccountsOK, FailClosedAsksAll
  <2>6. Books'
    BY <1>1, <1>2, <2>1, <2>2, <2>3, <2>4
       DEF Books, EveryRequestIsCounted, EventsMatchCounters, AttemptsPaid, AccountsOK, Counters, Types
  <2>7. QED
    BY <2>2, <2>5, <2>6 DEF MiddlewareInv
<1>5. CASE ~failClosed
  <2>1. /\ MoveOn(r, "limiter") /\ Emit("STORE_ERROR", 1)
        /\ unasked' = unasked \cup {r} /\ UNCHANGED <<metrics, closed>>
    BY <1>5 DEF LimiterFails
  <2>2. /\ PlacesOK' /\ failClosed' = failClosed
        /\ Cardinality(InFlight) \in Nat /\ Cardinality(At(Open)) \in Nat
        /\ Cardinality(InFlight') = Cardinality(InFlight)
        /\ Cardinality(At(Open)') = Cardinality(At(Open))
    BY <1>1, <1>2, <1>3, <2>1, MovedOn
  <2>3. /\ emitted' \in [Types -> Nat]
        /\ emitted'["STORE_ERROR"] = emitted["STORE_ERROR"] + 1
        /\ \A u \in Types \ {"STORE_ERROR"} : emitted'[u] = emitted[u]
    BY <1>2, <1>3, <2>1, ErrorCounts
  <2>4. AccountsOK' /\ FailClosedAsksAll'
    BY <1>1, <1>2, <1>5, <2>1, <2>2, <2>3 DEF AccountsOK, FailClosedAsksAll
  <2>5. Books'
    BY <1>1, <1>2, <2>1, <2>2, <2>3
       DEF Books, EveryRequestIsCounted, EventsMatchCounters, AttemptsPaid, AccountsOK, Counters, Types
  <2>6. QED
    BY <2>2, <2>4, <2>5 DEF MiddlewareInv
<1>6. QED
  BY <1>4, <1>5

\* The request leaves the scan for the application: it stays open.
LEMMA CleanKeeps ==
  ASSUME MiddlewareInv, NEW r \in Reqs, Clean(r)
  PROVE  MiddlewareInv'
<1>1. /\ pc[r] = "scan"
      /\ pc' = [pc EXCEPT ![r] = "handler"]
      /\ Count({"allowed"})
      /\ UNCHANGED <<failClosed, route, observed, status, emitted>>
      /\ UNCHANGED <<silent, failures, closed, placed, unasked>>
  BY DEF Clean, history
<1>2. PlacesOK /\ AccountsOK /\ Books /\ FailClosedAsksAll
  BY DEF MiddlewareInv
<1>3. /\ "handler" \in Places \ {"guard", "limit"} /\ "handler" \notin Checks /\ "handler" \in Open
      /\ pc[r] \in Checks /\ pc[r] \in Open /\ {"allowed"} \in SUBSET Counters
  BY <1>1 DEF Places, Checks, Open, AfterResponse, Counters
<1>4. status' \in [Reqs -> Nat]
  BY <1>1, <1>2 DEF PlacesOK
<1>5. /\ PlacesOK'
      /\ Cardinality(InFlight) \in Nat /\ Cardinality(InFlight') \in Nat
      /\ Cardinality(At(Open)) \in Nat /\ Cardinality(At(Open)') \in Nat
      /\ Cardinality(InFlight') = Cardinality(InFlight)
            + (IF "handler" \in Checks THEN 1 ELSE 0) - (IF pc[r] \in Checks THEN 1 ELSE 0)
      /\ Cardinality(At(Open)') = Cardinality(At(Open))
            + (IF "handler" \in Open THEN 1 ELSE 0) - (IF pc[r] \in Open THEN 1 ELSE 0)
  BY <1>1, <1>2, <1>3, <1>4, WentOn
<1>6. /\ Cardinality(InFlight') = Cardinality(InFlight) - 1
      /\ Cardinality(At(Open)') = Cardinality(At(Open))
  BY <1>3, <1>5
<1>7. /\ metrics' \in [Counters -> Nat]
      /\ metrics'["allowed"] = metrics["allowed"] + 1
      /\ metrics'["total"] = metrics["total"]
      /\ metrics'["blocked"] = metrics["blocked"]
      /\ metrics'["rateLimited"] = metrics["rateLimited"]
      /\ metrics'["bruteForce"] = metrics["bruteForce"]
  BY <1>1, <1>2, <1>3, CountCounts DEF Counters
<1>8. AccountsOK' /\ FailClosedAsksAll'
  BY <1>1, <1>2, <1>7 DEF AccountsOK, FailClosedAsksAll
<1>9. Books'
  BY <1>1, <1>2, <1>5, <1>6, <1>7
     DEF Books, EveryRequestIsCounted, EventsMatchCounters, AttemptsPaid, AccountsOK, Counters, Types
<1>10. QED
  BY <1>5, <1>8, <1>9 DEF MiddlewareInv

LEMMA ThreatKeeps ==
  ASSUME MiddlewareInv, NEW r \in Reqs, Threat(r)
  PROVE  MiddlewareInv'
<1>1. pc[r] = "scan" /\ UNCHANGED history
  BY DEF Threat
<1>2. PlacesOK /\ AccountsOK /\ Books /\ FailClosedAsksAll
  BY DEF MiddlewareInv
<1>3. CASE route[r].limiter
  <2>1. /\ pc' = [pc EXCEPT ![r] = "striking"]
        /\ UNCHANGED <<metrics, emitted, failClosed, route, observed, status>>
    BY <1>3 DEF Threat, Quiet
  <2>2. /\ "striking" \in Places \ {"guard", "limit"} /\ "striking" \in Checks /\ "striking" \in Open
        /\ pc[r] \in Checks /\ pc[r] \in Open
    BY <1>1 DEF Places, Checks, Open, AfterResponse
  <2>3. status' \in [Reqs -> Nat]
    BY <1>2, <2>1 DEF PlacesOK
  <2>4. /\ PlacesOK'
        /\ Cardinality(InFlight) \in Nat /\ Cardinality(InFlight') \in Nat
        /\ Cardinality(At(Open)) \in Nat /\ Cardinality(At(Open)') \in Nat
        /\ Cardinality(InFlight') = Cardinality(InFlight)
              + (IF "striking" \in Checks THEN 1 ELSE 0) - (IF pc[r] \in Checks THEN 1 ELSE 0)
        /\ Cardinality(At(Open)') = Cardinality(At(Open))
              + (IF "striking" \in Open THEN 1 ELSE 0) - (IF pc[r] \in Open THEN 1 ELSE 0)
    BY <1>2, <2>1, <2>2, <2>3, WentOn
  <2>5. /\ Cardinality(InFlight') = Cardinality(InFlight)
        /\ Cardinality(At(Open)') <= Cardinality(At(Open))
    BY <2>2, <2>4
  <2>6. QED
    BY <1>1, <2>1, <2>4, <2>5, QuietKeeps
<1>4. CASE ~route[r].limiter
  <2>1. Respond(r, 400) /\ Tell("THREAT_BLOCKED", {"blocked"})
        /\ UNCHANGED <<silent, failures, closed, placed, unasked>>
    BY <1>1, <1>4 DEF Threat, history
  <2>2. /\ pc[r] \in Checks /\ 400 \in Nat
        /\ "THREAT_BLOCKED" \in Types /\ {"blocked"} \in SUBSET Counters
        /\ Counted("THREAT_BLOCKED") \cup {"blocked"} = {"blocked"}
    BY <1>1 DEF Checks, Types, Counters, Counted
  <2>3. /\ PlacesOK' /\ failClosed' = failClosed
        /\ Cardinality(InFlight) \in Nat /\ Cardinality(InFlight') \in Nat
        /\ Cardinality(At(Open)) \in Nat /\ Cardinality(At(Open)') \in Nat
        /\ Cardinality(InFlight') = Cardinality(InFlight) - 1
        /\ Cardinality(At(Open)') <= Cardinality(At(Open))
    BY <1>2, <2>1, <2>2, Answered
  <2>4. /\ metrics' \in [Counters -> Nat] /\ emitted' \in [Types -> Nat]
        /\ emitted'["THREAT_BLOCKED"] = emitted["THREAT_BLOCKED"] + 1
        /\ \A u \in Types \ {"THREAT_BLOCKED"} : emitted'[u] = emitted[u]
        /\ \A c \in Counters : metrics'[c] = IF c \in {"blocked"} THEN metrics[c] + 1 ELSE metrics[c]
    BY <1>2, <2>1, <2>2, TellCounts
  <2>5. AccountsOK' /\ FailClosedAsksAll'
    BY <1>2, <2>1, <2>3, <2>4 DEF AccountsOK, FailClosedAsksAll
  <2>6. /\ metrics'["blocked"] = metrics["blocked"] + 1
        /\ metrics'["total"] = metrics["total"]
        /\ metrics'["allowed"] = metrics["allowed"]
        /\ metrics'["rateLimited"] = metrics["rateLimited"]
        /\ metrics'["bruteForce"] = metrics["bruteForce"]
    BY <2>4 DEF Counters
  <2>7. Books'
    BY <1>2, <2>1, <2>3, <2>4, <2>6
       DEF Books, EveryRequestIsCounted, EventsMatchCounters, AttemptsPaid, AccountsOK, Counters, Types
  <2>8. QED
    BY <2>3, <2>5, <2>7 DEF MiddlewareInv
<1>5. QED
  BY <1>3, <1>4

LEMMA StrikeKeeps ==
  ASSUME MiddlewareInv, NEW r \in Reqs, Strike(r)
  PROVE  MiddlewareInv'
<1>1. /\ pc[r] = "striking"
      /\ Respond(r, 400)
      /\ Count({"blocked"})
      /\ UNCHANGED <<silent, closed, placed, unasked>>
  BY DEF Strike
<1>2. PICK extra \in {{}, {"TEMPORARY_BAN_CREATED"}, {"STORE_ERROR"}} :
          /\ IF "STORE_ERROR" \in extra THEN StoreFails ELSE UNCHANGED failures
          /\ emitted' = [t \in Types |->
                IF t \in extra \cup {"THREAT_BLOCKED"} THEN emitted[t] + 1 ELSE emitted[t]]
  BY DEF Strike
<1>3. PlacesOK /\ AccountsOK /\ Books /\ FailClosedAsksAll
  BY DEF MiddlewareInv
<1>4. pc[r] \in Checks /\ 400 \in Nat /\ {"blocked"} \in SUBSET Counters
  BY <1>1 DEF Checks, Counters
<1>5. /\ PlacesOK' /\ failClosed' = failClosed
      /\ Cardinality(InFlight) \in Nat /\ Cardinality(InFlight') \in Nat
      /\ Cardinality(At(Open)) \in Nat /\ Cardinality(At(Open)') \in Nat
      /\ Cardinality(InFlight') = Cardinality(InFlight) - 1
      /\ Cardinality(At(Open)') <= Cardinality(At(Open))
  BY <1>1, <1>3, <1>4, Answered
<1>6. /\ metrics' \in [Counters -> Nat]
      /\ metrics'["blocked"] = metrics["blocked"] + 1
      /\ metrics'["total"] = metrics["total"] /\ metrics'["allowed"] = metrics["allowed"]
      /\ metrics'["rateLimited"] = metrics["rateLimited"]
      /\ metrics'["bruteForce"] = metrics["bruteForce"]
  BY <1>1, <1>3, <1>4, CountCounts DEF Counters
<1>7. emitted \in [Types -> Nat] /\ failures \in Nat
  BY <1>3 DEF AccountsOK
<1>8. /\ emitted' \in [Types -> Nat]
      /\ emitted'["THREAT_BLOCKED"] = emitted["THREAT_BLOCKED"] + 1
      /\ emitted'["TEMPORARY_BAN_HIT"] = emitted["TEMPORARY_BAN_HIT"]
      /\ emitted'["BRUTE_FORCE_ATTEMPT"] = emitted["BRUTE_FORCE_ATTEMPT"]
      /\ emitted'["BRUTE_FORCE_RESET"] = emitted["BRUTE_FORCE_RESET"]
      /\ emitted'["ROUTE_RATE_LIMIT_EXCEEDED"] = emitted["ROUTE_RATE_LIMIT_EXCEEDED"]
      /\ emitted'["BRUTE_FORCE_BLOCKED"] = emitted["BRUTE_FORCE_BLOCKED"]
  BY <1>2, <1>7 DEF Types
<1>9. \/ failures' = failures /\ emitted'["STORE_ERROR"] = emitted["STORE_ERROR"]
      \/ failures' = failures + 1 /\ emitted'["STORE_ERROR"] = emitted["STORE_ERROR"] + 1
  BY <1>2, <1>7 DEF Types, StoreFails
<1>10. AccountsOK' /\ FailClosedAsksAll'
  BY <1>1, <1>3, <1>5, <1>6, <1>8, <1>9 DEF AccountsOK, FailClosedAsksAll
<1>11. EveryRequestIsCounted' /\ AttemptsPaid'
  BY <1>1, <1>3, <1>5, <1>6, <1>8
     DEF Books, EveryRequestIsCounted, AttemptsPaid, AccountsOK, Counters, Types
<1>12. /\ metrics["blocked"] \in Nat /\ metrics["bruteForce"] \in Nat /\ metrics["rateLimited"] \in Nat
       /\ emitted["TEMPORARY_BAN_HIT"] \in Nat /\ emitted["THREAT_BLOCKED"] \in Nat
       /\ emitted["STORE_ERROR"] \in Nat /\ closed \in Nat /\ failures \in Nat /\ placed \in Nat
  BY <1>3 DEF AccountsOK, Counters, Types
<1>13. EventsMatchCounters
  BY <1>3 DEF Books
<1>14. EventsMatchCounters'
  BY <1>1, <1>6, <1>8, <1>9, <1>12, <1>13 DEF EventsMatchCounters
<1>15. QED
  BY <1>5, <1>10, <1>11, <1>14 DEF MiddlewareInv, Books

\* Past the checks nothing changes but the place and the status, and nobody
\* becomes open again.
LEMMA QuietlyWentOn ==
  ASSUME MiddlewareInv, NEW r \in Reqs, pc[r] \in {"handler", "finished"},
         NEW place \in {"idle", "finished", "recording", "resetting"},
         pc' = [pc EXCEPT ![r] = place], status' \in [Reqs -> Nat],
         UNCHANGED <<failClosed, route, observed, metrics, emitted, history>>
  PROVE  MiddlewareInv'
<1>1. PlacesOK
  BY DEF MiddlewareInv
<1>2. /\ place \in Places \ {"guard", "limit"} /\ place \notin Checks
      /\ pc[r] \notin Checks /\ pc[r] \in Open
  BY DEF Places, Checks, Open, AfterResponse
<1>3. /\ PlacesOK'
      /\ Cardinality(InFlight) \in Nat /\ Cardinality(InFlight') \in Nat
      /\ Cardinality(At(Open)) \in Nat /\ Cardinality(At(Open)') \in Nat
      /\ Cardinality(InFlight') = Cardinality(InFlight)
            + (IF place \in Checks THEN 1 ELSE 0) - (IF pc[r] \in Checks THEN 1 ELSE 0)
      /\ Cardinality(At(Open)') = Cardinality(At(Open))
            + (IF place \in Open THEN 1 ELSE 0) - (IF pc[r] \in Open THEN 1 ELSE 0)
  BY <1>1, <1>2, WentOn
<1>4. /\ Cardinality(InFlight') = Cardinality(InFlight)
      /\ Cardinality(At(Open)') <= Cardinality(At(Open))
  BY <1>2, <1>3
<1>5. QED
  BY <1>3, <1>4, QuietKeeps

LEMMA HandleKeeps ==
  ASSUME MiddlewareInv, Replies \subseteq Nat, NEW r \in Reqs, Handle(r)
  PROVE  MiddlewareInv'
<1>1. PICK code \in Replies : Respond(r, code)
  BY DEF Handle
<1>2. pc[r] = "handler" /\ UNCHANGED <<metrics, emitted, history>>
  BY DEF Handle, Quiet
<1> DEFINE place == IF observed[r] THEN "finished" ELSE "idle"
<1>3. /\ place \in {"idle", "finished", "recording", "resetting"}
      /\ pc' = [pc EXCEPT ![r] = place]
      /\ status' = [status EXCEPT ![r] = code]
      /\ UNCHANGED <<failClosed, route, observed>>
  BY <1>1 DEF Respond
<1>4. status' \in [Reqs -> Nat]
  BY <1>3 DEF MiddlewareInv, PlacesOK
<1>5. pc[r] \in {"handler", "finished"}
  BY <1>2
<1> HIDE DEF place
<1>6. QED
  BY <1>2, <1>3, <1>4, <1>5, QuietlyWentOn

LEMMA ClientLeavesKeeps ==
  ASSUME MiddlewareInv, NEW r \in Reqs, ClientLeaves(r)
  PROVE  MiddlewareInv'
<1>1. /\ pc[r] \in {"handler", "finished"}
      /\ pc' = [pc EXCEPT ![r] = "idle"]
      /\ UNCHANGED <<failClosed, route, observed, status, metrics, emitted, history>>
  BY DEF ClientLeaves, Quiet
<1>2. status' \in [Reqs -> Nat] /\ "idle" \in {"idle", "finished", "recording", "resetting"}
  BY <1>1 DEF MiddlewareInv, PlacesOK
<1>3. QED
  BY <1>1, <1>2, QuietlyWentOn

LEMMA ResolveKeeps ==
  ASSUME MiddlewareInv, NEW r \in Reqs, Resolve(r)
  PROVE  MiddlewareInv'
<1>1. /\ pc[r] = "finished"
      /\ UNCHANGED <<metrics, emitted, failClosed, route, observed, status, history>>
  BY DEF Resolve, Quiet
<1>2. PICK place \in {"idle", "finished", "recording", "resetting"} : pc' = [pc EXCEPT ![r] = place]
  BY DEF Resolve
<1>3. status' \in [Reqs -> Nat] /\ pc[r] \in {"handler", "finished"}
  BY <1>1 DEF MiddlewareInv, PlacesOK
<1>4. QED
  BY <1>1, <1>2, <1>3, QuietlyWentOn

-----------------------------------------------------------------------------
(* What the observer of the response does after it. *)

\* The request is past its checks and is no longer open.
LEMMA ObserverWentOn ==
  ASSUME PlacesOK, NEW r \in Reqs, pc[r] \in {"recording", "blocking", "resetting"},
         NEW place \in {"idle", "blocking"},
         pc' = [pc EXCEPT ![r] = place], UNCHANGED <<failClosed, route, observed, status>>
  PROVE  /\ PlacesOK'
         /\ Cardinality(InFlight) \in Nat
         /\ Cardinality(At(Open)) \in Nat /\ Cardinality(At(Open)') \in Nat
         /\ Cardinality(InFlight') = Cardinality(InFlight)
         /\ Cardinality(At(Open)') <= Cardinality(At(Open))
         /\ pc[r] # "blocking" => Cardinality(At(Open)') = Cardinality(At(Open)) - 1
<1>1. /\ place \in Places \ {"guard", "limit"} /\ place \notin Checks /\ place \notin Open
      /\ pc[r] \notin Checks /\ (pc[r] # "blocking" => pc[r] \in Open)
  BY DEF Places, Checks, Open, AfterResponse
<1>2. status' \in [Reqs -> Nat]
  BY DEF PlacesOK
<1>3. /\ PlacesOK'
      /\ Cardinality(InFlight) \in Nat /\ Cardinality(InFlight') \in Nat
      /\ Cardinality(At(Open)) \in Nat /\ Cardinality(At(Open)') \in Nat
      /\ Cardinality(InFlight') = Cardinality(InFlight)
            + (IF place \in Checks THEN 1 ELSE 0) - (IF pc[r] \in Checks THEN 1 ELSE 0)
      /\ Cardinality(At(Open)') = Cardinality(At(Open))
            + (IF place \in Open THEN 1 ELSE 0) - (IF pc[r] \in Open THEN 1 ELSE 0)
  BY <1>1, <1>2, WentOn
<1>4. /\ Cardinality(InFlight') = Cardinality(InFlight)
      /\ Cardinality(At(Open)') <= Cardinality(At(Open))
      /\ pc[r] # "blocking" => Cardinality(At(Open)') = Cardinality(At(Open)) - 1
  BY <1>1, <1>3
<1>5. QED
  BY <1>3, <1>4

LEMMA RecordFailureKeeps ==
  ASSUME MiddlewareInv, NEW r \in Reqs, RecordFailure(r)
  PROVE  MiddlewareInv'
<1>1. /\ pc[r] = "recording" /\ pc[r] \in {"recording", "blocking", "resetting"}
      /\ Tell("BRUTE_FORCE_ATTEMPT", {})
      /\ UNCHANGED <<failClosed, route, observed, status>>
      /\ UNCHANGED <<silent, failures, closed, placed, unasked>>
  BY DEF RecordFailure, history
<1>2. PICK place \in {"idle", "blocking"} : pc' = [pc EXCEPT ![r] = place]
  BY DEF RecordFailure
<1>3. PlacesOK /\ AccountsOK /\ Books /\ FailClosedAsksAll
  BY DEF MiddlewareInv
<1>4. /\ PlacesOK'
      /\ Cardinality(InFlight) \in Nat
      /\ Cardinality(At(Open)) \in Nat /\ Cardinality(At(Open)') \in Nat
      /\ Cardinality(InFlight') = Cardinality(InFlight)
      /\ pc[r] # "blocking" => Cardinality(At(Open)') = Cardinality(At(Open)) - 1
  BY <1>1, <1>2, <1>3, ObserverWentOn
<1>5. Cardinality(At(Open)') = Cardinality(At(Open)) - 1
  BY <1>1, <1>4
<1>6. /\ "BRUTE_FORCE_ATTEMPT" \in Types /\ {} \in SUBSET Counters
      /\ Counted("BRUTE_FORCE_ATTEMPT") \cup {} = {}
  BY DEF Types, Counted
<1>7. /\ metrics' \in [Counters -> Nat] /\ emitted' \in [Types -> Nat]
      /\ emitted'["BRUTE_FORCE_ATTEMPT"] = emitted["BRUTE_FORCE_ATTEMPT"] + 1
      /\ \A u \in Types \ {"BRUTE_FORCE_ATTEMPT"} : emitted'[u] = emitted[u]
      /\ \A c \in Counters : metrics'[c] = IF c \in {} THEN metrics[c] + 1 ELSE metrics[c]
  BY <1>1, <1>3, <1>6, TellCounts
<1>8. /\ metrics'["total"] = metrics["total"] /\ metrics'["allowed"] = metrics["allowed"]
      /\ metrics'["blocked"] = metrics["blocked"]
      /\ metrics'["rateLimited"] = metrics["rateLimited"]
      /\ metrics'["bruteForce"] = metrics["bruteForce"]
  BY <1>7 DEF Counters
<1>9. AccountsOK' /\ FailClosedAsksAll'
  BY <1>1, <1>3, <1>7 DEF AccountsOK, FailClosedAsksAll
<1>10. Books'
  BY <1>1, <1>3, <1>4, <1>5, <1>7, <1>8
     DEF Books, EveryRequestIsCounted, EventsMatchCounters, AttemptsPaid, AccountsOK, Counters, Types
<1>11. QED
  BY <1>4, <1>9, <1>10 DEF MiddlewareInv

LEMMA PlaceBlocksKeeps ==
  ASSUME MiddlewareInv, NEW r \in Reqs, PlaceBlocks(r)
  PROVE  MiddlewareInv'
<1>1. /\ pc[r] \in {"recording", "blocking", "resetting"} /\ "idle" \in {"idle", "blocking"}
      /\ pc' = [pc EXCEPT ![r] = "idle"]
      /\ UNCHANGED <<failClosed, route, observed, status>>
      /\ Tell("BRUTE_FORCE_BLOCKED", {})
      /\ placed' = placed + 1
      /\ UNCHANGED <<silent, failures, closed, unasked>>
  BY DEF PlaceBlocks, Rest
<1>2. PlacesOK /\ AccountsOK /\ Books /\ FailClosedAsksAll
  BY DEF MiddlewareInv
<1>3. /\ PlacesOK'
      /\ Cardinality(InFlight) \in Nat
      /\ Cardinality(At(Open)) \in Nat /\ Cardinality(At(Open)') \in Nat
      /\ Cardinality(InFlight') = Cardinality(InFlight)
      /\ Cardinality(At(Open)') <= Cardinality(At(Open))
  BY <1>1, <1>2, ObserverWentOn
<1>4. /\ "BRUTE_FORCE_BLOCKED" \in Types /\ {} \in SUBSET Counters
      /\ Counted("BRUTE_FORCE_BLOCKED") \cup {} = {"bruteForce"}
  BY DEF Types, Counted
<1>5. /\ metrics' \in [Counters -> Nat] /\ emitted' \in [Types -> Nat]
      /\ emitted'["BRUTE_FORCE_BLOCKED"] = emitted["BRUTE_FORCE_BLOCKED"] + 1
      /\ \A u \in Types \ {"BRUTE_FORCE_BLOCKED"} : emitted'[u] = emitted[u]
      /\ \A c \in Counters : metrics'[c] = IF c \in {"bruteForce"} THEN metrics[c] + 1 ELSE metrics[c]
  BY <1>1, <1>2, <1>4, TellCounts
<1>6. /\ metrics'["total"] = metrics["total"] /\ metrics'["allowed"] = metrics["allowed"]
      /\ metrics'["blocked"] = metrics["blocked"]
      /\ metrics'["rateLimited"] = metrics["rateLimited"]
      /\ metrics'["bruteForce"] = metrics["bruteForce"] + 1
  BY <1>5 DEF Counters
<1>7. /\ emitted'["TEMPORARY_BAN_HIT"] = emitted["TEMPORARY_BAN_HIT"]
      /\ emitted'["THREAT_BLOCKED"] = emitted["THREAT_BLOCKED"]
      /\ emitted'["STORE_ERROR"] = emitted["STORE_ERROR"]
      /\ emitted'["BRUTE_FORCE_ATTEMPT"] = emitted["BRUTE_FORCE_ATTEMPT"]
      /\ emitted'["BRUTE_FORCE_RESET"] = emitted["BRUTE_FORCE_RESET"]
      /\ emitted'["ROUTE_RATE_LIMIT_EXCEEDED"] = emitted["ROUTE_RATE_LIMIT_EXCEEDED"]
  BY <1>5 DEF Types
<1>8. AccountsOK' /\ FailClosedAsksAll'
  BY <1>1, <1>2, <1>5 DEF AccountsOK, FailClosedAsksAll
<1>9. EveryRequestIsCounted' /\ EventsMatchCounters'
  BY <1>1, <1>2, <1>3, <1>6, <1>7
     DEF Books, EveryRequestIsCounted, EventsMatchCounters, AccountsOK, Counters, Types
<1>10. emitted'["BRUTE_FORCE_BLOCKED"] = emitted["BRUTE_FORCE_BLOCKED"] + 1
  BY <1>5
<1>11. AttemptsPaid'
  BY <1>1, <1>2, <1>3, <1>6, <1>7, <1>10 DEF Books, AttemptsPaid, AccountsOK, Counters, Types
<1>12. QED
  BY <1>3, <1>8, <1>9, <1>11 DEF MiddlewareInv, Books

LEMMA ResetCountersKeeps ==
  ASSUME MiddlewareInv, NEW r \in Reqs, ResetCounters(r)
  PROVE  MiddlewareInv'
<1>1. /\ pc[r] = "resetting"
      /\ pc[r] \in {"recording", "blocking", "resetting"} /\ "idle" \in {"idle", "blocking"}
      /\ pc' = [pc EXCEPT ![r] = "idle"]
      /\ UNCHANGED <<failClosed, route, observed, status>>
      /\ Tell("BRUTE_FORCE_RESET", {})
      /\ UNCHANGED <<silent, failures, closed, placed, unasked>>
  BY DEF ResetCounters, Rest, history
<1>2. PlacesOK /\ AccountsOK /\ Books /\ FailClosedAsksAll
  BY DEF MiddlewareInv
<1>3. /\ PlacesOK'
      /\ Cardinality(InFlight) \in Nat
      /\ Cardinality(At(Open)) \in Nat /\ Cardinality(At(Open)') \in Nat
      /\ Cardinality(InFlight') = Cardinality(InFlight)
      /\ pc[r] # "blocking" => Cardinality(At(Open)') = Cardinality(At(Open)) - 1
  BY <1>1, <1>2, ObserverWentOn
<1>4. Cardinality(At(Open)') = Cardinality(At(Open)) - 1
  BY <1>1, <1>3
<1>5. /\ "BRUTE_FORCE_RESET" \in Types /\ {} \in SUBSET Counters
      /\ Counted("BRUTE_FORCE_RESET") \cup {} = {}
  BY DEF Types, Counted
<1>6. /\ metrics' \in [Counters -> Nat] /\ emitted' \in [Types -> Nat]
      /\ emitted'["BRUTE_FORCE_RESET"] = emitted["BRUTE_FORCE_RESET"] + 1
      /\ \A u \in Types \ {"BRUTE_FORCE_RESET"} : emitted'[u] = emitted[u]
      /\ \A c \in Counters : metrics'[c] = IF c \in {} THEN metrics[c] + 1 ELSE metrics[c]
  BY <1>1, <1>2, <1>5, TellCounts
<1>7. /\ metrics'["total"] = metrics["total"] /\ metrics'["allowed"] = metrics["allowed"]
      /\ metrics'["blocked"] = metrics["blocked"]
      /\ metrics'["rateLimited"] = metrics["rateLimited"]
      /\ metrics'["bruteForce"] = metrics["bruteForce"]
  BY <1>6 DEF Counters
<1>8. AccountsOK' /\ FailClosedAsksAll'
  BY <1>1, <1>2, <1>6 DEF AccountsOK, FailClosedAsksAll
<1>9. Books'
  BY <1>1, <1>2, <1>3, <1>4, <1>6, <1>7
     DEF Books, EveryRequestIsCounted, EventsMatchCounters, AttemptsPaid, AccountsOK, Counters, Types
<1>10. QED
  BY <1>3, <1>8, <1>9 DEF MiddlewareInv

LEMMA FinalizeFailsKeeps ==
  ASSUME MiddlewareInv, NEW r \in Reqs, FinalizeFails(r)
  PROVE  MiddlewareInv'
<1>1. /\ pc[r] \in {"recording", "blocking", "resetting"} /\ "idle" \in {"idle", "blocking"}
      /\ pc' = [pc EXCEPT ![r] = "idle"]
      /\ UNCHANGED <<failClosed, route, observed, status>>
      /\ failures' = failures + 1
      /\ Emit("STORE_ERROR", 1) /\ 1 \in Nat
      /\ UNCHANGED <<metrics, silent, closed, placed, unasked>>
  BY DEF FinalizeFails, StoreFails, Rest
<1>2. PlacesOK /\ AccountsOK /\ Books /\ FailClosedAsksAll
  BY DEF MiddlewareInv
<1>3. /\ PlacesOK'
      /\ Cardinality(InFlight) \in Nat
      /\ Cardinality(At(Open)) \in Nat /\ Cardinality(At(Open)') \in Nat
      /\ Cardinality(InFlight') = Cardinality(InFlight)
      /\ Cardinality(At(Open)') <= Cardinality(At(Open))
  BY <1>1, <1>2, ObserverWentOn
<1>4. /\ emitted' \in [Types -> Nat]
      /\ emitted'["STORE_ERROR"] = emitted["STORE_ERROR"] + 1
      /\ \A u \in Types \ {"STORE_ERROR"} : emitted'[u] = emitted[u]
  BY <1>1, <1>2, ErrorCounts
<1>5. AccountsOK' /\ FailClosedAsksAll'
  BY <1>1, <1>2, <1>4 DEF AccountsOK, FailClosedAsksAll
<1>6. Books'
  BY <1>1, <1>2, <1>3, <1>4
     DEF Books, EveryRequestIsCounted, EventsMatchCounters, AttemptsPaid, AccountsOK, Counters, Types
<1>7. QED
  BY <1>3, <1>5, <1>6 DEF MiddlewareInv

-----------------------------------------------------------------------------
(* The invariant holds. *)

LEMMA InitInv ==
  ASSUME Init
  PROVE  MiddlewareInv
<1>1. At(Open) = {} /\ InFlight = {}
  BY DEF Init, At, Open, Checks, InFlight
<1>2. /\ IsFiniteSet(At(Open)) /\ Cardinality(At(Open)) = 0 /\ Cardinality(InFlight) = 0
  BY <1>1, FS_EmptySet
<1>3. PlacesOK
  BY <1>2 DEF Init, PlacesOK, Places, RouteType
<1>4. AccountsOK /\ FailClosedAsksAll
  BY DEF Init, AccountsOK, FailClosedAsksAll
<1>5. Books
  BY <1>2 DEF Init, Books, EveryRequestIsCounted, EventsMatchCounters, AttemptsPaid, Counters, Types
<1>6. QED
  BY <1>3, <1>4, <1>5 DEF MiddlewareInv

LEMMA StepInv ==
  ASSUME Routes \subseteq RouteType, Replies \subseteq Nat, MiddlewareInv, [Next]_vars
  PROVE  MiddlewareInv'
<1>1. CASE UNCHANGED vars
  <2>1. /\ UNCHANGED <<failClosed, pc, route, observed, status, metrics, emitted>>
        /\ UNCHANGED <<silent, failures, closed, placed, unasked>>
    BY <1>1 DEF vars, history
  <2>2. InFlight' = InFlight /\ At(Open)' = At(Open)
    BY <2>1 DEF InFlight, At
  <2>3. QED
    BY <2>1, <2>2 DEF MiddlewareInv, PlacesOK, AccountsOK, Books, FailClosedAsksAll,
                      EveryRequestIsCounted, EventsMatchCounters, AttemptsPaid
<1>2. ASSUME NEW r \in Reqs, Step(r)
      PROVE  MiddlewareInv'
  BY <1>2, KeyFunctionThrowsKeeps, PassKeeps, TurnAwayKeeps, CheckFailsKeeps, LimiterBlocksKeeps,
     LimiterFailsKeeps, CleanKeeps, ThreatKeeps, StrikeKeeps, HandleKeeps, ResolveKeeps,
     RecordFailureKeeps, PlaceBlocksKeeps, ResetCountersKeeps, FinalizeFailsKeeps
     DEF Step
<1>3. ASSUME NEW r \in Reqs, ClientLeaves(r)
      PROVE  MiddlewareInv'
  BY <1>3, ClientLeavesKeeps
<1>4. ASSUME NEW r \in Reqs, NEW rt \in Routes, Arrive(r, rt)
      PROVE  MiddlewareInv'
  BY <1>4, ArriveKeeps
<1>5. QED
  BY <1>1, <1>2, <1>3, <1>4 DEF Next

-----------------------------------------------------------------------------
(* The answers: which step sends one, and which leaves it as it is. *)

AnswersOK == answer \in [Reqs -> Answers] /\ AnsweredOnce

\* One request moves to a place that agrees with its answer.
LEMMA AnswerGoesAlong ==
  ASSUME pc \in [Reqs -> Places], AnswersOK, NEW r \in Reqs,
         NEW place, pc' = [pc EXCEPT ![r] = place],
         NEW ans \in Answers, answer' = [answer EXCEPT ![r] = ans],
         ans = "pending" <=> place \in Checks \cup {"handler"}
  PROVE  AnswersOK'
<1>1. /\ answer' \in [Reqs -> Answers]
      /\ pc'[r] = place /\ answer'[r] = ans
      /\ \A q \in Reqs : q # r => pc'[q] = pc[q] /\ answer'[q] = answer[q]
  BY DEF AnswersOK
<1>2. AnsweredOnce'
  BY <1>1 DEF AnswersOK, AnsweredOnce
<1>3. QED
  BY <1>1, <1>2 DEF AnswersOK

\* A step that answers nothing stays among the checks and the application, or
\* among the places after the response.
LEMMA AnswerStays ==
  ASSUME pc \in [Reqs -> Places], AnswersOK, NEW r \in Reqs,
         NEW place, pc' = [pc EXCEPT ![r] = place], answer' = answer,
         pc[r] \in Checks \cup {"handler"} <=> place \in Checks \cup {"handler"}
  PROVE  AnswersOK'
<1>1. answer' = [answer EXCEPT ![r] = answer[r]] /\ answer[r] \in Answers
  BY DEF AnswersOK
<1>2. answer[r] = "pending" <=> place \in Checks \cup {"handler"}
  BY DEF AnswersOK, AnsweredOnce
<1>3. QED
  BY <1>1, <1>2, AnswerGoesAlong

LEMMA RespondAnswers ==
  ASSUME pc \in [Reqs -> Places], AnswersOK, NEW r \in Reqs, NEW code, Respond(r, code)
  PROVE  AnswersOK'
<1> DEFINE place == IF observed[r] THEN "finished" ELSE "idle"
<1>1. pc' = [pc EXCEPT ![r] = place] /\ answer' = [answer EXCEPT ![r] = "sent"]
  BY DEF Respond
<1>2. place \notin Checks \cup {"handler"} /\ "sent" \in Answers
  BY DEF Checks, Answers
<1> HIDE DEF place
<1>3. QED
  BY <1>1, <1>2, AnswerGoesAlong

LEMMA MoveOnAnswersNot ==
  ASSUME PlacesOK, AnswersOK, NEW r \in Reqs, pc[r] \in Checks, MoveOn(r, pc[r])
  PROVE  AnswersOK'
<1> DEFINE place == After(pc[r], route[r])
<1>1. pc' = [pc EXCEPT ![r] = place] /\ answer' = answer
  BY DEF MoveOn
<1>2. place \in {"guard", "limit", "limiter", "scan"}
  BY AfterIsACheck DEF PlacesOK
<1> HIDE DEF place
<1>3. place \in Checks /\ pc \in [Reqs -> Places]
  BY <1>2 DEF Checks, PlacesOK
<1>4. QED
  BY <1>1, <1>3, AnswerStays

\* A request goes from one place after the response to another, or rests.
LEMMA ObserverAnswersNot ==
  ASSUME pc \in [Reqs -> Places], AnswersOK, NEW r \in Reqs, pc[r] \in AfterResponse,
         NEW place \in AfterResponse \cup {"idle"},
         pc' = [pc EXCEPT ![r] = place], answer' = answer
  PROVE  AnswersOK'
<1>1. place \notin Checks \cup {"handler"} /\ pc[r] \notin Checks \cup {"handler"}
  BY DEF Checks, AfterResponse
<1>2. QED
  BY <1>1, AnswerStays

LEMMA StepAnswers ==
  ASSUME PlacesOK, AnswersOK, NEW r \in Reqs, Step(r)
  PROVE  AnswersOK'
<1>1. pc \in [Reqs -> Places]
  BY DEF PlacesOK
<1>2. CASE \E code : Respond(r, code)
  BY <1>1, <1>2, RespondAnswers
<1>3. CASE pc[r] \in Checks /\ MoveOn(r, pc[r])
  BY <1>3, MoveOnAnswersNot
<1>4. CASE Clean(r)
  <2>1. pc[r] = "scan" /\ pc' = [pc EXCEPT ![r] = "handler"] /\ answer' = answer
    BY <1>4 DEF Clean
  <2>2. pc[r] \in Checks
    BY <2>1 DEF Checks
  <2>3. QED
    BY <1>1, <2>1, <2>2, AnswerStays
<1>5. CASE pc[r] = "scan" /\ pc' = [pc EXCEPT ![r] = "striking"] /\ answer' = answer
  <2>1. pc[r] \in Checks /\ "striking" \in Checks
    BY <1>5 DEF Checks
  <2>2. QED
    BY <1>1, <1>5, <2>1, AnswerStays
<1>6. CASE /\ pc[r] \in AfterResponse /\ answer' = answer
           /\ \E place \in AfterResponse \cup {"idle"} : pc' = [pc EXCEPT ![r] = place]
  BY <1>1, <1>6, ObserverAnswersNot
<1>7. CASE KeyFunctionThrows(r) \/ TurnAway(r) \/ LimiterBlocks(r) \/ Strike(r) \/ Handle(r)
  BY <1>2, <1>7 DEF KeyFunctionThrows, TurnAway, LimiterBlocks, Strike, Handle
<1>8. CASE Pass(r) \/ LimiterPass(r)
  BY <1>3, <1>8 DEF Pass, LimiterPass, Checks
<1>9. CASE CheckFails(r) \/ LimiterFails(r)
  BY <1>2, <1>3, <1>9 DEF CheckFails, LimiterFails, Checks
<1>10. CASE Threat(r)
  BY <1>2, <1>5, <1>10 DEF Threat
<1>11. CASE Resolve(r)
  <2>1. pc[r] \in AfterResponse /\ answer' = answer
    BY <1>11 DEF Resolve, AfterResponse
  <2>2. \E place \in {"idle", "recording", "resetting"} : pc' = [pc EXCEPT ![r] = place]
    BY <1>11 DEF Resolve
  <2>3. QED
    BY <1>6, <2>1, <2>2 DEF AfterResponse
<1>12. CASE RecordFailure(r)
  <2>1. \E place \in {"idle", "blocking"} : pc' = [pc EXCEPT ![r] = place]
    BY <1>12 DEF RecordFailure
  <2>2. QED
    BY <1>6, <1>12, <2>1 DEF RecordFailure, AfterResponse
<1>13. CASE PlaceBlocks(r) \/ ResetCounters(r) \/ FinalizeFails(r)
  <2>1. Rest(r) /\ pc[r] \in AfterResponse
    BY <1>13 DEF PlaceBlocks, ResetCounters, FinalizeFails, AfterResponse
  <2>2. QED
    BY <1>6, <2>1 DEF Rest
<1>14. QED
  BY <1>4, <1>7, <1>8, <1>9, <1>10, <1>11, <1>12, <1>13 DEF Step

LEMMA NextAnswers ==
  ASSUME Routes \subseteq RouteType, PlacesOK, AnswersOK, [Next]_vars
  PROVE  AnswersOK'
<1>1. pc \in [Reqs -> Places]
  BY DEF PlacesOK
<1>2. CASE UNCHANGED vars
  BY <1>2 DEF vars, AnswersOK, AnsweredOnce
<1>3. ASSUME NEW r \in Reqs, Step(r)
      PROVE  AnswersOK'
  BY <1>3, StepAnswers
<1>4. ASSUME NEW r \in Reqs, ClientLeaves(r)
      PROVE  AnswersOK'
  <2> DEFINE ans == IF pc[r] = "handler" THEN "left" ELSE answer[r]
  <2>1. /\ pc' = [pc EXCEPT ![r] = "idle"] /\ answer' = [answer EXCEPT ![r] = ans]
        /\ pc[r] \in {"handler", "finished"}
    BY <1>4 DEF ClientLeaves
  <2>2. ans \in Answers /\ ans # "pending" /\ "idle" \notin Checks \cup {"handler"}
    BY <2>1 DEF AnswersOK, AnsweredOnce, Answers, Checks
  <2> HIDE DEF ans
  <2>3. QED
    BY <1>1, <2>1, <2>2, AnswerGoesAlong
<1>5. ASSUME NEW r \in Reqs, NEW rt \in Routes, Arrive(r, rt)
      PROVE  AnswersOK'
  <2> DEFINE place == After("arrival", rt)
  <2>1. pc' = [pc EXCEPT ![r] = place] /\ answer' = [answer EXCEPT ![r] = "pending"]
    BY <1>5 DEF Arrive
  <2>2. place \in Checks /\ "pending" \in Answers
    BY AfterIsACheck DEF Checks, Answers
  <2> HIDE DEF place
  <2>3. QED
    BY <1>1, <2>1, <2>2, AnswerGoesAlong
<1>6. QED
  BY <1>2, <1>3, <1>4, <1>5 DEF Next

-----------------------------------------------------------------------------
(* The theorems. *)

LEMMA AlwaysInv == Spec => []MiddlewareInv
<1>1. Init => MiddlewareInv
  BY InitInv
<1>2. MiddlewareInv /\ [Next]_vars => MiddlewareInv'
  BY StepInv, MiddlewareAssumption DEF MiddlewareAssumption
<1>3. QED
  BY <1>1, <1>2, PTL DEF Spec

LEMMA AlwaysAnswersOK == Spec => []AnswersOK
<1>1. Init => AnswersOK
  BY DEF Init, AnswersOK, AnsweredOnce, Answers, Checks
<1>2. MiddlewareInv /\ AnswersOK /\ [Next]_vars => AnswersOK'
  BY NextAnswers, MiddlewareAssumption DEF MiddlewareInv, MiddlewareAssumption
<1>3. QED
  BY <1>1, <1>2, AlwaysInv, PTL DEF Spec

\* The type invariant: every request is at a place of the pipeline and every
\* count is a natural number, whatever the routes, the replies and the failures.
THEOREM PipelineTypeCorrect == Spec => []TypeOK
<1>1. MiddlewareInv /\ AnswersOK => TypeOK
  BY DEF MiddlewareInv, AnswersOK, PlacesOK, AccountsOK, TypeOK
<1>2. QED
  BY <1>1, AlwaysInv, AlwaysAnswersOK, PTL

\* Nothing answered goes on and nothing unanswered is done with: no request is
\* answered twice or dropped, on any route and whatever fails.
THEOREM NoneDroppedOrAnsweredTwice == Spec => []AnsweredOnce
<1>1. AnswersOK => AnsweredOnce
  BY DEF AnswersOK
<1>2. QED
  BY <1>1, AlwaysAnswersOK, PTL

\* The books balance: however the requests interleave, a request received is
\* allowed, blocked, under way or one of the silent ones.
THEOREM BooksBalance == Spec => []EveryRequestIsCounted
<1>1. MiddlewareInv => EveryRequestIsCounted
  BY DEF MiddlewareInv, Books
<1>2. QED
  BY <1>1, AlwaysInv, PTL

\* Events and counters tell the same story: one event for every request that is
\* blocked, one STORE_ERROR for a rejected call, two when the limiter closes.
THEOREM EventsAndCounters == Spec => []EventsMatchCounters
<1>1. MiddlewareInv => EventsMatchCounters
  BY DEF MiddlewareInv, Books
<1>2. QED
  BY <1>1, AlwaysInv, PTL

\* 'fail-closed' lets nobody past a check that the store did not answer.
THEOREM FailClosedHolds == Spec => []FailClosedAsksAll
<1>1. MiddlewareInv => FailClosedAsksAll
  BY DEF MiddlewareInv
<1>2. QED
  BY <1>1, AlwaysInv, PTL

\* An attempt or a reset is recorded once per request that was let in: those
\* and the requests that were refused are together no more than were received.
THEOREM AttemptsAreAdmitted == Spec => []OneAttemptPerAdmitted
<1>1. ASSUME MiddlewareInv
      PROVE  OneAttemptPerAdmitted
  <2>1. PlacesOK /\ AccountsOK /\ AttemptsPaid
    BY <1>1 DEF MiddlewareInv, Books
  <2>2. InFlight \subseteq At(Open) /\ IsFiniteSet(At(Open))
    BY <2>1 DEF InFlight, At, Open, PlacesOK
  <2>3. /\ Cardinality(InFlight) \in Nat /\ Cardinality(At(Open)) \in Nat
        /\ Cardinality(InFlight) <= Cardinality(At(Open))
    BY <2>2, FS_Subset, FS_CardinalityType
  <2>4. QED
    BY <2>1, <2>3 DEF AccountsOK, AttemptsPaid, OneAttemptPerAdmitted, Counters, Types
<1>2. QED
  BY <1>1, AlwaysInv, PTL
=============================================================================
