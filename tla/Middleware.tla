------------------------------ MODULE Middleware ------------------------------
(***************************************************************************)
(* src/src/express/middleware.js, with core/engine.js and the result side  *)
(* of brute-force/brute-force-guard.js: the way of a request through the   *)
(* checks, what it is answered, and what is counted and told of it.        *)
(*                                                                         *)
(* A step is one await of handleRequest or of the observer: what it waits  *)
(* for and everything up to the next one.  The guard's walks over the keys *)
(* of a request (check, count, block, reset) wait once per key and are one *)
(* step each here; BruteForceGuard takes them key by key.  What the stores *)
(* answer is arbitrary (they have modules of their own), and a call may    *)
(* reject.  Requests meet in the metrics and in the events, which are in   *)
(* the order of the answers and not of the requests.                       *)
(***************************************************************************)
EXTENDS Naturals, FiniteSets

CONSTANTS
    Reqs,          \* connections: the requests in flight at the same time
    Routes,        \* what the policy of a path switches on, see RouteType
    Modes,         \* storeFailureMode = 'fail-closed': the values it may have
    StoreMayFail,  \* a call of the store may reject
    FailureCodes,  \* failureStatusCodes
    SuccessCodes,  \* successStatusCodes
    ResetOnSuccess,
    Replies,       \* the statuses the application's handlers send
    MaxTotal       \* bound: requests ever received

\* guard: policy.bruteForce with a key; limit: policy.rateLimit with a key;
\* limiter: the global rate limit is on and the policy inherits it.
RouteType == [guard : BOOLEAN, limit : BOOLEAN, limiter : BOOLEAN]

ASSUME MiddlewareAssumption ==
    /\ Routes \subseteq RouteType
    /\ Modes \subseteq BOOLEAN
    /\ StoreMayFail \in BOOLEAN
    /\ ResetOnSuccess \in BOOLEAN
    /\ FailureCodes \subseteq Nat
    /\ SuccessCodes \subseteq Nat
    /\ Replies \subseteq Nat
    /\ MaxTotal \in Nat

VARIABLES
    failClosed,  \* storeFailureMode = 'fail-closed', which never changes
    pc,        \* where a request is
    route,     \* its policy
    observed,  \* 'finish' of its response is listened for
    status,    \* what its response says
    answer,    \* whether the response to its last request is sent
    metrics,   \* the counters of Metrics
    emitted,   \* eventsByType: how often an event of each type was emitted
    silent,    \* history: requests that no counter but totalRequests knows
    failures,  \* history: store calls that rejected
    closed,    \* history: requests the failing limiter turned away
    placed,    \* history: times a failed attempt placed its blocks
    unasked    \* history: requests that a rejected call let through a check

history == <<silent, failures, closed, placed, unasked>>
vars == <<failClosed, pc, route, observed, status, answer, metrics, emitted, history>>

Types == {"STORE_ERROR", "TEMPORARY_BAN_HIT", "TEMPORARY_BAN_CREATED",
          "RATE_LIMIT_EXCEEDED", "ROUTE_RATE_LIMIT_EXCEEDED", "THREAT_BLOCKED",
          "BRUTE_FORCE_BLOCKED", "BRUTE_FORCE_ATTEMPT", "BRUTE_FORCE_RESET"}

Checks == {"guard", "limit", "limiter", "scan", "striking"}
AfterResponse == {"finished", "recording", "blocking", "resetting"}
Places == {"idle", "handler"} \cup Checks \cup AfterResponse

\* Of a response: still to be sent, sent, or never to be, as the client left.
Answers == {"pending", "sent", "left"}

Counters == {"total", "allowed", "blocked", "rateLimited", "bruteForce"}

TypeOK ==
    /\ failClosed \in Modes
    /\ pc \in [Reqs -> Places]
    /\ route \in [Reqs -> RouteType]
    /\ observed \in [Reqs -> BOOLEAN]
    /\ status \in [Reqs -> Nat]
    /\ answer \in [Reqs -> Answers]
    /\ metrics \in [Counters -> Nat]
    /\ emitted \in [Types -> Nat]
    /\ silent \in Nat /\ failures \in Nat /\ closed \in Nat /\ placed \in Nat
    /\ unasked \subseteq Reqs

Init ==
    /\ failClosed \in Modes
    /\ pc = [r \in Reqs |-> "idle"]
    /\ route = [r \in Reqs |-> [guard |-> FALSE, limit |-> FALSE, limiter |-> FALSE]]
    /\ observed = [r \in Reqs |-> FALSE]
    /\ status = [r \in Reqs |-> 200]
    /\ answer = [r \in Reqs |-> "sent"]
    /\ metrics = [c \in Counters |-> 0]
    /\ emitted = [t \in Types |-> 0]
    /\ silent = 0 /\ failures = 0 /\ closed = 0 /\ placed = 0
    /\ unasked = {}

-----------------------------------------------------------------------------
(* What a step is made of. *)

\* The check after a check: the guard and the route limit only on a route that
\* has them, the limiter unless it is off.
After(check, rt) ==
    IF check = "arrival" /\ rt.guard THEN "guard"
    ELSE IF check \in {"arrival", "guard"} /\ rt.limit THEN "limit"
    ELSE IF check # "limiter" /\ rt.limiter THEN "limiter"
    ELSE "scan"

\* Mutant: the response is observed as soon as the guard is passed.
MoveOnObserved(r, check) ==
    /\ pc' = [pc EXCEPT ![r] = After(check, route[r])]
    /\ observed' = [observed EXCEPT ![r] = route[r].guard]
    /\ UNCHANGED <<failClosed, route, status, answer>>

\* observeAuthenticationResult comes between the route limit and the engine.
MoveOn(r, check) ==
    LET place == After(check, route[r])
    IN  /\ pc' = [pc EXCEPT ![r] = place]
        /\ observed' = [observed EXCEPT ![r] = route[r].guard /\ place \in {"limiter", "scan"}]
        /\ UNCHANGED <<failClosed, route, status, answer>>

\* The response is sent: what is left of the request is its observer.
Respond(r, code) ==
    /\ status' = [status EXCEPT ![r] = code]
    /\ answer' = [answer EXCEPT ![r] = "sent"]
    /\ pc' = [pc EXCEPT ![r] = IF observed[r] THEN "finished" ELSE "idle"]
    /\ UNCHANGED <<failClosed, route, observed>>

\* Nothing is left to do for the request; this sends no response.
Rest(r) ==
    /\ pc' = [pc EXCEPT ![r] = "idle"]
    /\ UNCHANGED <<failClosed, route, observed, status, answer>>

\* Mutant: the count of a type goes down.
EmitNegative(t, n) == emitted' = [emitted EXCEPT ![t] = @ - n]

\* EventBus.emitThreat: Metrics.recordEvent is a listener of the bus.
Emit(t, n) == emitted' = [emitted EXCEPT ![t] = @ + n]

\* Mutant: the route limit is not counted with the global one.
CountedGlobally(t) ==
    CASE t = "RATE_LIMIT_EXCEEDED" -> {"rateLimited"}
      [] t = "BRUTE_FORCE_BLOCKED" -> {"bruteForce"}
      [] OTHER -> {}

Counted(t) ==
    CASE t \in {"RATE_LIMIT_EXCEEDED", "ROUTE_RATE_LIMIT_EXCEEDED"} -> {"rateLimited"}
      [] t = "BRUTE_FORCE_BLOCKED" -> {"bruteForce"}
      [] OTHER -> {}

Count(cs) == metrics' = [c \in Counters |-> IF c \in cs THEN metrics[c] + 1 ELSE metrics[c]]

\* Mutant: recordRequest('blocked') is forgotten.
TellUncounted(t, cs) == Emit(t, 1) /\ Count(Counted(t))

\* An event, and the counters of the event and of the request.
Tell(t, cs) == Emit(t, 1) /\ Count(Counted(t) \cup cs)
Quiet == UNCHANGED <<metrics, emitted>>

\* logStoreError: one STORE_ERROR event per rejected call.
StoreFails == StoreMayFail /\ failures' = failures + 1

-----------------------------------------------------------------------------
\* A connection carries its next request after the answer to the last.
Arrive(r, rt) ==
    /\ pc[r] = "idle" /\ answer[r] # "pending"
    /\ metrics.total < MaxTotal
    /\ route' = [route EXCEPT ![r] = rt]
    /\ pc' = [pc EXCEPT ![r] = After("arrival", rt)]
    /\ observed' = [observed EXCEPT ![r] = FALSE]
    /\ status' = [status EXCEPT ![r] = 200]
    /\ answer' = [answer EXCEPT ![r] = "pending"]
    /\ Count({"total"})
    /\ unasked' = unasked \ {r}
    /\ UNCHANGED <<failClosed, emitted, silent, failures, closed, placed>>

\* The key function of a policy throws: handleRequest rejects, and Express
\* answers next(error) with its 500.
KeyFunctionThrows(r) ==
    /\ pc[r] \in {"guard", "limit"}
    /\ Respond(r, 500)
    /\ silent' = silent + 1
    /\ Quiet
    /\ UNCHANGED <<failures, closed, placed, unasked>>

\* checkBruteForceBlock and checkRouteRateLimit answer: not over the limit ...
Pass(r) ==
    /\ pc[r] \in {"guard", "limit"}
    /\ MoveOn(r, pc[r])
    /\ Quiet
    /\ UNCHANGED history

\* Mutant: blocked, and the function returns without a response.
TurnAwaySilently(r) ==
    /\ pc[r] \in {"guard", "limit"}
    /\ Rest(r)
    /\ Tell(IF pc[r] = "guard" THEN "BRUTE_FORCE_BLOCKED" ELSE "ROUTE_RATE_LIMIT_EXCEEDED",
            {"blocked"})
    /\ UNCHANGED history

\* ... over it: 429 and one event ...
TurnAway(r) ==
    /\ pc[r] \in {"guard", "limit"}
    /\ Respond(r, 429)
    /\ Tell(IF pc[r] = "guard" THEN "BRUTE_FORCE_BLOCKED" ELSE "ROUTE_RATE_LIMIT_EXCEEDED",
            {"blocked"})
    /\ UNCHANGED history

\* Mutant: no return after the 503, the request goes on to its next check.
CheckFailsAndGoesOn(r) ==
    /\ pc[r] \in {"guard", "limit"}
    /\ StoreFails
    /\ Emit("STORE_ERROR", 1)
    /\ pc' = [pc EXCEPT ![r] = After(pc[r], route[r])]
    /\ answer' = [answer EXCEPT ![r] = IF failClosed THEN "sent" ELSE @]
    /\ UNCHANGED <<failClosed, route, observed, status, unasked, silent, metrics, closed, placed>>

\* ... or the call rejects: on without the answer, or 503 that counts nothing.
CheckFails(r) ==
    /\ pc[r] \in {"guard", "limit"}
    /\ StoreFails
    /\ Emit("STORE_ERROR", 1)
    /\ IF failClosed
       THEN Respond(r, 503) /\ silent' = silent + 1 /\ UNCHANGED unasked
       ELSE MoveOn(r, pc[r]) /\ unasked' = unasked \cup {r} /\ UNCHANGED silent
    /\ UNCHANGED <<metrics, closed, placed>>

-----------------------------------------------------------------------------
(* analyzeRequest. *)

LimiterPass(r) ==
    /\ pc[r] = "limiter"
    /\ MoveOn(r, "limiter")
    /\ Quiet
    /\ UNCHANGED history

LimiterBlocks(r) ==
    /\ pc[r] = "limiter"
    /\ Respond(r, 429)
    /\ \E t \in {"TEMPORARY_BAN_HIT", "RATE_LIMIT_EXCEEDED"} : Tell(t, {"blocked"})
    /\ UNCHANGED history

\* Mutant: the limiter always fails open.
LimiterFailsOpen(r) ==
    /\ pc[r] = "limiter"
    /\ StoreFails
    /\ MoveOn(r, "limiter")
    /\ Emit("STORE_ERROR", 1)
    /\ unasked' = unasked \cup {r}
    /\ UNCHANGED <<metrics, silent, closed, placed>>

\* checkRateLimit reports the error, and the decision carries the same event
\* for handleRequest to emit once more.
LimiterFails(r) ==
    /\ pc[r] = "limiter"
    /\ StoreFails
    /\ IF failClosed
       THEN /\ Respond(r, 503)
            /\ Emit("STORE_ERROR", 2) /\ Count({"blocked"})
            /\ closed' = closed + 1
            /\ UNCHANGED unasked
       ELSE /\ MoveOn(r, "limiter")
            /\ Emit("STORE_ERROR", 1)
            /\ unasked' = unasked \cup {r}
            /\ UNCHANGED <<metrics, closed>>
    /\ UNCHANGED <<silent, placed>>

\* The detectors are synchronous.
Clean(r) ==
    /\ pc[r] = "scan"
    /\ pc' = [pc EXCEPT ![r] = "handler"]
    /\ Count({"allowed"})
    /\ UNCHANGED <<failClosed, route, observed, status, answer, emitted, history>>

\* A threat is a strike first, when there is a limiter to strike with ...
Threat(r) ==
    /\ pc[r] = "scan"
    /\ IF route[r].limiter
       THEN /\ pc' = [pc EXCEPT ![r] = "striking"]
            /\ Quiet /\ UNCHANGED <<failClosed, route, observed, status, answer>>
       ELSE Respond(r, 400) /\ Tell("THREAT_BLOCKED", {"blocked"})
    /\ UNCHANGED history

\* ... which may ban, or fail: the answer stays 400 in either mode.
Strike(r) ==
    /\ pc[r] = "striking"
    /\ Respond(r, 400)
    /\ \E extra \in {{}, {"TEMPORARY_BAN_CREATED"}, {"STORE_ERROR"}} :
          /\ IF "STORE_ERROR" \in extra THEN StoreFails ELSE UNCHANGED failures
          /\ emitted' = [t \in Types |->
                IF t \in extra \cup {"THREAT_BLOCKED"} THEN emitted[t] + 1 ELSE emitted[t]]
    /\ Count({"blocked"})
    /\ UNCHANGED <<silent, closed, placed, unasked>>

-----------------------------------------------------------------------------
\* The application answers.
Handle(r) ==
    /\ pc[r] = "handler"
    /\ \E code \in Replies : Respond(r, code)
    /\ Quiet
    /\ UNCHANGED history

\* The client is gone before the response is: 'finish' never comes.
ClientLeaves(r) ==
    /\ pc[r] \in {"handler", "finished"}
    /\ pc' = [pc EXCEPT ![r] = "idle"]
    /\ answer' = [answer EXCEPT ![r] = IF pc[r] = "handler" THEN "left" ELSE @]
    /\ Quiet
    /\ UNCHANGED <<failClosed, route, observed, status, history>>

\* finalizeAuthenticationResult: what the handler said of the attempt, if it
\* was reached and said something, or else the status.
Resolve(r) ==
    /\ pc[r] = "finished"
    /\ \E action \in {"failure", "success", "none"} :
          /\ \/ status[r] \in Replies  \* recordAuthFailure or recordAuthSuccess
             \/ action = (IF status[r] \in FailureCodes THEN "failure"
                          ELSE IF status[r] \in SuccessCodes THEN "success" ELSE "none")
          /\ pc' = [pc EXCEPT ![r] =
                IF action = "failure" THEN "recording"
                ELSE IF action = "success" /\ ResetOnSuccess THEN "resetting" ELSE "idle"]
    /\ Quiet
    /\ UNCHANGED <<failClosed, route, observed, status, answer, history>>

RecordFailure(r) ==
    /\ pc[r] = "recording"
    /\ \E full \in BOOLEAN : pc' = [pc EXCEPT ![r] = IF full THEN "blocking" ELSE "idle"]
    /\ Tell("BRUTE_FORCE_ATTEMPT", {})
    /\ UNCHANGED <<failClosed, route, observed, status, answer, history>>

PlaceBlocks(r) ==
    /\ pc[r] = "blocking"
    /\ Rest(r)
    /\ Tell("BRUTE_FORCE_BLOCKED", {})
    /\ placed' = placed + 1
    /\ UNCHANGED <<silent, failures, closed, unasked>>

ResetCounters(r) ==
    /\ pc[r] = "resetting"
    /\ Rest(r)
    /\ Tell("BRUTE_FORCE_RESET", {})
    /\ UNCHANGED history

FinalizeFails(r) ==
    /\ pc[r] \in {"recording", "blocking", "resetting"}
    /\ StoreFails
    /\ Rest(r)
    /\ Emit("STORE_ERROR", 1)
    /\ UNCHANGED <<metrics, silent, closed, placed, unasked>>

Step(r) ==
    \/ KeyFunctionThrows(r) \/ Pass(r) \/ TurnAway(r) \/ CheckFails(r)
    \/ LimiterPass(r) \/ LimiterBlocks(r) \/ LimiterFails(r)
    \/ Clean(r) \/ Threat(r) \/ Strike(r) \/ Handle(r)
    \/ Resolve(r) \/ RecordFailure(r) \/ PlaceBlocks(r) \/ ResetCounters(r) \/ FinalizeFails(r)

Next == \E r \in Reqs : Step(r) \/ ClientLeaves(r) \/ \E rt \in Routes : Arrive(r, rt)

Spec == Init /\ [][Next]_vars

\* Every call of the store settles, with an answer or a rejection, and the
\* application answers every request; no client need leave.  The first is an
\* assumption about the store: the code gives no call a time limit.
FairSpec == Spec /\ \A r \in Reqs : WF_vars(Step(r))

-----------------------------------------------------------------------------
(* Properties. *)

InFlight == {r \in Reqs : pc[r] \in Checks}

\* The books balance: every request received is allowed, blocked, on its way,
\* or one of the silent ones - the 503s of the guard and of the route limit and
\* the rejections, which return before recordRequest (middleware.js 133-164).
EveryRequestIsCounted ==
    metrics.total = metrics.allowed + metrics.blocked + silent + Cardinality(InFlight)

\* Events and counters tell the same story in whatever order they come: every
\* blocked request has exactly one event that says why (bruteForceBlocks also
\* counts the blocks being placed), rateLimitedRequests is what both limits
\* turned away, and a rejected call makes one STORE_ERROR, or two when the
\* limiter fails closed (engine.js 142-155 and middleware.js 174-175).
EventsMatchCounters ==
    /\ metrics.blocked + placed = closed + metrics.bruteForce + metrics.rateLimited
          + emitted["TEMPORARY_BAN_HIT"] + emitted["THREAT_BLOCKED"]
    /\ emitted["STORE_ERROR"] = failures + closed

\* 'fail-closed': no request reaches the application or its next check on an
\* answer the store did not give, at whichever check the store fails.
FailClosedAsksAll == failClosed => unasked = {}

\* An attempt is recorded, or the counters reset, at most once per request and
\* never for a request that the guard or the route limit answered: what is kept
\* out cannot count as an attempt and prolong the block (middleware.js 166).
OneAttemptPerAdmitted ==
    emitted["BRUTE_FORCE_ATTEMPT"] + emitted["BRUTE_FORCE_RESET"]
        + emitted["ROUTE_RATE_LIMIT_EXCEEDED"] + (emitted["BRUTE_FORCE_BLOCKED"] - placed)
        + silent + Cardinality(InFlight)
    <= metrics.total

\* A request is unanswered just as long as it is at a check or with the
\* application: no check that has answered goes on to the next or to next(), so
\* no response is sent twice, and none that is done has been left without one
\* (the early returns of middleware.js 128-158 and 170-180).
AnsweredOnce ==
    \A r \in Reqs : answer[r] = "pending" <=> pc[r] \in Checks \cup {"handler"}

\* Every request is answered, or its client has left, and what is done after
\* the response comes to its end, whatever store call rejects on the way - if
\* every call settles (middleware.js 70 and 128-180).
EveryRequestIsAnswered ==
    \A r \in Reqs : pc[r] # "idle" ~> pc[r] = "idle" /\ answer[r] # "pending"
=============================================================================
