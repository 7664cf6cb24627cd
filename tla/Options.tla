------------------------------- MODULE Options -------------------------------
(***************************************************************************)
(* src/config and mergeConfig of src/src/express/middleware.js: which      *)
(* options createParry accepts, and the configuration it makes of them.    *)
(***************************************************************************)
EXTENDS Policies

CONSTANTS
    NOSQL_DANGEROUS_OPERATORS,
    NOSQL_SUSPICIOUS_OPERATORS

DEFAULTS ==
    [sql |-> True, xss |-> True,
     hpp |-> [enabled |-> False, allowDuplicateParamsFor |-> {}],
     prototypePollution |-> [enabled |-> True],
     pathTraversal |-> [enabled |-> True],
     requestShape |-> [enabled |-> True, maxDepth |-> 8, maxKeys |-> 500,
                       maxArrayLength |-> 100, maxStringLength |-> 10000],
     maxRequests |-> 100, windowMs |-> 60000,
     suspiciousThreshold |-> 5, banDurationMs |-> 300000,
     events |-> [maxEvents |-> 500],
     admin |-> [allowInsecureAdminApi |-> False, auth |-> Undefined],
     maxObjectDepth |-> 8,
     headers |-> {"user-agent", "referer", "x-forwarded-for", "cookie"}]

-----------------------------------------------------------------------------
(* validate.js *)

\* Mutant: zero is let through as well.
NotWrong(object, fields) == \A f \in fields : Read(object, f) # Wrong
\* assertPositive lets undefined pass.
Positive(object, fields) == \A f \in fields : Read(object, f) \notin {Wrong, 0}
NonNegative(object, f) == Read(object, f) # Wrong

\* assertObject of a section that is given, and what is in it.
Section(options, name) == Read(options, name) = Undefined \/ IsObject(Read(options, name))
Content(options, name) == Or(Read(options, name), <<>>)

ValidShape(shape) ==
    /\ NonNegative(shape, "maxDepth")
    /\ Positive(shape, {"maxKeys", "maxArrayLength", "maxStringLength"})

ValidRequestId(requestId) ==
    \A f \in {"header", "responseHeader"} : Read(requestId, f) # Wrong

ValidHeaders(headers) == Read(headers, "scan") # Wrong

\* Only a suspicious operator, and only at a path below a surface.
ValidNoSQL(nosql) ==
    LET allowed == Or(Read(nosql, "allowedOperators"), <<>>)
    IN /\ Read(nosql, "enabled") # Wrong
       /\ allowed # Wrong
       /\ \A path \in DOMAIN allowed :
            /\ path[1] \in {"body", "query", "params"}
            /\ allowed[path] \subseteq NOSQL_SUSPICIOUS_OPERATORS
            /\ allowed[path] \intersect NOSQL_DANGEROUS_OPERATORS = {}

ValidMatch(match) ==
    /\ Read(match, "method") # Undefined \/ Read(match, "path") # Undefined
    /\ Read(match, "method") \notin {Wrong, {}}
    /\ Read(match, "path") \notin {Wrong, <<>>}

ValidRate(rate) == Positive(rate, {"max", "maxRequests", "windowMs"})

ValidPolicy(policy) ==
    /\ IsObject(policy)
    /\ Read(policy, "name") \notin {Undefined, Wrong}
    /\ IsObject(Read(policy, "match"))
    /\ ValidMatch(policy.match)
    /\ Section(policy, "rateLimit")
    /\ ValidRate(Content(policy, "rateLimit"))
    /\ LET brute == Read(policy, "bruteForce")
       IN Truthy(brute) =>
            /\ IsObject(brute)
            /\ Positive(brute, {"maxAttempts", "windowMs", "blockDurationMs"})

ValidateParryOptions(options) ==
    /\ Positive(options, {"maxRequests", "windowMs", "banDurationMs", "suspiciousThreshold"})
    /\ NonNegative(options, "maxObjectDepth")
    /\ LET rate == Read(options, "rateLimit") IN IsObject(rate) => ValidRate(rate)
    /\ \A name \in {"requestShape", "events", "requestId", "admin", "bruteForce", "headers"} :
            Section(options, name)
    /\ ValidShape(Content(options, "requestShape"))
    /\ Positive(Content(options, "events"), {"maxEvents"})
    /\ ValidRequestId(Content(options, "requestId"))
    /\ Read(Content(options, "admin"), "path") # Wrong
    /\ ValidHeaders(Content(options, "headers"))
    /\ LET policies == Read(options, "policies")
       IN policies # Undefined =>
            policies # Wrong /\ \A p \in Range(policies) : ValidPolicy(p)
    /\ Read(options, "trustedProxies") # Wrong
    /\ Read(options, "nosql") \notin {True, False} =>
            Section(options, "nosql") /\ ValidNoSQL(Content(options, "nosql"))

-----------------------------------------------------------------------------
(* mergeConfig *)

NormalizeRateLimitConfig(options) ==
    LET given == Read(options, "rateLimit")
        nested == IF IsObject(given) THEN given ELSE <<>>
        config == Spread(DEFAULTS, options)
    IN [enabled |-> given # False /\ Read(nested, "enabled") # False,
        maxRequests |-> OrPositive(Read(nested, "max"),
                            OrPositive(Read(nested, "maxRequests"), config.maxRequests)),
        windowMs |-> OrPositive(Read(nested, "windowMs"), config.windowMs)]

\* What the constructor of RateLimiter makes of it.
NormalizeRateLimitOptions(rate) ==
    [enabled |-> rate.enabled,
     maxRequests |-> OrPositive(rate.maxRequests, 100),
     windowMs |-> OrPositive(rate.windowMs, 60000)]

NormalizeHeadersConfig(headers) ==
    IF headers = Undefined THEN DEFAULTS.headers
    ELSE Or(Read(headers, "scan"), DEFAULTS.headers)

NormalizeNoSQLConfig(nosql) ==
    IF nosql \in {Undefined, True, False}
    THEN [enabled |-> nosql # False, allowedOperators |-> <<>>]
    ELSE [enabled |-> Read(nosql, "enabled") # False,
          allowedOperators |-> Or(Read(nosql, "allowedOperators"), <<>>)]

MergeConfig(options) ==
    LET Nested(name) == Spread(DEFAULTS[name], Read(options, name))
        config == Spread(DEFAULTS, options)
    IN [limiter |-> NormalizeRateLimitOptions(NormalizeRateLimitConfig(options)),
        suspiciousThreshold |-> config.suspiciousThreshold,
        banDurationMs |-> config.banDurationMs,
        maxObjectDepth |-> config.maxObjectDepth,
        sql |-> config.sql,
        xss |-> config.xss,
        hpp |-> Nested("hpp"),
        prototypePollution |-> Nested("prototypePollution"),
        pathTraversal |-> Nested("pathTraversal"),
        requestShape |-> Nested("requestShape"),
        events |-> Nested("events"),
        admin |-> Nested("admin"),
        headers |-> NormalizeHeadersConfig(Read(options, "headers")),
        nosql |-> NormalizeNoSQLConfig(Read(options, "nosql")),
        policies |-> BuildPolicies(options)]

\* createParry throws for any other options.  A preset nobody knows is only
\* looked up when brute force is not off.
Accepts(options) ==
    /\ ValidateParryOptions(options)
    /\ Read(options, "bruteForce") = False
        \/ PresetKnown(Or(Read(options, "preset"), "off"))

-----------------------------------------------------------------------------
(* What there is to go wrong: a limit that limits nothing. *)

Limit(place, value) == [place |-> place, value |-> value]

\* Everything a count, a length or a time is compared with, and where the
\* operator would write it.
LimitsOfPolicy(policy) ==
    (IF policy.rateLimit.enabled = False THEN {}
     ELSE {Limit(<<"rateLimit", f>>, policy.rateLimit[f]) : f \in {"max", "windowMs"}})
    \cup
    (IF policy.bruteForce.enabled = False THEN {}
     ELSE {Limit(<<"bruteForce", f>>, policy.bruteForce[f]) :
            f \in {"maxAttempts", "windowMs", "blockDurationMs"}})

LimitsInForce(config) ==
    {Limit(<<"limiter", f>>, config.limiter[f]) : f \in {"maxRequests", "windowMs"}}
    \cup {Limit(<<f>>, config[f]) : f \in {"suspiciousThreshold", "banDurationMs"}}
    \cup {Limit(<<"requestShape", f>>, config.requestShape[f]) :
            f \in {"maxKeys", "maxArrayLength", "maxStringLength"}}
    \cup {Limit(<<"events", "maxEvents">>, OrPositive(config.events.maxEvents, 500))}
    \cup UNION {LimitsOfPolicy(p) : p \in Range(config.policies)}

\* The depths, of which zero is one.
DepthsInForce(config) ==
    {Limit(<<"maxObjectDepth">>, config.maxObjectDepth),
     Limit(<<"requestShape", "maxDepth">>, config.requestShape.maxDepth)}

IsWritten(object, place) ==
    IF Len(place) = 1 THEN place[1] \in DOMAIN object /\ object[place[1]] = Undefined
    ELSE IsObject(Read(object, place[1])) /\ place[2] \in DOMAIN object[place[1]]
         /\ object[place[1]][place[2]] = Undefined

WrittenUndefined(options, place) ==
    \/ IsWritten(options, place)
    \/ \E p \in Range(Or(Read(options, "policies"), <<>>)) : IsWritten(p, place)
=============================================================================
