----------------------------- MODULE Application -----------------------------
(***************************************************************************)
(* An application that is given its options, and what they make of its     *)
(* requests: createParry validates and merges them, every request is held  *)
(* to a policy, counted on the keys of that policy and scanned, and the    *)
(* admin router, when it is mounted, answers those it lets in.  What       *)
(* happens between the awaits of a request, and to the store, is in        *)
(* Middleware and the modules below it; here a request is handled alone,   *)
(* as matching, keys and scan run without an await.                        *)
(***************************************************************************)
EXTENDS RequestScan, KeyBuilder, AdminAuth

CONSTANTS
    Deployments,    \* what the operator writes: the options of createParry and of
                    \* the admin router, Undefined when there is none, and
                    \* whether NODE_ENV is production
    Requests(_),    \* the requests of the clients of a deployment
    AdminRequests,  \* requests to the admin API
    Refused,        \* createParry or the router has thrown
    MaxUses         \* bound: counters in use when the last request comes

\* Where an authentication configuration may stand, and what stands there.
Settings(d) == {o \in {d.router, Read(d.options, "admin")} : IsObject(o)}
AuthsOf(d) == {c \in {Read(o, "auth") : o \in Settings(d)} : IsObject(c) /\ c # Callback}

IsText(value) == value \in Seq(Range(value))
IsList(value) == IsObject(value) /\ IsText(value)
Depths == Nat \cup {Undefined, Wrong}

\* The specifications of keys that may come into force: of the presets, and the
\* ones that the operator gives with a policy.
PoliciesOf(d) ==
    LET policies == Read(d.options, "policies")
    IN IF IsList(policies) THEN {p \in Range(policies) : IsObject(p)} ELSE {}
SectionsOf(d, name) == {b \in {Read(p, name) : p \in PoliciesOf(d)} : IsObject(b)}
KeyListsOf(d) == {Read(b, "keys") : b \in SectionsOf(d, "bruteForce")} \ {Undefined, Wrong}
SpecsOf(d) ==
    {IP} \cup Range(PRESET_KEYS)
    \cup (UNION {Range(keys) : keys \in KeyListsOf(d)})
    \cup ({Read(b, "key") : b \in SectionsOf(d, "rateLimit")} \ {Undefined, False})
PartsOf(spec) == IF "custom" \in DOMAIN spec THEN <<spec.custom>> ELSE spec.parts

\* What the requests of a deployment say in each place.
FieldsOf(d) ==
    UNION {{[part |-> part, raw |-> r.fields[part]] : part \in DOMAIN r.fields} : r \in Requests(d)}

\* What may be written in the places the walks and the strategies depend on.
ASSUME DeploymentAssumption ==
    \A d \in Deployments :
        /\ d.router = Undefined \/ IsObject(d.router)
        /\ \A c \in AuthsOf(d), f \in {"allowAny", "requireAll"} :
                Read(c, f) \in {Undefined, Wrong} \/ IsList(Read(c, f))
        /\ IsObject(Read(d.options, "admin")) => Read(d.options.admin, "auth") # Callback
        /\ Read(d.options, "maxObjectDepth") \in Depths
        /\ LET shape == Read(d.options, "requestShape")
           IN IsObject(shape) => Read(shape, "maxDepth") \in Depths
        /\ LET policies == Read(d.options, "policies")
           IN policies \notin {Undefined, Wrong} =>
                /\ IsList(policies)
                /\ \A p \in Range(policies) :
                     IsObject(p) /\ IsObject(Read(p, "match")) =>
                        Read(p.match, "path") \in {Undefined, Wrong} \cup Seq(Patterns)

ASSUME RequestAssumption ==
    /\ NoSQLDepth \in Nat
    /\ \A d \in Deployments : \A r \in Requests(d) : IsForest(r.forest) /\ r.path \in Paths

\* The parts of a key are what its type says; a function picks what it wants.
ASSUME SpecAssumption ==
    \A d \in Deployments :
        /\ \A keys \in KeyListsOf(d) : IsList(keys)
        /\ \A s \in SpecsOf(d) : IsText(PartsOf(s))
        /\ \A s, t \in SpecsOf(d) :
             s.type = t.type /\ "custom" \notin DOMAIN s \cup DOMAIN t => s.parts = t.parts

\* Two requests are about the same person when they say the same, in a place
\* where letters do not count but for the letters.
ASSUME FieldAssumption ==
    \A d \in Deployments : \A a, b \in {f \in FieldsOf(d) : NormalizeScalar(f.raw) # Undefined} :
        LET x == NormalizeScalar(a.raw)
            y == NormalizeScalar(b.raw)
        IN /\ IsText(x) /\ IsText(Folded(a.part, x))
           /\ Folded(a.part, x) # Undefined
           /\ a.part = b.part =>
                (a.raw.person = b.raw.person <=> Folded(a.part, x) = Folded(a.part, y))

\* A gateway that is configured as trusted, and whoever has the secret, says
\* whom it has verified or nobody; and a gateway passes on the address it has.
ASSUME GatewayAssumption ==
    \A q \in AdminRequests, d \in Deployments : \A c \in AuthsOf(d) : \A s \in Strategies(c) :
        /\ IsTrustedProxy(q, s) => q.forwarded = q.origin
        /\ IsTrustedProxy(q, s) \/ q.secret = Right =>
                {q.user, q.email, q.claims} \subseteq {q.verified, Undefined}

VARIABLES
    deployment,
    parry,      \* Undefined, Refused or the configuration in force
    router,     \* Undefined, Refused or what requireAdminAuth returned
    lastIndex,  \* of every pattern; other than 0 only for stateful ones
    request,    \* the request in hand, or Undefined
    chosen,     \* its policy: a position in parry.policies, or 0
    verdict,    \* of its scan, Undefined before: the threats, the severity, the event
    counted,    \* the counters used so far, and on whose behalf
    asked,      \* the admin request in hand, or Undefined
    reply       \* the answer to it

clientVars == <<lastIndex, request, chosen, verdict, counted>>
adminVars == <<asked, reply>>
vars == <<deployment, parry, router, clientVars, adminVars>>

Running == parry \notin {Undefined, Refused}
NoReply == Refuse(401)

\* Whoever a value of the request is about.
PersonOf(part, r) ==
    LET raw == Read(r.fields, part) IN IF raw = Undefined THEN Undefined ELSE raw.person

\* A counter in use: the key, what the operator called it and whom it is for.
Use(key, policy, spec, r) ==
    LET parts == PartsOf(spec)
    IN [key |-> key, policy |-> policy.name, type |-> spec.type,
        values |-> [i \in DOMAIN parts |-> ResolveValue(parts[i], r)],
        people |-> [i \in DOMAIN parts |-> PersonOf(parts[i], r)],
        custom |-> "custom" \in DOMAIN spec]

UsesOf(policy, r) ==
    LET bf == BuildBruteForceKeys(policy, r)
        rl == BuildRouteRateLimitKey(policy, r)
    IN  {Use(BuildKey("bf", policy.name, s, r), policy, s, r) :
            s \in {s \in Range(policy.bruteForce.keys) :
                    BuildKey("bf", policy.name, s, r) \in Range(bf)}}
        \cup
        {Use(key, policy, policy.rateLimit.key, r) : key \in Range(rl)}

-----------------------------------------------------------------------------
Init ==
    /\ deployment \in Deployments
    /\ parry = Undefined
    /\ router = Undefined
    /\ lastIndex = [p \in Patterns |-> 0]
    /\ request = Undefined
    /\ chosen = 0
    /\ verdict = Undefined
    /\ counted = {}
    /\ asked = Undefined
    /\ reply = NoReply

\* createParry.
CreateParry ==
    /\ parry = Undefined
    /\ parry' = IF Accepts(deployment.options) THEN MergeConfig(deployment.options)
                ELSE Refused
    /\ UNCHANGED <<deployment, router, clientVars, adminVars>>

\* createParryAdminRouter.
MountAdmin ==
    /\ Running
    /\ router = Undefined
    /\ deployment.router # Undefined
    /\ LET made == RequireAdminAuth(deployment.router, parry.admin, deployment.production)
       IN router' = IF made = Undefined THEN Refused ELSE made
    /\ UNCHANGED <<deployment, parry, clientVars, adminVars>>

\* handleRequest up to its first await: the policy, and the keys of it.
Receive(r) ==
    /\ Running
    /\ request = Undefined
    /\ Cardinality(counted) < MaxUses
    /\ request' = r
    /\ LET m == FindMatchingPolicy(parry.policies, r, lastIndex)
       IN /\ chosen' = m.chosen
          /\ lastIndex' = m.lastIndex
          /\ counted' = counted \cup
                (IF m.chosen = 0 THEN {} ELSE UsesOf(parry.policies[m.chosen], r))
    /\ UNCHANGED <<deployment, parry, router, verdict, adminVars>>

\* analyzeRequest, for a request that is not turned away before.
Inspect ==
    /\ request # Undefined
    /\ verdict = Undefined
    /\ LET threats == Threats(request.forest, parry)
       IN \E first \in FirstThreats(threats) \cup {t \in {Undefined} : threats = {}} :
            verdict' = [threats |-> threats, severity |-> SeverityForThreats(threats),
                        event |-> IF threats = {} THEN Undefined ELSE ThreatEvent(first)]
    /\ UNCHANGED <<deployment, parry, router, lastIndex, request, chosen, counted, adminVars>>

\* The request is answered: by the scan, or before it by one of the checks.
Respond ==
    /\ request # Undefined
    /\ request' = Undefined
    /\ chosen' = 0
    /\ verdict' = Undefined
    /\ UNCHANGED <<deployment, parry, router, lastIndex, counted, adminVars>>

\* adminAuthMiddleware, and the way back.
AskAdmin(q) ==
    /\ router \notin {Undefined, Refused}
    /\ asked = Undefined
    /\ asked' = q
    /\ reply' = Answer(router, q)
    /\ UNCHANGED <<deployment, parry, router, clientVars>>

AdminReturns ==
    /\ asked # Undefined
    /\ asked' = Undefined
    /\ reply' = NoReply
    /\ UNCHANGED <<deployment, parry, router, clientVars>>

Next ==
    \/ CreateParry \/ MountAdmin
    \/ \E r \in Requests(deployment) : Receive(r)
    \/ Inspect \/ Respond
    \/ \E q \in AdminRequests : AskAdmin(q)
    \/ AdminReturns

Spec == Init /\ [][Next]_vars

-----------------------------------------------------------------------------
(* Properties. *)

\* With accepted options nothing is compared with a limit that is zero (unless it
\* is a depth), no number or missing, except where the operator has written
\* undefined in its place: the checks of validate.js cover every place the merge takes a limit
\* from, presets and policies included (validate.js 153-246, middleware.js
\* 182-231, normalize-policy.js 46-80).
EveryLimitLimits ==
    Running =>
        /\ \A limit \in LimitsInForce(parry) : limit.value # 0
        /\ \A limit \in LimitsInForce(parry) \cup DepthsInForce(parry) :
            /\ limit.value # Wrong
            /\ limit.value = Undefined => WrittenUndefined(deployment.options, limit.place)

\* A policy that fits a request, whatever earlier requests have left behind.
Fits(policy, r) ==
    /\ MatchesMethod(policy.match, r.method)
    /\ Read(policy.match, "path") # Undefined =>
        \E i \in DOMAIN policy.match.path : Found[policy.match.path[i]][r.path] # {}

\* A request is never held to a policy that does not fit it, and an earlier
\* policy that fits is passed over only when one of its own patterns is a
\* RegExp with the g flag that still has the place of an earlier match
\* (matcher.js 12-40).
OnlyLeftoverSkips ==
    [][request = Undefined /\ request' # Undefined =>
        /\ chosen' # 0 => Fits(parry.policies[chosen'], request')
        /\ \A i \in DOMAIN parry.policies :
            Fits(parry.policies[i], request') /\ (chosen' = 0 \/ i < chosen') =>
                \E p \in Stateful \intersect Range(parry.policies[i].match.path) :
                    lastIndex[p] # 0
      ]_vars

\* A name in the key that sanitizeType alters.
Renamed(use) == Sanitized[use.policy] # use.policy \/ Sanitized[use.type] # use.type

\* The separator is as many times in each value of the one as of the other.
SamePlaces(a, b) == \A i \in DOMAIN a.values : Len(a.values[i]) = Len(b.values[i])

\* Two ways only lead to a counter that is shared: a name that sanitizeType
\* alters, for two policies or key types, and a separator within a value of
\* several, at which one client's values are cut elsewhere than the other's, for
\* two people (key-builder.js 43-66, 87-94, 152-157).
SharedOnlyByNameOrSeparator ==
    \A a, b \in counted : a.key = b.key =>
        /\ (a.policy = b.policy /\ a.type = b.type) \/ Renamed(a) \/ Renamed(b)
        /\ a.type = b.type => a.people = b.people \/ ~SamePlaces(a, b)

\* Other letters, or a list around an address, do not get a client a counter of
\* its own: the same people are counted together, on the keys of one policy
\* (key-builder.js 96-142).  What a function of the operator returns is its own
\* business.
NoSecondCounter ==
    \A a, b \in counted :
        a.key.namespace = b.key.namespace /\ ~a.custom /\ a.policy = b.policy
            /\ a.type = b.type /\ a.people = b.people => a.key = b.key

\* A counter of addresses and accounts counts the failures of one address on one
\* account; tests/fixtures/payloads/brute-force.json 45: "Block after repeated
\* failures by IP and email".  The code does not keep to it: an IPv6 address ends
\* where an account may begin (key-builder.js 63).
NobodyElsesCounter == \A a, b \in counted : a.key = b.key => a.people = b.people

\* When the shape guard turns away what is too deep for the other walks, a
\* request that is let through has nothing in it that a detector in force is
\* told to look for, at any depth and on any surface; and a request that is
\* turned away has something of the kind, or too much of something
\* (engine.js 75-85, request-targets.js 25, nosql.js 27, request-shape.js 31).
VerdictIsRight ==
    request # Undefined /\ verdict # Undefined =>
        LET f == request.forest
            threats == verdict.threats
            harmful == \E i \in DOMAIN f.kind : Harmful(f, i, parry)
        IN /\ threats = {} /\ GuardCovers(parry) => ~harmful
           /\ threats # {} =>
                \/ harmful
                \/ "REQUEST_SHAPE" \in threats /\ ExceedsShape(f, parry.requestShape)
                \/ Truthy(parry.hpp.enabled) /\ DuplicateParams(f, parry.hpp)

\* The severity of a decision is the highest of what was found
\* (security-model.md 42), and the event that the metrics count and GET /events
\* filters says the same.  It does not when duplicate parameters are found with
\* something worse: they are found first, and the event is about the first
\* (core/threat-event.js 4-7, engine.js 87-112).
SeverityIsHighest ==
    request # Undefined /\ verdict # Undefined =>
        /\ \A d \in verdict.threats : Rank[THREAT_SEVERITY(d)] <= Rank[verdict.severity]
        /\ verdict.event # Undefined /\ verdict.event.severity # verdict.severity =>
            "HTTP_PARAMETER_POLLUTION" \in verdict.threats
                /\ Cardinality(verdict.threats) > 1

\* Whoever the admin API takes a request to be from has been verified by a
\* gateway the configuration trusts, and is on the lists of a strategy that
\* admits; an address is the peer's or one the gateway vouches for
\* (trusted-proxy.js, external-identity.js 8-49, combined.js).
IdentityIsVouched ==
    asked # Undefined /\ reply.ok =>
        CASE reply.subject.kind = "person" ->
                /\ reply.subject.who = asked.verified
                /\ \E c \in Strategies(router.config) :
                    /\ IsTrustedProxy(asked, c) \/ Given(c, "proxySharedSecret")
                    /\ Mode(c) \in ExternalModes =>
                        Listed(asked.verified, c, "allowedEmails")
                    /\ Mode(c) \in {"alb-auth", "cognito-alb"} =>
                        Listed(asked.verified, c, "allowedSubjects")
          [] reply.subject.kind \in {"ip", "proxy"} ->
                reply.subject.who \in {asked.peer, asked.origin}
          [] OTHER -> TRUE

\* A request that shows nothing is admitted only outside production, and only
\* where the operator asked for it in one of three ways, wherever in a
\* combination; docs/admin-api.md 47: "All three throw under
\* NODE_ENV=production, even when combined with an override".
AnonymousOnlyByOptIn ==
    asked # Undefined /\ reply.ok /\ ShowsNothing(asked, router) =>
        /\ ~deployment.production
        /\ \/ Read(deployment.router, "allowInsecureAdminApi") = True
           \/ Read(deployment.router, "requireAuth") = False
           \/ Read(parry.admin, "allowInsecureAdminApi") = True
           \/ \E c \in Strategies(router.config) : Mode(c) = "none"
=============================================================================
