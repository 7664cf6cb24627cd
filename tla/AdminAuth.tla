------------------------------ MODULE AdminAuth ------------------------------
(***************************************************************************)
(* src/src/admin/auth: who may read the admin API.  An authentication      *)
(* configuration is turned down or accepted once, when the router is made; *)
(* an accepted one then decides about every request.                       *)
(*                                                                         *)
(* A request has the address of its peer and the address its forwarding    *)
(* headers lead to (ClientIp says which node that is, and RequestIsCharged *)
(* proves it for the peers that are trusted proxies).  Of a header that    *)
(* carries a credential only Right, Wrong or Undefined is known.           *)
(***************************************************************************)
EXTENDS Naturals, Sequences, JsValues

CONSTANTS
    Right,          \* a credential that is the configured one
    Callback        \* an operator's own function

ExternalModes == {"cloudflare-access", "alb-auth", "cognito-alb"}
SUPPORTED_MODES ==
    ExternalModes \cup {"token", "ip-allowlist", "trusted-proxy", "combined", "none"}

\* normalizeMode; 'alb-cognito' is another spelling of 'cognito-alb'.
Mode(config) == Or(Read(config, "mode"), "token")

Given(config, field) == Read(config, field) \notin {Undefined, Wrong}
NonEmpty(config, field) == Read(config, field) \notin {Undefined, Wrong, {}}
HasStrategies(config, list) == Read(config, list) \notin {Undefined, Wrong, <<>>}

-----------------------------------------------------------------------------
(* validateAdminAuthConfig *)

ValidHeaderNames(config) ==
    /\ \A f \in {"proxySharedSecretHeader", "userHeader", "emailHeader"} :
            Read(config, f) # Wrong
    /\ Read(config, "requiredHeaders") # Wrong
    /\ Mode(config) = "token" => Read(config, "header") # Wrong

ValidateExternalAuthConfig(config) ==
    /\ Read(config, "verifyJwt") # True
    /\ NonEmpty(config, "trustedProxies") \/ Given(config, "proxySharedSecret")

\* A strategy that may stand alone or in a combination.
ValidateStrategy(config, production) ==
    /\ IsObject(config)
    /\ Mode(config) \in SUPPORTED_MODES \ {"combined"}
    /\ Mode(config) = "token" => Given(config, "token")
    /\ Mode(config) = "ip-allowlist" => NonEmpty(config, "allowedIps")
    /\ Mode(config) = "trusted-proxy" => NonEmpty(config, "trustedProxies")
    /\ Read(config, "trustedProxies") # Wrong
    /\ ValidHeaderNames(config)
    /\ Mode(config) \in ExternalModes => ValidateExternalAuthConfig(config)
    /\ Mode(config) = "none" => ~production

\* Mutant: in a combination nobody asks whether this is production.
ValidateCombinedAnywhere(config, production) ==
    /\ HasStrategies(config, "allowAny") # HasStrategies(config, "requireAll")
    /\ LET children == IF HasStrategies(config, "allowAny") THEN config.allowAny
                       ELSE config.requireAll
       IN \A i \in DOMAIN children : ValidateStrategy(children[i], FALSE)

ValidateCombined(config, production) ==
    /\ Read(config, "trustedProxies") # Wrong
    /\ ValidHeaderNames(config)
    /\ HasStrategies(config, "allowAny") # HasStrategies(config, "requireAll")
    /\ LET children == IF HasStrategies(config, "allowAny") THEN config.allowAny
                       ELSE config.requireAll
       IN \A i \in DOMAIN children : ValidateStrategy(children[i], production)

ValidateAdminAuthConfig(config, production) ==
    IF IsObject(config) /\ Mode(config) = "combined"
    THEN ValidateCombined(config, production)
    ELSE ValidateStrategy(config, production)

-----------------------------------------------------------------------------
(* The strategies. *)

Admit(subject) == [ok |-> TRUE, statusCode |-> 200, subject |-> subject]
Refuse(statusCode) == [ok |-> FALSE, statusCode |-> statusCode, subject |-> Undefined]
Subject(kind, who) == [kind |-> kind, who |-> who]

\* isTrustedProxy of the direct address, and getClientIp.
IsTrustedProxy(request, config) ==
    NonEmpty(config, "trustedProxies") /\ request.peer \in config.trustedProxies
ClientIpOf(request, config, trustHeaders) ==
    IF trustHeaders /\ IsTrustedProxy(request, config) THEN request.forwarded
    ELSE request.peer

\* A credential that has to be there and has to be right.
Demand(credential, otherwise) ==
    IF credential = Undefined THEN Refuse(401)
    ELSE IF credential # Right THEN Refuse(403) ELSE otherwise

AuthenticateToken(request) == Demand(request.token, Admit(Subject("token", Undefined)))

AuthenticateIpAllowlist(request, config) ==
    LET ip == ClientIpOf(request, config, Truthy(Read(config, "trustProxyHeaders")))
    IN IF ip \in config.allowedIps THEN Admit(Subject("ip", ip)) ELSE Refuse(403)

\* The headers that are required may be none at all.
AuthenticateTrustedProxy(request, config) ==
    LET ip == ClientIpOf(request, config, TRUE)
        who == IF request.user # Undefined THEN Subject("person", request.user)
               ELSE IF request.email # Undefined THEN Subject("person", request.email)
               ELSE Subject("proxy", ip)
        secret == IF Given(config, "proxySharedSecret")
                  THEN Demand(request.secret, Admit(who)) ELSE Admit(who)
    IN IF ~IsTrustedProxy(request, config) THEN Refuse(403)
       ELSE IF NonEmpty(config, "requiredHeaders") THEN Demand(request.required, secret)
       ELSE secret

\* Mutant: a secret that is given is not looked at.
OpenBoundary(request, config, inside) ==
    IF IsTrustedProxy(request, config) \/ request.secret # Undefined THEN inside
    ELSE Refuse(403)

\* authenticateTrustedBoundary: a trusted proxy need not give the secret, but
\* must not give a wrong one; anybody else must give it.
TrustedBoundary(request, config, inside) ==
    LET secret == Given(config, "proxySharedSecret")
    IN IF IsTrustedProxy(request, config)
       THEN IF secret /\ request.secret = Wrong THEN Refuse(403) ELSE inside
       ELSE IF secret THEN Demand(request.secret, inside) ELSE Refuse(403)

\* An allowlist that is empty or not given lists everybody; a domain on it lists
\* the addresses of the domain.
Listed(who, config, field) ==
    NonEmpty(config, field) => who # Undefined /\ who \in config[field]

AuthenticateCloudflareAccess(request, config) ==
    TrustedBoundary(request, config,
        IF request.email = Undefined THEN Refuse(401)
        ELSE IF ~Listed(request.email, config, "allowedEmails") THEN Refuse(403)
        ELSE Admit(Subject("person", request.email)))

\* The address in the claims goes before the one in the header; the claims are
\* decoded and not verified.
AuthenticateAlbAuth(request, config) ==
    LET email == IF request.claims # Undefined THEN request.claims ELSE request.email
    IN TrustedBoundary(request, config,
        IF request.user = Undefined THEN Refuse(401)
        ELSE IF Listed(request.user, config, "allowedSubjects")
                /\ Listed(email, config, "allowedEmails")
        THEN Admit(Subject("person", request.user))
        ELSE Refuse(403))

Authenticate(request, config) ==
    CASE Mode(config) = "token" -> AuthenticateToken(request)
      [] Mode(config) = "ip-allowlist" -> AuthenticateIpAllowlist(request, config)
      [] Mode(config) = "trusted-proxy" -> AuthenticateTrustedProxy(request, config)
      [] Mode(config) = "cloudflare-access" -> AuthenticateCloudflareAccess(request, config)
      [] Mode(config) \in {"alb-auth", "cognito-alb"} -> AuthenticateAlbAuth(request, config)
      [] Mode(config) = "none" -> Admit(Subject("anonymous", Undefined))

Earliest(S) == CHOOSE i \in S : \A j \in S : i <= j

\* combined.js: the first that admits speaks for the request ...
AuthenticateAny(request, strategies) ==
    LET Result(i) == Authenticate(request, strategies[i])
        admitted == {i \in DOMAIN strategies : Result(i).ok}
    IN IF admitted # {} THEN Result(Earliest(admitted))
       ELSE IF \E i \in DOMAIN strategies : Result(i).statusCode = 403 THEN Refuse(403)
       ELSE Refuse(401)

\* ... or the first that refuses; when none does, the last one.
AuthenticateAll(request, strategies) ==
    LET Result(i) == Authenticate(request, strategies[i])
        refused == {i \in DOMAIN strategies : ~Result(i).ok}
    IN IF refused # {} THEN Result(Earliest(refused)) ELSE Result(Len(strategies))

\* A list that is given goes before the other even when it is empty.
AuthenticateAdminRequest(request, config) ==
    IF Mode(config) # "combined" THEN Authenticate(request, config)
    ELSE IF Read(config, "allowAny") \notin {Undefined, Wrong}
    THEN AuthenticateAny(request, config.allowAny)
    ELSE AuthenticateAll(request, config.requireAll)

-----------------------------------------------------------------------------
(* requireAdminAuth: what a router is made with, or Undefined when it throws. *)

Guarded(config, production) ==
    IF ValidateAdminAuthConfig(config, production)
    THEN [kind |-> "strategy", config |-> config] ELSE Undefined

RequireAdminAuth(options, admin, production) ==
    LET auth == Read(options, "auth")
        config == IF IsObject(auth) THEN auth ELSE Read(admin, "auth")
        insecure == \/ Read(options, "allowInsecureAdminApi") = True
                    \/ Read(options, "requireAuth") = False
                    \/ Read(admin, "allowInsecureAdminApi") = True
    IN IF auth = Callback THEN [kind |-> "callback", config |-> Undefined]
       ELSE IF Truthy(config) THEN Guarded(config, production)
       ELSE IF insecure THEN Guarded([mode |-> "none"], production)
       ELSE IF ~production /\ Read(options, "requireAuth") = True
       THEN [kind |-> "closed", config |-> Undefined]
       ELSE Undefined

\* The answer of the router to a request.  A callback that throws refuses.
Answer(router, request) ==
    CASE router.kind = "closed" -> Refuse(401)
      [] router.kind = "callback" ->
            IF request.callback = Right THEN Admit(Subject("callback", Undefined))
            ELSE Refuse(401)
      [] router.kind = "strategy" -> AuthenticateAdminRequest(request, router.config)

-----------------------------------------------------------------------------
(* What a router must not do. *)

\* The strategies an accepted configuration consults.
Strategies(config) ==
    IF Mode(config) # "combined" THEN {config}
    ELSE UNION {{list[i] : i \in DOMAIN list} :
                    list \in {Or(Read(config, f), <<>>) : f \in {"allowAny", "requireAll"}}}

\* A request that shows nothing: no credential, and neither its peer nor the
\* node its peer vouches for is listed anywhere.
ShowsNothing(request, router) ==
    /\ Right \notin {request.token, request.secret, request.required, request.callback}
    /\ router.kind = "strategy" =>
        \A c \in Strategies(router.config) :
            /\ ~IsTrustedProxy(request, c)
            /\ Given(c, "allowedIps") => {request.peer, request.origin} \intersect c.allowedIps = {}
=============================================================================
