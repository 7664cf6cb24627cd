------------------------- MODULE Application_proofs -------------------------
(***************************************************************************)
(* Proofs about Application: for any options, any requests and any admin   *)
(* requests that meet the assumptions.  The inductive invariant says what  *)
(* every part of the state has been made of; that leaves, for each         *)
(* property, a question about the operators.                               *)
(***************************************************************************)
EXTENDS Application, FiniteSetTheorems, WellFoundedInduction, SequenceTheorems, TLAPS

Mounted == router \notin {Undefined, Refused}

\* What the decision about a request is made of.
Judged(v, r) ==
    /\ v.threats = Threats(r.forest, parry)
    /\ v.severity = SeverityForThreats(v.threats)
    /\ \/ v.threats = {} /\ v.event = Undefined
       \/ \E first \in FirstThreats(v.threats) : v.event = ThreatEvent(first)

AppInv ==
    /\ deployment \in Deployments
    /\ Running => Accepts(deployment.options) /\ parry = MergeConfig(deployment.options)
    /\ Mounted =>
        /\ Running
        /\ deployment.router # Undefined
        /\ router = RequireAdminAuth(deployment.router, parry.admin, deployment.production)
    /\ asked # Undefined => Mounted /\ asked \in AdminRequests /\ reply = Answer(router, asked)
    /\ request # Undefined =>
        /\ Running
        /\ request \in Requests(deployment)
        /\ verdict # Undefined => Judged(verdict, request)
    /\ request = Undefined => verdict = Undefined

-----------------------------------------------------------------------------
(* Every action keeps the invariant. *)

LEMMA AppStepIsSound ==
  ASSUME AppInv, [Next]_vars
  PROVE  AppInv'
<1>1. CASE UNCHANGED vars
  BY <1>1 DEF vars, clientVars, adminVars, AppInv, Mounted, Running, Judged
<1>2. CASE CreateParry
  <2>1. ~Running /\ ~Mounted /\ asked = Undefined /\ request = Undefined
    BY <1>2 DEF CreateParry, AppInv, Mounted, Running
  <2>2. /\ UNCHANGED <<deployment, router, request, asked>>
        /\ parry' = IF Accepts(deployment.options) THEN MergeConfig(deployment.options)
                    ELSE Refused
    BY <1>2 DEF CreateParry, clientVars, adminVars
  <2>3. Running' => Accepts(deployment'.options) /\ parry' = MergeConfig(deployment'.options)
    BY <2>2 DEF Running
  <2>4. QED
    BY <1>2, <2>1, <2>2, <2>3 DEF AppInv, Mounted, CreateParry, clientVars
<1>3. CASE MountAdmin
  <2> DEFINE made == RequireAdminAuth(deployment.router, parry.admin, deployment.production)
  <2>1. /\ Running /\ ~Mounted /\ asked = Undefined /\ deployment.router # Undefined
        /\ router' = IF made = Undefined THEN Refused ELSE made
        /\ UNCHANGED <<deployment, parry, clientVars, adminVars>>
    BY <1>3 DEF MountAdmin, AppInv, Mounted
  <2>2. Mounted' => router' = made
    BY <2>1 DEF Mounted
  <2>3. QED
    BY <2>1, <2>2 DEF AppInv, Mounted, Running, Judged, clientVars, adminVars
<1>4. ASSUME NEW r \in Requests(deployment), Receive(r)
      PROVE  AppInv'
  <2>1. Running /\ request' = r /\ UNCHANGED <<deployment, parry, router, adminVars>>
    BY <1>4 DEF Receive
  <2>2. verdict' = Undefined
    BY <1>4 DEF Receive, AppInv
  <2>3. QED
    BY <2>1, <2>2 DEF AppInv, Mounted, Running, adminVars
<1>5. CASE Inspect
  <2> DEFINE threats == Threats(request.forest, parry)
  <2>1. request # Undefined /\ UNCHANGED <<deployment, parry, router, request, adminVars>>
    BY <1>5 DEF Inspect
  <2>2. PICK first \in FirstThreats(threats) \cup {t \in {Undefined} : threats = {}} :
             verdict' = [threats |-> threats, severity |-> SeverityForThreats(threats),
                         event |-> IF threats = {} THEN Undefined ELSE ThreatEvent(first)]
    BY <1>5 DEF Inspect
  <2>3. QED
    BY <2>1, <2>2 DEF AppInv, Mounted, Running, adminVars, Judged
<1>6. CASE Respond
  BY <1>6 DEF Respond, AppInv, Mounted, Running, adminVars
<1>7. ASSUME NEW q \in AdminRequests, AskAdmin(q)
      PROVE  AppInv'
  BY <1>7 DEF AskAdmin, AppInv, Mounted, Running, Judged, clientVars
<1>8. CASE AdminReturns
  BY <1>8 DEF AdminReturns, AppInv, Mounted, Running, Judged, clientVars
<1>9. QED
  BY <1>1, <1>2, <1>3, <1>4, <1>5, <1>6, <1>7, <1>8 DEF Next

LEMMA AppInvariance == Spec => []AppInv
<1>1. Init => AppInv
  BY DEF Init, AppInv, Mounted, Running
<1>2. AppInv /\ [Next]_vars => AppInv'
  BY AppStepIsSound
<1>3. QED
  BY <1>1, <1>2, PTL DEF Spec

-----------------------------------------------------------------------------
(* Lemmas about the operators. *)

\* A set of naturals that is not empty has a least element.
LEMMA EarliestIsFirst ==
  ASSUME NEW S \in SUBSET Nat, S # {}
  PROVE  Earliest(S) \in S /\ \A j \in S : Earliest(S) <= j
<1> DEFINE R == OpToRel(<, Nat)
<1>1. IsWellFoundedOn(R, Nat)
  BY NatLessThanWellFounded
<1> HIDE DEF R
<1>2. PICK i \in S : \A j \in S : ~(<<j, i>> \in R)
  BY <1>1, WFMin
<1>3. \A j \in S : j < i => <<j, i>> \in R
  BY DEF R, OpToRel
<1>4. \A j \in S : ~(j < i)
  BY <1>2, <1>3, Zenon
<1>5. \A j \in S : i <= j
  BY <1>4
<1>6. QED
  BY <1>5 DEF Earliest

-----------------------------------------------------------------------------
(* Whom the admin router lets in. *)

\* A configuration that validate.js accepts admits on the word of one of its
\* strategies, and each that is consulted has been validated itself.
LEMMA OneStrategySpeaks ==
  ASSUME NEW c, NEW production, NEW q,
         ValidateAdminAuthConfig(c, production),
         \A f \in {"allowAny", "requireAll"} :
            Read(c, f) \in {Undefined, Wrong} \/ IsList(Read(c, f)),
         AuthenticateAdminRequest(q, c).ok
  PROVE  \E s \in Strategies(c) :
            /\ ValidateStrategy(s, production)
            /\ AuthenticateAdminRequest(q, c) = Authenticate(q, s)
<1>1. CASE Mode(c) # "combined"
  BY <1>1 DEF ValidateAdminAuthConfig, Strategies, AuthenticateAdminRequest
<1>2. CASE Mode(c) = "combined"
  <2>1. ValidateCombined(c, production)
    BY <1>2 DEF ValidateAdminAuthConfig, ValidateStrategy, SUPPORTED_MODES
  <2>2. ASSUME NEW f \in {"allowAny", "requireAll"}, IsList(Read(c, f)),
               NEW i \in DOMAIN c[f]
        PROVE  /\ c[f][i] \in Strategies(c)
               /\ Read(c, f) = c[f] /\ HasStrategies(c, f)
    <3>1. Read(c, f) = c[f] /\ c[f] # <<>>
      BY <2>2 DEF Read, IsList, IsObject
    <3>2. c[f] = Or(Read(c, f), <<>>)
      BY <2>2, <3>1 DEF Or, IsList, IsObject
    <3>3. QED
      BY <1>2, <2>2, <3>1, <3>2 DEF Strategies, HasStrategies, IsList, IsObject
  <2>3. CASE Read(c, "allowAny") \notin {Undefined, Wrong}
    <3> DEFINE list == c.allowAny
               admitted == {i \in DOMAIN list : Authenticate(q, list[i]).ok}
    <3>1. IsList(Read(c, "allowAny")) /\ Read(c, "allowAny") = list
      BY <2>3 DEF Read
    <3>2. DOMAIN list \subseteq Nat
      BY <3>1 DEF IsList, IsText
    <3>3. AuthenticateAdminRequest(q, c) = AuthenticateAny(q, list)
      BY <1>2, <2>3 DEF AuthenticateAdminRequest
    <3>4. admitted # {}
      BY <3>3 DEF AuthenticateAny, Refuse
    <3>5. Earliest(admitted) \in admitted
      <4> HIDE DEF list
      <4>1. QED
        BY <3>2, <3>4, EarliestIsFirst
    <3>6. AuthenticateAny(q, list) = Authenticate(q, list[Earliest(admitted)])
      BY <3>4 DEF AuthenticateAny
    <3>7. ValidateStrategy(list[Earliest(admitted)], production)
      BY <2>1, <2>2, <3>1, <3>5 DEF ValidateCombined
    <3>8. QED
      BY <2>2, <3>1, <3>3, <3>5, <3>6, <3>7
  <2>4. CASE Read(c, "allowAny") \in {Undefined, Wrong}
    <3> DEFINE list == c.requireAll
               refused == {i \in DOMAIN list : ~Authenticate(q, list[i]).ok}
    <3>1. ~HasStrategies(c, "allowAny") /\ HasStrategies(c, "requireAll")
      BY <2>1, <2>4 DEF ValidateCombined, HasStrategies
    <3>2. IsList(Read(c, "requireAll")) /\ Read(c, "requireAll") = list /\ list # <<>>
      BY <3>1 DEF HasStrategies, Read
    <3>3. list \in Seq(Range(list)) /\ Len(list) \in DOMAIN list /\ DOMAIN list \subseteq Nat
      BY <3>2 DEF IsList, IsText
    <3>4. AuthenticateAdminRequest(q, c) = AuthenticateAll(q, list)
      BY <1>2, <2>4 DEF AuthenticateAdminRequest
    <3>5. refused = {}
      <4>1. SUFFICES ASSUME refused # {} PROVE FALSE
        OBVIOUS
      <4>2. Earliest(refused) \in refused
        <5> HIDE DEF list
        <5>1. QED
          BY <3>3, <4>1, EarliestIsFirst
      <4>3. QED
        BY <3>4, <4>1, <4>2 DEF AuthenticateAll
    <3>6. AuthenticateAll(q, list) = Authenticate(q, list[Len(list)])
      BY <3>5 DEF AuthenticateAll
    <3>7. ValidateStrategy(list[Len(list)], production)
      BY <2>1, <3>1, <3>3 DEF ValidateCombined
    <3>8. QED
      BY <2>2, <3>2, <3>3, <3>4, <3>6, <3>7
  <2>5. QED
    BY <2>3, <2>4
<1>3. QED
  BY <1>1, <1>2

\* What a router has been made with: a configuration of the operator that has
\* been validated, or the mode "none" that was asked for in so many words.
LEMMA RouterIsValidated ==
  ASSUME AppInv, Mounted, router.kind = "strategy"
  PROVE  /\ ValidateAdminAuthConfig(router.config, deployment.production)
         /\ \/ router.config \in AuthsOf(deployment)
            \/ router.config = [mode |-> "none"]
         /\ \A f \in {"allowAny", "requireAll"} :
                Read(router.config, f) \in {Undefined, Wrong} \/ IsList(Read(router.config, f))
<1> DEFINE admin == Read(deployment.options, "admin")
           auth == Read(deployment.router, "auth")
           config == IF IsObject(auth) THEN auth ELSE Read(parry.admin, "auth")
<1>1. /\ deployment \in Deployments /\ Running
      /\ router = RequireAdminAuth(deployment.router, parry.admin, deployment.production)
      /\ IsObject(deployment.router) /\ router # Undefined
  BY DeploymentAssumption DEF AppInv, Mounted
<1>2. parry.admin = Spread(DEFAULTS.admin, admin)
  BY <1>1 DEF AppInv, MergeConfig
<1>3. Read(parry.admin, "auth") = IF IsObject(admin) THEN Read(admin, "auth") ELSE Undefined
  BY <1>2 DEF Spread, DEFAULTS, Read
<1>4. \/ auth = Callback /\ router = [kind |-> "callback", config |-> Undefined]
      \/ auth # Callback /\ router = Guarded(config, deployment.production)
      \/ router = Guarded([mode |-> "none"], deployment.production)
      \/ router = [kind |-> "closed", config |-> Undefined]
  BY <1>1 DEF RequireAdminAuth
<1>5. PICK c : /\ router = Guarded(c, deployment.production)
               /\ c = [mode |-> "none"] \/ (c = config /\ auth # Callback)
  BY <1>4
<1>6. ValidateAdminAuthConfig(c, deployment.production) /\ router.config = c
  BY <1>1, <1>5 DEF Guarded
<1>7. ASSUME c # [mode |-> "none"]
      PROVE  c \in AuthsOf(deployment)
  <2>1. c = config /\ auth # Callback /\ IsObject(c)
    BY <1>5, <1>6, <1>7 DEF ValidateAdminAuthConfig, ValidateStrategy
  <2>2. CASE IsObject(auth)
    BY <1>1, <2>1, <2>2 DEF AuthsOf, Settings
  <2>3. CASE ~IsObject(auth)
    <3>1. IsObject(admin) /\ c = Read(admin, "auth")
      BY <1>3, <2>1, <2>3 DEF IsObject
    <3>2. Read(admin, "auth") # Callback
      BY <1>1, <3>1, DeploymentAssumption DEF Read, IsObject
    <3>3. QED
      BY <2>1, <3>1, <3>2 DEF AuthsOf, Settings
  <2>4. QED
    BY <2>2, <2>3
<1>8. QED
  BY <1>1, <1>6, <1>7, DeploymentAssumption DEF Read

\* What a router of strategies admits, one of its strategies does.
LEMMA RouterAdmits ==
  ASSUME AppInv, asked # Undefined, reply.ok, router.kind = "strategy"
  PROVE  \E s \in Strategies(router.config) :
            /\ ValidateStrategy(s, deployment.production)
            /\ reply = Authenticate(asked, s)
            /\ Authenticate(asked, s).ok
<1>1. Mounted /\ reply = AuthenticateAdminRequest(asked, router.config)
  BY DEF AppInv, Answer
<1>2. QED
  BY <1>1, RouterIsValidated, OneStrategySpeaks

\* The answers of a router with no strategies.
LEMMA OtherRouters ==
  ASSUME AppInv, asked # Undefined, reply.ok, router.kind # "strategy"
  PROVE  asked.callback = Right /\ reply = Admit(Subject("callback", Undefined))
<1>1. router = RequireAdminAuth(deployment.router, parry.admin, deployment.production)
      /\ router # Undefined /\ reply = Answer(router, asked)
  BY DEF AppInv, Mounted
<1>2. router.kind \in {"callback", "closed"}
  BY <1>1 DEF RequireAdminAuth, Guarded
<1>3. QED
  BY <1>1, <1>2 DEF Answer, Refuse

\* A request with no credential, from nobody who is listed, is refused by every
\* strategy but "none".
LEMMA NothingIsRefused ==
  ASSUME NEW q, NEW s, NEW production, ValidateStrategy(s, production),
         Right \notin {q.token, q.secret, q.required, q.callback},
         ~IsTrustedProxy(q, s),
         Given(s, "allowedIps") => {q.peer, q.origin} \intersect s.allowedIps = {},
         Authenticate(q, s).ok
  PROVE  Mode(s) = "none"
<1>1. Mode(s) \in SUPPORTED_MODES \ {"combined"}
  BY DEF ValidateStrategy
<1>2. ASSUME NEW credential, NEW inside, credential # Right
      PROVE  ~Demand(credential, inside).ok
  BY <1>2 DEF Demand, Refuse
<1>3. ASSUME Mode(s) = "token"
      PROVE  FALSE
  BY <1>2, <1>3 DEF Authenticate, AuthenticateToken
<1>4. ASSUME Mode(s) = "ip-allowlist"
      PROVE  FALSE
  <2>1. Given(s, "allowedIps")
    BY <1>4 DEF ValidateStrategy, NonEmpty, Given
  <2>2. q.peer \notin s.allowedIps
    BY <2>1
  <2>3. ~AuthenticateIpAllowlist(q, s).ok
    BY <2>2 DEF AuthenticateIpAllowlist, ClientIpOf, Refuse
  <2>4. QED
    BY <1>4, <2>3 DEF Authenticate
<1>5. ASSUME Mode(s) = "trusted-proxy"
      PROVE  FALSE
  BY <1>5 DEF Authenticate, AuthenticateTrustedProxy, Refuse
<1>6. ASSUME Mode(s) \in ExternalModes
      PROVE  FALSE
  <2>1. ASSUME NEW inside
        PROVE  ~TrustedBoundary(q, s, inside).ok
    BY <1>2 DEF TrustedBoundary, Refuse
  <2>2. ~AuthenticateCloudflareAccess(q, s).ok /\ ~AuthenticateAlbAuth(q, s).ok
    BY <2>1 DEF AuthenticateCloudflareAccess, AuthenticateAlbAuth
  <2>3. QED
    BY <1>6, <2>2 DEF Authenticate, ExternalModes
<1>7. QED
  BY <1>1, <1>3, <1>4, <1>5, <1>6 DEF SUPPORTED_MODES

\* Nobody is admitted for nothing in production, nor anywhere else unless the
\* operator asked for it: for any configuration, however combined
\* (admin-auth.js 24-80, combined.js, docs/admin-api.md 47).
THEOREM AnonymousByOptIn == Spec => []AnonymousOnlyByOptIn
<1>1. ASSUME AppInv, asked # Undefined, reply.ok, ShowsNothing(asked, router)
      PROVE  /\ ~deployment.production
             /\ \/ Read(deployment.router, "allowInsecureAdminApi") = True
                \/ Read(deployment.router, "requireAuth") = False
                \/ Read(parry.admin, "allowInsecureAdminApi") = True
                \/ \E c \in Strategies(router.config) : Mode(c) = "none"
  <2>1. router.kind = "strategy"
    BY <1>1, OtherRouters DEF ShowsNothing
  <2>2. PICK s \in Strategies(router.config) :
          ValidateStrategy(s, deployment.production) /\ Authenticate(asked, s).ok
    BY <1>1, <2>1, RouterAdmits
  <2>3. Mode(s) = "none"
    BY <1>1, <2>1, <2>2, NothingIsRefused DEF ShowsNothing
  <2>4. ~deployment.production
    BY <2>2, <2>3 DEF ValidateStrategy
  <2>5. QED
    BY <2>3, <2>4
<1>2. AppInv => AnonymousOnlyByOptIn
  BY <1>1 DEF AnonymousOnlyByOptIn
<1>3. QED
  BY <1>2, AppInvariance, PTL

\* What the boundary of an external provider lets through has come from a
\* trusted proxy or has shown the secret there is.
LEMMA BoundaryIsKept ==
  ASSUME NEW q, NEW s, NEW inside, TrustedBoundary(q, s, inside).ok
  PROVE  /\ TrustedBoundary(q, s, inside) = inside
         /\ IsTrustedProxy(q, s) \/ (Given(s, "proxySharedSecret") /\ q.secret = Right)
  BY DEF TrustedBoundary, Demand, Refuse

\* Whom a strategy takes a request to be from.
Vouched(q, s, subject) ==
    /\ subject.kind = "person" =>
        /\ subject.who = q.verified
        /\ IsTrustedProxy(q, s) \/ Given(s, "proxySharedSecret")
        /\ Mode(s) \in ExternalModes => Listed(q.verified, s, "allowedEmails")
        /\ Mode(s) \in {"alb-auth", "cognito-alb"} => Listed(q.verified, s, "allowedSubjects")
    /\ subject.kind \in {"ip", "proxy"} => subject.who \in {q.peer, q.origin}

LEMMA StrategyVouches ==
  ASSUME NEW q, NEW s, NEW production, ValidateStrategy(s, production),
         Mode(s) # "none" =>
            /\ IsTrustedProxy(q, s) => q.forwarded = q.origin
            /\ IsTrustedProxy(q, s) \/ q.secret = Right =>
                  {q.user, q.email, q.claims} \subseteq {q.verified, Undefined},
         Authenticate(q, s).ok
  PROVE  Vouched(q, s, Authenticate(q, s).subject)
<1> DEFINE subject == Authenticate(q, s).subject
<1>1. Mode(s) \in SUPPORTED_MODES \ {"combined"}
  BY DEF ValidateStrategy
<1>2. ASSUME NEW credential, NEW inside, Demand(credential, inside).ok
      PROVE  Demand(credential, inside) = inside
  BY <1>2 DEF Demand, Refuse
<1>3. CASE Mode(s) = "token"
  <2>1. subject = Subject("token", Undefined)
    BY <1>2, <1>3 DEF Authenticate, AuthenticateToken, Admit
  <2>2. QED
    BY <2>1 DEF Subject, Vouched
<1>4. CASE Mode(s) = "ip-allowlist"
  <2>1. subject = Subject("ip", ClientIpOf(q, s, Truthy(Read(s, "trustProxyHeaders"))))
    BY <1>4 DEF Authenticate, AuthenticateIpAllowlist, Admit, Refuse
  <2>2. subject.who \in {q.peer, q.origin}
    BY <1>4, <2>1 DEF Subject, ClientIpOf
  <2>3. QED
    BY <2>1, <2>2 DEF Subject, Vouched
<1>5. CASE Mode(s) = "trusted-proxy"
  <2> DEFINE who == IF q.user # Undefined THEN Subject("person", q.user)
                    ELSE IF q.email # Undefined THEN Subject("person", q.email)
                    ELSE Subject("proxy", ClientIpOf(q, s, TRUE))
  <2>1. Authenticate(q, s) = AuthenticateTrustedProxy(q, s)
    BY <1>5 DEF Authenticate
  <2> DEFINE secret == IF Given(s, "proxySharedSecret") THEN Demand(q.secret, Admit(who))
                       ELSE Admit(who)
  <2>2. AuthenticateTrustedProxy(q, s) =
          IF ~IsTrustedProxy(q, s) THEN Refuse(403)
          ELSE IF NonEmpty(s, "requiredHeaders") THEN Demand(q.required, secret)
          ELSE secret
    BY DEF AuthenticateTrustedProxy
  <2>3. IsTrustedProxy(q, s) /\ Authenticate(q, s) = Admit(who)
    <3> HIDE DEF who
    <3>1. ~Refuse(403).ok
      BY DEF Refuse
    <3>2. IsTrustedProxy(q, s) /\ Authenticate(q, s) = secret
      BY <1>2, <2>1, <2>2, <3>1
    <3>3. CASE Given(s, "proxySharedSecret")
      <4>1. Authenticate(q, s) = Demand(q.secret, Admit(who))
        BY <3>2, <3>3
      <4>2. Demand(q.secret, Admit(who)).ok
        BY <4>1
      <4>3. QED
        BY <1>2, <3>2, <4>1, <4>2
    <3>4. QED
      BY <3>2, <3>3
  <2>4. ClientIpOf(q, s, TRUE) = q.origin
    BY <1>5, <2>3 DEF ClientIpOf
  <2>5. \/ subject = Subject("person", q.verified)
        \/ subject = Subject("proxy", q.origin)
    <3>1. {q.user, q.email, q.claims} \subseteq {q.verified, Undefined}
      BY <1>5, <2>3
    <3>2. who \in {Subject("person", q.verified), Subject("proxy", q.origin)}
      BY <2>4, <3>1
    <3>3. subject = who
      <4> HIDE DEF who
      <4>1. QED
        BY <2>3 DEF Admit
    <3>4. QED
      BY <3>2, <3>3
  <2>6. QED
    BY <1>5, <2>3, <2>5 DEF Subject, Vouched, ExternalModes
<1>6. CASE Mode(s) = "cloudflare-access"
  <2>1. Authenticate(q, s) = AuthenticateCloudflareAccess(q, s)
    BY <1>6 DEF Authenticate
  <2> DEFINE inside == IF q.email = Undefined THEN Refuse(401)
                       ELSE IF ~Listed(q.email, s, "allowedEmails") THEN Refuse(403)
                       ELSE Admit(Subject("person", q.email))
  <2>2. AuthenticateCloudflareAccess(q, s) = TrustedBoundary(q, s, inside)
    BY DEF AuthenticateCloudflareAccess
  <2>3. /\ Authenticate(q, s) = inside
        /\ IsTrustedProxy(q, s) \/ (Given(s, "proxySharedSecret") /\ q.secret = Right)
    <3> HIDE DEF inside
    <3>1. QED
      BY <2>1, <2>2, BoundaryIsKept
  <2>4. q.email # Undefined /\ Listed(q.email, s, "allowedEmails")
        /\ subject = Subject("person", q.email)
    BY <2>3 DEF Refuse, Admit
  <2>5. q.email = q.verified
    BY <1>6, <2>3, <2>4
  <2>6. QED
    BY <1>6, <2>3, <2>4, <2>5 DEF Subject, Vouched, ExternalModes
<1>7. CASE Mode(s) \in {"alb-auth", "cognito-alb"}
  <2>1. Authenticate(q, s) = AuthenticateAlbAuth(q, s)
    BY <1>7 DEF Authenticate
  <2> DEFINE email == IF q.claims # Undefined THEN q.claims ELSE q.email
             inside == IF q.user = Undefined THEN Refuse(401)
                       ELSE IF Listed(q.user, s, "allowedSubjects")
                               /\ Listed(email, s, "allowedEmails")
                       THEN Admit(Subject("person", q.user)) ELSE Refuse(403)
  <2>2. AuthenticateAlbAuth(q, s) = TrustedBoundary(q, s, inside)
    BY DEF AuthenticateAlbAuth
  <2>3. /\ Authenticate(q, s) = inside
        /\ IsTrustedProxy(q, s) \/ (Given(s, "proxySharedSecret") /\ q.secret = Right)
    <3> HIDE DEF inside
    <3>1. QED
      BY <2>1, <2>2, BoundaryIsKept
  <2>4. q.user # Undefined /\ Listed(q.user, s, "allowedSubjects")
        /\ Listed(email, s, "allowedEmails") /\ subject = Subject("person", q.user)
    <3> HIDE DEF email
    <3>1. QED
      BY <2>3 DEF Refuse, Admit
  <2>5. q.user = q.verified /\ email \in {q.verified, Undefined}
    BY <1>7, <2>3, <2>4
  <2>6. Listed(q.verified, s, "allowedEmails")
    <3> HIDE DEF email
    <3>1. QED
      BY <2>4, <2>5 DEF Listed
  <2>7. QED
    BY <1>7, <2>3, <2>4, <2>5, <2>6 DEF Subject, Vouched, ExternalModes
<1>8. CASE Mode(s) = "none"
  <2>1. subject = Subject("anonymous", Undefined)
    BY <1>8 DEF Authenticate, Admit
  <2>2. QED
    BY <2>1 DEF Subject, Vouched
<1>9. QED
  BY <1>1, <1>3, <1>4, <1>5, <1>6, <1>7, <1>8 DEF SUPPORTED_MODES, ExternalModes

\* Whoever the admin API takes a request to be from is whom a gateway has
\* verified, and is on the lists of a strategy in force; an address is the
\* peer's or the one a gateway vouches for.  With gateways that pass on what
\* they have verified (trusted-proxy.js, external-identity.js 8-49).
THEOREM IdentityVouched == Spec => []IdentityIsVouched
<1>1. ASSUME AppInv, asked # Undefined, reply.ok
      PROVE  \/ reply.subject.kind \notin {"person", "ip", "proxy"}
             \/ \E s \in Strategies(router.config) : Vouched(asked, s, reply.subject)
  <2>1. CASE router.kind = "strategy"
    <3>1. PICK s \in Strategies(router.config) :
            /\ ValidateStrategy(s, deployment.production)
            /\ reply = Authenticate(asked, s) /\ Authenticate(asked, s).ok
      BY <1>1, <2>1, RouterAdmits
    <3>2. CASE router.config \in AuthsOf(deployment)
      <4>1. /\ IsTrustedProxy(asked, s) => asked.forwarded = asked.origin
            /\ IsTrustedProxy(asked, s) \/ asked.secret = Right =>
                  {asked.user, asked.email, asked.claims} \subseteq {asked.verified, Undefined}
        BY <1>1, <3>2, GatewayAssumption DEF AppInv
      <4>2. QED
        BY <3>1, <4>1, StrategyVouches
    <3>3. CASE router.config = [mode |-> "none"]
      <4>1. Mode(s) \in {"none", "token"} /\ Read(s, "token") = Undefined
        BY <3>3 DEF Strategies, Mode, Read, Or
      <4>2. Mode(s) = "none"
        BY <3>1, <4>1 DEF ValidateStrategy, Given
      <4>3. QED
        BY <3>1, <4>2, StrategyVouches
    <3>4. QED
      BY <1>1, <2>1, <3>2, <3>3, RouterIsValidated DEF AppInv
  <2>2. CASE router.kind # "strategy"
    BY <1>1, <2>2, OtherRouters DEF Admit, Subject
  <2>3. QED
    BY <2>1, <2>2
<1>2. AppInv => IdentityIsVouched
  BY <1>1 DEF IdentityIsVouched, Vouched
<1>3. QED
  BY <1>2, AppInvariance, PTL

-----------------------------------------------------------------------------
(* What a decision says. *)

Guards == {"HTTP_PARAMETER_POLLUTION", "PROTOTYPE_POLLUTION", "NOSQL_INJECTION",
           "PATH_TRAVERSAL"}
Detected == Guards \cup {"SQL_INJECTION", "XSS"}

LEMMA ThreatsAreDetected ==
  ASSUME NEW f, NEW config
  PROVE  /\ Threats(f, config) = {"REQUEST_SHAPE"} \/ Threats(f, config) \in SUBSET Detected
         /\ IsFiniteSet(Threats(f, config))
<1>1. Threats(f, config) = {"REQUEST_SHAPE"} \/ Threats(f, config) \in SUBSET Detected
  <2>1. /\ ScanStructuredGuards(f, config, CollectRequestTargets(f, config)) \subseteq Guards
        /\ ScanTargets(f, config, CollectRequestTargets(f, config))
              \subseteq {"SQL_INJECTION", "XSS"}
    BY DEF ScanStructuredGuards, ScanTargets, Guards
  <2>2. QED
    BY <2>1 DEF Threats, Detected
<1>2. IsFiniteSet({"REQUEST_SHAPE"})
  BY FS_Singleton
<1>3. IsFiniteSet(Detected)
  <2>1. IsFiniteSet({"SQL_INJECTION"} \cup {"XSS"})
    BY FS_Singleton, FS_AddElement
  <2>2. IsFiniteSet({"HTTP_PARAMETER_POLLUTION"} \cup {"PROTOTYPE_POLLUTION"})
    BY FS_Singleton, FS_AddElement
  <2>3. IsFiniteSet({"NOSQL_INJECTION"} \cup {"PATH_TRAVERSAL"})
    BY FS_Singleton, FS_AddElement
  <2>4. Detected = (({"SQL_INJECTION"} \cup {"XSS"})
                      \cup ({"HTTP_PARAMETER_POLLUTION"} \cup {"PROTOTYPE_POLLUTION"}))
                    \cup ({"NOSQL_INJECTION"} \cup {"PATH_TRAVERSAL"})
    BY DEF Detected, Guards
  <2>5. QED
    BY <2>1, <2>2, <2>3, <2>4, FS_Union
<1>4. QED
  BY <1>1, <1>2, <1>3, FS_Subset

\* The severity of a set of threats is a severity of one of them, and the highest.
LEMMA SeverityIsTheHighest ==
  ASSUME NEW threats
  PROVE  /\ SeverityForThreats(threats) \in {"none"} \cup {THREAT_SEVERITY(d) : d \in threats}
         /\ \A d \in threats : Rank[THREAT_SEVERITY(d)] <= Rank[SeverityForThreats(threats)]
<1> DEFINE S == {"none"} \cup {THREAT_SEVERITY(d) : d \in threats}
<1>1. S \subseteq {"none", "medium", "high"} /\ \A d \in threats : THREAT_SEVERITY(d) \in {"medium", "high"}
  BY DEF THREAT_SEVERITY
<1>2. Rank["none"] = 0 /\ Rank["medium"] = 2 /\ Rank["high"] = 3
  BY DEF Rank
<1>3. \E s \in S : \A d \in threats : Rank[s] >= Rank[THREAT_SEVERITY(d)]
  <2>1. CASE "high" \in S
    BY <1>1, <1>2, <2>1
  <2>2. CASE "high" \notin S /\ "medium" \in S
    BY <1>1, <1>2, <2>2
  <2>3. CASE "high" \notin S /\ "medium" \notin S
    BY <1>1, <2>3
  <2>4. QED
    BY <2>1, <2>2, <2>3
<1>4. /\ SeverityForThreats(threats) \in S
      /\ \A d \in threats : Rank[SeverityForThreats(threats)] >= Rank[THREAT_SEVERITY(d)]
  BY <1>3 DEF SeverityForThreats
<1>5. QED
  BY <1>1, <1>2, <1>4

\* The first threat: duplicate parameters when they are there, then the other
\* guards, whose severity is the highest.
LEMMA FirstThreat ==
  ASSUME NEW threats, threats = {"REQUEST_SHAPE"} \/ threats \in SUBSET Detected,
         NEW first \in FirstThreats(threats),
         THREAT_SEVERITY(first) # SeverityForThreats(threats)
  PROVE  \E other \in threats :
            /\ "HTTP_PARAMETER_POLLUTION" \in threats
            /\ other # "HTTP_PARAMETER_POLLUTION"
<1> DEFINE order == <<"HTTP_PARAMETER_POLLUTION", "PROTOTYPE_POLLUTION", "NOSQL_INJECTION",
                      "PATH_TRAVERSAL">>
           guards == {i \in DOMAIN order : order[i] \in threats}
<1>1. FirstThreats(threats) = IF guards = {} THEN threats ELSE {order[Min(guards)]}
  BY DEF FirstThreats
<1>2. DOMAIN order = 1 .. 4
  OBVIOUS
<1>3. guards # {} => \E m \in guards : Min(guards) = m /\ \A i \in guards : m <= i
  <2>1. guards # {} => \E m \in guards : \A i \in guards : m <= i
    <3>1. guards \in SUBSET Nat
      BY <1>2
    <3>2. QED
      <4> HIDE DEF guards
      <4>1. QED
        BY <3>1, EarliestIsFirst
  <2>2. QED
    <3> HIDE DEF guards
    <3>1. QED
      BY <2>1 DEF Min
<1>4. first \in threats
  BY <1>1, <1>3
<1>5. PICK other \in threats : THREAT_SEVERITY(other) = SeverityForThreats(threats)
  <2>1. threats # {}
    BY <1>4
  <2>2. QED
    BY <2>1, SeverityIsTheHighest DEF Rank, THREAT_SEVERITY
<1>6. THREAT_SEVERITY(first) = "medium" /\ THREAT_SEVERITY(other) = "high"
  <2>1. Rank[THREAT_SEVERITY(first)] <= Rank[SeverityForThreats(threats)]
    BY <1>4, SeverityIsTheHighest
  <2>2. QED
    BY <1>5, <2>1 DEF Rank, THREAT_SEVERITY
<1>7. first \in {"HTTP_PARAMETER_POLLUTION", "REQUEST_SHAPE"}
      /\ other \notin {"HTTP_PARAMETER_POLLUTION", "REQUEST_SHAPE"}
  BY <1>6 DEF THREAT_SEVERITY
<1>8. first = "HTTP_PARAMETER_POLLUTION"
  BY <1>4, <1>7 DEF Detected, Guards
<1>9. QED
  BY <1>4, <1>7, <1>8

\* A set of two different things has two of them.
LEMMA PairsCountTwo ==
  ASSUME NEW a, NEW b, a # b
  PROVE  Cardinality({a} \cup {b}) = 2
<1>1. IsFiniteSet({a}) /\ Cardinality({a}) = 1
  BY FS_Singleton
<1>2. b \notin {a}
  OBVIOUS
<1>3. Cardinality({a} \cup {b}) = Cardinality({a}) + 1
  BY <1>1, <1>2, FS_AddElement
<1>4. QED
  BY <1>1, <1>3

\* The severity of a decision is the highest of its threats, and its event says
\* the same unless duplicate parameters came first with something worse: for any
\* request and any configuration (scoring.js, engine.js 87-112).
THEOREM SeverityHighest == Spec => []SeverityIsHighest
<1>1. ASSUME AppInv, request # Undefined, verdict # Undefined
      PROVE  /\ \A d \in verdict.threats :
                  Rank[THREAT_SEVERITY(d)] <= Rank[verdict.severity]
             /\ verdict.event # Undefined /\ verdict.event.severity # verdict.severity =>
                  "HTTP_PARAMETER_POLLUTION" \in verdict.threats
                    /\ Cardinality(verdict.threats) > 1
  <2> DEFINE T == verdict.threats
  <2>1. Judged(verdict, request)
    BY <1>1 DEF AppInv
  <2>2. (T = {"REQUEST_SHAPE"} \/ T \in SUBSET Detected) /\ IsFiniteSet(T)
    BY <2>1, ThreatsAreDetected DEF Judged
  <2>3. \A d \in T : Rank[THREAT_SEVERITY(d)] <= Rank[verdict.severity]
    BY <2>1, SeverityIsTheHighest DEF Judged
  <2>4. ASSUME verdict.event # Undefined, verdict.event.severity # verdict.severity
        PROVE  "HTTP_PARAMETER_POLLUTION" \in T /\ Cardinality(T) > 1
    <3>1. PICK first \in FirstThreats(T) : verdict.event = ThreatEvent(first)
      BY <2>1, <2>4 DEF Judged
    <3>2. THREAT_SEVERITY(first) # SeverityForThreats(T)
      BY <2>1, <2>4, <3>1 DEF Judged, ThreatEvent
    <3>3. PICK other \in T :
            "HTTP_PARAMETER_POLLUTION" \in T /\ other # "HTTP_PARAMETER_POLLUTION"
      BY <2>2, <3>2, FirstThreat
    <3>4. other # "HTTP_PARAMETER_POLLUTION"
      BY <3>3
    <3>5. Cardinality({other} \cup {"HTTP_PARAMETER_POLLUTION"}) = 2
      BY <3>4, PairsCountTwo
    <3>6. {other} \cup {"HTTP_PARAMETER_POLLUTION"} \in SUBSET T
      BY <3>3
    <3>7. QED
      <4> HIDE DEF T
      <4>1. QED
        BY <2>2, <3>3, <3>5, <3>6, FS_Subset, FS_CardinalityType
  <2>5. QED
    BY <2>3, <2>4
<1>2. AppInv => SeverityIsHighest
  BY <1>1 DEF SeverityIsHighest
<1>3. QED
  BY <1>2, AppInvariance, PTL

-----------------------------------------------------------------------------
(* The ways of a forest. *)

\* Every node has a way: were there a first node without one, the way of its
\* parent, which comes before it, would give it one.
LEMMA WaysAreThere ==
  ASSUME NEW f, IsForest(f)
  PROVE  Ways(f) = [j \in DOMAIN f.parent |->
            IF f.parent[j] = 0 THEN <<j>> ELSE Append(Ways(f)[f.parent[j]], j)]
<1> DEFINE D == DOMAIN f.parent
           Step(g, j) == IF f.parent[j] = 0 THEN <<j>> ELSE Append(g[f.parent[j]], j)
           Goes(g, k) == \A j \in D : j <= k => g[j] = Step(g, j)
           without == {k \in D : ~ \E g : Goes(g, k)}
<1>1. /\ D = 1 .. Len(f.parent) /\ Len(f.parent) \in Nat /\ Len(f.parent) >= 4
      /\ f.parent[1] = 0
      /\ \A j \in D : f.parent[j] # 0 => f.parent[j] \in D /\ f.parent[j] < j
  BY DEF IsForest
<1>2. ASSUME without # {}
      PROVE  FALSE
  <2>1. PICK m \in without : \A k \in without : m <= k
    <3>1. without \in SUBSET D
      OBVIOUS
    <3>2. QED
      <4> HIDE DEF without
      <4>1. without \in SUBSET Nat
        BY <1>1, <3>1
      <4>2. QED
        BY <1>2, <4>1, EarliestIsFirst
  <2>2. m \in D
    BY <2>1
  <2>3. PICK g : Goes(g, m - 1)
    <3>1. CASE m = 1
      <4>1. Goes(<<>>, m - 1)
        BY <1>1, <3>1
      <4>2. QED
        BY <4>1
    <3>2. CASE m # 1
      <4>1. m - 1 \in D /\ m - 1 \notin without
        <5> HIDE DEF without
        <5>1. QED
          BY <1>1, <2>1, <2>2, <3>2
      <4>2. QED
        BY <4>1
    <3>3. QED
      BY <3>1, <3>2
  <2> DEFINE h == [j \in D |-> IF j = m THEN Step(g, m) ELSE g[j]]
  <2>4. ASSUME NEW j \in D, j <= m
        PROVE  h[j] = Step(h, j)
    <3>1. m \in D /\ m \in Nat /\ j \in Nat
      <4>1. D \subseteq Nat
        BY <1>1
      <4>2. QED
        <5> HIDE DEF D, without, h
        <5>1. QED
          BY <2>2, <4>1
    <3>2. f.parent[j] # 0 => h[f.parent[j]] = g[f.parent[j]]
      <4> HIDE DEF Step
      <4>1. QED
        BY <1>1, <2>2, <2>4, <3>1
    <3>3. Step(h, j) = Step(g, j)
      <4> HIDE DEF h
      <4>1. QED
        BY <3>2
    <3>4. j # m => g[j] = Step(g, j)
      BY <2>3, <2>4, <3>1
    <3>5. h[j] = IF j = m THEN Step(g, m) ELSE g[j]
      OBVIOUS
    <3>6. QED
      <4> HIDE DEF h, Step
      <4>1. QED
        BY <3>3, <3>4, <3>5
  <2>5. Goes(h, m)
    <3> HIDE DEF h, Step
    <3>1. QED
      BY <2>4
  <2>6. QED
    <3> HIDE DEF h, Goes
    <3>1. QED
      BY <2>1, <2>5
<1>3. PICK g : Goes(g, Len(f.parent))
  <2>1. Len(f.parent) \in D
    BY <1>1
  <2>2. QED
    <3> HIDE DEF Goes
    <3>1. QED
      BY <1>2, <2>1
<1> DEFINE h == [j \in D |-> g[j]]
<1>4. h = [j \in D |-> Step(h, j)]
  <2>1. ASSUME NEW j \in D
        PROVE  h[j] = Step(h, j)
    <3>1. g[j] = Step(g, j)
      BY <1>1, <1>3
    <3>2. f.parent[j] # 0 => h[f.parent[j]] = g[f.parent[j]]
      BY <1>1
    <3>3. QED
      BY <3>1, <3>2
  <2>2. QED
    <3> HIDE DEF Step
    <3>1. QED
      BY <2>1
<1>5. \E w : w = [j \in D |-> Step(w, j)]
  <2> HIDE DEF h, Step, D
  <2>1. QED
    BY <1>4
<1>6. Ways(f) = CHOOSE w : w = [j \in D |-> Step(w, j)]
  BY DEF Ways
<1>7. QED
  BY <1>5, <1>6

\* What is known of the node of a way, of its depth and of its root.
LEMMA NodesHaveRoots ==
  ASSUME NEW f, IsForest(f), NEW i \in DOMAIN f.parent
  PROVE  /\ Depth(f, i) \in Nat /\ Root(f, i) \in 1 .. 4
         /\ f.parent[i] = 0 => Depth(f, i) = 0 /\ Root(f, i) = i
         /\ f.parent[i] # 0 => /\ Depth(f, i) = Depth(f, f.parent[i]) + 1
                               /\ Root(f, i) = Root(f, f.parent[i])
         /\ Root(f, i) = 4 => i = 4
<1> DEFINE D == DOMAIN f.parent
           Sound(j) == /\ Way(f, j) \in Seq(Nat) /\ Way(f, j) # <<>>
                       /\ Head(Way(f, j)) \in 1 .. 4
                       /\ Head(Way(f, j)) = 4 => j = 4
           unsound == {j \in D : ~ Sound(j)}
<1>1. /\ D \subseteq Nat
      /\ \A j \in D : /\ f.parent[j] = 0 => j \in 1 .. 4
                      /\ f.parent[j] # 0 =>
                            f.parent[j] \in D /\ f.parent[j] < j /\ f.parent[j] # 4
  <2>1. D = 1 .. Len(f.parent) /\ Len(f.parent) \in Nat /\ Len(f.parent) >= 4
    BY DEF IsForest
  <2>2. 4 \notin Containers(f)
    BY DEF IsForest, Containers
  <2>3. ASSUME NEW j \in D
        PROVE  IF j <= 4 THEN f.parent[j] = 0
               ELSE f.parent[j] \in (1 .. j - 1) \intersect Containers(f)
    BY DEF IsForest
  <2>4. ASSUME NEW j \in D, f.parent[j] # 0
        PROVE  f.parent[j] \in D /\ f.parent[j] < j /\ f.parent[j] # 4
    BY <2>1, <2>2, <2>3, <2>4
  <2>5. ASSUME NEW j \in D, f.parent[j] = 0
        PROVE  j \in 1 .. 4
    BY <2>1, <2>3, <2>5
  <2>6. QED
    BY <2>1, <2>4, <2>5
<1>2. \A j \in D : Way(f, j) = IF f.parent[j] = 0 THEN <<j>>
                               ELSE Append(Way(f, f.parent[j]), j)
  <2>1. Ways(f) = [j \in D |-> IF f.parent[j] = 0 THEN <<j>>
                               ELSE Append(Ways(f)[f.parent[j]], j)]
    BY WaysAreThere
  <2> HIDE DEF D
  <2>2. \A j \in D : Ways(f)[j] = IF f.parent[j] = 0 THEN <<j>>
                                 ELSE Append(Ways(f)[f.parent[j]], j)
    BY <2>1
  <2>3. QED
    BY <2>2 DEF Way
<1>3. ASSUME NEW j \in D, f.parent[j] # 0 => Sound(f.parent[j])
      PROVE  Sound(j)
  <2>1. CASE f.parent[j] = 0
    <3>1. Way(f, j) = <<j>> /\ j \in 1 .. 4
      BY <1>1, <1>2, <2>1
    <3>2. QED
      BY <3>1
  <2>2. CASE f.parent[j] # 0
    <3>1. Way(f, j) = Append(Way(f, f.parent[j]), j) /\ j \in Nat /\ f.parent[j] # 4
      BY <1>1, <1>2, <2>2
    <3>2. Head(Way(f, f.parent[j])) \in 1 .. 3
      BY <1>3, <2>2, <3>1
    <3>3. Head(Way(f, j)) = Head(Way(f, f.parent[j]))
      BY <1>3, <2>2, <3>1
    <3>4. QED
      BY <1>3, <2>2, <3>1, <3>2, <3>3
  <2>3. QED
    BY <2>1, <2>2
<1>4. unsound = {}
  <2>1. SUFFICES ASSUME unsound # {} PROVE FALSE
    OBVIOUS
  <2>2. unsound \in SUBSET Nat
    BY <1>1
  <2>3. PICK m \in unsound : \A j \in unsound : m <= j
    <3> HIDE DEF unsound
    <3>1. QED
      BY <2>1, <2>2, EarliestIsFirst
  <2>4. m \in D /\ ~Sound(m)
    BY <2>3
  <2>5. ASSUME f.parent[m] # 0
        PROVE  f.parent[m] \in D /\ f.parent[m] \notin unsound
    <3>1. f.parent[m] \in D /\ f.parent[m] < m
      BY <1>1, <2>4, <2>5
    <3>2. f.parent[m] \in Nat /\ m \in Nat
      BY <1>1, <2>4, <3>1
    <3>3. QED
      <4> HIDE DEF unsound
      <4>1. QED
        BY <2>3, <3>1, <3>2
  <2>6. QED
    <3> HIDE DEF Sound
    <3>1. QED
      BY <1>3, <2>4, <2>5
<1>5. \A j \in D : Sound(j)
  BY <1>4
<1>6. CASE f.parent[i] = 0
  <2>1. Way(f, i) = <<i>>
    BY <1>2, <1>6
  <2>2. QED
    BY <1>5, <1>6, <2>1 DEF Depth, Root
<1>7. CASE f.parent[i] # 0
  <2>1. Way(f, i) = Append(Way(f, f.parent[i]), i) /\ f.parent[i] \in D /\ i \in Nat
    BY <1>1, <1>2, <1>7
  <2>2. Sound(i) /\ Sound(f.parent[i])
    BY <1>5, <2>1
  <2>3. QED
    BY <1>7, <2>1, <2>2 DEF Depth, Root
<1>8. QED
  BY <1>6, <1>7

-----------------------------------------------------------------------------
(* What a scan finds. *)

\* The depths of an accepted configuration are numbers, or missing.
LEMMA DepthsAreNumbers ==
  ASSUME NEW d \in Deployments, Accepts(d.options)
  PROVE  /\ MergeConfig(d.options).nosql.enabled \in BOOLEAN
         /\ MergeConfig(d.options).requestShape.maxDepth \in Nat \cup {Undefined}
         /\ MaxObjectDepth(MergeConfig(d.options)) \in Nat
<1> DEFINE config == MergeConfig(d.options)
           shape == Read(d.options, "requestShape")
<1>1. ValidateParryOptions(d.options)
  BY DEF Accepts
<1>2. config.nosql.enabled \in BOOLEAN
  BY DEF MergeConfig, NormalizeNoSQLConfig
<1>3. config.requestShape.maxDepth \in Nat \cup {Undefined}
  <2>1. config.requestShape = Spread(DEFAULTS.requestShape, shape)
    BY DEF MergeConfig
  <2>2. CASE IsObject(shape)
    <3>1. Read(shape, "maxDepth") \in Nat \cup {Undefined}
      <4>1. shape \notin {Undefined, False}
        BY <2>2 DEF IsObject
      <4>2. Read(shape, "maxDepth") # Wrong
        BY <1>1, <4>1 DEF ValidateParryOptions, Content, Or, ValidShape, NonNegative
      <4>3. QED
        BY <2>2, <4>2, DeploymentAssumption DEF Depths
    <3>2. config.requestShape.maxDepth =
            IF "maxDepth" \in DOMAIN shape THEN shape["maxDepth"] ELSE 8
      BY <2>1, <2>2 DEF Spread, DEFAULTS
    <3>3. QED
      BY <3>1, <3>2 DEF Read
  <2>3. CASE ~IsObject(shape)
    BY <2>1, <2>3 DEF Spread, DEFAULTS
  <2>4. QED
    BY <2>2, <2>3
<1>4. MaxObjectDepth(config) \in Nat
  <2>1. Read(d.options, "maxObjectDepth") \in Nat \cup {Undefined}
    BY <1>1, DeploymentAssumption DEF ValidateParryOptions, NonNegative, Depths
  <2>2. config.maxObjectDepth = Spread(DEFAULTS, d.options).maxObjectDepth
    BY DEF MergeConfig
  <2>3. Spread(DEFAULTS, d.options).maxObjectDepth \in {8, Read(d.options, "maxObjectDepth")}
    BY DEF Spread, DEFAULTS, Read
  <2>4. QED
    BY <2>1, <2>2, <2>3 DEF MaxObjectDepth
<1>5. QED
  BY <1>2, <1>3, <1>4

\* Each detector is on and has found something exactly when its name is among
\* the threats.
LEMMA DetectorsSpeak ==
  ASSUME NEW f, NEW config, NEW targets, config.nosql.enabled \in BOOLEAN
  PROVE  LET guards == ScanStructuredGuards(f, config, targets)
             texts == ScanTargets(f, config, targets)
         IN /\ "HTTP_PARAMETER_POLLUTION" \in guards
                  <=> Truthy(config.hpp.enabled) /\ DuplicateParams(f, config.hpp)
            /\ "PROTOTYPE_POLLUTION" \in guards
                  <=> Truthy(config.prototypePollution.enabled) /\ PollutesPrototype(f)
            /\ "NOSQL_INJECTION" \in guards
                  <=> config.nosql.enabled /\ InspectNoSQL(f, config.nosql)
            /\ "PATH_TRAVERSAL" \in guards
                  <=> Truthy(config.pathTraversal.enabled) /\ Traverses(f, targets)
            /\ "SQL_INJECTION" \in texts
                  <=> Truthy(config.sql) /\ \E i \in targets : f.text[i] = "sql"
            /\ "XSS" \in texts
                  <=> Truthy(config.xss) /\ \E i \in targets : f.text[i] = "xss"
  BY DEF ScanStructuredGuards, ScanTargets

\* With a shape guard that turns away what is too deep for the other walks, they
\* come to every leaf and every key of what it lets through.
LEMMA WalksReachAll ==
  ASSUME NEW f, IsForest(f), NEW config, GuardCovers(config),
         config.requestShape.maxDepth \in Nat \cup {Undefined}, MaxObjectDepth(config) \in Nat,
         ~ExceedsShape(f, config.requestShape),
         NEW i \in DOMAIN f.kind
  PROVE  /\ Depth(f, i) <= MaxObjectDepth(config) + 1
         /\ Depth(f, i) <= NoSQLDepth + 1
<1> DEFINE limit == config.requestShape.maxDepth
<1>1. /\ limit \in Nat /\ limit <= MaxObjectDepth(config) /\ limit <= NoSQLDepth
      /\ limit # Undefined /\ NoSQLDepth \in Nat
  BY RequestAssumption DEF GuardCovers
<1>2. i \in DOMAIN f.parent /\ DOMAIN f.kind = DOMAIN f.parent
  BY DEF IsForest
<1>3. CASE f.parent[i] = 0
  <2>1. Depth(f, i) = 0
    BY <1>2, <1>3, NodesHaveRoots
  <2>2. QED
    BY <1>1, <2>1
<1>4. CASE f.parent[i] # 0
  <2> DEFINE j == f.parent[i]
  <2>1. j \in Containers(f) /\ j \in DOMAIN f.parent /\ j # 4
    <3>1. IF i <= 4 THEN f.parent[i] = 0 ELSE f.parent[i] \in Containers(f)
      BY <1>2 DEF IsForest
    <3>2. 4 \notin Containers(f)
      BY DEF IsForest, Containers
    <3>3. QED
      BY <1>2, <1>4, <3>1, <3>2 DEF Containers
  <2>2. /\ Depth(f, i) = Depth(f, j) + 1 /\ Depth(f, j) \in Nat
        /\ Root(f, j) \in 1 .. 4 /\ Root(f, j) # 4
    BY <1>2, <1>4, <2>1, NodesHaveRoots
  <2>3. j \in Shaped(f) \intersect Containers(f)
    BY <1>2, <2>1, <2>2 DEF Shaped
  <2>4. ~Exceeds(Depth(f, j), limit)
    BY <2>3 DEF ExceedsShape
  <2>5. Depth(f, j) <= limit
    BY <1>1, <2>2, <2>4 DEF Exceeds
  <2>6. QED
    <3> HIDE DEF limit, j
    <3>1. QED
      BY <1>1, <2>2, <2>5
<1>5. QED
  BY <1>3, <1>4

\* What is let through has nothing in it that a detector in force looks for.
LEMMA NothingHarmfulPasses ==
  ASSUME NEW f, IsForest(f), NEW config, GuardCovers(config),
         config.nosql.enabled \in BOOLEAN,
         config.requestShape.maxDepth \in Nat \cup {Undefined}, MaxObjectDepth(config) \in Nat,
         Threats(f, config) = {},
         NEW i \in DOMAIN f.kind, Harmful(f, i, config)
  PROVE  FALSE
<1> DEFINE targets == CollectRequestTargets(f, config)
           guards == ScanStructuredGuards(f, config, targets)
           texts == ScanTargets(f, config, targets)
<1>1. ~ExceedsShape(f, config.requestShape)
  BY DEF Threats, GuardCovers
<1>2. guards = {} /\ texts = {}
  BY <1>1 DEF Threats
<1>3. Depth(f, i) <= MaxObjectDepth(config) + 1 /\ Depth(f, i) <= NoSQLDepth + 1
  BY <1>1, WalksReachAll
<1>4. i \in DOMAIN f.parent /\ Root(f, i) \in 1 .. 4
  BY NodesHaveRoots DEF IsForest
<1>5. Root(f, i) # 4 => i \in Shaped(f)
  BY <1>4 DEF Shaped
<1>6. i > 4 => f.parent[i] # 0
  BY <1>4 DEF IsForest
<1>7. i <= 4 => Root(f, i) = i
  <2>1. i <= 4 => f.parent[i] = 0
    BY <1>4 DEF IsForest
  <2>2. QED
    BY <1>4, <2>1, NodesHaveRoots
<1>8. ASSUME i \in Leaves(f), Root(f, i) = 4 => ScannedHeader \in config.headers
      PROVE  i \in targets
  BY <1>3, <1>8 DEF CollectRequestTargets
<1>9. /\ ~(Truthy(config.prototypePollution.enabled) /\ PollutesPrototype(f))
      /\ ~(config.nosql.enabled /\ InspectNoSQL(f, config.nosql))
      /\ ~(Truthy(config.pathTraversal.enabled) /\ Traverses(f, targets))
      /\ ~(Truthy(config.sql) /\ \E t \in targets : f.text[t] = "sql")
      /\ ~(Truthy(config.xss) /\ \E t \in targets : f.text[t] = "xss")
  <2> HIDE DEF targets
  <2>1. QED
    BY <1>2, DetectorsSpeak
<1>10. ASSUME i \in targets, f.text[i] = "sql", Truthy(config.sql)
       PROVE  FALSE
  BY <1>9, <1>10
<1>11. ASSUME i \in targets, f.text[i] = "xss", Truthy(config.xss)
       PROVE  FALSE
  BY <1>9, <1>11
<1>12. ASSUME i \in Leaves(f), f.text[i] = "nosql", config.nosql.enabled, Root(f, i) # 4
       PROVE  FALSE
  BY <1>3, <1>5, <1>9, <1>12 DEF InspectNoSQL, Leaves
<1>13. ASSUME i \in targets, f.text[i] = "traversal", Truthy(config.pathTraversal.enabled),
              Root(f, i) # 4, i > 4 => f.kind[Root(f, i)] = "object", i \in Leaves(f)
       PROVE  FALSE
  <2>1. ~IsRequestValueTarget(f, i)
    BY <1>9, <1>13 DEF Traverses
  <2>2. i \notin {1, 2}
    BY <1>13 DEF Leaves, IsForest
  <2>3. i \in Nat /\ i >= 1
    BY <1>4 DEF IsForest
  <2>4. i <= 4 => i = 3
    BY <1>7, <1>13, <2>2, <2>3
  <2>5. QED
    BY <1>4, <1>13, <2>1, <2>3, <2>4 DEF IsRequestValueTarget
<1>14. ASSUME i > 4, Root(f, i) # 4, f.key[i] = "proto",
              Truthy(config.prototypePollution.enabled)
       PROVE  FALSE
  BY <1>5, <1>6, <1>9, <1>14 DEF PollutesPrototype
<1>15. ASSUME i > 4, Root(f, i) # 4, config.nosql.enabled, IsOperator(f, i, config.nosql)
       PROVE  FALSE
  BY <1>3, <1>5, <1>6, <1>9, <1>15 DEF InspectNoSQL
<1>16. QED
  <2> HIDE DEF targets
  <2>1. QED
    BY <1>8, <1>10, <1>11, <1>12, <1>13, <1>14, <1>15 DEF Harmful

\* What is turned away has been turned away for something.
LEMMA ThreatsAreReal ==
  ASSUME NEW f, IsForest(f), NEW config, config.nosql.enabled \in BOOLEAN,
         Threats(f, config) # {}
  PROVE  \/ \E i \in DOMAIN f.kind : Harmful(f, i, config)
         \/ "REQUEST_SHAPE" \in Threats(f, config) /\ ExceedsShape(f, config.requestShape)
         \/ Truthy(config.hpp.enabled) /\ DuplicateParams(f, config.hpp)
<1> DEFINE targets == CollectRequestTargets(f, config)
           guards == ScanStructuredGuards(f, config, targets)
           texts == ScanTargets(f, config, targets)
<1>1. ASSUME NEW i \in DOMAIN f.kind
      PROVE  /\ i \in DOMAIN f.parent /\ Root(f, i) \in 1 .. 4
             /\ f.parent[i] # 0 => i > 4
             /\ i <= 4 => Root(f, i) = i
  <2>1. i \in DOMAIN f.parent /\ Root(f, i) \in 1 .. 4
    BY NodesHaveRoots DEF IsForest
  <2>2. i \in Nat /\ (i <= 4 => f.parent[i] = 0)
    BY <2>1 DEF IsForest
  <2>3. QED
    BY <2>1, <2>2, NodesHaveRoots
<1>2. CASE Truthy(config.requestShape.enabled) /\ ExceedsShape(f, config.requestShape)
  BY <1>2 DEF Threats
<1>3. CASE ~(Truthy(config.requestShape.enabled) /\ ExceedsShape(f, config.requestShape))
  <2>1. guards \cup texts # {}
    BY <1>3 DEF Threats
  <2>2. \/ Truthy(config.hpp.enabled) /\ DuplicateParams(f, config.hpp)
        \/ Truthy(config.prototypePollution.enabled) /\ PollutesPrototype(f)
        \/ config.nosql.enabled /\ InspectNoSQL(f, config.nosql)
        \/ Truthy(config.pathTraversal.enabled) /\ Traverses(f, targets)
        \/ Truthy(config.sql) /\ \E i \in targets : f.text[i] = "sql"
        \/ Truthy(config.xss) /\ \E i \in targets : f.text[i] = "xss"
    <3>1. guards \subseteq Guards /\ texts \subseteq {"SQL_INJECTION", "XSS"}
      BY DEF ScanStructuredGuards, ScanTargets, Guards
    <3>2. QED
      <4> HIDE DEF targets
      <4>1. QED
        BY <2>1, <3>1, DetectorsSpeak DEF Guards
  <2>3. \A i \in targets : /\ i \in Leaves(f) /\ i \in DOMAIN f.kind
                           /\ Root(f, i) = 4 => ScannedHeader \in config.headers
    BY DEF CollectRequestTargets, Leaves
  <2>4. ASSUME NEW i \in Shaped(f)
        PROVE  i \in DOMAIN f.kind /\ Root(f, i) # 4
    BY <2>4 DEF Shaped
  <2>5. ASSUME Truthy(config.prototypePollution.enabled), PollutesPrototype(f)
        PROVE  \E i \in DOMAIN f.kind : Harmful(f, i, config)
    BY <1>1, <2>4, <2>5 DEF PollutesPrototype, Harmful
  <2>6. ASSUME config.nosql.enabled, InspectNoSQL(f, config.nosql)
        PROVE  \E i \in DOMAIN f.kind : Harmful(f, i, config)
    <3>1. PICK i \in Shaped(f) :
            \/ f.parent[i] # 0 /\ IsOperator(f, i, config.nosql)
            \/ f.kind[i] = "leaf" /\ f.text[i] = "nosql"
      BY <2>6 DEF InspectNoSQL
    <3>2. QED
      BY <1>1, <2>4, <2>6, <3>1 DEF Harmful, Leaves
  <2>7. ASSUME Truthy(config.pathTraversal.enabled), Traverses(f, targets)
        PROVE  \E i \in DOMAIN f.kind : Harmful(f, i, config)
    <3>1. PICK i \in targets : IsRequestValueTarget(f, i) /\ f.text[i] = "traversal"
      BY <2>7 DEF Traverses
    <3>2. i \in DOMAIN f.kind /\ i \in Leaves(f)
      BY <2>3
    <3>3. Root(f, i) # 4 /\ (i > 4 => f.kind[Root(f, i)] = "object")
      BY <1>1, <3>1, <3>2 DEF IsRequestValueTarget
    <3>4. QED
      BY <2>7, <3>1, <3>2, <3>3 DEF Harmful
  <2>8. ASSUME \/ Truthy(config.sql) /\ \E i \in targets : f.text[i] = "sql"
               \/ Truthy(config.xss) /\ \E i \in targets : f.text[i] = "xss"
        PROVE  \E i \in DOMAIN f.kind : Harmful(f, i, config)
    <3> HIDE DEF targets
    <3>1. QED
      BY <2>3, <2>8 DEF Harmful
  <2>9. QED
    BY <2>2, <2>5, <2>6, <2>7, <2>8
<1>4. QED
  BY <1>2, <1>3

\* What is let through has nothing in it that a detector in force is told to look
\* for, when the shape guard covers the depths of the other walks, and what is
\* turned away has something of the kind: for any request, however deep, and
\* any configuration (engine.js 75-85, request-shape.js, request-targets.js).
THEOREM VerdictRight == Spec => []VerdictIsRight
<1>1. ASSUME AppInv, request # Undefined, verdict # Undefined
      PROVE  LET f == request.forest
                 threats == verdict.threats
                 harmful == \E i \in DOMAIN f.kind : Harmful(f, i, parry)
             IN /\ threats = {} /\ GuardCovers(parry) => ~harmful
                /\ threats # {} =>
                     \/ harmful
                     \/ "REQUEST_SHAPE" \in threats /\ ExceedsShape(f, parry.requestShape)
                     \/ Truthy(parry.hpp.enabled) /\ DuplicateParams(f, parry.hpp)
  <2>1. /\ deployment \in Deployments /\ Accepts(deployment.options)
        /\ parry = MergeConfig(deployment.options)
        /\ request \in Requests(deployment)
        /\ verdict.threats = Threats(request.forest, parry)
    BY <1>1 DEF AppInv, Judged
  <2>2. IsForest(request.forest)
    BY <2>1, RequestAssumption
  <2>3. /\ parry.nosql.enabled \in BOOLEAN
        /\ parry.requestShape.maxDepth \in Nat \cup {Undefined}
        /\ MaxObjectDepth(parry) \in Nat
    BY <2>1, DepthsAreNumbers
  <2>4. QED
    BY <2>1, <2>2, <2>3, NothingHarmfulPasses, ThreatsAreReal
<1>2. AppInv => VerdictIsRight
  BY <1>1 DEF VerdictIsRight
<1>3. QED
  BY <1>2, AppInvariance, PTL

-----------------------------------------------------------------------------
(* Loops. *)

\* What is true before a loop, and kept by each turn of it, is true throughout.
LEMMA Throughout ==
  ASSUME NEW n \in Nat, NEW A, 0 \in A, \A k \in 1 .. n : k - 1 \in A => k \in A
  PROVE  \A k \in 0 .. n : k \in A
<1> DEFINE others == {k \in 0 .. n : k \notin A}
<1>1. ASSUME others # {}
      PROVE  FALSE
  <2>1. others \in SUBSET Nat
    OBVIOUS
  <2>2. Earliest(others) \in others /\ \A j \in others : Earliest(others) <= j
    BY <1>1, <2>1, EarliestIsFirst
  <2> DEFINE m == Earliest(others)
  <2>3. m \in 0 .. n /\ m \notin A
    BY <2>2
  <2>4. m \in 1 .. n /\ m - 1 \in 0 .. n
    BY <2>3
  <2>5. m - 1 \notin others
    <3> HIDE DEF others
    <3>1. m - 1 < m
      BY <2>4
    <3>2. QED
      BY <2>2, <2>4, <3>1
  <2>6. QED
    BY <2>3, <2>4, <2>5
<1>2. QED
  BY <1>1

\* A loop of n turns stays in S, and the states it goes through.
Stays(S, n, step) == \A k \in 1 .. n : \A x \in S : step[k][x] \in S
IsRun(f, S, first, n, step) ==
    /\ f \in [0 .. n -> S]
    /\ f[0] = first
    /\ \A k \in 1 .. n : f[k] = step[k][f[k - 1]]

\* A loop that goes from one member of a set to another has a state after
\* every turn: so the recursive functions of Policies and KeyBuilder exist.
LEMMA Iteration ==
  ASSUME NEW S, NEW first \in S, NEW n \in Nat, NEW step, Stays(S, n, step)
  PROVE  \E f : IsRun(f, S, first, n, step)
<1> DEFINE Goes(f, k) == /\ f \in [0 .. n -> S]
                         /\ f[0] = first
                         /\ \A j \in 1 .. k : f[j] = step[j][f[j - 1]]
           A == {k \in 0 .. n : \E f : Goes(f, k)}
<1>1. 0 \in A
  <2>1. Goes([k \in 0 .. n |-> first], 0)
    OBVIOUS
  <2>2. QED
    <3> HIDE DEF Goes
    <3>1. QED
      BY <2>1
<1>2. ASSUME NEW k \in 1 .. n, k - 1 \in A
      PROVE  k \in A
  <2> USE DEF Stays
  <2>1. PICK f : Goes(f, k - 1)
    BY <1>2
  <2> DEFINE g == [f EXCEPT ![k] = step[k][f[k - 1]]]
  <2>2. k - 1 \in 0 .. n /\ k \in 0 .. n /\ k # 0
    OBVIOUS
  <2>3. step[k][f[k - 1]] \in S
    BY <2>1, <2>2
  <2>4. g \in [0 .. n -> S] /\ g[0] = first
    BY <2>1, <2>2, <2>3
  <2>5. ASSUME NEW j \in 1 .. k
        PROVE  g[j] = step[j][g[j - 1]]
    <3>1. j - 1 # k /\ j - 1 \in 0 .. n /\ j \in 0 .. n
      OBVIOUS
    <3>2. g[j - 1] = f[j - 1]
      BY <2>1, <3>1
    <3>3. CASE j = k
      BY <2>1, <2>2, <3>2, <3>3
    <3>4. CASE j # k
      <4>1. j \in 1 .. (k - 1)
        BY <3>4
      <4>2. QED
        BY <2>1, <3>1, <3>2, <3>4, <4>1
    <3>5. QED
      BY <3>3, <3>4
  <2>6. Goes(g, k)
    <3> HIDE DEF g
    <3>1. QED
      BY <2>4, <2>5
  <2>7. QED
    <3> HIDE DEF g, Goes
    <3>1. QED
      BY <2>2, <2>6
<1>3. n \in A
  <2> HIDE DEF A
  <2>1. \A k \in 0 .. n : k \in A
    BY <1>1, <1>2, Throughout
  <2>2. QED
    BY <2>1
<1>4. PICK f : Goes(f, n)
  <2> HIDE DEF Goes
  <2>1. QED
    BY <1>3
<1>5. QED
  BY <1>4 DEF IsRun

-----------------------------------------------------------------------------
(* The match of a policy. *)

LastIndices == [Patterns -> Nat]

\* A search leaves a place behind, or 0 when it finds nothing; and it finds
\* nothing that is there only when it starts behind it.
LEMMA SearchLeaves ==
  ASSUME NEW pattern \in Patterns, NEW path \in Paths, NEW last \in LastIndices
  PROVE  /\ Left(pattern, path, last) \in LastIndices
         /\ FoundFrom(pattern, path, last) = {} =>
              /\ \A p \in Patterns : Left(pattern, path, last)[p] \in {last[p], 0}
              /\ Found[pattern][path] # {} => pattern \in Stateful /\ last[pattern] # 0
<1> DEFINE found == FoundFrom(pattern, path, last)
           first == CHOOSE m \in found : \A n \in found : m[1] <= n[1]
<1>1. Found[pattern][path] \in SUBSET (Nat \X Nat) /\ found \in SUBSET (Nat \X Nat)
  BY PatternsAssumption DEF FoundFrom
<1>2. ASSUME found # {}
      PROVE  first \in found
  <2> DEFINE starts == {m[1] : m \in found}
  <2>1. starts \in SUBSET Nat /\ starts # {}
    BY <1>1, <1>2
  <2>2. Earliest(starts) \in starts /\ \A j \in starts : Earliest(starts) <= j
    BY <2>1, EarliestIsFirst
  <2>3. \E m \in found : m[1] = Earliest(starts)
    BY <2>2
  <2>4. \E m \in found : \A n \in found : m[1] <= n[1]
    BY <2>2, <2>3
  <2>5. QED
    BY <2>4
<1>3. found # {} => first[2] \in Nat
  BY <1>1, <1>2
<1>4. Left(pattern, path, last) =
        IF pattern \notin Stateful THEN last
        ELSE [last EXCEPT ![pattern] = IF found = {} THEN 0 ELSE first[2]]
  BY DEF Left
<1>5. Left(pattern, path, last) \in LastIndices
  <2> HIDE DEF first, found
  <2>1. QED
    BY <1>3, <1>4 DEF LastIndices
<1>6. ASSUME found = {}
      PROVE  \A p \in Patterns : Left(pattern, path, last)[p] \in {last[p], 0}
  BY <1>4, <1>6 DEF LastIndices
<1>7. ASSUME found = {}, Found[pattern][path] # {}
      PROVE  pattern \in Stateful /\ last[pattern] # 0
  <2>1. PICK m \in Found[pattern][path] : m[1] \in Nat
    BY <1>1, <1>7
  <2>2. ~(pattern \in Stateful => m[1] >= last[pattern])
    BY <1>7, <2>1 DEF FoundFrom
  <2>3. QED
    BY <2>1, <2>2
<1>8. QED
  BY <1>5, <1>6, <1>7

\* A list of patterns is found by one of them; or it leaves every lastIndex as
\* it was or 0, and only a pattern that was looked for behind its place is there.
LEMMA PathsInTurn ==
  ASSUME NEW match, match.path \in Seq(Patterns), NEW path \in Paths,
         NEW last \in LastIndices
  PROVE  LET m == MatchesPath(match, path, last)
         IN /\ m.lastIndex \in LastIndices
            /\ m.hit \in BOOLEAN
            /\ m.hit => \E i \in DOMAIN match.path : Found[match.path[i]][path] # {}
            /\ ~m.hit =>
                 /\ \A p \in Patterns : m.lastIndex[p] \in {last[p], 0}
                 /\ \A i \in DOMAIN match.path : Found[match.path[i]][path] # {} =>
                        match.path[i] \in Stateful /\ last[match.path[i]] # 0
<1> DEFINE L == Len(match.path)
           S == [hit : BOOLEAN, lastIndex : LastIndices]
           first == [hit |-> FALSE, lastIndex |-> last]
           Turn(n, so) == IF so.hit THEN so
                          ELSE [hit |-> FoundFrom(match.path[n], path, so.lastIndex) # {},
                                lastIndex |-> Left(match.path[n], path, so.lastIndex)]
           step == [n \in 1 .. L |-> [so \in S |-> Turn(n, so)]]
           Loop(w) == [n \in 0 .. L |-> IF n = 0 THEN first ELSE Turn(n, w[n - 1])]
           after == CHOOSE w : w = Loop(w)
<1>1. L \in Nat /\ DOMAIN match.path = 1 .. L /\ \A n \in 1 .. L : match.path[n] \in Patterns
  OBVIOUS
<1>2. ASSUME NEW n \in 1 .. L, NEW so \in S
      PROVE  Turn(n, so) \in S
  <2>1. match.path[n] \in Patterns /\ so.lastIndex \in LastIndices
    BY <1>1
  <2>2. Left(match.path[n], path, so.lastIndex) \in LastIndices
    BY <2>1, SearchLeaves
  <2>3. QED
    BY <2>2
<1>3. Stays(S, L, step)
  <2> HIDE DEF S, Turn, L
  <2>1. QED
    BY <1>2 DEF Stays
<1>4. PICK w : IsRun(w, S, first, L, step)
  <2>1. first \in S
    OBVIOUS
  <2>2. L \in Nat
    BY <1>1
  <2> HIDE DEF S, step, first, L
  <2>3. QED
    BY <1>3, <2>1, <2>2, Iteration
<1>5. w = Loop(w)
  <2>1. ASSUME NEW n \in 0 .. L, n # 0
        PROVE  step[n][w[n - 1]] = Turn(n, w[n - 1])
    <3> HIDE DEF S, Turn, L
    <3>1. n \in 1 .. L /\ w[n - 1] \in S
      <4> HIDE DEF step, first
      <4>1. QED
        BY <1>1, <1>4, <2>1 DEF IsRun
    <3>2. QED
      BY <3>1
  <2>2. \A n \in 0 .. L : w[n] = IF n = 0 THEN first ELSE Turn(n, w[n - 1])
    <3> HIDE DEF S, Turn, L, step, first
    <3>1. QED
      BY <1>4, <2>1 DEF IsRun
  <2> HIDE DEF S, Turn, L, step, first
  <2>3. QED
    BY <1>4, <2>2 DEF IsRun
<1>6. after = Loop(after)
  <2> HIDE DEF Loop
  <2>1. QED
    BY <1>5
<1>7. MatchesPath(match, path, last) = after[L]
  BY DEF MatchesPath
<1> DEFINE Kept(n) ==
             LET so == after[n]
             IN /\ so \in S
                /\ so.hit => \E i \in 1 .. L : Found[match.path[i]][path] # {}
                /\ ~so.hit =>
                     /\ \A p \in Patterns : so.lastIndex[p] \in {last[p], 0}
                     /\ \A i \in 1 .. n : Found[match.path[i]][path] # {} =>
                            match.path[i] \in Stateful /\ last[match.path[i]] # 0
<1>8. Kept(0)
  <2>1. after[0] = first
    <3> HIDE DEF after, first, Turn, L
    <3>1. QED
      BY <1>1, <1>6
  <2>2. first.hit = FALSE /\ first.lastIndex = last /\ first \in S
    OBVIOUS
  <2>3. \A i \in 1 .. 0 : FALSE
    OBVIOUS
  <2> HIDE DEF after, first, S, L
  <2>4. QED
    BY <2>1, <2>2, <2>3
<1>9. ASSUME NEW n \in 1 .. L, Kept(n - 1)
      PROVE  Kept(n)
  <2> DEFINE so == after[n - 1]
             pattern == match.path[n]
  <2>1. after[n] = Turn(n, so)
    <3> HIDE DEF after, first, Turn, L
    <3>1. QED
      BY <1>1, <1>6
  <2>2. so \in S /\ so.hit \in BOOLEAN /\ so.lastIndex \in LastIndices /\ pattern \in Patterns
    BY <1>1, <1>9
  <2>3. after[n] \in S
    <3> HIDE DEF Turn, S, after, so
    <3>1. QED
      BY <1>2, <2>1, <2>2
  <2>4. CASE so.hit
    <3> HIDE DEF S, after, L
    <3>1. QED
      BY <1>9, <2>1, <2>3, <2>4
  <2>5. CASE ~so.hit
    <3> DEFINE found == FoundFrom(pattern, path, so.lastIndex)
               left == Left(pattern, path, so.lastIndex)
    <3>1. after[n].hit = (found # {}) /\ after[n].lastIndex = left
      <4>1. Turn(n, so) = [hit |-> found # {}, lastIndex |-> left]
        <5> HIDE DEF so, found, left
        <5>1. QED
          BY <2>5 DEF found, left
      <4> HIDE DEF after, Turn, so, found, left
      <4>2. QED
        BY <2>1, <4>1
    <3>2. /\ \A p \in Patterns : so.lastIndex[p] \in {last[p], 0}
          /\ \A i \in 1 .. (n - 1) : Found[match.path[i]][path] # {} =>
                 match.path[i] \in Stateful /\ last[match.path[i]] # 0
      BY <1>9, <2>5
    <3>3. found = {} =>
            /\ \A p \in Patterns : left[p] \in {so.lastIndex[p], 0}
            /\ Found[pattern][path] # {} =>
                    pattern \in Stateful /\ so.lastIndex[pattern] # 0
      <4> HIDE DEF so
      <4>1. QED
        BY <2>2, SearchLeaves
    <3>4. found # {} => Found[pattern][path] # {}
      BY DEF FoundFrom
    <3>5. \A i \in 1 .. n : i = n \/ i \in 1 .. (n - 1)
      OBVIOUS
    <3> HIDE DEF S, after, L, found, left, so
    <3>6. found = {} =>
            /\ \A p \in Patterns : left[p] \in {last[p], 0}
            /\ \A i \in 1 .. n : Found[match.path[i]][path] # {} =>
                   match.path[i] \in Stateful /\ last[match.path[i]] # 0
      BY <2>2, <3>2, <3>3, <3>5
    <3>7. QED
      BY <2>3, <3>1, <3>4, <3>6
  <2>6. QED
    BY <2>2, <2>4, <2>5
<1>10. Kept(L)
  <2> DEFINE A == {n \in 0 .. L : Kept(n)}
  <2> HIDE DEF Kept, L
  <2>1. 0 \in A
    BY <1>1, <1>8
  <2>2. \A n \in 1 .. L : n - 1 \in A => n \in A
    BY <1>9
  <2> HIDE DEF A
  <2>3. \A n \in 0 .. L : n \in A
    BY <1>1, <2>1, <2>2, Throughout
  <2>4. QED
    BY <1>1, <2>3 DEF A
<1>11. QED
  <2> HIDE DEF after, L
  <2>1. QED
    BY <1>1, <1>7, <1>10

\* The patterns of a policy, and that it is passed over only for what earlier
\* requests have left behind in one of them.
Patterned(policy) ==
    Read(policy.match, "path") # Undefined => policy.match.path \in Seq(Patterns)
LeftBehind(policy, last) ==
    \E p \in Patterns \intersect Stateful \intersect Range(policy.match.path) : last[p] # 0

LEMMA FitOrLeftover ==
  ASSUME NEW policy, Patterned(policy), NEW r, r.path \in Paths, NEW last \in LastIndices
  PROVE  LET m == MatchesPolicy(policy, r, last)
         IN /\ m.lastIndex \in LastIndices
            /\ m.hit \in BOOLEAN
            /\ m.hit => Fits(policy, r)
            /\ ~m.hit =>
                 /\ \A p \in Patterns : m.lastIndex[p] \in {last[p], 0}
                 /\ Fits(policy, r) => LeftBehind(policy, last)
<1>1. CASE ~MatchesMethod(policy.match, r.method)
  BY <1>1 DEF MatchesPolicy, Fits
<1>2. CASE MatchesMethod(policy.match, r.method) /\ Read(policy.match, "path") = Undefined
  BY <1>2 DEF MatchesPolicy, Fits
<1>3. CASE MatchesMethod(policy.match, r.method) /\ Read(policy.match, "path") # Undefined
  <2> DEFINE paths == policy.match.path
             m == MatchesPath(policy.match, r.path, last)
  <2>1. paths \in Seq(Patterns)
    BY <1>3 DEF Patterned
  <2>2. MatchesPolicy(policy, r, last) = m
    BY <1>3 DEF MatchesPolicy
  <2>3. Fits(policy, r) <=> \E i \in DOMAIN paths : Found[paths[i]][r.path] # {}
    BY <1>3 DEF Fits
  <2>4. /\ m.lastIndex \in LastIndices
        /\ m.hit \in BOOLEAN
        /\ m.hit => \E i \in DOMAIN paths : Found[paths[i]][r.path] # {}
        /\ ~m.hit =>
             /\ \A p \in Patterns : m.lastIndex[p] \in {last[p], 0}
             /\ \A i \in DOMAIN paths : Found[paths[i]][r.path] # {} =>
                    paths[i] \in Stateful /\ last[paths[i]] # 0
    BY <2>1, PathsInTurn
  <2>5. \A i \in DOMAIN paths : paths[i] \in Range(paths) /\ paths[i] \in Patterns
    BY <2>1 DEF Range
  <2> HIDE DEF m, paths
  <2>6. QED
    BY <2>2, <2>3, <2>4, <2>5 DEF LeftBehind, paths
<1>4. QED
  BY <1>1, <1>2, <1>3

\* The policy a request is held to fits it, and the ones before it that fit
\* as well have been passed over for what was left behind.
LEMMA FirstFitting ==
  ASSUME NEW policies, Len(policies) \in Nat, DOMAIN policies = 1 .. Len(policies),
         \A i \in DOMAIN policies : Patterned(policies[i]),
         NEW r, r.path \in Paths, NEW last \in LastIndices
  PROVE  LET m == FindMatchingPolicy(policies, r, last)
         IN /\ m.lastIndex \in LastIndices
            /\ m.chosen \in 0 .. Len(policies)
            /\ m.chosen # 0 => Fits(policies[m.chosen], r)
            /\ \A i \in DOMAIN policies :
                 Fits(policies[i], r) /\ (m.chosen = 0 \/ i < m.chosen) =>
                    LeftBehind(policies[i], last)
<1> DEFINE L == Len(policies)
           S == [chosen : 0 .. L, lastIndex : LastIndices]
           first == [chosen |-> 0, lastIndex |-> last]
           M(n, so) == MatchesPolicy(policies[n], r, so.lastIndex)
           Turn(n, so) == IF so.chosen # 0 THEN so
                          ELSE [chosen |-> IF M(n, so).hit THEN n ELSE 0,
                                lastIndex |-> M(n, so).lastIndex]
           step == [n \in 1 .. L |-> [so \in S |-> Turn(n, so)]]
           Loop(w) == [n \in 0 .. L |-> IF n = 0 THEN first ELSE Turn(n, w[n - 1])]
           after == CHOOSE w : w = Loop(w)
<1>1. L \in Nat /\ DOMAIN policies = 1 .. L /\ \A n \in 1 .. L : Patterned(policies[n])
  OBVIOUS
<1>2. ASSUME NEW n \in 1 .. L, NEW so \in S
      PROVE  Turn(n, so) \in S
  <2>1. so.lastIndex \in LastIndices
    OBVIOUS
  <2>2. M(n, so).lastIndex \in LastIndices
    BY <1>1, <2>1, FitOrLeftover
  <2>3. n \in 0 .. L /\ 0 \in 0 .. L
    OBVIOUS
  <2> HIDE DEF M, L
  <2>4. QED
    BY <2>2, <2>3
<1>3. Stays(S, L, step)
  <2> HIDE DEF S, Turn, L
  <2>1. QED
    BY <1>2 DEF Stays
<1>4. PICK w : IsRun(w, S, first, L, step)
  <2>1. first \in S
    OBVIOUS
  <2>2. L \in Nat
    BY <1>1
  <2> HIDE DEF S, step, first, L
  <2>3. QED
    BY <1>3, <2>1, <2>2, Iteration
<1>5. w = Loop(w)
  <2>1. ASSUME NEW n \in 0 .. L, n # 0
        PROVE  step[n][w[n - 1]] = Turn(n, w[n - 1])
    <3> HIDE DEF S, Turn, L
    <3>1. n \in 1 .. L /\ w[n - 1] \in S
      <4> HIDE DEF step, first
      <4>1. QED
        BY <1>1, <1>4, <2>1 DEF IsRun
    <3>2. QED
      BY <3>1
  <2>2. \A n \in 0 .. L : w[n] = IF n = 0 THEN first ELSE Turn(n, w[n - 1])
    <3> HIDE DEF S, Turn, L, step, first
    <3>1. QED
      BY <1>4, <2>1 DEF IsRun
  <2> HIDE DEF S, Turn, L, step, first
  <2>3. QED
    BY <1>4, <2>2 DEF IsRun
<1>6. after = Loop(after)
  <2> HIDE DEF Loop
  <2>1. QED
    BY <1>5
<1>7. FindMatchingPolicy(policies, r, last) = after[L]
  BY DEF FindMatchingPolicy
<1> DEFINE Sound(n) ==
             LET so == after[n]
             IN /\ so \in S
                /\ so.chosen # 0 => so.chosen \in 1 .. n /\ Fits(policies[so.chosen], r)
                /\ so.chosen = 0 =>
                     \A p \in Patterns : so.lastIndex[p] \in {last[p], 0}
                /\ \A i \in 1 .. n :
                     Fits(policies[i], r) /\ (so.chosen = 0 \/ i < so.chosen) =>
                        LeftBehind(policies[i], last)
<1>8. Sound(0)
  <2>1. after[0] = first
    <3> HIDE DEF after, first, Turn, L
    <3>1. QED
      BY <1>1, <1>6
  <2>2. first.chosen = 0 /\ first.lastIndex = last /\ first \in S
    OBVIOUS
  <2>3. \A i \in 1 .. 0 : FALSE
    OBVIOUS
  <2> HIDE DEF after, first, S, L
  <2>4. QED
    BY <2>1, <2>2, <2>3
<1>9. ASSUME NEW n \in 1 .. L, Sound(n - 1)
      PROVE  Sound(n)
  <2> DEFINE so == after[n - 1]
             m == M(n, so)
  <2>1. after[n] = Turn(n, so)
    <3> HIDE DEF after, first, Turn, L
    <3>1. QED
      BY <1>1, <1>6
  <2>2. so \in S /\ so.chosen \in 0 .. L /\ so.lastIndex \in LastIndices
    BY <1>9
  <2>3. after[n] \in S
    <3> HIDE DEF Turn, S, after, so
    <3>1. QED
      BY <1>2, <2>1, <2>2
  <2>4. n \in Nat /\ n # 0 /\ \A i \in 1 .. n : i = n \/ i \in 1 .. (n - 1)
    BY <1>1
  <2>5. CASE so.chosen # 0
    <3>1. after[n] = so
      <4> HIDE DEF after, so, M
      <4>1. QED
        BY <2>1, <2>5
    <3>2. so.chosen \in 1 .. (n - 1) /\ so.chosen \in 1 .. n
      <4>1. so.chosen \in 1 .. (n - 1)
        BY <1>9, <2>5
      <4> HIDE DEF so
      <4>2. QED
        BY <2>4, <4>1
    <3>3. ~(n < so.chosen)
      <4> HIDE DEF so
      <4>1. QED
        BY <2>4, <3>2
    <3> HIDE DEF S, after, L
    <3>4. QED
      BY <1>9, <2>3, <2>4, <2>5, <3>1, <3>2, <3>3
  <2>6. CASE so.chosen = 0
    <3>1. after[n].chosen = (IF m.hit THEN n ELSE 0) /\ after[n].lastIndex = m.lastIndex
      <4>1. Turn(n, so) = [chosen |-> IF m.hit THEN n ELSE 0, lastIndex |-> m.lastIndex]
        <5> HIDE DEF so, M
        <5>1. QED
          BY <2>6
      <4> HIDE DEF after, Turn, so, m
      <4>2. QED
        BY <2>1, <4>1
    <3>2. /\ \A p \in Patterns : so.lastIndex[p] \in {last[p], 0}
          /\ \A i \in 1 .. (n - 1) : Fits(policies[i], r) => LeftBehind(policies[i], last)
      BY <1>9, <2>6
    <3>3. /\ m.hit => Fits(policies[n], r)
          /\ ~m.hit =>
               /\ \A p \in Patterns : m.lastIndex[p] \in {so.lastIndex[p], 0}
               /\ Fits(policies[n], r) => LeftBehind(policies[n], so.lastIndex)
      <4> HIDE DEF so
      <4>1. QED
        BY <1>1, <2>2, FitOrLeftover
    <3>4. Fits(policies[n], r) /\ LeftBehind(policies[n], so.lastIndex) =>
            LeftBehind(policies[n], last)
      <4> HIDE DEF so
      <4>1. QED
        BY <3>2 DEF LeftBehind
    <3> HIDE DEF S, after, L, m, so
    <3>5. QED
      BY <2>3, <2>4, <3>1, <3>2, <3>3, <3>4
  <2>7. QED
    BY <2>2, <2>5, <2>6
<1>10. Sound(L)
  <2> DEFINE A == {n \in 0 .. L : Sound(n)}
  <2> HIDE DEF Sound, L
  <2>1. 0 \in A
    BY <1>1, <1>8
  <2>2. \A n \in 1 .. L : n - 1 \in A => n \in A
    BY <1>9
  <2> HIDE DEF A
  <2>3. \A n \in 0 .. L : n \in A
    BY <1>1, <2>1, <2>2, Throughout
  <2>4. QED
    BY <1>1, <2>3 DEF A
<1>11. QED
  <2> HIDE DEF after, L
  <2>1. QED
    BY <1>1, <1>7, <1>10 DEF L

\* A policy of the merge is one that was given.
LEMMA MergeInventsNothing ==
  ASSUME NEW R, NEW policies \in Seq(R)
  PROVE  MergePolicies(policies) \in Seq(R)
<1> DEFINE L == Len(policies)
           S == Seq(R)
           Turn(n, merged) == SetByName(merged, policies[n])
           step == [n \in 1 .. L |-> [merged \in S |-> Turn(n, merged)]]
           Loop(w) == [n \in 0 .. L |-> IF n = 0 THEN <<>> ELSE Turn(n, w[n - 1])]
           byName == CHOOSE w : w = Loop(w)
<1>1. L \in Nat /\ \A n \in 1 .. L : policies[n] \in R
  OBVIOUS
<1>2. ASSUME NEW n \in 1 .. L, NEW merged \in S
      PROVE  Turn(n, merged) \in S
  <2> DEFINE policy == policies[n]
             replaced == [k \in DOMAIN merged |->
                            IF merged[k].name = policy.name THEN policy ELSE merged[k]]
  <2>1. policy \in R /\ merged \in Seq(R)
    BY <1>1
  <2> HIDE DEF policy
  <2>2. \A k \in 1 .. Len(merged) : merged[k] \in R
    BY <2>1
  <2>3. Len(merged) \in Nat /\ DOMAIN merged = 1 .. Len(merged)
    BY <2>1
  <2>4. replaced \in [1 .. Len(merged) -> R]
    BY <2>1, <2>2, <2>3
  <2>5. replaced \in Seq(R)
    <3> HIDE DEF replaced
    <3>1. QED
      BY <2>3, <2>4
  <2>6. Append(merged, policy) \in Seq(R)
    BY <2>1
  <2>7. SetByName(merged, policy) \in {replaced, Append(merged, policy)}
    BY DEF SetByName
  <2>8. QED
    <3> HIDE DEF replaced
    <3>1. QED
      BY <2>5, <2>6, <2>7 DEF policy
<1>3. Stays(S, L, step)
  <2> HIDE DEF S, Turn, L
  <2>1. QED
    BY <1>2 DEF Stays
<1>4. PICK w : IsRun(w, S, <<>>, L, step)
  <2>1. <<>> \in S
    OBVIOUS
  <2>2. L \in Nat
    BY <1>1
  <2> HIDE DEF S, step, L
  <2>3. QED
    BY <1>3, <2>1, <2>2, Iteration
<1>5. w = Loop(w)
  <2>1. ASSUME NEW n \in 0 .. L, n # 0
        PROVE  step[n][w[n - 1]] = Turn(n, w[n - 1])
    <3> HIDE DEF S, Turn, L
    <3>1. n \in 1 .. L /\ w[n - 1] \in S
      <4> HIDE DEF step
      <4>1. QED
        BY <1>1, <1>4, <2>1 DEF IsRun
    <3>2. QED
      BY <3>1
  <2>2. \A n \in 0 .. L : w[n] = IF n = 0 THEN <<>> ELSE Turn(n, w[n - 1])
    <3> HIDE DEF S, Turn, L, step
    <3>1. QED
      BY <1>4, <2>1 DEF IsRun
  <2> HIDE DEF S, Turn, L, step
  <2>3. QED
    BY <1>4, <2>2 DEF IsRun
<1>6. byName = Loop(byName)
  <2> HIDE DEF Loop
  <2>1. QED
    BY <1>5
<1>7. byName[L] \in S
  <2> DEFINE A == {n \in 0 .. L : byName[n] \in S}
  <2>1. 0 \in A
    <3> HIDE DEF byName, Turn, L
    <3>1. QED
      BY <1>1, <1>6
  <2>2. ASSUME NEW n \in 1 .. L, n - 1 \in A
        PROVE  n \in A
    <3> HIDE DEF byName, Turn, L, S
    <3>1. byName[n] = Turn(n, byName[n - 1])
      BY <1>1, <1>6
    <3>2. QED
      BY <1>1, <1>2, <2>2, <3>1
  <2> HIDE DEF A, L
  <2>3. \A n \in 0 .. L : n \in A
    BY <1>1, <2>1, <2>2, Throughout
  <2>4. QED
    BY <1>1, <2>3 DEF A
<1>8. QED
  <2>1. MergePolicies(policies) = byName[L]
    BY DEF MergePolicies
  <2>2. QED
    BY <1>7, <2>1

\* A policy of a preset, before it is normalized.
IsPreset(m) ==
    \E i \in DOMAIN COMMON_AUTH_PATHS : \E prefix \in {"recommended", "strict"} :
    \E maxAttempts, blockDurationMs, routeMax \in Nat \ {0} :
        m = CreateAuthPolicies(prefix, maxAttempts, blockDurationMs, routeMax)[i]

\* The policies in force are a list, and each is one of a preset or one that the
\* operator gave and validation accepted.
LEMMA PoliciesInForce ==
  ASSUME NEW d \in Deployments, Accepts(d.options)
  PROVE  LET policies == MergeConfig(d.options).policies
             explicit == Or(Read(d.options, "policies"), <<>>)
         IN /\ Len(policies) \in Nat /\ DOMAIN policies = 1 .. Len(policies)
            /\ \A i \in DOMAIN policies :
                 \E m : /\ policies[i] = NormalizePolicy(m, d.options)
                        /\ IsPreset(m) \/ (m \in Range(explicit) /\ ValidPolicy(m))
<1> DEFINE options == d.options
           presets == IF Read(options, "bruteForce") = False THEN <<>>
                      ELSE GetPresetPolicies(Or(Read(options, "preset"), "off"))
           explicit == Or(Read(options, "policies"), <<>>)
           R == {m \in Range(presets) \cup Range(explicit) :
                    IsPreset(m) \/ (m \in Range(explicit) /\ ValidPolicy(m))}
           merged == MergePolicies(presets \o explicit)
<1>1. MergeConfig(options).policies = [i \in DOMAIN merged |-> NormalizePolicy(merged[i], options)]
  BY DEF MergeConfig, BuildPolicies
<1>2. ValidateParryOptions(options)
      /\ (Read(options, "bruteForce") = False \/ PresetKnown(Or(Read(options, "preset"), "off")))
  BY DEF Accepts
<1>3. explicit \in Seq(R)
  <2> DEFINE policies == Read(options, "policies")
  <2>1. policies # Undefined => policies # Wrong /\ \A p \in Range(policies) : ValidPolicy(p)
    BY <1>2 DEF ValidateParryOptions
  <2>2. CASE policies = Undefined
    <3>1. explicit = <<>>
      BY <2>2 DEF Or
    <3>2. <<>> \in Seq(R)
      OBVIOUS
    <3> HIDE DEF R
    <3>3. QED
      BY <3>1, <3>2
  <2>3. CASE policies # Undefined
    <3>1. IsList(policies)
      BY <2>1, <2>3, DeploymentAssumption
    <3>2. explicit = policies
      BY <2>3, <3>1 DEF Or, IsList, IsObject
    <3>3. policies \in Seq(Range(policies))
      BY <3>1 DEF IsList, IsText
    <3>4. \A k \in 1 .. Len(policies) : policies[k] \in R
      <4>1. ASSUME NEW k \in 1 .. Len(policies)
            PROVE  policies[k] \in R
        <5>1. policies[k] \in Range(policies)
          BY <3>3 DEF Range
        <5>2. ValidPolicy(policies[k])
          BY <2>1, <2>3, <5>1
        <5> HIDE DEF policies, presets, explicit
        <5>3. QED
          BY <3>2, <5>1, <5>2
      <4> HIDE DEF R, policies
      <4>2. QED
        BY <4>1
    <3> HIDE DEF R, policies, explicit
    <3>5. policies \in Seq(R)
      BY <3>3, <3>4
    <3>6. QED
      BY <3>2, <3>5
  <2>4. QED
    BY <2>2, <2>3
<1>4. presets \in Seq(R)
  <2> DEFINE name == Or(Read(options, "preset"), "off")
  <2>1. CASE Read(options, "bruteForce") = False \/ name = "off"
    <3>1. presets = <<>>
      BY <2>1 DEF GetPresetPolicies
    <3>2. <<>> \in Seq(R)
      OBVIOUS
    <3> HIDE DEF R
    <3>3. QED
      BY <3>1, <3>2
  <2>2. CASE Read(options, "bruteForce") # False /\ name # "off"
    <3>1. name \in {"recommended", "strict"} /\ presets = GetPresetPolicies(name)
      BY <1>2, <2>2 DEF PresetKnown
    <3>2. PICK a \in Nat \ {0}, b \in Nat \ {0}, c \in Nat \ {0} :
            presets = CreateAuthPolicies(name, a, b, c)
      <4>1. presets \in {CreateAuthPolicies(name, 10, 600000, 20),
                         CreateAuthPolicies(name, 5, 900000, 10)}
        <5> HIDE DEF name, presets
        <5>1. QED
          BY <3>1 DEF GetPresetPolicies
      <4> HIDE DEF name, presets
      <4>2. QED
        BY <4>1
    <3>3. COMMON_AUTH_PATHS \in Seq(Patterns)
      BY PatternsAssumption
    <3>4. DOMAIN presets = 1 .. Len(COMMON_AUTH_PATHS) /\ Len(COMMON_AUTH_PATHS) \in Nat
      <4> HIDE DEF name, presets
      <4>1. QED
        BY <3>2, <3>3 DEF CreateAuthPolicies
    <3>5. \A i \in DOMAIN presets : presets[i] \in R
      <4>1. ASSUME NEW i \in DOMAIN presets
            PROVE  presets[i] \in R
        <5> HIDE DEF name, presets
        <5>1. i \in DOMAIN COMMON_AUTH_PATHS /\ presets[i] = CreateAuthPolicies(name, a, b, c)[i]
          BY <3>2, <3>3, <3>4
        <5>2. IsPreset(presets[i])
          BY <3>1, <5>1 DEF IsPreset
        <5>3. presets[i] \in Range(presets)
          BY DEF Range
        <5>4. ASSUME NEW m \in Range(presets), IsPreset(m)
              PROVE  m \in R
          BY <5>4
        <5> HIDE DEF R
        <5>5. QED
          BY <5>2, <5>3, <5>4
      <4> HIDE DEF R, presets
      <4>2. QED
        BY <4>1
    <3>6. \E f : presets = [i \in 1 .. Len(COMMON_AUTH_PATHS) |-> f[i]]
      <4>1. presets = [i \in 1 .. Len(COMMON_AUTH_PATHS) |-> presets[i]]
        <5> HIDE DEF name, presets
        <5>1. QED
          BY <3>2, <3>4 DEF CreateAuthPolicies
      <4> HIDE DEF presets
      <4>2. QED
        BY <4>1
    <3> HIDE DEF R, presets, name
    <3>7. QED
      BY <3>4, <3>5, <3>6
  <2>3. QED
    BY <2>1, <2>2
<1>5. merged \in Seq(R)
  <2> HIDE DEF R, presets, explicit
  <2>1. presets \o explicit \in Seq(R)
    BY <1>3, <1>4
  <2>2. QED
    BY <2>1, MergeInventsNothing
<1>6. QED
  <2> DEFINE policies == MergeConfig(options).policies
  <2>1. Len(merged) \in Nat /\ DOMAIN merged = 1 .. Len(merged)
        /\ \A i \in DOMAIN merged : merged[i] \in R
    <3> HIDE DEF merged, R
    <3>1. QED
      BY <1>5
  <2>2. DOMAIN policies = 1 .. Len(merged) /\ Len(policies) = Len(merged)
    <3> HIDE DEF merged
    <3>1. QED
      BY <1>1, <2>1
  <2>3. ASSUME NEW i \in DOMAIN policies
        PROVE  /\ policies[i] = NormalizePolicy(merged[i], options)
               /\ IsPreset(merged[i]) \/ (merged[i] \in Range(explicit) /\ ValidPolicy(merged[i]))
    <3>1. i \in DOMAIN merged /\ merged[i] \in R
      <4> HIDE DEF merged, R
      <4>1. QED
        BY <2>1, <2>2
    <3>2. policies[i] = NormalizePolicy(merged[i], options)
      <4> HIDE DEF merged, R
      <4>1. QED
        BY <1>1, <3>1
    <3>3. IsPreset(merged[i]) \/ (merged[i] \in Range(explicit) /\ ValidPolicy(merged[i]))
      <4> HIDE DEF merged, presets, explicit
      <4>1. QED
        BY <3>1
    <3>4. QED
      BY <3>2, <3>3
  <2> HIDE DEF policies, merged, explicit
  <2>4. QED
    BY <2>1, <2>2, <2>3 DEF policies, explicit

\* So their patterns are patterns.
LEMMA PoliciesArePatterned ==
  ASSUME NEW d \in Deployments, Accepts(d.options)
  PROVE  LET policies == MergeConfig(d.options).policies
         IN /\ Len(policies) \in Nat /\ DOMAIN policies = 1 .. Len(policies)
            /\ \A i \in DOMAIN policies : Patterned(policies[i])
<1> DEFINE policies == MergeConfig(d.options).policies
           explicit == Or(Read(d.options, "policies"), <<>>)
<1>1. /\ Len(policies) \in Nat /\ DOMAIN policies = 1 .. Len(policies)
      /\ \A i \in DOMAIN policies :
           \E m : /\ policies[i] = NormalizePolicy(m, d.options)
                  /\ IsPreset(m) \/ (m \in Range(explicit) /\ ValidPolicy(m))
  BY PoliciesInForce
<1>2. ASSUME NEW i \in DOMAIN policies
      PROVE  Patterned(policies[i])
  <2>1. PICK m : /\ policies[i] = NormalizePolicy(m, d.options)
                 /\ IsPreset(m) \/ (m \in Range(explicit) /\ ValidPolicy(m))
    BY <1>1
  <2>2. policies[i].match = m.match
    <3> HIDE DEF policies
    <3>1. QED
      BY <2>1 DEF NormalizePolicy
  <2>3. CASE IsPreset(m)
    <3>1. PICK k \in DOMAIN COMMON_AUTH_PATHS : m.match.path = <<COMMON_AUTH_PATHS[k]>>
      BY <2>3 DEF IsPreset, CreateAuthPolicies
    <3>2. m.match.path \in Seq(Patterns)
      BY <3>1, PatternsAssumption
    <3>3. QED
      BY <2>2, <3>2 DEF Patterned
  <2>4. CASE m \in Range(explicit) /\ ValidPolicy(m)
    <3> DEFINE given == Read(d.options, "policies")
    <3>1. IsObject(m) /\ IsObject(Read(m, "match")) /\ ValidMatch(m.match)
      BY <2>4 DEF ValidPolicy
    <3>2. m.match = Read(m, "match") /\ Read(m.match, "path") # Wrong
      BY <3>1 DEF Read, IsObject, ValidMatch
    <3>3. given \notin {Undefined, Wrong} /\ explicit = given
      <4>1. given # Undefined /\ explicit = given
        BY <2>4 DEF Or, Range
      <4>2. given # Wrong
        BY <4>1 DEF Accepts, ValidateParryOptions
      <4>3. QED
        BY <4>1, <4>2
    <3>4. m \in Range(given)
      <4> HIDE DEF given
      <4>1. QED
        BY <2>4, <3>3
    <3>5. Read(m.match, "path") \in {Undefined, Wrong} \cup Seq(Patterns)
      BY <3>1, <3>3, <3>4, DeploymentAssumption
    <3>6. Read(m.match, "path") # Undefined => m.match.path \in Seq(Patterns)
      BY <3>2, <3>5 DEF Read
    <3> HIDE DEF policies
    <3>7. QED
      BY <2>2, <3>6 DEF Patterned
  <2>5. QED
    BY <2>1, <2>3, <2>4
<1>3. QED
  BY <1>1, <1>2

\* What is known when a request has found its policy.
LEMMA ReceivedByPolicy ==
  ASSUME AppInv, lastIndex \in LastIndices, NEW r \in Requests(deployment), Receive(r)
  PROVE  /\ lastIndex' \in LastIndices
         /\ chosen' # 0 =>
              chosen' \in DOMAIN parry.policies /\ Fits(parry.policies[chosen'], r)
         /\ \A i \in DOMAIN parry.policies :
              Fits(parry.policies[i], r) /\ (chosen' = 0 \/ i < chosen') =>
                LeftBehind(parry.policies[i], lastIndex)
<1> DEFINE policies == parry.policies
           m == FindMatchingPolicy(policies, r, lastIndex)
<1>1. /\ deployment \in Deployments /\ Accepts(deployment.options)
      /\ parry = MergeConfig(deployment.options)
  BY DEF AppInv, Receive
<1>2. /\ Len(policies) \in Nat /\ DOMAIN policies = 1 .. Len(policies)
      /\ \A i \in DOMAIN policies : Patterned(policies[i])
  BY <1>1, PoliciesArePatterned
<1>3. r.path \in Paths
  BY <1>1, RequestAssumption
<1>4. chosen' = m.chosen /\ lastIndex' = m.lastIndex
  BY DEF Receive
<1>5. /\ m.lastIndex \in LastIndices
      /\ m.chosen # 0 => m.chosen \in DOMAIN policies /\ Fits(policies[m.chosen], r)
      /\ \A i \in DOMAIN policies :
           Fits(policies[i], r) /\ (m.chosen = 0 \/ i < m.chosen) =>
              LeftBehind(policies[i], lastIndex)
  <2>1. /\ m.lastIndex \in LastIndices
        /\ m.chosen \in 0 .. Len(policies)
        /\ m.chosen # 0 => Fits(policies[m.chosen], r)
        /\ \A i \in DOMAIN policies :
             Fits(policies[i], r) /\ (m.chosen = 0 \/ i < m.chosen) =>
                LeftBehind(policies[i], lastIndex)
    <3> HIDE DEF policies
    <3>1. QED
      BY <1>2, <1>3, FirstFitting
  <2> HIDE DEF m, policies
  <2>2. m.chosen # 0 => m.chosen \in DOMAIN policies
    BY <1>2, <2>1
  <2>3. QED
    BY <2>1, <2>2
<1>6. QED
  <2> HIDE DEF m
  <2>1. QED
    BY <1>4, <1>5

LEMMA PlacesStayPlaces ==
  ASSUME AppInv, lastIndex \in LastIndices, [Next]_vars
  PROVE  lastIndex' \in LastIndices
<1>1. ASSUME NEW r \in Requests(deployment), Receive(r)
      PROVE  lastIndex' \in LastIndices
  BY <1>1, ReceivedByPolicy
<1>2. CASE UNCHANGED lastIndex
  BY <1>2
<1>3. QED
  BY <1>1, <1>2 DEF Next, vars, clientVars, CreateParry, MountAdmin, Inspect, Respond,
                    AskAdmin, AdminReturns

\* A request is held to the first policy that fits it, but for one whose global
\* RegExp still has the place of an earlier match: for any policies, patterns
\* and requests (matcher.js 12-40).
THEOREM PolicyIsFirst == Spec => OnlyLeftoverSkips
<1> DEFINE Places == lastIndex \in LastIndices
           FirstOrSkipped ==
        request = Undefined /\ request' # Undefined =>
            /\ chosen' # 0 => Fits(parry.policies[chosen'], request')
            /\ \A i \in DOMAIN parry.policies :
                Fits(parry.policies[i], request') /\ (chosen' = 0 \/ i < chosen') =>
                    \E p \in Stateful \intersect Range(parry.policies[i].match.path) :
                        lastIndex[p] # 0
<1>1. Init => Places
  BY DEF Init, LastIndices
<1>2. AppInv /\ Places /\ [Next]_vars => Places'
  BY PlacesStayPlaces
<1>3. AppInv /\ Places /\ [Next]_vars => [FirstOrSkipped]_vars
  <2> SUFFICES ASSUME AppInv, Places, Next, request = Undefined,
                      request' # Undefined
               PROVE  FirstOrSkipped
    OBVIOUS
  <2>1. PICK r \in Requests(deployment) : Receive(r)
    BY DEF Next, clientVars, CreateParry, MountAdmin, Inspect, Respond, AskAdmin, AdminReturns
  <2>2. request' = r
    BY <2>1 DEF Receive
  <2>3. QED
    BY <2>1, <2>2, ReceivedByPolicy DEF LeftBehind
<1>4. QED
  <2> HIDE DEF Places
  <2>1. QED
    BY <1>1, <1>2, <1>3, AppInvariance, PTL DEF Spec, OnlyLeftoverSkips

-----------------------------------------------------------------------------
(* Limits. *)

\* A limit that the checks of validate.js have let through.
Checked(value) == value \notin {Wrong, 0}
Sound(limit, options) ==
    /\ Checked(limit.value)
    /\ limit.value = Undefined => WrittenUndefined(options, limit.place)

\* A number is no value of another kind; and || takes the first that is one.
LEMMA NumbersAreChecked ==
  ASSUME NEW n \in Nat \ {0}
  PROVE  /\ Checked(n) /\ n \notin {Undefined, False}
         /\ \A value : Checked(value) =>
                /\ Checked(OrPositive(value, n))
                /\ OrPositive(value, n) \notin {Undefined, False}
  BY ValuesAssumption DEF Checked, OrPositive

\* A section with its defaults, in the place of which undefined may stand.
LEMMA SectionIsChecked ==
  ASSUME NEW base, NEW given, NEW f, f \in DOMAIN base, base[f] \in Nat \ {0},
         IsObject(given) => Checked(Read(given, f))
  PROVE  /\ Checked(Spread(base, given)[f])
         /\ Spread(base, given)[f] = Undefined =>
                IsObject(given) /\ f \in DOMAIN given /\ given[f] = Undefined
<1>1. Checked(base[f]) /\ base[f] # Undefined
  BY NumbersAreChecked
<1>2. CASE ~IsObject(given)
  BY <1>1, <1>2 DEF Spread
<1>3. CASE IsObject(given) /\ f \notin DOMAIN given
  BY <1>1, <1>3 DEF Spread
<1>4. CASE IsObject(given) /\ f \in DOMAIN given
  BY <1>4 DEF Spread, Read
<1>5. QED
  BY <1>2, <1>3, <1>4

\* The limits of one policy.
LEMMA PolicyLimits ==
  ASSUME NEW m, IsPreset(m) \/ ValidPolicy(m), NEW options,
         NEW limit \in LimitsOfPolicy(NormalizePolicy(m, options))
  PROVE  /\ Checked(limit.value)
         /\ limit.value = Undefined => ~IsPreset(m) /\ IsWritten(m, limit.place)
<1> DEFINE rate == Read(m, "rateLimit")
           brute == Read(m, "bruteForce")
           policy == NormalizePolicy(m, options)
           Rates == {"max", "windowMs"}
           Brutes == {"maxAttempts", "windowMs", "blockDurationMs"}
<1>1. /\ policy.rateLimit = NormalizeRateLimit(rate)
      /\ policy.bruteForce = NormalizeBruteForce(brute, BruteForceDisabled(options))
  BY DEF NormalizePolicy
<1>2. \/ /\ policy.rateLimit.enabled # False
         /\ \E f \in Rates : limit = Limit(<<"rateLimit", f>>, policy.rateLimit[f])
      \/ /\ policy.bruteForce.enabled # False
         /\ \E f \in Brutes : limit = Limit(<<"bruteForce", f>>, policy.bruteForce[f])
  <2> HIDE DEF policy
  <2>1. limit \in LimitsOfPolicy(policy)
    BY DEF policy
  <2>2. QED
    BY <2>1 DEF LimitsOfPolicy
<1>3. Truthy(rate) => \A f \in {"max", "maxRequests", "windowMs"} : Checked(Read(rate, f))
  <2>1. CASE IsPreset(m)
    <3>1. PICK n \in Nat \ {0} :
            rate = [enabled |-> True, max |-> n, windowMs |-> 60000, key |-> IP]
      BY <2>1 DEF IsPreset, CreateAuthPolicies, Read
    <3>2. /\ Read(rate, "max") = n /\ Read(rate, "windowMs") = 60000
          /\ Read(rate, "maxRequests") = Undefined
      <4> HIDE DEF rate
      <4>1. QED
        BY <3>1 DEF Read
    <3>3. Checked(n) /\ Checked(60000) /\ Checked(Undefined)
      <4>1. Checked(Undefined)
        BY ValuesAssumption DEF Checked
      <4>2. QED
        BY <4>1, NumbersAreChecked
    <3> HIDE DEF rate
    <3>4. QED
      BY <3>2, <3>3
  <2>2. CASE ValidPolicy(m)
    BY <2>2 DEF ValidPolicy, ValidRate, Content, Positive, Or, Truthy, Checked
  <2>3. QED
    BY <2>1, <2>2
<1>4. /\ Truthy(brute) /\ IsObject(brute) => \A f \in Brutes : Checked(Read(brute, f))
      /\ IsPreset(m) => \A f \in Brutes : Read(brute, f) # Undefined
      /\ ValidPolicy(m) => ~Truthy(brute) \/ IsObject(brute)
  <2>1. CASE IsPreset(m)
    <3>1. PICK i \in DOMAIN COMMON_AUTH_PATHS : \E prefix \in {"recommended", "strict"} :
              \E a, b, c \in Nat \ {0} : m = CreateAuthPolicies(prefix, a, b, c)[i]
      BY <2>1 DEF IsPreset
    <3>2. PICK a \in Nat \ {0}, b \in Nat \ {0} :
            brute = [enabled |-> True, maxAttempts |-> a, windowMs |-> 900000,
                     blockDurationMs |-> b, keys |-> PRESET_KEYS]
      BY <3>1 DEF CreateAuthPolicies, Read
    <3>3. /\ Read(brute, "maxAttempts") = a /\ Read(brute, "windowMs") = 900000
          /\ Read(brute, "blockDurationMs") = b
      <4> HIDE DEF brute
      <4>1. QED
        BY <3>2 DEF Read
    <3>4. \A n \in {a, b, 900000} : Checked(n) /\ n # Undefined
      BY NumbersAreChecked
    <3>5. ValidPolicy(m) => ~Truthy(brute) \/ IsObject(brute)
      BY DEF ValidPolicy
    <3> HIDE DEF brute
    <3>6. QED
      BY <3>3, <3>4, <3>5
  <2>2. CASE ~IsPreset(m)
    BY <2>2 DEF ValidPolicy, Positive, Checked
  <2>3. QED
    BY <2>1, <2>2
<1>5. ASSUME policy.rateLimit.enabled # False, NEW f \in Rates,
             limit = Limit(<<"rateLimit", f>>, policy.rateLimit[f])
      PROVE  Checked(limit.value) /\ limit.value # Undefined
  <2>1. limit.value = policy.rateLimit[f]
    <3> HIDE DEF policy
    <3>1. QED
      BY <1>5 DEF Limit
  <2>2. Truthy(rate) /\ Read(rate, "enabled") # False
    <3> HIDE DEF policy, rate
    <3>1. QED
      BY <1>1, <1>5 DEF NormalizeRateLimit
  <2>3. /\ policy.rateLimit.max = OrPositive(Read(rate, "max"), OrPositive(Read(rate, "maxRequests"), 10))
        /\ policy.rateLimit.windowMs = OrPositive(Read(rate, "windowMs"), 60000)
    <3> HIDE DEF policy, rate
    <3>1. QED
      BY <1>1, <2>2 DEF NormalizeRateLimit
  <2>4. \A g \in {"max", "maxRequests", "windowMs"} : Checked(Read(rate, g))
    BY <1>3, <2>2
  <2> HIDE DEF policy, rate
  <2>5. /\ Checked(policy.rateLimit.windowMs) /\ policy.rateLimit.windowMs # Undefined
    BY <2>3, <2>4, NumbersAreChecked
  <2>6. /\ Checked(policy.rateLimit.max) /\ policy.rateLimit.max # Undefined
    <3>1. /\ Checked(OrPositive(Read(rate, "maxRequests"), 10))
          /\ OrPositive(Read(rate, "maxRequests"), 10) # Undefined
      BY <2>4, NumbersAreChecked
    <3>2. Checked(Read(rate, "max"))
      BY <2>4
    <3>3. QED
      BY <2>3, <3>1, <3>2 DEF OrPositive
  <2>7. QED
    BY <2>1, <2>5, <2>6
<1>6. ASSUME policy.bruteForce.enabled # False, NEW f \in Brutes,
             limit = Limit(<<"bruteForce", f>>, policy.bruteForce[f])
      PROVE  /\ Checked(limit.value)
             /\ limit.value = Undefined => ~IsPreset(m) /\ IsWritten(m, limit.place)
  <2> DEFINE spread == Spread(BRUTE_FORCE_DEFAULTS, brute)
  <2>1. limit.value = policy.bruteForce[f] /\ limit.place = <<"bruteForce", f>>
    <3> HIDE DEF policy
    <3>1. QED
      BY <1>6 DEF Limit
  <2>2. Truthy(brute) /\ Read(brute, "enabled") # False /\ ~BruteForceDisabled(options)
    <3> HIDE DEF policy, brute
    <3>1. QED
      BY <1>1, <1>6 DEF NormalizeBruteForce, BRUTE_FORCE_DEFAULTS
  <2>3. policy.bruteForce[f] = spread[f]
    <3>1. f \in DOMAIN spread /\ f # "enabled" /\ f # "keys"
      <4> HIDE DEF brute
      <4>1. QED
        BY DEF Spread, BRUTE_FORCE_DEFAULTS
    <3> HIDE DEF policy, brute
    <3>2. QED
      BY <1>1, <2>2, <3>1 DEF NormalizeBruteForce
  <2>4. f \in DOMAIN BRUTE_FORCE_DEFAULTS /\ BRUTE_FORCE_DEFAULTS[f] \in Nat \ {0}
    BY DEF BRUTE_FORCE_DEFAULTS
  <2>5. IsObject(brute) => Checked(Read(brute, f))
    BY <1>4, <2>2
  <2>6. /\ Checked(spread[f])
        /\ spread[f] = Undefined =>
              IsObject(brute) /\ f \in DOMAIN brute /\ brute[f] = Undefined
    <3> HIDE DEF brute
    <3>1. QED
      BY <2>4, <2>5, SectionIsChecked
  <2>7. ASSUME spread[f] = Undefined
        PROVE  ~IsPreset(m) /\ IsWritten(m, <<"bruteForce", f>>)
    <3>1. IsObject(brute) /\ f \in DOMAIN brute /\ brute[f] = Undefined
      BY <2>6, <2>7
    <3>2. ~IsPreset(m)
      <4> HIDE DEF brute
      <4>1. QED
        BY <1>4, <3>1 DEF Read
    <3>3. brute = m.bruteForce
      BY <3>1 DEF Read, IsObject
    <3>4. QED
      BY <3>1, <3>2, <3>3 DEF IsWritten
  <2> HIDE DEF policy, brute, spread
  <2>8. QED
    BY <2>1, <2>3, <2>6, <2>7
<1>7. QED
  <2> HIDE DEF policy
  <2>1. QED
    BY <1>2, <1>5, <1>6

\* The numbers that stand at the top of the options.
LEMMA TopLimits ==
  ASSUME NEW options, ValidateParryOptions(options)
  PROVE  /\ \A f \in {"maxRequests", "windowMs"} :
              Sound(Limit(<<"limiter", f>>, MergeConfig(options).limiter[f]), options)
         /\ \A f \in {"suspiciousThreshold", "banDurationMs"} :
              Sound(Limit(<<f>>, MergeConfig(options)[f]), options)
<1> DEFINE Tops == {"maxRequests", "windowMs", "banDurationMs", "suspiciousThreshold"}
           config == Spread(DEFAULTS, options)
           given == Read(options, "rateLimit")
           nested == IF IsObject(given) THEN given ELSE <<>>
           rate == NormalizeRateLimitConfig(options)
           limiter == NormalizeRateLimitOptions(rate)
<1>1. \A f \in Tops : Checked(Read(options, f))
  BY DEF ValidateParryOptions, Positive, Checked
<1>2. \A f \in Tops : f \in DOMAIN DEFAULTS /\ DEFAULTS[f] \in Nat \ {0}
  BY DEF DEFAULTS
<1>3. \A f \in Tops :
        /\ Checked(config[f])
        /\ config[f] = Undefined => f \in DOMAIN options /\ options[f] = Undefined
  <2> HIDE DEF Tops
  <2>1. QED
    BY <1>1, <1>2, SectionIsChecked
<1>4. \A f \in {"max", "maxRequests", "windowMs"} : Checked(Read(nested, f))
  <2>1. CASE IsObject(given)
    BY <2>1 DEF ValidateParryOptions, ValidRate, Positive, Checked
  <2>2. CASE ~IsObject(given)
    BY <2>2, ValuesAssumption DEF Read, Checked
  <2>3. QED
    BY <2>1, <2>2
<1>5. /\ rate.maxRequests = OrPositive(Read(nested, "max"),
                                OrPositive(Read(nested, "maxRequests"), config.maxRequests))
      /\ rate.windowMs = OrPositive(Read(nested, "windowMs"), config.windowMs)
  <2> HIDE DEF config
  <2>1. QED
    BY DEF NormalizeRateLimitConfig, config
<1>6. Checked(rate.maxRequests) /\ Checked(rate.windowMs)
  <2> HIDE DEF config, nested, rate
  <2>1. QED
    BY <1>3, <1>4, <1>5 DEF OrPositive
<1>7. /\ limiter.maxRequests = OrPositive(rate.maxRequests, 100)
      /\ limiter.windowMs = OrPositive(rate.windowMs, 60000)
  <2> HIDE DEF rate
  <2>1. QED
    BY DEF NormalizeRateLimitOptions
<1>8. \A f \in {"maxRequests", "windowMs"} : Checked(limiter[f]) /\ limiter[f] # Undefined
  <2> HIDE DEF rate, limiter
  <2>1. QED
    BY <1>6, <1>7, NumbersAreChecked
<1>9. /\ MergeConfig(options).limiter = limiter
      /\ \A f \in {"suspiciousThreshold", "banDurationMs"} : MergeConfig(options)[f] = config[f]
  BY DEF MergeConfig
<1>10. \A f \in {"maxRequests", "windowMs"} :
         Sound(Limit(<<"limiter", f>>, MergeConfig(options).limiter[f]), options)
  <2> HIDE DEF limiter
  <2>1. QED
    BY <1>8, <1>9 DEF Sound, Limit
<1>11. ASSUME NEW f \in {"suspiciousThreshold", "banDurationMs"}
       PROVE  Sound(Limit(<<f>>, MergeConfig(options)[f]), options)
  <2> HIDE DEF config
  <2>1. MergeConfig(options)[f] = config[f] /\ Checked(config[f])
        /\ (config[f] = Undefined => IsWritten(options, <<f>>))
    BY <1>3, <1>9 DEF IsWritten
  <2>2. QED
    BY <2>1 DEF Sound, Limit, WrittenUndefined
<1>12. QED
  BY <1>10, <1>11

\* The numbers of the request shape, and the size of the event store.
LEMMA NestedLimits ==
  ASSUME NEW options, ValidateParryOptions(options)
  PROVE  /\ \A f \in {"maxKeys", "maxArrayLength", "maxStringLength"} :
              Sound(Limit(<<"requestShape", f>>, MergeConfig(options).requestShape[f]), options)
         /\ Sound(Limit(<<"events", "maxEvents">>,
                        OrPositive(MergeConfig(options).events.maxEvents, 500)), options)
<1> DEFINE Fields == {"maxKeys", "maxArrayLength", "maxStringLength"}
           shape == Read(options, "requestShape")
           events == Read(options, "events")
<1>1. /\ MergeConfig(options).requestShape = Spread(DEFAULTS.requestShape, shape)
      /\ MergeConfig(options).events = Spread(DEFAULTS.events, events)
  BY DEF MergeConfig
<1>2. /\ \A f \in Fields : f \in DOMAIN DEFAULTS.requestShape
                           /\ DEFAULTS.requestShape[f] \in Nat \ {0}
      /\ "maxEvents" \in DOMAIN DEFAULTS.events /\ DEFAULTS.events["maxEvents"] \in Nat \ {0}
  BY DEF DEFAULTS
<1>3. /\ IsObject(shape) => \A f \in Fields : Checked(Read(shape, f))
      /\ IsObject(events) => Checked(Read(events, "maxEvents"))
  <2>1. IsObject(shape) => Content(options, "requestShape") = shape
    BY DEF Content, Or, IsObject
  <2>2. IsObject(events) => Content(options, "events") = events
    BY DEF Content, Or, IsObject
  <2>3. /\ ValidShape(Content(options, "requestShape"))
        /\ Positive(Content(options, "events"), {"maxEvents"})
    BY DEF ValidateParryOptions
  <2> HIDE DEF shape, events
  <2>4. QED
    BY <2>1, <2>2, <2>3 DEF ValidShape, Positive, Checked
<1>4. ASSUME NEW f \in Fields
      PROVE  Sound(Limit(<<"requestShape", f>>, MergeConfig(options).requestShape[f]), options)
  <2> DEFINE value == Spread(DEFAULTS.requestShape, shape)[f]
  <2>1. /\ Checked(value)
        /\ value = Undefined => IsObject(shape) /\ f \in DOMAIN shape /\ shape[f] = Undefined
    <3> HIDE DEF shape, Fields
    <3>1. QED
      BY <1>2, <1>3, SectionIsChecked
  <2>2. IsObject(shape) => options["requestShape"] = shape
    BY DEF Read, IsObject
  <2>3. value = Undefined => IsWritten(options, <<"requestShape", f>>)
    <3> HIDE DEF value
    <3>1. QED
      BY <2>1, <2>2 DEF IsWritten
  <2> HIDE DEF value
  <2>4. QED
    BY <1>1, <2>1, <2>3 DEF Sound, Limit, WrittenUndefined, value
<1>5. Sound(Limit(<<"events", "maxEvents">>,
                  OrPositive(MergeConfig(options).events.maxEvents, 500)), options)
  <2> DEFINE value == Spread(DEFAULTS.events, events)["maxEvents"]
  <2>1. Checked(value)
    <3> HIDE DEF events
    <3>1. QED
      BY <1>2, <1>3, SectionIsChecked
  <2> HIDE DEF value
  <2>2. /\ Checked(OrPositive(value, 500)) /\ OrPositive(value, 500) # Undefined
    BY <2>1, NumbersAreChecked
  <2>3. QED
    BY <1>1, <2>2 DEF Sound, Limit, value
<1>6. QED
  BY <1>4, <1>5

\* A depth that the checks of validate.js have let through may be zero.
DepthSound(limit, options) ==
    /\ limit.value # Wrong
    /\ limit.value = Undefined => WrittenUndefined(options, limit.place)

LEMMA DepthLimits ==
  ASSUME NEW options, ValidateParryOptions(options), NEW limit \in DepthsInForce(MergeConfig(options))
  PROVE  DepthSound(limit, options)
<1> DEFINE shape == Read(options, "requestShape")
           top == Spread(DEFAULTS, options).maxObjectDepth
           nested == Spread(DEFAULTS.requestShape, shape).maxDepth
<1>1. \/ limit.value = top /\ limit.place = <<"maxObjectDepth">>
      \/ limit.value = nested /\ limit.place = <<"requestShape", "maxDepth">>
  <2>1. /\ MergeConfig(options).maxObjectDepth = top
        /\ MergeConfig(options).requestShape.maxDepth = nested
    BY DEF MergeConfig
  <2> HIDE DEF top, nested
  <2>2. QED
    BY <2>1 DEF DepthsInForce, Limit
<1>2. /\ DEFAULTS.maxObjectDepth = 8 /\ "maxObjectDepth" \in DOMAIN DEFAULTS
      /\ DEFAULTS.requestShape.maxDepth = 8 /\ "maxDepth" \in DOMAIN DEFAULTS.requestShape
      /\ 8 \notin {Wrong, Undefined}
  BY ValuesAssumption DEF DEFAULTS
<1>3. /\ Read(options, "maxObjectDepth") # Wrong
      /\ IsObject(shape) => Read(shape, "maxDepth") # Wrong
  <2>1. IsObject(shape) => Content(options, "requestShape") = shape
    BY DEF Content, Or, IsObject
  <2>2. ValidShape(Content(options, "requestShape")) /\ NonNegative(options, "maxObjectDepth")
    BY DEF ValidateParryOptions
  <2> HIDE DEF shape
  <2>3. QED
    BY <2>1, <2>2 DEF ValidShape, NonNegative
<1>4. ASSUME NEW base, NEW given, NEW f, f \in DOMAIN base, base[f] = 8,
             IsObject(given) => Read(given, f) # Wrong
      PROVE  /\ Spread(base, given)[f] # Wrong
             /\ Spread(base, given)[f] = Undefined =>
                    IsObject(given) /\ f \in DOMAIN given /\ given[f] = Undefined
  BY <1>2, <1>4 DEF Spread, Read
<1>5. /\ top # Wrong
      /\ top = Undefined => IsWritten(options, <<"maxObjectDepth">>)
  <2>1. /\ top # Wrong
        /\ top = Undefined => "maxObjectDepth" \in DOMAIN options /\ options["maxObjectDepth"] = Undefined
    BY <1>2, <1>3, <1>4
  <2> HIDE DEF top
  <2>2. QED
    BY <2>1 DEF IsWritten
<1>6. /\ nested # Wrong
      /\ nested = Undefined => IsWritten(options, <<"requestShape", "maxDepth">>)
  <2>1. /\ nested # Wrong
        /\ nested = Undefined =>
              IsObject(shape) /\ "maxDepth" \in DOMAIN shape /\ shape["maxDepth"] = Undefined
    <3> HIDE DEF shape
    <3>1. QED
      BY <1>2, <1>3, <1>4
  <2>2. IsObject(shape) => options["requestShape"] = shape
    BY DEF Read, IsObject
  <2> HIDE DEF nested
  <2>3. QED
    BY <2>1, <2>2 DEF IsWritten
<1>7. QED
  <2> HIDE DEF top, nested
  <2>1. QED
    BY <1>1, <1>5, <1>6 DEF DepthSound, WrittenUndefined

\* With accepted options every number anything is compared with has been
\* checked, wherever it was written, presets and policies included; only an
\* undefined that the operator wrote is left (validate.js 153-246,
\* middleware.js 182-231, normalize-policy.js 46-80).
THEOREM LimitsLimit == Spec => []EveryLimitLimits
<1>1. ASSUME NEW d \in Deployments, Accepts(d.options),
             NEW limit \in LimitsInForce(MergeConfig(d.options))
      PROVE  Sound(limit, d.options)
  <2> DEFINE options == d.options
             config == MergeConfig(options)
             explicit == Or(Read(options, "policies"), <<>>)
  <2>1. ValidateParryOptions(options)
    BY <1>1 DEF Accepts
  <2>2. ASSUME NEW p \in Range(config.policies), limit \in LimitsOfPolicy(p)
        PROVE  Sound(limit, options)
    <3>1. PICK m : /\ p = NormalizePolicy(m, options)
                   /\ IsPreset(m) \/ (m \in Range(explicit) /\ ValidPolicy(m))
      BY <1>1, <2>2, PoliciesInForce DEF Range
    <3>2. /\ Checked(limit.value)
          /\ limit.value = Undefined => ~IsPreset(m) /\ IsWritten(m, limit.place)
      BY <2>2, <3>1, PolicyLimits
    <3>3. limit.value = Undefined => \E q \in Range(explicit) : IsWritten(q, limit.place)
      BY <3>1, <3>2
    <3>4. QED
      BY <3>2, <3>3 DEF Sound, WrittenUndefined
  <2>3. ASSUME \A p \in Range(config.policies) : limit \notin LimitsOfPolicy(p)
        PROVE  Sound(limit, options)
    <3>1. \/ \E f \in {"maxRequests", "windowMs"} : limit = Limit(<<"limiter", f>>, config.limiter[f])
          \/ \E f \in {"suspiciousThreshold", "banDurationMs"} : limit = Limit(<<f>>, config[f])
          \/ \E f \in {"maxKeys", "maxArrayLength", "maxStringLength"} :
                limit = Limit(<<"requestShape", f>>, config.requestShape[f])
          \/ limit = Limit(<<"events", "maxEvents">>, OrPositive(config.events.maxEvents, 500))
      <4> HIDE DEF config
      <4>1. limit \in LimitsInForce(config)
        BY <1>1 DEF config
      <4>2. QED
        BY <2>3, <4>1 DEF LimitsInForce
    <3>2. QED
      BY <2>1, <3>1, TopLimits, NestedLimits
  <2>4. QED
    BY <2>2, <2>3
<1>2. AppInv => EveryLimitLimits
  <2> SUFFICES ASSUME AppInv, Running
               PROVE  /\ \A limit \in LimitsInForce(parry) : Sound(limit, deployment.options)
                      /\ \A limit \in DepthsInForce(parry) : DepthSound(limit, deployment.options)
    BY DEF EveryLimitLimits, Sound, DepthSound, Checked
  <2>1. \A limit \in LimitsInForce(parry) : Sound(limit, deployment.options)
    BY <1>1 DEF AppInv
  <2>2. Accepts(deployment.options) /\ parry = MergeConfig(deployment.options)
    BY DEF AppInv
  <2>3. \A limit \in DepthsInForce(parry) : DepthSound(limit, deployment.options)
    BY <2>2, DepthLimits DEF Accepts
  <2>4. QED
    BY <2>1, <2>3
<1>3. QED
  BY <1>2, AppInvariance, PTL

-----------------------------------------------------------------------------
(* Keys. *)

\* A list of texts has a join, which grows by one text at a time.
LEMMA JoinGrows ==
  ASSUME NEW values, Len(values) \in Nat, \A i \in 1 .. Len(values) : IsText(values[i])
  PROVE  \E joined :
            /\ joined[0] = <<>> /\ joined[Len(values)] = Joined(values)
            /\ \A i \in 1 .. Len(values) : joined[i] = joined[i - 1] \o values[i]
<1> DEFINE L == Len(values)
           S == Seq(UNION {Range(values[i]) : i \in 1 .. L})
           Turn(n, so) == so \o values[n]
           step == [n \in 1 .. L |-> [so \in S |-> Turn(n, so)]]
           Loop(w) == [n \in 0 .. L |-> IF n = 0 THEN <<>> ELSE Turn(n, w[n - 1])]
           joined == CHOOSE w : w = Loop(w)
<1>1. L \in Nat /\ <<>> \in S
  OBVIOUS
<1>2. ASSUME NEW n \in 1 .. L, NEW so \in S
      PROVE  Turn(n, so) \in S
  <2> DEFINE P == UNION {Range(values[i]) : i \in 1 .. L}
  <2>1. values[n] \in Seq(Range(values[n]))
    BY DEF IsText
  <2>2. Range(values[n]) \subseteq P
    OBVIOUS
  <2> HIDE DEF P, L
  <2>3. values[n] \in Seq(P)
    BY <2>1, <2>2
  <2>4. QED
    BY <2>3 DEF P
<1>3. Stays(S, L, step)
  <2> HIDE DEF S, Turn, L
  <2>1. QED
    BY <1>2 DEF Stays
<1>4. PICK w : IsRun(w, S, <<>>, L, step)
  <2> HIDE DEF S, step, L
  <2>1. QED
    BY <1>1, <1>3, Iteration
<1>5. w = Loop(w)
  <2>1. ASSUME NEW n \in 0 .. L, n # 0
        PROVE  step[n][w[n - 1]] = Turn(n, w[n - 1])
    <3> HIDE DEF S, Turn, L
    <3>1. n \in 1 .. L /\ w[n - 1] \in S
      <4> HIDE DEF step
      <4>1. QED
        BY <1>1, <1>4, <2>1 DEF IsRun
    <3>2. QED
      BY <3>1
  <2>2. \A n \in 0 .. L : w[n] = IF n = 0 THEN <<>> ELSE Turn(n, w[n - 1])
    <3> HIDE DEF S, Turn, L, step
    <3>1. QED
      BY <1>4, <2>1 DEF IsRun
  <2> HIDE DEF S, Turn, L, step
  <2>3. QED
    BY <1>4, <2>2 DEF IsRun
<1>6. joined = Loop(joined)
  <2> HIDE DEF Loop
  <2>1. QED
    BY <1>5
<1>7. joined[0] = <<>> /\ \A n \in 1 .. L : joined[n] = Turn(n, joined[n - 1])
  <2> HIDE DEF joined, Turn, L
  <2>1. QED
    BY <1>1, <1>6
<1>8. joined[L] = Joined(values)
  BY DEF Joined
<1>9. QED
  <2> HIDE DEF joined
  <2>1. QED
    BY <1>7, <1>8

\* Two texts put together are cut in one place only, if it is known where.
LEMMA CutInOnePlace ==
  ASSUME NEW S, NEW x \in Seq(S), NEW y \in Seq(S), NEW z \in Seq(S), NEW w \in Seq(S),
         Len(x) = Len(z), x \o y = z \o w
  PROVE  x = z /\ y = w
<1> DEFINE u == x \o y
           v == z \o w
<1>1. /\ Len(u) = Len(x) + Len(y)
      /\ \A i \in 1 .. Len(x) + Len(y) : u[i] = IF i <= Len(x) THEN x[i] ELSE y[i - Len(x)]
  BY ConcatProperties
<1>2. /\ Len(v) = Len(z) + Len(w)
      /\ \A i \in 1 .. Len(z) + Len(w) : v[i] = IF i <= Len(z) THEN z[i] ELSE w[i - Len(z)]
  BY ConcatProperties
<1>3. u = v
  OBVIOUS
<1> HIDE DEF u, v
<1>4. {Len(x), Len(y), Len(z), Len(w)} \subseteq Nat /\ Len(y) = Len(w)
  BY <1>1, <1>2, <1>3
<1>5. ASSUME NEW i \in 1 .. Len(x)
      PROVE  x[i] = z[i]
  BY <1>1, <1>2, <1>3, <1>4
<1>6. ASSUME NEW i \in 1 .. Len(y)
      PROVE  y[i] = w[i]
  <2> DEFINE k == Len(x) + i
  <2>1. k \in 1 .. Len(x) + Len(y) /\ ~(k <= Len(x)) /\ k - Len(x) = i
    BY <1>4
  <2> HIDE DEF k
  <2>2. u[k] = y[k - Len(x)] /\ v[k] = w[k - Len(x)]
    BY <1>1, <1>2, <1>4, <2>1
  <2>3. QED
    BY <1>3, <2>1, <2>2
<1>7. QED
  BY <1>4, <1>5, <1>6, SeqEqual

\* So a join of as many texts, each as long as the one in its place, is theirs
\* alone.
LEMMA JoinIsUnique ==
  ASSUME NEW a, NEW b, Len(a) \in Nat, Len(b) = Len(a),
         \A i \in 1 .. Len(a) : IsText(a[i]) /\ IsText(b[i]) /\ Len(a[i]) = Len(b[i]),
         Joined(a) = Joined(b)
  PROVE  \A i \in 1 .. Len(a) : a[i] = b[i]
<1> DEFINE L == Len(a)
           P == UNION {Range(a[i]) \cup Range(b[i]) : i \in 1 .. L}
<1>1. PICK x : /\ x[0] = <<>> /\ x[L] = Joined(a)
               /\ \A i \in 1 .. L : x[i] = x[i - 1] \o a[i]
  BY JoinGrows
<1>2. PICK y : /\ y[0] = <<>> /\ y[L] = Joined(b)
               /\ \A i \in 1 .. L : y[i] = y[i - 1] \o b[i]
  <2>1. \A i \in 1 .. Len(b) : IsText(b[i])
    OBVIOUS
  <2>2. QED
    BY <2>1, JoinGrows
<1>3. ASSUME NEW i \in 1 .. L
      PROVE  a[i] \in Seq(P) /\ b[i] \in Seq(P) /\ Len(a[i]) = Len(b[i])
  <2>1. a[i] \in Seq(Range(a[i])) /\ b[i] \in Seq(Range(b[i])) /\ Len(a[i]) = Len(b[i])
    BY DEF IsText
  <2>2. Range(a[i]) \subseteq P /\ Range(b[i]) \subseteq P
    OBVIOUS
  <2> HIDE DEF P, L
  <2>3. QED
    BY <2>1, <2>2
<1> DEFINE Alike(n) == x[n] \in Seq(P) /\ y[n] \in Seq(P) /\ Len(x[n]) = Len(y[n])
<1> HIDE DEF P, L
<1>4. L \in Nat /\ Alike(0)
  BY <1>1, <1>2 DEF L
<1>5. ASSUME NEW n \in 1 .. L, Alike(n - 1)
      PROVE  Alike(n)
  <2>1. x[n] = x[n - 1] \o a[n] /\ y[n] = y[n - 1] \o b[n]
    BY <1>1, <1>2
  <2>2. a[n] \in Seq(P) /\ b[n] \in Seq(P) /\ Len(a[n]) = Len(b[n])
    BY <1>3
  <2>3. /\ x[n] \in Seq(P) /\ Len(x[n]) = Len(x[n - 1]) + Len(a[n])
        /\ y[n] \in Seq(P) /\ Len(y[n]) = Len(y[n - 1]) + Len(b[n])
    <3> DEFINE xx == x[n - 1]
               yy == y[n - 1]
               aa == a[n]
               bb == b[n]
    <3>1. xx \in Seq(P) /\ yy \in Seq(P) /\ aa \in Seq(P) /\ bb \in Seq(P)
      BY <1>5, <2>2
    <3> HIDE DEF xx, yy, aa, bb
    <3>2. /\ xx \o aa \in Seq(P) /\ Len(xx \o aa) = Len(xx) + Len(aa)
          /\ yy \o bb \in Seq(P) /\ Len(yy \o bb) = Len(yy) + Len(bb)
      BY <3>1, ConcatProperties
    <3>3. x[n] = xx \o aa /\ y[n] = yy \o bb
      BY <2>1 DEF xx, yy, aa, bb
    <3>4. /\ x[n] \in Seq(P) /\ Len(x[n]) = Len(xx) + Len(aa)
          /\ y[n] \in Seq(P) /\ Len(y[n]) = Len(yy) + Len(bb)
      BY <3>2, <3>3
    <3>5. QED
      BY <3>4 DEF xx, yy, aa, bb
  <2>4. QED
    BY <1>5, <2>2, <2>3
<1>6. \A n \in 0 .. L : Alike(n)
  <2> DEFINE A == {n \in 0 .. L : Alike(n)}
  <2> HIDE DEF Alike
  <2>1. 0 \in A
    BY <1>4
  <2>2. \A n \in 1 .. L : n - 1 \in A => n \in A
    BY <1>5
  <2> HIDE DEF A
  <2>3. \A n \in 0 .. L : n \in A
    BY <1>4, <2>1, <2>2, Throughout
  <2>4. QED
    BY <2>3 DEF A
<1>7. ASSUME NEW n \in 1 .. L, x[n] = y[n]
      PROVE  x[n - 1] = y[n - 1] /\ a[n] = b[n]
  <2>1. n - 1 \in 0 .. L
    BY <1>4
  <2>2. x[n - 1] \o a[n] = y[n - 1] \o b[n]
    BY <1>1, <1>2, <1>7
  <2>3. Alike(n - 1)
    BY <1>6, <2>1
  <2> DEFINE xx == x[n - 1]
             yy == y[n - 1]
             aa == a[n]
             bb == b[n]
  <2>4. /\ xx \in Seq(P) /\ yy \in Seq(P) /\ aa \in Seq(P) /\ bb \in Seq(P)
        /\ Len(xx) = Len(yy) /\ xx \o aa = yy \o bb
    BY <1>3, <2>2, <2>3
  <2> HIDE DEF xx, yy, aa, bb
  <2>5. xx = yy /\ aa = bb
    BY <2>4, CutInOnePlace
  <2>6. QED
    BY <2>5 DEF xx, yy, aa, bb
<1>8. \A n \in 0 .. L : x[n] = y[n]
  <2> DEFINE A == {k \in 0 .. L : x[L - k] = y[L - k]}
  <2>1. 0 \in A
    BY <1>1, <1>2, <1>4
  <2>2. ASSUME NEW k \in 1 .. L, k - 1 \in A
        PROVE  k \in A
    <3> DEFINE n == L - (k - 1)
    <3>1. n \in 1 .. L /\ n - 1 = L - k /\ k \in 0 .. L
      BY <1>4
    <3>2. x[n] = y[n]
      BY <2>2
    <3> HIDE DEF n
    <3>3. x[n - 1] = y[n - 1]
      BY <1>7, <3>1, <3>2
    <3>4. QED
      BY <3>1, <3>3
  <2>3. \A k \in 0 .. L : k \in A
    <3> HIDE DEF A
    <3>1. QED
      BY <1>4, <2>1, <2>2, Throughout
  <2>4. ASSUME NEW n \in 0 .. L
        PROVE  x[n] = y[n]
    <3>1. L - n \in 0 .. L /\ L - (L - n) = n
      BY <1>4
    <3>2. QED
      BY <2>3, <3>1
  <2>5. QED
    BY <2>4
<1>9. \A n \in 1 .. L : a[n] = b[n]
  BY <1>4, <1>7, <1>8
<1>10. QED
  BY <1>9 DEF L

\* Every key that is pushed is one a specification gives.
LEMMA KeysArePushed ==
  ASSUME NEW namespace, NEW name, NEW T, NEW specs \in Seq(T), NEW r
  PROVE  \A key \in Range(BuildKeys(namespace, name, specs, r)) :
            key # Undefined /\ \E s \in T : key = BuildKey(namespace, name, s, r)
<1> DEFINE L == Len(specs)
           Key(s) == BuildKey(namespace, name, s, r)
           K == {Key(s) : s \in T} \ {Undefined}
           S == Seq(K)
           Turn(n, so) == IF Key(specs[n]) = Undefined THEN so ELSE Append(so, Key(specs[n]))
           step == [n \in 1 .. L |-> [so \in S |-> Turn(n, so)]]
           Loop(w) == [n \in 0 .. L |-> IF n = 0 THEN <<>> ELSE Turn(n, w[n - 1])]
           result == CHOOSE w : w = Loop(w)
<1>1. L \in Nat /\ \A n \in 1 .. L : specs[n] \in T
  OBVIOUS
<1>2. ASSUME NEW n \in 1 .. L, NEW so \in S
      PROVE  Turn(n, so) \in S
  <2>1. Key(specs[n]) # Undefined => Key(specs[n]) \in K
    <3> HIDE DEF L
    <3>1. QED
      BY <1>1
  <2> HIDE DEF K, Key, L
  <2>2. QED
    BY <2>1
<1>3. Stays(S, L, step)
  <2> HIDE DEF S, Turn, L
  <2>1. QED
    BY <1>2 DEF Stays
<1>4. PICK w : IsRun(w, S, <<>>, L, step)
  <2>1. <<>> \in S
    OBVIOUS
  <2>2. L \in Nat
    BY <1>1
  <2> HIDE DEF S, step, L
  <2>3. QED
    BY <1>3, <2>1, <2>2, Iteration
<1>5. w = Loop(w)
  <2>1. ASSUME NEW n \in 0 .. L, n # 0
        PROVE  step[n][w[n - 1]] = Turn(n, w[n - 1])
    <3> HIDE DEF S, Turn, L
    <3>1. n \in 1 .. L /\ w[n - 1] \in S
      <4> HIDE DEF step
      <4>1. QED
        BY <1>1, <1>4, <2>1 DEF IsRun
    <3>2. QED
      BY <3>1
  <2>2. \A n \in 0 .. L : w[n] = IF n = 0 THEN <<>> ELSE Turn(n, w[n - 1])
    <3> HIDE DEF S, Turn, L, step
    <3>1. QED
      BY <1>4, <2>1 DEF IsRun
  <2> HIDE DEF S, Turn, L, step
  <2>3. QED
    BY <1>4, <2>2 DEF IsRun
<1>6. result = Loop(result)
  <2> HIDE DEF Loop
  <2>1. QED
    BY <1>5
<1>7. result[L] \in S
  <2> DEFINE A == {n \in 0 .. L : result[n] \in S}
  <2>1. 0 \in A
    <3>1. result[0] = <<>>
      <4> HIDE DEF result, Turn, L
      <4>1. QED
        BY <1>1, <1>6
    <3>2. <<>> \in S
      OBVIOUS
    <3> HIDE DEF result, S, L
    <3>3. QED
      BY <1>1, <3>1, <3>2
  <2>2. ASSUME NEW n \in 1 .. L, n - 1 \in A
        PROVE  n \in A
    <3> HIDE DEF result, Turn, L, S
    <3>1. result[n] = Turn(n, result[n - 1])
      BY <1>1, <1>6
    <3>2. QED
      BY <1>1, <1>2, <2>2, <3>1
  <2> HIDE DEF A, L, S, result
  <2>3. \A n \in 0 .. L : n \in A
    BY <1>1, <2>1, <2>2, Throughout
  <2>4. QED
    BY <1>1, <2>3 DEF A
<1>8. BuildKeys(namespace, name, specs, r) = result[L]
  BY DEF BuildKeys
<1>9. QED
  <2> HIDE DEF result, K
  <2>1. \A key \in Range(result[L]) : key \in K
    BY <1>7 DEF Range
  <2>2. QED
    BY <1>8, <2>1 DEF K

\* The specifications a policy in force counts by are of a preset, or given.
LEMMA KeysInForce ==
  ASSUME NEW d \in Deployments, Accepts(d.options),
         NEW i \in DOMAIN MergeConfig(d.options).policies
  PROVE  LET policy == MergeConfig(d.options).policies[i]
         IN /\ policy.bruteForce.enabled # False => policy.bruteForce.keys \in Seq(SpecsOf(d))
            /\ policy.rateLimit.enabled # False => policy.rateLimit.key \in SpecsOf(d)
<1> DEFINE policies == MergeConfig(d.options).policies
           policy == policies[i]
           explicit == Or(Read(d.options, "policies"), <<>>)
           T == SpecsOf(d)
<1>1. PICK m : /\ policy = NormalizePolicy(m, d.options)
               /\ IsPreset(m) \/ (m \in Range(explicit) /\ ValidPolicy(m))
  BY PoliciesInForce
<1> DEFINE brute == Read(m, "bruteForce")
           rate == Read(m, "rateLimit")
<1>2. /\ policy.rateLimit = NormalizeRateLimit(rate)
      /\ policy.bruteForce = NormalizeBruteForce(brute, BruteForceDisabled(d.options))
  <2> HIDE DEF policies, brute, rate
  <2>1. QED
    BY <1>1 DEF NormalizePolicy, brute, rate
<1>3. IP \in T /\ Range(PRESET_KEYS) \subseteq T /\ PRESET_KEYS \in Seq(T) /\ <<IP>> \in Seq(T)
  <2>1. IP \in T /\ Range(PRESET_KEYS) \subseteq T
    BY DEF SpecsOf
  <2>2. PRESET_KEYS \in Seq(Range(PRESET_KEYS))
    BY DEF PRESET_KEYS, Range
  <2> HIDE DEF T
  <2>3. PRESET_KEYS \in Seq(T)
    BY <2>1, <2>2
  <2>4. QED
    BY <2>1, <2>3
<1>4. ASSUME m \in Range(explicit), ValidPolicy(m)
      PROVE  /\ IsObject(brute) /\ Read(brute, "keys") \notin {Undefined, Wrong} =>
                    brute.keys \in Seq(T)
             /\ IsObject(rate) /\ Read(rate, "key") \notin {Undefined, False} => rate.key \in T
             /\ (Truthy(brute) => IsObject(brute)) /\ (Truthy(rate) => IsObject(rate))
  <2> DEFINE given == Read(d.options, "policies")
  <2>1. given # Undefined /\ explicit = given
    BY <1>4 DEF Or, Range
  <2>2. given # Wrong
    BY <2>1 DEF Accepts, ValidateParryOptions
  <2>3. IsList(given)
    BY <2>1, <2>2, DeploymentAssumption
  <2>4. IsObject(m)
    BY <1>4 DEF ValidPolicy
  <2>5. m \in PoliciesOf(d)
    <3> HIDE DEF given
    <3>1. m \in Range(given)
      BY <1>4, <2>1
    <3>2. QED
      BY <2>3, <2>4, <3>1 DEF PoliciesOf, given
  <2>6. ASSUME IsObject(brute), Read(brute, "keys") \notin {Undefined, Wrong}
        PROVE  brute.keys \in Seq(T)
    <3>1. brute \in SectionsOf(d, "bruteForce") /\ brute.keys = Read(brute, "keys")
      BY <2>5, <2>6 DEF SectionsOf, Read
    <3>2. brute.keys \in KeyListsOf(d)
      <4> HIDE DEF brute
      <4>1. QED
        BY <2>6, <3>1 DEF KeyListsOf
    <3> DEFINE keys == brute.keys
    <3> HIDE DEF keys, brute, T
    <3>3. keys \in Seq(Range(keys))
      BY <3>2, SpecAssumption DEF keys, IsList, IsText
    <3>4. Range(keys) \subseteq T
      BY <3>2 DEF keys, T, SpecsOf
    <3>5. QED
      <4>1. keys \in Seq(T)
        BY <3>3, <3>4
      <4>2. QED
        BY <4>1 DEF keys
  <2>7. ASSUME IsObject(rate), Read(rate, "key") \notin {Undefined, False}
        PROVE  rate.key \in T
    <3>1. rate \in SectionsOf(d, "rateLimit") /\ rate.key = Read(rate, "key")
      BY <2>5, <2>7 DEF SectionsOf, Read
    <3> HIDE DEF rate
    <3>2. QED
      BY <2>7, <3>1 DEF SpecsOf
  <2>8. (Truthy(brute) => IsObject(brute)) /\ (Truthy(rate) => IsObject(rate))
    BY <1>4 DEF ValidPolicy, Section, Truthy
  <2> HIDE DEF brute, rate, T
  <2>9. QED
    BY <2>6, <2>7, <2>8
<1>5. ASSUME IsPreset(m)
      PROVE  /\ brute.keys = PRESET_KEYS /\ Read(brute, "keys") = PRESET_KEYS
             /\ rate.key = IP /\ Read(rate, "key") = IP
             /\ IsObject(brute) => brute.keys = PRESET_KEYS
  <2>1. PICK k \in DOMAIN COMMON_AUTH_PATHS, prefix \in {"recommended", "strict"},
             a \in Nat \ {0}, b \in Nat \ {0}, c \in Nat \ {0} :
                m = CreateAuthPolicies(prefix, a, b, c)[k]
    BY <1>5 DEF IsPreset
  <2>2. QED
    BY <2>1 DEF CreateAuthPolicies, Read
<1>6. ASSUME policy.bruteForce.enabled # False
      PROVE  policy.bruteForce.keys \in Seq(T)
  <2>1. ~BruteForceDisabled(d.options) /\ Truthy(brute) /\ Read(brute, "enabled") # False
    <3> HIDE DEF policies, brute
    <3>1. QED
      BY <1>2, <1>6 DEF NormalizeBruteForce, BRUTE_FORCE_DEFAULTS
  <2>2. policy.bruteForce.keys = IF Read(brute, "keys") \in {Undefined, Wrong, <<>>}
                                 THEN <<IP>> ELSE brute.keys
    <3> HIDE DEF policies, brute
    <3>1. policy.bruteForce =
            [Spread(BRUTE_FORCE_DEFAULTS, brute) EXCEPT
                !.enabled = True,
                !.keys = IF Read(brute, "keys") \in {Undefined, Wrong, <<>>}
                         THEN BRUTE_FORCE_DEFAULTS.keys ELSE brute.keys]
      BY <1>2, <2>1 DEF NormalizeBruteForce
    <3>2. "keys" \in DOMAIN Spread(BRUTE_FORCE_DEFAULTS, brute)
      BY DEF Spread, BRUTE_FORCE_DEFAULTS
    <3>3. QED
      BY <3>1, <3>2 DEF BRUTE_FORCE_DEFAULTS
  <2> HIDE DEF policies, brute, T, explicit
  <2>3. QED
    BY <1>1, <1>3, <1>4, <1>5, <2>1, <2>2
<1>7. ASSUME policy.rateLimit.enabled # False
      PROVE  policy.rateLimit.key \in T
  <2>1. Truthy(rate) /\ Read(rate, "enabled") # False
    <3> HIDE DEF policies, rate
    <3>1. QED
      BY <1>2, <1>7 DEF NormalizeRateLimit
  <2>2. policy.rateLimit.key = Or(Read(rate, "key"), IP)
    <3> HIDE DEF policies, rate
    <3>1. QED
      BY <1>2, <2>1 DEF NormalizeRateLimit
  <2>3. Read(rate, "key") \notin {Undefined, False} => rate.key = Read(rate, "key")
    BY DEF Read
  <2> HIDE DEF policies, rate, T, explicit
  <2>4. QED
    BY <1>1, <1>3, <1>4, <1>5, <2>1, <2>2, <2>3 DEF Or
<1>8. QED
  BY <1>6, <1>7

\* A counter in use was made of a specification and a request of the deployment.
MadeOf(u, namespace, policy, s, r) ==
    /\ u = Use(BuildKey(namespace, policy.name, s, r), policy, s, r)
    /\ u.key # Undefined
Counted(u) ==
    \E namespace, policy : \E s \in SpecsOf(deployment), r \in Requests(deployment) :
        MadeOf(u, namespace, policy, s, r)
CountedOK == \A u \in counted : Counted(u)

LEMMA UsesAreMade ==
  ASSUME AppInv, CountedOK, lastIndex \in LastIndices,
         NEW r \in Requests(deployment), Receive(r)
  PROVE  CountedOK'
<1> DEFINE policy == parry.policies[chosen']
           bf == BuildBruteForceKeys(policy, r)
           rl == BuildRouteRateLimitKey(policy, r)
           T == SpecsOf(deployment)
<1>1. /\ deployment \in Deployments /\ Accepts(deployment.options)
      /\ parry = MergeConfig(deployment.options)
      /\ deployment' = deployment
  BY DEF AppInv, Receive
<1>2. counted' = counted \cup (IF chosen' = 0 THEN {} ELSE UsesOf(policy, r))
  BY DEF Receive
<1>3. chosen' # 0 => chosen' \in DOMAIN parry.policies
  BY ReceivedByPolicy
<1>4. ASSUME chosen' # 0, NEW u \in UsesOf(policy, r)
      PROVE  Counted(u)
  <2>1. /\ policy.bruteForce.enabled # False => policy.bruteForce.keys \in Seq(T)
        /\ policy.rateLimit.enabled # False => policy.rateLimit.key \in T
    BY <1>1, <1>3, <1>4, KeysInForce
  <2> HIDE DEF policy
  <2>2. CASE \E s \in Range(policy.bruteForce.keys) :
               /\ BuildKey("bf", policy.name, s, r) \in Range(bf)
               /\ u = Use(BuildKey("bf", policy.name, s, r), policy, s, r)
    <3>1. PICK s \in Range(policy.bruteForce.keys) :
               /\ BuildKey("bf", policy.name, s, r) \in Range(bf)
               /\ u = Use(BuildKey("bf", policy.name, s, r), policy, s, r)
      BY <2>2
    <3>2. policy.bruteForce.enabled # False
          /\ bf = BuildKeys("bf", policy.name, policy.bruteForce.keys, r)
      BY <3>1 DEF BuildBruteForceKeys, Range
    <3>3. s \in T
      <4> HIDE DEF T
      <4>1. QED
        BY <2>1, <3>1, <3>2 DEF Range
    <3>4. BuildKey("bf", policy.name, s, r) # Undefined
      <4> DEFINE keys == BuildKeys("bf", policy.name, policy.bruteForce.keys, r)
      <4>1. \A key \in Range(keys) : key # Undefined
        <5> HIDE DEF T
        <5>1. QED
          BY <2>1, <3>2, KeysArePushed
      <4> HIDE DEF keys
      <4>2. QED
        BY <3>1, <3>2, <4>1 DEF keys
    <3>5. MadeOf(u, "bf", policy, s, r)
      BY <3>1, <3>4 DEF MadeOf, Use
    <3>6. QED
      BY <3>3, <3>5 DEF Counted
  <2>3. CASE \E key \in Range(rl) : u = Use(key, policy, policy.rateLimit.key, r)
    <3>1. PICK key \in Range(rl) : u = Use(key, policy, policy.rateLimit.key, r)
      BY <2>3
    <3> DEFINE s == policy.rateLimit.key
    <3>2. policy.rateLimit.enabled # False /\ rl = BuildKeys("route-rl", policy.name, <<s>>, r)
      BY <3>1 DEF BuildRouteRateLimitKey, Range
    <3>3. s \in T
      BY <2>1, <3>2
    <3>4. key # Undefined /\ \E t \in {s} : key = BuildKey("route-rl", policy.name, t, r)
      <4> DEFINE specs == <<s>>
                 keys == BuildKeys("route-rl", policy.name, specs, r)
      <4>1. specs \in Seq({s})
        OBVIOUS
      <4>2. \A k \in Range(keys) :
              k # Undefined /\ \E t \in {s} : k = BuildKey("route-rl", policy.name, t, r)
        <5> HIDE DEF s, specs
        <5>1. QED
          BY <4>1, KeysArePushed
      <4> HIDE DEF keys, s
      <4>3. QED
        BY <3>1, <3>2, <4>2 DEF keys
    <3>5. MadeOf(u, "route-rl", policy, s, r)
      BY <3>1, <3>4 DEF MadeOf, Use
    <3>6. QED
      BY <3>3, <3>5 DEF Counted
  <2>4. QED
    BY <1>4, <2>2, <2>3 DEF UsesOf
<1>5. QED
  <2>1. \A u \in counted' : Counted(u)
    <3> HIDE DEF policy
    <3>1. QED
      BY <1>2, <1>4 DEF CountedOK
  <2>2. QED
    BY <1>1, <2>1 DEF CountedOK, Counted

LEMMA CountedAreMade ==
  ASSUME AppInv, CountedOK, lastIndex \in LastIndices, [Next]_vars
  PROVE  CountedOK'
<1>1. ASSUME NEW r \in Requests(deployment), Receive(r)
      PROVE  CountedOK'
  BY <1>1, UsesAreMade
<1>2. CASE UNCHANGED <<counted, deployment>>
  BY <1>2 DEF CountedOK, Counted
<1>3. QED
  BY <1>1, <1>2 DEF Next, vars, clientVars, CreateParry, MountAdmin, Inspect, Respond,
                    AskAdmin, AdminReturns

\* Two requests say the same of a part, but for the letters that do not count
\* there, exactly when they are about the same person.
LEMMA PartsTellPeople ==
  ASSUME NEW d \in Deployments, NEW r \in Requests(d), NEW q \in Requests(d), NEW part,
         NormalizeScalar(Read(r.fields, part)) # Undefined,
         NormalizeScalar(Read(q.fields, part)) # Undefined
  PROVE  LET x == NormalizeScalar(Read(r.fields, part))
             y == NormalizeScalar(Read(q.fields, part))
         IN /\ IsText(x) /\ IsText(Folded(part, x)) /\ Folded(part, x) # Undefined
            /\ PersonOf(part, r) = PersonOf(part, q) <=> Folded(part, x) = Folded(part, y)
<1> DEFINE a == [part |-> part, raw |-> r.fields[part]]
           b == [part |-> part, raw |-> q.fields[part]]
           Says(f) == f \in FieldsOf(d) /\ NormalizeScalar(f.raw) # Undefined
<1>1. ASSUME NEW z \in Requests(d), NormalizeScalar(Read(z.fields, part)) # Undefined
      PROVE  /\ Says([part |-> part, raw |-> z.fields[part]])
             /\ Read(z.fields, part) = z.fields[part]
             /\ PersonOf(part, z) = z.fields[part].person
  <2>1. Read(z.fields, part) # Undefined
    BY <1>1 DEF NormalizeScalar
  <2>2. part \in DOMAIN z.fields /\ Read(z.fields, part) = z.fields[part]
    BY <2>1 DEF Read
  <2>3. [part |-> part, raw |-> z.fields[part]] \in FieldsOf(d)
    BY <2>2 DEF FieldsOf
  <2>4. PersonOf(part, z) = z.fields[part].person
    BY <2>1, <2>2 DEF PersonOf
  <2>5. QED
    BY <1>1, <2>2, <2>3, <2>4
<1>2. Says(a) /\ Says(b)
  BY <1>1
<1>3. LET x == NormalizeScalar(a.raw)
          y == NormalizeScalar(b.raw)
      IN /\ IsText(x) /\ IsText(Folded(a.part, x))
         /\ Folded(a.part, x) # Undefined
         /\ a.part = b.part =>
              (a.raw.person = b.raw.person <=> Folded(a.part, x) = Folded(a.part, y))
  <2> HIDE DEF a, b
  <2>1. QED
    BY <1>2, FieldAssumption
<1>4. QED
  BY <1>1, <1>3

\* The operator gives the keys a function names a type of their own.
TypesAreOwn ==
    \A d \in Deployments : \A s, t \in SpecsOf(d) :
        s.type = t.type /\ "custom" \in DOMAIN s =>
            "custom" \in DOMAIN t /\ s.custom = t.custom

\* A key of parts says every part, folded.
LEMMA KeyOfParts ==
  ASSUME NEW u, NEW namespace, NEW policy, NEW d \in Deployments, NEW s \in SpecsOf(d),
         NEW r \in Requests(d), MadeOf(u, namespace, policy, s, r), "custom" \notin DOMAIN s
  PROVE  /\ u.values = Values(s, r) /\ DOMAIN u.values = DOMAIN s.parts
         /\ u.key = CreateKey(namespace, policy.name, s.type, Joined(u.values))
         /\ \A i \in DOMAIN s.parts :
              LET text == NormalizeScalar(Read(r.fields, s.parts[i]))
              IN text # Undefined /\ u.values[i] = Folded(s.parts[i], text)
<1> DEFINE key == BuildKey(namespace, policy.name, s, r)
           Text(i) == NormalizeScalar(Read(r.fields, s.parts[i]))
<1>1. PartsOf(s) = s.parts
  BY DEF PartsOf
<1>2. u.key = key /\ key # Undefined /\ u.values = Values(s, r)
  <2> HIDE DEF key
  <2>1. QED
    BY <1>1 DEF MadeOf, Use, Values, key
<1>3. /\ Range(s.parts) \intersect Forbidden = {} /\ Undefined \notin Range(Values(s, r))
      /\ key = CreateKey(namespace, policy.name, s.type, Joined(Values(s, r)))
  BY <1>2 DEF BuildKey
<1>4. ASSUME NEW i \in DOMAIN s.parts
      PROVE  Text(i) # Undefined /\ Values(s, r)[i] = Folded(s.parts[i], Text(i))
  <2>1. Values(s, r)[i] = ResolveValue(s.parts[i], r) /\ i \in DOMAIN Values(s, r)
    BY DEF Values
  <2>2. ResolveValue(s.parts[i], r) # Undefined
    <3>1. Values(s, r)[i] \in Range(Values(s, r))
      BY <2>1 DEF Range
    <3>2. QED
      BY <1>3, <2>1, <3>1
  <2>3. QED
    BY <2>1, <2>2 DEF ResolveValue
<1>5. DOMAIN Values(s, r) = DOMAIN s.parts
  BY DEF Values
<1>6. QED
  <2> HIDE DEF key
  <2>1. QED
    BY <1>2, <1>3, <1>4, <1>5

\* A key names its policy and its type as sanitizeType leaves them.
LEMMA KeysTellNames ==
  ASSUME NEW u, NEW namespace, NEW policy, NEW s, NEW r, MadeOf(u, namespace, policy, s, r)
  PROVE  /\ u.policy = policy.name /\ u.type = s.type
         /\ u.key.policy = Sanitized[u.policy] /\ u.key.type = Sanitized[u.type]
<1> DEFINE key == BuildKey(namespace, policy.name, s, r)
<1>1. u.key = key /\ key # Undefined /\ u.policy = policy.name /\ u.type = s.type
  <2> HIDE DEF key
  <2>1. QED
    BY DEF MadeOf, Use, key
<1>2. \E value : key = CreateKey(namespace, policy.name, s.type, value)
  BY <1>1 DEF BuildKey
<1> HIDE DEF key
<1>3. QED
  BY <1>1, <1>2 DEF CreateKey

\* And its people, when nobody's values are cut elsewhere.
LEMMA KeysTellPeople ==
  ASSUME TypesAreOwn, NEW d \in Deployments,
         NEW a, NEW an, NEW ap, NEW s \in SpecsOf(d), NEW r \in Requests(d),
         MadeOf(a, an, ap, s, r),
         NEW b, NEW bn, NEW bp, NEW t \in SpecsOf(d), NEW q \in Requests(d),
         MadeOf(b, bn, bp, t, q),
         a.key = b.key, a.type = b.type, SamePlaces(a, b)
  PROVE  a.people = b.people
<1> DEFINE Says(u, n, p, z, y) ==
        /\ u.type = z.type
        /\ u.people = [i \in DOMAIN PartsOf(z) |-> PersonOf(PartsOf(z)[i], y)]
        /\ "custom" \in DOMAIN z =>
             /\ NormalizeScalar(Read(y.fields, z.custom)) # Undefined
             /\ u.key.value = NormalizeScalar(Read(y.fields, z.custom))
<1>1. ASSUME NEW u, NEW n, NEW p, NEW z \in SpecsOf(d), NEW y \in Requests(d),
             MadeOf(u, n, p, z, y)
      PROVE  Says(u, n, p, z, y)
  <2> DEFINE key == BuildKey(n, p.name, z, y)
  <2>1. /\ u.key = key /\ key # Undefined /\ u.type = z.type
        /\ u.people = [i \in DOMAIN PartsOf(z) |-> PersonOf(PartsOf(z)[i], y)]
    <3> HIDE DEF key
    <3>1. QED
      BY <1>1 DEF MadeOf, Use, key
  <2>2. "custom" \in DOMAIN z =>
          /\ NormalizeScalar(Read(y.fields, z.custom)) # Undefined
          /\ key = CreateKey(n, p.name, z.type, NormalizeScalar(Read(y.fields, z.custom)))
    BY <2>1 DEF BuildKey
  <2> HIDE DEF key
  <2>3. QED
    BY <2>1, <2>2 DEF CreateKey
<1>2. Says(a, an, ap, s, r) /\ Says(b, bn, bp, t, q)
  BY <1>1
<1>3. s.type = t.type
  BY <1>2
<1>4. CASE "custom" \in DOMAIN s \cup DOMAIN t
  <2>1. "custom" \in DOMAIN s /\ "custom" \in DOMAIN t /\ s.custom = t.custom
    BY <1>3, <1>4 DEF TypesAreOwn
  <2>2. PersonOf(s.custom, r) = PersonOf(s.custom, q)
    <3>1. /\ NormalizeScalar(Read(r.fields, s.custom)) # Undefined
          /\ NormalizeScalar(Read(r.fields, s.custom)) = NormalizeScalar(Read(q.fields, s.custom))
      BY <1>2, <2>1
    <3>2. QED
      BY <3>1, PartsTellPeople
  <2>3. PartsOf(s) = <<s.custom>> /\ PartsOf(t) = <<s.custom>>
    BY <2>1 DEF PartsOf
  <2>4. [i \in DOMAIN PartsOf(s) |-> PersonOf(PartsOf(s)[i], r)]
        = [i \in DOMAIN PartsOf(t) |-> PersonOf(PartsOf(t)[i], q)]
    BY <2>2, <2>3
  <2>5. QED
    BY <1>2, <1>3, <2>4
<1>5. CASE "custom" \notin DOMAIN s \cup DOMAIN t
  <2> DEFINE parts == s.parts
  <2>1. /\ t.parts = parts /\ PartsOf(s) = parts /\ PartsOf(t) = parts /\ IsText(parts)
        /\ "custom" \notin DOMAIN s /\ "custom" \notin DOMAIN t
    BY <1>3, <1>5, SpecAssumption DEF PartsOf
  <2>2. /\ a.key = CreateKey(an, ap.name, s.type, Joined(a.values))
        /\ a.values = Values(s, r)
        /\ \A i \in DOMAIN parts :
             LET text == NormalizeScalar(Read(r.fields, parts[i]))
             IN text # Undefined /\ a.values[i] = Folded(parts[i], text)
    BY <2>1, KeyOfParts
  <2>3. /\ b.key = CreateKey(bn, bp.name, t.type, Joined(b.values))
        /\ b.values = Values(t, q)
        /\ \A i \in DOMAIN parts :
             LET text == NormalizeScalar(Read(q.fields, parts[i]))
             IN text # Undefined /\ b.values[i] = Folded(parts[i], text)
    <3>1. /\ b.key = CreateKey(bn, bp.name, t.type, Joined(b.values))
          /\ b.values = Values(t, q)
          /\ \A i \in DOMAIN t.parts :
               LET text == NormalizeScalar(Read(q.fields, t.parts[i]))
               IN text # Undefined /\ b.values[i] = Folded(t.parts[i], text)
      <4>1. "custom" \notin DOMAIN t
        BY <2>1
      <4>2. QED
        BY <4>1, KeyOfParts
    <3>2. t.parts = parts
      BY <2>1
    <3> HIDE DEF parts
    <3>3. QED
      BY <3>1, <3>2
  <2>4. Joined(a.values) = Joined(b.values)
    <3>1. a.key.value = Joined(a.values)
      BY <2>2 DEF CreateKey
    <3>2. b.key.value = Joined(b.values)
      BY <2>3 DEF CreateKey
    <3>3. QED
      BY <3>1, <3>2
  <2>5. /\ Len(parts) \in Nat /\ DOMAIN parts = 1 .. Len(parts)
        /\ Len(a.values) = Len(parts) /\ Len(b.values) = Len(parts)
        /\ DOMAIN a.values = DOMAIN parts /\ DOMAIN b.values = DOMAIN parts
    <3>1. Len(parts) \in Nat /\ DOMAIN parts = 1 .. Len(parts)
      <4> HIDE DEF parts
      <4>1. QED
        BY <2>1 DEF IsText
    <3>2. DOMAIN a.values = DOMAIN parts /\ DOMAIN b.values = DOMAIN parts
      BY <2>1, <2>2, <2>3 DEF Values
    <3>3. \E f, g : a.values = [i \in 1 .. Len(parts) |-> f[i]]
                    /\ b.values = [i \in 1 .. Len(parts) |-> g[i]]
      BY <2>1, <2>2, <2>3, <3>1 DEF Values
    <3> HIDE DEF parts
    <3>4. QED
      BY <3>1, <3>2, <3>3
  <2>6. ASSUME NEW i \in DOMAIN parts
        PROVE  /\ IsText(a.values[i]) /\ IsText(b.values[i])
               /\ PersonOf(parts[i], r) = PersonOf(parts[i], q) <=> a.values[i] = b.values[i]
    <3>1. /\ NormalizeScalar(Read(r.fields, parts[i])) # Undefined
          /\ NormalizeScalar(Read(q.fields, parts[i])) # Undefined
      BY <2>2, <2>3
    <3> HIDE DEF parts
    <3>2. QED
      BY <2>2, <2>3, <3>1, PartsTellPeople
  <2>7. \A i \in DOMAIN parts : a.values[i] = b.values[i]
    <3> HIDE DEF parts
    <3>1. \A i \in 1 .. Len(parts) : Len(a.values[i]) = Len(b.values[i])
      BY <2>5 DEF SamePlaces
    <3> DEFINE v == a.values
               w == b.values
    <3>2. /\ Len(v) \in Nat /\ Len(w) = Len(v) /\ Joined(v) = Joined(w)
          /\ \A i \in 1 .. Len(v) : IsText(v[i]) /\ IsText(w[i]) /\ Len(v[i]) = Len(w[i])
      BY <2>4, <2>5, <2>6, <3>1
    <3> HIDE DEF v, w
    <3>3. \A i \in 1 .. Len(v) : v[i] = w[i]
      BY <3>2, JoinIsUnique
    <3>4. QED
      BY <2>5, <3>3 DEF v, w
  <2>8. [i \in DOMAIN parts |-> PersonOf(parts[i], r)] = [i \in DOMAIN parts |-> PersonOf(parts[i], q)]
    BY <2>6, <2>7
  <2>9. QED
    BY <1>2, <1>3, <2>1, <2>8
<1>6. QED
  BY <1>4, <1>5

\* And nobody has a second one.
LEMMA PeopleShareKeys ==
  ASSUME TypesAreOwn, NEW d \in Deployments,
         NEW a, NEW an, NEW ap, NEW s \in SpecsOf(d), NEW r \in Requests(d),
         MadeOf(a, an, ap, s, r),
         NEW b, NEW bn, NEW bp, NEW t \in SpecsOf(d), NEW q \in Requests(d),
         MadeOf(b, bn, bp, t, q),
         a.key.namespace = b.key.namespace, ~a.custom, a.policy = b.policy,
         a.type = b.type, a.people = b.people
  PROVE  a.key = b.key
<1>1. /\ "custom" \notin DOMAIN s /\ ap.name = bp.name /\ s.type = t.type
      /\ a.people = [i \in DOMAIN PartsOf(s) |-> PersonOf(PartsOf(s)[i], r)]
      /\ b.people = [i \in DOMAIN PartsOf(t) |-> PersonOf(PartsOf(t)[i], q)]
  BY DEF MadeOf, Use
<1>2. "custom" \notin DOMAIN t
  BY <1>1 DEF TypesAreOwn
<1> DEFINE parts == s.parts
<1>3. t.parts = parts /\ PartsOf(s) = parts /\ PartsOf(t) = parts
  BY <1>1, <1>2, SpecAssumption DEF PartsOf
<1>4. /\ a.key = CreateKey(an, ap.name, s.type, Joined(a.values))
      /\ a.values = Values(s, r)
      /\ \A i \in DOMAIN parts :
           LET text == NormalizeScalar(Read(r.fields, parts[i]))
           IN text # Undefined /\ a.values[i] = Folded(parts[i], text)
  BY <1>1, KeyOfParts
<1>5. /\ b.key = CreateKey(bn, bp.name, t.type, Joined(b.values))
      /\ b.values = Values(t, q)
      /\ \A i \in DOMAIN parts :
           LET text == NormalizeScalar(Read(q.fields, parts[i]))
           IN text # Undefined /\ b.values[i] = Folded(parts[i], text)
  BY <1>2, <1>3, KeyOfParts
<1>6. ASSUME NEW i \in DOMAIN parts
      PROVE  a.values[i] = b.values[i]
  <2>1. PersonOf(parts[i], r) = PersonOf(parts[i], q)
    <3> HIDE DEF parts
    <3>1. a.people[i] = b.people[i]
      OBVIOUS
    <3>2. QED
      BY <1>1, <1>3, <3>1
  <2>2. /\ NormalizeScalar(Read(r.fields, parts[i])) # Undefined
        /\ NormalizeScalar(Read(q.fields, parts[i])) # Undefined
    BY <1>4, <1>5
  <2> HIDE DEF parts
  <2>3. QED
    BY <1>4, <1>5, <2>1, <2>2, PartsTellPeople
<1>7. a.values = b.values
  <2>1. \E f, g : a.values = [i \in DOMAIN parts |-> f[i]] /\ b.values = [i \in DOMAIN parts |-> g[i]]
    BY <1>3, <1>4, <1>5 DEF Values
  <2> HIDE DEF parts
  <2>2. QED
    BY <1>6, <2>1
<1>8. an = bn
  BY <1>4, <1>5 DEF CreateKey
<1>9. QED
  BY <1>1, <1>4, <1>5, <1>7, <1>8

CountedInv == lastIndex \in LastIndices /\ CountedOK

LEMMA CountedInvariance == Spec => [](AppInv /\ CountedInv)
<1>1. Init => CountedInv
  BY DEF Init, LastIndices, CountedOK, CountedInv
<1>2. AppInv /\ CountedInv /\ [Next]_vars => CountedInv'
  BY PlacesStayPlaces, CountedAreMade DEF CountedInv
<1>3. QED
  BY <1>1, <1>2, AppInvariance, PTL DEF Spec

\* Whatever the policies and whoever the clients: a counter is shared by two
\* policies or types only where a name is altered, and by two people only where
\* a separator in a value moves the cut, provided the operator's functions do not
\* call two things the same (key-builder.js 43-94, 144-157).
THEOREM SharingIsExplained ==
  ASSUME TypesAreOwn
  PROVE  Spec => []SharedOnlyByNameOrSeparator
<1>1. AppInv /\ CountedInv => SharedOnlyByNameOrSeparator
  <2> SUFFICES ASSUME AppInv, CountedInv, NEW a \in counted, NEW b \in counted, a.key = b.key
               PROVE  /\ (a.policy = b.policy /\ a.type = b.type) \/ Renamed(a) \/ Renamed(b)
                      /\ a.type = b.type => a.people = b.people \/ ~SamePlaces(a, b)
    BY DEF SharedOnlyByNameOrSeparator
  <2>1. deployment \in Deployments
    BY DEF AppInv
  <2>2. Counted(a) /\ Counted(b)
    BY DEF CountedInv, CountedOK
  <2>3. PICK an, ap : \E s \in SpecsOf(deployment), r \in Requests(deployment) :
                        MadeOf(a, an, ap, s, r)
    BY <2>2 DEF Counted
  <2>4. PICK s \in SpecsOf(deployment), r \in Requests(deployment) : MadeOf(a, an, ap, s, r)
    BY <2>3
  <2>5. PICK bn, bp : \E t \in SpecsOf(deployment), q \in Requests(deployment) :
                        MadeOf(b, bn, bp, t, q)
    BY <2>2 DEF Counted
  <2>6. PICK t \in SpecsOf(deployment), q \in Requests(deployment) : MadeOf(b, bn, bp, t, q)
    BY <2>5
  <2>7. (a.policy = b.policy /\ a.type = b.type) \/ Renamed(a) \/ Renamed(b)
    <3>1. /\ a.key.policy = Sanitized[a.policy] /\ a.key.type = Sanitized[a.type]
          /\ b.key.policy = Sanitized[b.policy] /\ b.key.type = Sanitized[b.type]
      BY <2>4, <2>6, KeysTellNames
    <3>2. QED
      BY <3>1 DEF Renamed
  <2>8. a.type = b.type => a.people = b.people \/ ~SamePlaces(a, b)
    BY <2>1, <2>4, <2>6, KeysTellPeople
  <2>9. QED
    BY <2>7, <2>8
<1>2. QED
  BY <1>1, CountedInvariance, PTL

\* Whatever the policies: nobody gets a second counter by writing the same in
\* another way (key-builder.js 96-142).
THEOREM PeopleKeepTheirCounter ==
  ASSUME TypesAreOwn
  PROVE  Spec => []NoSecondCounter
<1>1. AppInv /\ CountedInv => NoSecondCounter
  <2> SUFFICES ASSUME AppInv, CountedInv, NEW a \in counted, NEW b \in counted,
                      a.key.namespace = b.key.namespace, ~a.custom, a.policy = b.policy,
                      a.type = b.type, a.people = b.people
               PROVE  a.key = b.key
    BY DEF NoSecondCounter
  <2>1. deployment \in Deployments
    BY DEF AppInv
  <2>2. Counted(a) /\ Counted(b)
    BY DEF CountedInv, CountedOK
  <2>3. PICK an, ap : \E s \in SpecsOf(deployment), r \in Requests(deployment) :
                        MadeOf(a, an, ap, s, r)
    BY <2>2 DEF Counted
  <2>4. PICK s \in SpecsOf(deployment), r \in Requests(deployment) : MadeOf(a, an, ap, s, r)
    BY <2>3
  <2>5. PICK bn, bp : \E t \in SpecsOf(deployment), q \in Requests(deployment) :
                        MadeOf(b, bn, bp, t, q)
    BY <2>2 DEF Counted
  <2>6. PICK t \in SpecsOf(deployment), q \in Requests(deployment) : MadeOf(b, bn, bp, t, q)
    BY <2>5
  <2>7. QED
    BY <2>1, <2>4, <2>6, PeopleShareKeys
<1>2. QED
  BY <1>1, CountedInvariance, PTL
=============================================================================
