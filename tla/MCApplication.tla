---------------------------- MODULE MCApplication ----------------------------
(***************************************************************************)
(* Deployments of four kinds: one limit varied at a time; lists of         *)
(* policies, for the choice and for the keys; the settings of the scans;   *)
(* ways to mount the admin router.  Each has the traffic that matters.     *)
(***************************************************************************)
EXTENDS Application

CONSTANTS ann, bob, eve, gateway, ops, stranger

Deploy(kind, options) ==
    [kind |-> kind, options |-> options, router |-> Undefined, production |-> FALSE]

-----------------------------------------------------------------------------
(* Policies and keys. *)

MCPatterns == {"login", "log*", "/o/g"}
MCPaths == {"/login", "/logout"}
MCFound ==
    "login" :> ("/login" :> {<<0, 6>>} @@ "/logout" :> {}) @@
    "log*" :> [p \in MCPaths |-> {<<0, 4>>}] @@
    "/o/g" :> ("/login" :> {<<2, 3>>} @@ "/logout" :> {<<2, 3>>, <<5, 6>>})
MCAuthPaths == <<"login">>
MCPresetName ==
    "recommended" :> ("login" :> "recommended-auth-login") @@
    "strict" :> ("login" :> "strict-auth-login")

Names == {"a", "b", "a b", "a-b"} \cup
         {MCPresetName[x]["login"] : x \in {"recommended", "strict"}}
Types == {"ip", "body.email", "ip+body.email", "body.username", "ip+body.username",
          "body.password", "mine", "body.email ", "tenant"}
MCSanitized == "a b" :> "a-b" @@ "body.email " :> "body.email-" @@ [n \in Names \cup Types |-> n]

Raw(wrapped, text, person) == [wrapped |-> wrapped, text |-> text, person |-> person]
\* An IPv6 address that goes on where another one ends, and an email that
\* begins with what the one has more than the other.
Ips == {Raw("scalar", <<"x">>, stranger), Raw("scalar", <<"x", "1">>, ops)}
Emails ==
    {Raw("scalar", <<"ann">>, ann), Raw("list", <<"ANN">>, ann),
     Raw("scalar", <<"bob">>, bob), Raw("scalar", <<"1", "bob">>, eve),
     Raw("object", <<>>, Undefined), Undefined}
MCLower == <<"ANN">> :> <<"ann">> @@ [t \in {<<"ann">>, <<"bob">>, <<"1", "bob">>} |-> t]

Spec1(type, parts) == [type |-> type, parts |-> parts]
KeyLists ==
    {<<>>, <<IP, Spec1("body.email", <<"body.email">>)>>,
     <<Spec1("ip+body.email", <<"ip", "body.email">>), Spec1("body.password", <<"body.password">>)>>,
     <<[type |-> "mine", custom |-> "body.email"], Spec1("body.email ", <<"body.email">>)>>}

Policy(name, match) == [name |-> name, match |-> match]
On(method, path) == [method |-> method, path |-> path]
Brute(keys) == [enabled |-> True, maxAttempts |-> 1, keys |-> keys]

ChoiceLists ==
    {<<Policy("a", On({"POST"}, <<"/o/g">>)), Policy("b", [path |-> <<"log*">>])>>,
     <<Policy("a", [path |-> <<"/o/g", "login">>]), Policy("b", On({"GET"}, <<"/o/g">>))>>,
     <<Policy("a", [method |-> {"GET", "POST"}]), Policy("a", [path |-> <<"login">>]),
       Policy("b", [path |-> <<"log*">>])>>}
KeyedLists ==
    {<<Policy("a b", [path |-> <<"login">>]) @@ [bruteForce |-> Brute(keys)],
       Policy("a-b", [path |-> <<"log*">>]) @@ [bruteForce |-> Brute(keys),
         rateLimit |-> [max |-> 1, key |-> Spec1("ip+body.email", <<"ip", "body.email">>)]]>> :
        keys \in KeyLists}

Routing ==
    {Deploy("choice", [policies |-> l]) : l \in ChoiceLists}
    \cup {Deploy("keys", [policies |-> l]) : l \in KeyedLists}
    \cup {Deploy("keys", [preset |-> x] @@ o) : x \in {"recommended", "strict", "other"},
            o \in {<<>>, [bruteForce |-> False], [bruteForce |-> [enabled |-> False]],
                   [policies |-> <<Policy("recommended-auth-login", [path |-> <<"log*">>])>>]}}

Bare ==
    [parent |-> <<0, 0, 0, 0>>, kind |-> <<"object", "object", "none", "leaf">>,
     key |-> <<"", "", "", "">>, text |-> <<"", "", "", "plain">>]
Ask(method, path, fields) ==
    [method |-> method, path |-> path, fields |-> fields, forest |-> Bare]
ChoiceRequests ==
    {Ask(m, p, [ip |-> Raw("scalar", <<"x">>, stranger)]) : m \in {"GET", "POST"}, p \in MCPaths}
KeyRequests ==
    {Ask("POST", p, "ip" :> ip @@ "body.email" :> e) : p \in MCPaths, ip \in Ips, e \in Emails}

-----------------------------------------------------------------------------
(* Limits. *)

Values4 == {Undefined, Wrong, 0, 1}
LimitPlaces ==
    {<<f>> : f \in {"maxRequests", "windowMs", "banDurationMs", "suspiciousThreshold",
                    "maxObjectDepth"}}
    \cup {<<"rateLimit", f>> : f \in {"max", "maxRequests", "windowMs"}}
    \cup {<<"requestShape", f>> : f \in {"maxDepth", "maxKeys", "maxArrayLength",
                                         "maxStringLength"}}
    \cup {<<"events", "maxEvents">>, <<"admin", "path">>, <<"requestId", "header">>,
          <<"headers", "scan">>, <<"trustedProxies">>, <<"nosql", "enabled">>}
PolicyPlaces ==
    {<<"rateLimit", f>> : f \in {"max", "maxRequests", "windowMs"}}
    \cup {<<"bruteForce", f>> : f \in {"maxAttempts", "windowMs", "blockDurationMs"}}
At(place, value) ==
    IF Len(place) = 1 THEN place[1] :> value ELSE place[1] :> (place[2] :> value)
Limits ==
    {Deploy("limits", At(p, v)) : p \in LimitPlaces, v \in Values4}
    \cup {Deploy("limits", [policies |-> <<At(p, v) @@ Policy("a", [path |-> <<"login">>])>>]) :
            p \in PolicyPlaces, v \in Values4}
    \cup {Deploy("limits", p :> v) : v \in {Undefined, Wrong, True, False},
            p \in {"rateLimit", "requestShape", "events", "bruteForce", "headers", "nosql"}}
    \cup {Deploy("limits", [policies |-> <<p>>]) : p \in
            {Wrong, Policy(Wrong, [path |-> <<"login">>]), Policy("a", <<>>), Policy("a", Wrong),
             Policy("a", [method |-> {}]), Policy("a", [path |-> <<>>]),
             Policy("a", [path |-> <<"login">>]) @@ [rateLimit |-> False]}}

-----------------------------------------------------------------------------
(* Scans: the depths in the code are 8; here the search for operators stops *)
(* at 1, and the guard and the collection where a deployment says.          *)

Shape(depth, n) ==
    [enabled |-> True, maxDepth |-> depth, maxKeys |-> n, maxArrayLength |-> n,
     maxStringLength |-> n]
ScanOptions(depth, n, objectDepth) ==
    [requestShape |-> Shape(depth, n), maxObjectDepth |-> objectDepth]
Allow(path) == [nosql |-> [allowedOperators |-> path :> {"$ne"}]]
Scans ==
    {Deploy("scan", o @@ ScanOptions(1, 4, 1)) : o \in
        {<<>>, [sql |-> False], [xss |-> Undefined], [nosql |-> False],
         [pathTraversal |-> [enabled |-> False]], [headers |-> [scan |-> {}]],
         [hpp |-> [enabled |-> True]],
         [hpp |-> [enabled |-> True, allowDuplicateParamsFor |-> {"a"}]],
         Allow(<<"body">>), Allow(<<"body", ".", "a", ".", "b">>)}}
    \cup {Deploy("scan", ScanOptions(d[1], d[2], d[3])) :
            d \in {<<0, 4, 0>>, <<1, 1, 2>>, <<2, 4, 1>>, <<1, 4, Undefined>>, <<Undefined, 4, 1>>}}
    \cup {Deploy("scan", [nosql |-> [allowedOperators |-> a]]) : a \in
            {<<"header">> :> {"$ne"}, <<"body">> :> {"$where"}, <<"body">> :> {"$other"}, Wrong}}

ForestOf(body, parents, kinds, key, text) ==
    [parent |-> <<0, 0, 0, 0>> \o parents,
     kind |-> <<"object", "object", body, "leaf">> \o kinds,
     key |-> <<"", "", "", "">> \o [i \in 1 .. 3 |-> IF i + 4 \in DOMAIN key THEN key[i + 4]
                                                     ELSE <<"a", "b", "c">>[i]],
     text |-> [i \in 1 .. 7 |-> IF text[1] = i THEN text[2] ELSE "plain"]]
WellBuilt(f) ==
    /\ \A i \in 5 .. 7 : f.kind[f.parent[i]] \in {"object", "array"}
    /\ \A i \in DOMAIN f.key : f.key[i] \notin {"", "a", "b", "c"} => f.kind[f.parent[i]] = "object"
    /\ \A i \in DOMAIN f.text : f.text[i] # "plain" => f.kind[i] = "leaf"
MCSpelled == "a.b" :> <<"a", ".", "b">> @@ [k \in {"a", "b", "c", "proto", "$where", "$ne"} |-> <<k>>]
Nothing == <<0, "">>
Marks ==
    {<<<<>>, <<i, t>>>> : i \in 3 .. 7, t \in {"long", "sql", "xss", "nosql", "traversal"}}
    \cup {<<i :> k, Nothing>> : i \in 5 .. 7, k \in {"proto", "$where", "$ne"}}
    \cup {<<5 :> "a.b" @@ 6 :> "$ne", Nothing>>, <<<<>>, Nothing>>}
Forests ==
    {f \in {ForestOf(body, <<p, q, r>>, <<k, l, "leaf">>, m[1], m[2]) :
                body \in {"object", "array", "leaf", "none"}, p \in {1, 3}, q \in {3, 5}, r \in {1, 5, 6}, k \in {"object", "array", "leaf"},
                l \in {"object", "array", "leaf"}, m \in Marks} : WellBuilt(f)}
ScanRequests == {[method |-> "POST", path |-> "/login", fields |-> <<>>, forest |-> f] : f \in Forests}

-----------------------------------------------------------------------------
(* The admin router. *)

Listing == [trustedProxies |-> {gateway}]
Keeping == [proxySharedSecret |-> Right]
Strategy(mode) == [mode |-> mode]
Singles ==
    {[token |-> Right], Strategy("token"), Strategy("none"), Strategy("other"),
     Strategy("ip-allowlist") @@ [allowedIps |-> {ops}],
     Strategy("ip-allowlist") @@ [allowedIps |-> {ops}, trustProxyHeaders |-> True] @@ Listing,
     Strategy("ip-allowlist") @@ [allowedIps |-> {}],
     Strategy("trusted-proxy"), Strategy("trusted-proxy") @@ Listing,
     Strategy("trusted-proxy") @@ Listing @@ Keeping,
     Strategy("trusted-proxy") @@ Listing @@ [requiredHeaders |-> {}],
     Strategy("trusted-proxy") @@ Listing @@ [requiredHeaders |-> {"x-from"}]}
    \cup {Strategy(m) @@ b @@ l :
            m \in {"cloudflare-access", "alb-auth"},
            b \in {<<>>, Listing, Keeping, Listing @@ Keeping, Listing @@ [verifyJwt |-> True]},
            l \in {<<>>, [allowedEmails |-> {ann}], [allowedSubjects |-> {ann}]}}
Parts ==
    {[token |-> Right], Strategy("none"), Strategy("combined"),
     Strategy("ip-allowlist") @@ [allowedIps |-> {ops}],
     Strategy("trusted-proxy") @@ Listing @@ Keeping,
     Strategy("cloudflare-access") @@ Keeping @@ [allowedEmails |-> {ann}]}
Combinations ==
    {Strategy("combined") @@ (list :> <<a, b>>) :
        list \in {"allowAny", "requireAll"}, a \in Parts, b \in Parts}
    \cup {Strategy("combined"), Strategy("combined") @@ [allowAny |-> <<[token |-> Right]>>,
                                                         requireAll |-> <<[token |-> Right]>>],
          Strategy("combined") @@ [allowAny |-> <<>>, requireAll |-> <<[token |-> Right]>>]}
Mounts ==
    {[options |-> <<>>, router |-> [auth |-> c]] : c \in Singles \cup Combinations \cup {Callback, Wrong}}
    \cup {[options |-> o, router |-> r] :
            o \in {<<>>, [admin |-> [allowInsecureAdminApi |-> True]],
                   [admin |-> [auth |-> [token |-> Right]]]},
            r \in {<<>>, [requireAuth |-> True], [requireAuth |-> False],
                   [allowInsecureAdminApi |-> True]}}
Admins ==
    {[kind |-> "admin", options |-> m.options, router |-> m.router, production |-> p] :
        m \in Mounts, p \in BOOLEAN}

\* A gateway, and whoever has its secret, says whom it has verified and whom
\* the request is from; anybody else says anything.
Who == {Undefined, ann, eve}
Vouched(v, said) == \A w \in said : w \in {v, Undefined}
MCAdminRequests ==
    {q \in [peer : {gateway, ops, stranger}, forwarded : {ops, stranger}, origin : {ops, stranger, gateway},
            token : {Undefined, Right, Wrong}, secret : {Undefined, Right, Wrong},
            required : {Undefined, Right}, callback : {Undefined, Right},
            user : Who, email : Who, claims : Who, verified : Who] :
        /\ IF q.peer = gateway THEN q.origin = q.forwarded ELSE q.origin = q.peer
        /\ Cardinality({f \in {"token", "secret", "required", "callback"} : q[f] # Undefined}) <= 1
        /\ q.peer # gateway => q.required # Right
        /\ IF q.peer = gateway \/ q.secret = Right
           THEN q.secret # Wrong /\ Vouched(q.verified, {q.user, q.email, q.claims})
           ELSE q.verified = Undefined /\ q.forwarded = ops}

-----------------------------------------------------------------------------
\* The preset as it is, for the keys it counts by.
MCPresetDeployments == {Deploy("keys", [preset |-> "recommended"])}

MCDeployments == Routing \cup Limits \cup Scans \cup Admins
MCRequests(d) ==
    CASE d.kind = "choice" -> ChoiceRequests
      [] d.kind = "keys" -> KeyRequests
      [] d.kind = "scan" -> ScanRequests
      [] OTHER -> {}
=============================================================================
