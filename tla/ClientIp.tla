------------------------------- MODULE ClientIp -------------------------------
(***************************************************************************)
(* src/src/express/ip-resolver.js: whose request is it?  Every counter,    *)
(* ban and block is kept under the answer.  The module follows a request   *)
(* from the client through proxies to the server.  A node that is not in   *)
(* trustedProxies sends on whatever headers it likes; a trusted one says   *)
(* in them whom it got the request from.  The server has the headers and   *)
(* the address of the last node only.                                      *)
(*                                                                         *)
(* An address may be written in several ways (IPv4-mapped, with a port or  *)
(* a zone, in brackets); Parse is what ipaddr.process makes of a text.     *)
(***************************************************************************)
EXTENDS Naturals, Sequences, FiniteSets

CONSTANTS
    Nodes,          \* addresses
    Rules,          \* trustedProxies, as the operator wrote them
    Covers,         \* the addresses a rule stands for; a malformed rule for none
    TrustHeaders,   \* trustProxyHeaders
    Texts,          \* what may stand where an address should
    Parse,          \* [Texts -> Nodes and Malformed]
    Malformed,
    MaxProxyHops,   \* MAX_PROXY_HOPS
    MaxPath,        \* bound: nodes a request passes
    MaxForged       \* bound: hops a node makes up

ASSUME ClientIpAssumption ==
    /\ Covers \in [Rules -> SUBSET Nodes]
    /\ TrustHeaders \in BOOLEAN
    /\ Malformed \notin Nodes
    /\ Parse \in [Texts -> Nodes \cup {Malformed}]
    /\ \A n \in Nodes : \E t \in Texts : Parse[t] = n
    /\ MaxProxyHops \in Nat \ {0}
    /\ MaxPath \in Nat
    /\ MaxForged \in Nat

VARIABLES
    appending,  \* whether the trusted proxies append to x-forwarded-for, or the
                \* first of them sets x-real-ip: a deployment does one of the two
    path,       \* the nodes the request has passed, the last one holds it
    xff,        \* the elements of x-forwarded-for, <<>> when there is none
    realIp      \* x-real-ip: <<>> or one element

vars == <<appending, path, xff, realIp>>

ClientIpTypeOK ==
    /\ appending \in BOOLEAN
    /\ path \in Seq(Nodes)
    /\ xff \in Seq(Texts)
    /\ realIp \in Seq(Texts)

-----------------------------------------------------------------------------
(* The resolver. *)

\* isIpAllowed: some rule covers the address.
IsTrustedProxy(n) == \E rule \in Rules : n \in Covers[rule]

\* Mutant: the walk goes from left to right.
FirstUntrusted(hops) ==
    {i \in DOMAIN hops : ~IsTrustedProxy(hops[i])
        /\ \A j \in 1 .. i - 1 : IsTrustedProxy(hops[j])}

\* The hop the walk from right to left stops at, if there is one.
LastUntrusted(hops) ==
    {i \in DOMAIN hops : ~IsTrustedProxy(hops[i])
        /\ \A j \in DOMAIN hops : j > i => IsTrustedProxy(hops[j])}

Hops(texts) == [i \in DOMAIN texts |-> Parse[texts[i]]]

WellFormed(texts) ==
    /\ Len(texts) <= MaxProxyHops
    /\ \A i \in DOMAIN texts : Parse[texts[i]] # Malformed

\* getClientIp.
FromForwarded(direct, texts) ==
    IF ~WellFormed(texts) THEN direct
    ELSE IF LastUntrusted(Hops(texts)) = {} THEN Hops(texts)[1]
    ELSE Hops(texts)[CHOOSE i \in LastUntrusted(Hops(texts)) : TRUE]

FromRealIp(direct, texts) ==
    IF texts = <<>> \/ ~WellFormed(texts) THEN direct ELSE Hops(texts)[1]

GetClientIp(direct, forwarded, real) ==
    IF ~TrustHeaders \/ ~IsTrustedProxy(direct) THEN direct
    ELSE IF forwarded # <<>> THEN FromForwarded(direct, forwarded)
    ELSE FromRealIp(direct, real)

-----------------------------------------------------------------------------
(* The way of the request. *)

Direct == path[Len(path)]
Says(t, n) == Parse[t] = n
Forged == UNION {[1 .. n -> Texts] : n \in 0 .. MaxForged}
Optional == {<<>>} \cup {<<t>> : t \in Texts}

\* An untrusted node starts with any headers, a trusted one with none.
Init ==
    /\ appending \in BOOLEAN
    /\ \E n \in Nodes : path = <<n>>
    /\ xff \in Forged
    /\ realIp \in Optional
    /\ IsTrustedProxy(Direct) => xff = <<>> /\ realIp = <<>>

\* To a node that is not trusted: it may do anything with the headers.
ToUntrusted(n) ==
    /\ ~IsTrustedProxy(n)
    /\ Len(path) < MaxPath
    /\ path' = Append(path, n)
    /\ xff' \in Forged
    /\ realIp' \in Optional
    /\ UNCHANGED appending

\* To a trusted proxy: it appends the peer it got the request from, in
\* whatever spelling ...
ToAppending(n) ==
    /\ appending
    /\ IsTrustedProxy(n)
    /\ Len(path) < MaxPath
    /\ path' = Append(path, n)
    /\ \E t \in Texts : Says(t, Direct) /\ xff' = Append(xff, t)
    /\ UNCHANGED <<appending, realIp>>

\* ... or, when it is the first proxy of the path, drops the chain and sets
\* x-real-ip.
ToSetting(n) ==
    /\ ~appending
    /\ IsTrustedProxy(n)
    /\ Len(path) < MaxPath
    /\ path' = Append(path, n)
    /\ IF IsTrustedProxy(Direct) /\ Len(path) > 1
       THEN UNCHANGED <<xff, realIp>>
       ELSE xff' = <<>> /\ \E t \in Texts : Says(t, Direct) /\ realIp' = <<t>>
    /\ UNCHANGED appending

Next == \E n \in Nodes : ToUntrusted(n) \/ ToAppending(n) \/ ToSetting(n)

Spec == Init /\ [][Next]_vars

-----------------------------------------------------------------------------
(* Properties. *)

\* What the server would say if it got the request now.
Resolved == GetClientIp(Direct, xff, realIp)

\* The nodes of the path that nobody behind them vouches for.
Responsible ==
    IF \E i \in DOMAIN path : ~IsTrustedProxy(path[i])
    THEN LET i == CHOOSE i \in DOMAIN path :
                    /\ ~IsTrustedProxy(path[i])
                    /\ \A j \in DOMAIN path : j > i => IsTrustedProxy(path[j])
         IN path[i]
    ELSE path[1]

\* A request is charged to the last node that is not a trusted proxy, or to
\* the first node when all are, whatever the nodes before it wrote and however
\* an address is spelt.  A chain that node made malformed or too long is
\* charged to the direct peer (ip-resolver.js 6-31).
ChargedToResponsible ==
    TrustHeaders => Resolved = IF WellFormed(xff) THEN Responsible ELSE Direct
=============================================================================
