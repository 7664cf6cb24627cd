----------------------------- MODULE MCClientIp -----------------------------
EXTENDS ClientIp, TLC

CONSTANTS client, other, edge, inner, mapped, junk, cidr, typo

\* Two proxies behind one range, a rule with a typing error, and a client that
\* is also written as an IPv4-mapped address.
MCNodes == {client, other, edge, inner}
MCRules == {cidr, typo}
MCCovers == cidr :> {edge, inner} @@ typo :> {}
MCTexts == MCNodes \cup {mapped, junk}
MCParse == mapped :> client @@ junk :> Malformed @@ [n \in MCNodes |-> n]
=============================================================================
