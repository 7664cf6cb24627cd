--------------------------- MODULE ClientIp_proofs ---------------------------
(***************************************************************************)
(* Whoever a request passes and whatever they write in its headers, it is  *)
(* charged to the node that nobody behind it vouches for.  The invariant   *)
(* says what a trusted node finds in the headers: the entry of the         *)
(* responsible node, and nothing but trusted proxies behind it.            *)
(***************************************************************************)
EXTENDS ClientIp, SequenceTheorems, TLAPS

\* Position i of the path holds the last node that is not trusted.
IsLastOut(i) ==
    /\ i \in DOMAIN path
    /\ ~IsTrustedProxy(path[i])
    /\ \A j \in DOMAIN path : j > i => IsTrustedProxy(path[j])

AllTrusted == \A i \in DOMAIN path : IsTrustedProxy(path[i])

\* The entry of the responsible node in x-forwarded-for.
IsEntry(j) ==
    /\ j \in DOMAIN xff
    /\ Parse[xff[j]] = Responsible
    /\ IsTrustedProxy(Responsible) => j = 1
    /\ \A m \in DOMAIN xff : m > j => IsTrustedProxy(Parse[xff[m]])

Vouched ==
    IsTrustedProxy(Direct) =>
        IF Len(path) = 1 THEN xff = <<>> /\ realIp = <<>>
        ELSE IF appending THEN \E j \in Nat : IsEntry(j)
        ELSE xff = <<>> /\ \E t \in Texts : realIp = <<t>> /\ Parse[t] = Responsible

ClientIpInv ==
    /\ ClientIpTypeOK
    /\ path # <<>>
    /\ AllTrusted \/ \E i \in Nat : IsLastOut(i)
    /\ Vouched

-----------------------------------------------------------------------------
(* The responsible node. *)

\* The node at the last position that is not trusted is responsible.
LEMMA LastOutIsResponsible ==
  ASSUME path \in Seq(Nodes), NEW i, IsLastOut(i)
  PROVE  Responsible = path[i]
<1>1. \A j : IsLastOut(j) => j = i
  BY DEF IsLastOut
<1>2. QED
  BY <1>1 DEF Responsible, IsLastOut

\* When the peer is not trusted, it is responsible itself.
LEMMA UntrustedPeerIsResponsible ==
  ASSUME path \in Seq(Nodes), path # <<>>, ~IsTrustedProxy(Direct)
  PROVE  Responsible = Direct
<1>1. IsLastOut(Len(path))
  BY DEF IsLastOut, Direct
<1>2. QED
  BY <1>1, LastOutIsResponsible DEF Direct

\* A trusted proxy at the end of the path takes nothing over.
LEMMA ProxyIsNotResponsible ==
  ASSUME path \in Seq(Nodes), path # <<>>, AllTrusted \/ \E i \in Nat : IsLastOut(i),
         NEW n \in Nodes, IsTrustedProxy(n), path' = Append(path, n)
  PROVE  /\ Responsible' = Responsible
         /\ (AllTrusted \/ \E i \in Nat : IsLastOut(i))'
<1>1. /\ Len(path') = Len(path) + 1 /\ path'[Len(path) + 1] = n
      /\ \A i \in DOMAIN path : i \in DOMAIN path' /\ path'[i] = path[i]
      /\ DOMAIN path' = DOMAIN path \cup {Len(path) + 1} /\ path' \in Seq(Nodes)
      /\ 1 \in DOMAIN path
  OBVIOUS
<1>2. CASE AllTrusted
  <2>1. AllTrusted'
    BY <1>1, <1>2 DEF AllTrusted, IsTrustedProxy
  <2>2. QED
    BY <1>1, <1>2, <2>1 DEF AllTrusted, Responsible, IsTrustedProxy
<1>3. ASSUME NEW i \in Nat, IsLastOut(i)
      PROVE  IsLastOut(i)' /\ Responsible' = Responsible
  <2>1. IsLastOut(i)'
    BY <1>1, <1>3 DEF IsLastOut, IsTrustedProxy
  <2>2. Responsible = path[i]
    BY <1>3, LastOutIsResponsible
  <2>3. \A j : IsLastOut(j)' => j = i
    BY <1>1, <2>1 DEF IsLastOut
  <2>4. Responsible' = path'[i]
    BY <2>1, <2>3 DEF Responsible, IsLastOut
  <2>5. QED
    BY <1>1, <1>3, <2>1, <2>2, <2>4 DEF IsLastOut
<1>4. QED
  BY <1>2, <1>3, <1>1 DEF AllTrusted, IsTrustedProxy

\* When all are trusted, the first one is responsible.
LEMMA FirstIsResponsible ==
  ASSUME AllTrusted
  PROVE  Responsible = path[1]
BY DEF AllTrusted, Responsible

\* An address that is not one is no trusted proxy.
LEMMA TrustedIsAddress ==
  ASSUME NEW n, IsTrustedProxy(n)
  PROVE  n \in Nodes
BY ClientIpAssumption DEF IsTrustedProxy

\* What a node makes up is a chain.
LEMMA ForgedIsSeq == Forged \subseteq Seq(Texts) /\ Optional \subseteq Seq(Texts)
<1>1. ASSUME NEW f \in Forged
      PROVE  f \in Seq(Texts)
  <2>1. PICK n \in 0 .. MaxForged : f \in [1 .. n -> Texts]
    BY DEF Forged
  <2>2. n \in Nat
    BY ClientIpAssumption
  <2>3. QED
    BY <2>1, <2>2, SeqDef
<1>2. ASSUME NEW f \in Optional
      PROVE  f \in Seq(Texts)
  <2>1. CASE f = <<>>
    BY <2>1
  <2>2. ASSUME NEW t \in Texts, f = <<t>>
        PROVE  f \in Seq(Texts)
    BY <2>2
  <2>3. QED
    BY <1>2, <2>1, <2>2 DEF Optional
<1>3. QED
  BY <1>1, <1>2

-----------------------------------------------------------------------------
(* The invariant. *)

LEMMA InitHolds == Init => ClientIpInv
<1> SUFFICES ASSUME Init PROVE ClientIpInv
  OBVIOUS
<1>1. PICK n \in Nodes : path = <<n>>
  BY DEF Init
<1>2. Len(path) = 1 /\ Direct = n /\ path[1] = n /\ path \in Seq(Nodes) /\ DOMAIN path = {1}
  BY <1>1 DEF Direct
<1>3. xff \in Seq(Texts) /\ realIp \in Seq(Texts)
  BY ForgedIsSeq DEF Init
<1>4. AllTrusted \/ IsLastOut(1)
  BY <1>2 DEF AllTrusted, IsLastOut
<1>5. QED
  BY <1>1, <1>2, <1>3, <1>4 DEF Init, ClientIpInv, ClientIpTypeOK, Vouched

LEMMA StepHolds == ClientIpInv /\ [Next]_vars => ClientIpInv'
<1> SUFFICES ASSUME ClientIpInv, [Next]_vars PROVE ClientIpInv'
  OBVIOUS
<1>1. /\ path \in Seq(Nodes) /\ path # <<>> /\ xff \in Seq(Texts) /\ realIp \in Seq(Texts)
      /\ appending \in BOOLEAN /\ Len(path) \in Nat \ {0}
  BY DEF ClientIpInv, ClientIpTypeOK
<1>2. CASE UNCHANGED vars
  <2>1. path' = path /\ xff' = xff /\ realIp' = realIp /\ appending' = appending
    BY <1>2 DEF vars
  <2>2. Direct' = Direct /\ Responsible' = Responsible
    BY <2>1 DEF Direct, Responsible, IsTrustedProxy
  <2>3. AllTrusted' = AllTrusted /\ \A i : IsLastOut(i)' = IsLastOut(i)
    BY <2>1 DEF AllTrusted, IsLastOut, IsTrustedProxy
  <2>4. \A j : IsEntry(j)' = IsEntry(j)
    BY <2>1, <2>2 DEF IsEntry, IsTrustedProxy
  <2>5. Vouched'
    BY <2>1, <2>2, <2>4 DEF ClientIpInv, Vouched, IsTrustedProxy
  <2>6. QED
    BY <2>1, <2>3, <2>5 DEF ClientIpInv, ClientIpTypeOK
<1>3. ASSUME NEW n \in Nodes, ToUntrusted(n)
      PROVE  ClientIpInv'
  <2>1. /\ path' \in Seq(Nodes) /\ path' # <<>> /\ Direct' = n /\ Len(path') = Len(path) + 1
        /\ xff' \in Seq(Texts) /\ realIp' \in Seq(Texts) /\ appending' \in BOOLEAN
    <3>1. /\ path' = Append(path, n) /\ appending' = appending
          /\ xff' \in Forged /\ realIp' \in Optional
      BY <1>3 DEF ToUntrusted
    <3>2. path' \in Seq(Nodes) /\ Len(path') = Len(path) + 1 /\ path'[Len(path) + 1] = n
      BY <1>1, <3>1
    <3>3. path' # <<>> /\ Direct' = n
      BY <1>1, <3>2 DEF Direct
    <3>4. xff' \in Seq(Texts) /\ realIp' \in Seq(Texts)
      BY <3>1, ForgedIsSeq
    <3>5. QED
      BY <1>1, <3>1, <3>2, <3>3, <3>4
  <2>2. \E i \in Nat : IsLastOut(i)'
    <3>1. PICK i \in Nat : i = Len(path) + 1
      BY <1>1
    <3>2. i \in DOMAIN path' /\ path'[i] = n /\ \A j \in DOMAIN path' : ~(j > i)
      BY <1>1, <1>3, <3>1 DEF ToUntrusted
    <3>3. IsLastOut(i)'
      BY <1>3, <3>2 DEF ToUntrusted, IsLastOut, IsTrustedProxy
    <3>4. QED
      BY <3>3
  <2>3. Vouched'
    BY <1>3, <2>1 DEF ToUntrusted, Vouched, IsTrustedProxy
  <2>4. QED
    BY <1>1, <2>1, <2>2, <2>3 DEF ClientIpInv, ClientIpTypeOK
<1>4. ASSUME NEW n \in Nodes, ToAppending(n)
      PROVE  ClientIpInv'
  <2>1. PICK t \in Texts : Parse[t] = Direct /\ xff' = Append(xff, t)
    BY <1>4 DEF ToAppending, Says
  <2>2. /\ path' = Append(path, n) /\ IsTrustedProxy(n) /\ realIp' = realIp
        /\ appending /\ appending' = appending
        /\ path' \in Seq(Nodes) /\ path' # <<>> /\ Len(path') # 1
        /\ xff' \in Seq(Texts) /\ Len(xff') = Len(xff) + 1 /\ Len(xff) \in Nat
        /\ xff'[Len(xff) + 1] = t /\ \A m \in DOMAIN xff : xff'[m] = xff[m]
        /\ DOMAIN xff' = 1 .. Len(xff) + 1 /\ DOMAIN xff = 1 .. Len(xff)
    <3>1. path' = Append(path, n) /\ IsTrustedProxy(n) /\ realIp' = realIp
      BY <1>4 DEF ToAppending
    <3>2. appending /\ appending' = appending
      BY <1>4 DEF ToAppending
    <3>3. path' \in Seq(Nodes) /\ Len(path') = Len(path) + 1
      BY <1>1, <3>1
    <3>4. path' # <<>> /\ Len(path') # 1
      BY <1>1, <3>3
    <3>5. /\ xff' \in Seq(Texts) /\ Len(xff') = Len(xff) + 1 /\ Len(xff) \in Nat
          /\ xff'[Len(xff) + 1] = t /\ \A m \in DOMAIN xff : xff'[m] = xff[m]
          /\ DOMAIN xff' = 1 .. Len(xff) + 1 /\ DOMAIN xff = 1 .. Len(xff)
      BY <1>1, <2>1
    <3>6. QED
      BY <3>1, <3>2, <3>3, <3>4, <3>5
  <2>3. Responsible' = Responsible /\ (AllTrusted \/ \E i \in Nat : IsLastOut(i))'
    BY <1>1, <2>2, ProxyIsNotResponsible DEF ClientIpInv
  <2>4. \E j \in Nat : IsEntry(j)'
    <3>1. CASE ~IsTrustedProxy(Direct)
      <4>1. Responsible = Direct
        BY <1>1, <3>1, UntrustedPeerIsResponsible
      <4>2. PICK j \in Nat : j = Len(xff) + 1
        BY <2>2
      <4>3. IsEntry(j)'
        <5>1. j \in DOMAIN xff' /\ \A m \in DOMAIN xff' : ~(m > j)
          BY <2>2, <4>2
        <5>2. Parse[xff'[j]] = Responsible' /\ ~IsTrustedProxy(Responsible')
          BY <2>1, <2>2, <2>3, <3>1, <4>1, <4>2
        <5>3. QED
          BY <5>1, <5>2 DEF IsEntry, IsTrustedProxy
      <4>4. QED
        BY <4>3
    <3>2. CASE IsTrustedProxy(Direct) /\ Len(path) = 1
      <4>1. xff = <<>> /\ Direct = path[1] /\ AllTrusted
        BY <1>1, <3>2 DEF ClientIpInv, Vouched, Direct, AllTrusted
      <4>2. Responsible = Direct /\ Len(xff) = 0
        BY <4>1, FirstIsResponsible
      <4>3. IsEntry(1)'
        BY <2>1, <2>2, <2>3, <4>2 DEF IsEntry
      <4>4. QED
        BY <4>3
    <3>3. CASE IsTrustedProxy(Direct) /\ Len(path) # 1
      <4>1. PICK j \in Nat : IsEntry(j)
        BY <2>2, <3>3 DEF ClientIpInv, Vouched
      <4>2. IsEntry(j)'
        BY <2>1, <2>2, <2>3, <3>3, <4>1 DEF IsEntry, IsTrustedProxy
      <4>3. QED
        BY <4>2
    <3>4. QED
      BY <3>1, <3>2, <3>3
  <2>5. QED
    BY <1>1, <2>2, <2>3, <2>4 DEF ClientIpInv, ClientIpTypeOK, Vouched
<1>5. ASSUME NEW n \in Nodes, ToSetting(n)
      PROVE  ClientIpInv'
  <2>1. /\ path' = Append(path, n) /\ IsTrustedProxy(n) /\ path' \in Seq(Nodes) /\ path' # <<>>
        /\ Len(path') # 1 /\ ~appending /\ appending' = appending
    BY <1>1, <1>5 DEF ToSetting
  <2>2. Responsible' = Responsible /\ (AllTrusted \/ \E i \in Nat : IsLastOut(i))'
    BY <1>1, <2>1, ProxyIsNotResponsible DEF ClientIpInv
  <2>3. xff' = <<>> /\ \E t \in Texts : realIp' = <<t>> /\ Parse[t] = Responsible
    <3>1. CASE IsTrustedProxy(Direct) /\ Len(path) > 1
      BY <1>5, <2>1, <3>1 DEF ToSetting, ClientIpInv, Vouched
    <3>2. CASE ~(IsTrustedProxy(Direct) /\ Len(path) > 1)
      <4>1. Responsible = Direct
        <5>1. CASE ~IsTrustedProxy(Direct)
          BY <1>1, <5>1, UntrustedPeerIsResponsible
        <5>2. CASE IsTrustedProxy(Direct) /\ Len(path) = 1
          BY <1>1, <5>2, FirstIsResponsible DEF AllTrusted, Direct
        <5>3. QED
          <6>1. \A l \in Nat \ {0} : l > 1 \/ l = 1
            OBVIOUS
          <6>2. QED
            BY <1>1, <3>2, <5>1, <5>2, <6>1
      <4>2. QED
        BY <1>5, <3>2, <4>1 DEF ToSetting, Says
    <3>3. QED
      BY <3>1, <3>2
  <2>4. QED
    BY <1>1, <2>1, <2>2, <2>3 DEF ClientIpInv, ClientIpTypeOK, Vouched
<1>6. QED
  BY <1>2, <1>3, <1>4, <1>5 DEF Next

-----------------------------------------------------------------------------
(* What the server makes of it. *)

\* The walk from right to left stops at the entry of the responsible node.
LEMMA WalkFindsEntry ==
  ASSUME ClientIpTypeOK, NEW j \in Nat, IsEntry(j), WellFormed(xff),
         AllTrusted \/ ~IsTrustedProxy(Responsible), NEW d
  PROVE  FromForwarded(d, xff) = Responsible
<1>1. /\ DOMAIN Hops(xff) = DOMAIN xff /\ DOMAIN xff = 1 .. Len(xff) /\ Len(xff) \in Nat
      /\ \A m \in DOMAIN xff : Hops(xff)[m] = Parse[xff[m]]
  BY DEF ClientIpTypeOK, Hops
<1>2. CASE ~IsTrustedProxy(Responsible)
  <2>1. j \in LastUntrusted(Hops(xff)) /\ \A i \in LastUntrusted(Hops(xff)) : i = j
    BY <1>1, <1>2 DEF IsEntry, LastUntrusted
  <2>2. QED
    BY <1>1, <2>1 DEF FromForwarded, IsEntry
<1>3. CASE IsTrustedProxy(Responsible)
  <2>1. j = 1 /\ \A m \in DOMAIN xff : IsTrustedProxy(Parse[xff[m]])
    BY <1>1, <1>3 DEF IsEntry
  <2>2. LastUntrusted(Hops(xff)) = {}
    BY <1>1, <2>1 DEF LastUntrusted
  <2>3. QED
    BY <1>1, <2>1, <2>2 DEF FromForwarded, IsEntry
<1>4. QED
  BY <1>2, <1>3

\* The invariant implies the property.
LEMMA VouchedIsCharged == ClientIpInv => ChargedToResponsible
<1> SUFFICES ASSUME ClientIpInv, TrustHeaders
             PROVE  Resolved = IF WellFormed(xff) THEN Responsible ELSE Direct
  BY DEF ChargedToResponsible
<1>1. path \in Seq(Nodes) /\ path # <<>> /\ Len(path) \in Nat \ {0}
  BY DEF ClientIpInv, ClientIpTypeOK
<1>2. CASE ~IsTrustedProxy(Direct)
  BY <1>1, <1>2, UntrustedPeerIsResponsible DEF Resolved, GetClientIp
<1>3. CASE IsTrustedProxy(Direct) /\ Len(path) = 1
  <2>1. xff = <<>> /\ realIp = <<>> /\ Resolved = Direct
    BY <1>3 DEF ClientIpInv, Vouched, Resolved, GetClientIp, FromRealIp
  <2>2. Responsible = Direct
    BY <1>1, <1>3, FirstIsResponsible DEF AllTrusted, Direct
  <2>3. QED
    BY <2>1, <2>2
<1>4. CASE IsTrustedProxy(Direct) /\ Len(path) # 1 /\ appending
  <2>1. PICK j \in Nat : IsEntry(j)
    BY <1>4 DEF ClientIpInv, Vouched
  <2>2. xff # <<>>
    BY <2>1 DEF IsEntry
  <2>3. Resolved = FromForwarded(Direct, xff)
    BY <1>4, <2>2 DEF Resolved, GetClientIp
  <2>4. AllTrusted \/ ~IsTrustedProxy(Responsible)
    BY <1>1, LastOutIsResponsible DEF ClientIpInv, IsLastOut
  <2>5. QED
    BY <2>1, <2>3, <2>4, WalkFindsEntry DEF FromForwarded, ClientIpInv
<1>5. CASE IsTrustedProxy(Direct) /\ Len(path) # 1 /\ ~appending
  <2>1. PICK t \in Texts : xff = <<>> /\ realIp = <<t>> /\ Parse[t] = Responsible
    BY <1>5 DEF ClientIpInv, Vouched
  <2>2. Responsible \in Nodes
    <3>1. CASE AllTrusted
      BY <1>1, <3>1, FirstIsResponsible
    <3>2. CASE \E i \in Nat : IsLastOut(i)
      BY <1>1, <3>2, LastOutIsResponsible DEF IsLastOut
    <3>3. QED
      BY <3>1, <3>2 DEF ClientIpInv
  <2>3. /\ Len(realIp) = 1 /\ realIp[1] = t /\ DOMAIN realIp = {1} /\ realIp # <<>>
        /\ Len(xff) = 0 /\ DOMAIN xff = {}
    BY <2>1
  <2>4. WellFormed(realIp) /\ WellFormed(xff)
    BY <2>1, <2>2, <2>3, ClientIpAssumption DEF WellFormed
  <2>5. Resolved = Hops(realIp)[1]
    BY <1>5, <2>1, <2>3, <2>4 DEF Resolved, GetClientIp, FromRealIp
  <2>6. QED
    BY <2>1, <2>3, <2>4, <2>5 DEF Hops
<1>6. QED
  BY <1>2, <1>3, <1>4, <1>5 DEF ClientIpInv, ClientIpTypeOK

\* Every request is charged to the last node that is not a trusted proxy, for
\* any addresses, spellings and rules and for paths of any length
\* (ip-resolver.js 6-31).
THEOREM RequestIsCharged == Spec => []ChargedToResponsible
<1>1. Init => ClientIpInv
  BY InitHolds
<1>2. ClientIpInv /\ [Next]_vars => ClientIpInv'
  BY StepHolds
<1>3. ClientIpInv => ChargedToResponsible
  BY VouchedIsCharged
<1>4. QED
  BY <1>1, <1>2, <1>3, PTL DEF Spec
=============================================================================
