------------------------------ MODULE KeyBuilder ------------------------------
(***************************************************************************)
(* src/src/brute-force/key-builder.js: the names of the counters a request *)
(* is counted on.  A key is a text with ':' between namespace, policy,     *)
(* key type and values; the first three hold no ':' after sanitizeType,    *)
(* a value may (an IPv6 address, any text of a body).  A text is therefore *)
(* the sequence of its parts between the colons, which is all that makes   *)
(* two keys equal or not.                                                  *)
(***************************************************************************)
EXTENDS Naturals, Sequences, SequencesExt, JsValues

CONSTANTS
    Sanitized,      \* sanitizeType: [policy names and key types -> the same]
    Lower,          \* toLowerCase: [texts -> texts]
    CaseBlind,      \* the paths that end in email, username or login
    Forbidden       \* the paths with a segment of FORBIDDEN_SEGMENTS

\* A value of a request: undefined, or a record of the text in it and what it
\* is wrapped in.  The first element of a list stands for the list, an object
\* for nothing.
NormalizeScalar(raw) ==
    IF raw = Undefined THEN Undefined
    ELSE IF raw.wrapped = "object" \/ raw.text = <<>> THEN Undefined
    ELSE raw.text

\* Mutant: the letters of a value are compared as they come.
ResolveAsWritten(part, request) ==
    IF part \in Forbidden THEN Undefined
    ELSE NormalizeScalar(Read(request.fields, part))

\* normalizeValueForPath and resolveValue: the parts with a name of their own
\* are not folded.
Folded(part, text) == IF part \in CaseBlind THEN Lower[text] ELSE text

ResolveValue(part, request) ==
    LET value == NormalizeScalar(Read(request.fields, part))
    IN IF part \in Forbidden \/ value = Undefined THEN Undefined
       ELSE Folded(part, value)

Values(spec, request) == [i \in DOMAIN spec.parts |-> ResolveValue(spec.parts[i], request)]

\* Mutant: the loop over the parts ends one too early.
JoinedButLast(values) ==
    LET joined[n \in 0 .. Len(values)] ==
            IF n <= 1 THEN <<>> ELSE joined[n - 1] \o values[n - 1]
    IN joined[Len(values)]

\* values.join(':'): what was before a ':' and what was in it look the same
\* afterwards.
Joined(values) ==
    LET joined[n \in 0 .. Len(values)] ==
            IF n = 0 THEN <<>> ELSE joined[n - 1] \o values[n]
    IN joined[Len(values)]

CreateKey(namespace, policyName, type, value) ==
    [namespace |-> namespace, policy |-> Sanitized[policyName],
     type |-> Sanitized[type], value |-> value]

\* buildKey and buildCustomKey: a function of the operator is one that picks a
\* value of the request and names it.
BuildKey(namespace, policyName, spec, request) ==
    IF "custom" \in DOMAIN spec
    THEN LET value == NormalizeScalar(Read(request.fields, spec.custom))
         IN IF value = Undefined THEN Undefined
            ELSE CreateKey(namespace, policyName, spec.type, value)
    ELSE IF Range(spec.parts) \intersect Forbidden # {}
            \/ Undefined \in Range(Values(spec, request))
    THEN Undefined
    ELSE CreateKey(namespace, policyName, spec.type, Joined(Values(spec, request)))

\* buildKeys: what a specification names nobody by is left out.
BuildKeys(namespace, policyName, specs, request) ==
    LET result[n \in 0 .. Len(specs)] ==
            IF n = 0 THEN <<>>
            ELSE LET key == BuildKey(namespace, policyName, specs[n], request)
                 IN IF key = Undefined THEN result[n - 1] ELSE Append(result[n - 1], key)
    IN result[Len(specs)]

BuildBruteForceKeys(policy, request) ==
    IF policy.bruteForce.enabled = False THEN <<>>
    ELSE BuildKeys("bf", policy.name, policy.bruteForce.keys, request)

BuildRouteRateLimitKey(policy, request) ==
    IF policy.rateLimit.enabled = False THEN <<>>
    ELSE BuildKeys("route-rl", policy.name, <<policy.rateLimit.key>>, request)
=============================================================================
