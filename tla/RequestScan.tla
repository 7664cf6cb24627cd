----------------------------- MODULE RequestScan -----------------------------
(***************************************************************************)
(* The scan of a request: src/src/detectors, src/src/express/request-      *)
(* targets.js and the scans of src/src/core/engine.js.  Three walks go     *)
(* over the same values, each with a depth of its own: the shape guard to  *)
(* maxDepth, the collection of texts to maxObjectDepth, the search for     *)
(* NoSQL operators to a depth that cannot be configured.                   *)
(*                                                                         *)
(* The values of a request are a forest.  Nodes 1 to 4 are its roots: the  *)
(* query, the params, the body and a header; every other node has a parent *)
(* before it.  What a pattern finds in a text is what the text is: "sql",  *)
(* "xss", "nosql" (an expression, or JSON with an operator), "traversal",  *)
(* "long" or "plain"; a key is "plain", "proto" (in any of its spellings)  *)
(* or an operator.                                                         *)
(***************************************************************************)
EXTENDS Options

CONSTANTS
    NoSQLDepth,     \* the depth at which the search for operators stops: 8
    LongText,       \* the length of a "long" text, any other has 1
    ScannedHeader,  \* the name of the header the forest has
    Spelled         \* of a key: its pieces, where a dot is a piece of its own

Surfaces == <<"query", "params", "body", "header">>
Containers(f) == {i \in DOMAIN f.kind : f.kind[i] \in {"object", "array"}}
Leaves(f) == {i \in DOMAIN f.kind : f.kind[i] = "leaf"}
Children(f, i) == {j \in DOMAIN f.parent : f.parent[j] = i}

\* The nodes from the root to each node.
Ways(f) ==
    LET way[j \in DOMAIN f.parent] ==
            IF f.parent[j] = 0 THEN <<j>> ELSE Append(way[f.parent[j]], j)
    IN way
Way(f, i) == Ways(f)[i]
Depth(f, i) == Len(Way(f, i)) - 1
Root(f, i) == Head(Way(f, i))
\* The path of a node in the allowlist of operators: one text, in which a dot of
\* a key looks like the dot between two keys.
PathOf(f, i) ==
    LET path[j \in DOMAIN f.parent] ==
            LET above == f.parent[j]
            IN IF above = 0 THEN <<Surfaces[j]>>
               ELSE IF f.kind[above] = "array"
               THEN path[above] \o <<"[">> \o Spelled[f.key[j]] \o <<"]">>
               ELSE path[above] \o <<".">> \o Spelled[f.key[j]]
    IN path[i]

\* What a request can have in it: Express gives it an object of query
\* parameters and one of params, and a header is a text or not there.
IsForest(f) ==
    LET nodes == DOMAIN f.parent
    IN  /\ f.parent \in Seq(Nat)
        /\ 1 .. 4 \subseteq nodes
        /\ \A a \in {f.kind, f.key, f.text} : DOMAIN a = nodes
        /\ \A i \in nodes :
              IF i <= 4 THEN f.parent[i] = 0
              ELSE f.parent[i] \in (1 .. i - 1) \intersect Containers(f)
        /\ f.kind[1] = "object" /\ f.kind[2] = "object"
        /\ f.kind[4] \in {"leaf", "none"}

\* A comparison with undefined is false.
Exceeds(n, limit) == limit # Undefined /\ n > limit

-----------------------------------------------------------------------------
(* request-shape.js; header values are not among its surfaces. *)

Shaped(f) == {i \in DOMAIN f.kind : Root(f, i) \in 1 .. 3}

ExceedsShape(f, limits) ==
    \/ \E i \in Shaped(f) \intersect Leaves(f) :
            f.text[i] = "long" /\ Exceeds(LongText, limits.maxStringLength)
    \/ \E i \in Shaped(f) \intersect Containers(f) :
            \/ Exceeds(Depth(f, i), limits.maxDepth)
            \/ f.kind[i] = "array" /\ Exceeds(Cardinality(Children(f, i)), limits.maxArrayLength)
    \/ Exceeds(Cardinality({j \in Shaped(f) : f.parent[j] # 0
                                /\ f.kind[f.parent[j]] = "object"}), limits.maxKeys)

-----------------------------------------------------------------------------
(* request-targets.js: the texts whose containers are all deep enough. *)

MaxObjectDepth(config) == IF config.maxObjectDepth = Undefined THEN 8 ELSE config.maxObjectDepth

\* Mutant: the containers at the last depth are not opened.
CollectedShort(f, config) ==
    {i \in Leaves(f) :
        /\ Depth(f, i) <= MaxObjectDepth(config)
        /\ Root(f, i) = 4 => ScannedHeader \in config.headers}

CollectRequestTargets(f, config) ==
    {i \in Leaves(f) :
        /\ Depth(f, i) <= MaxObjectDepth(config) + 1
        /\ Root(f, i) = 4 => ScannedHeader \in config.headers}

-----------------------------------------------------------------------------
(* The detectors. *)

\* hpp.js
DuplicateParams(f, hpp) ==
    \E i \in Children(f, 1) :
        /\ f.kind[i] = "array"
        /\ Cardinality(Children(f, i)) > 1
        /\ f.key[i] \notin Or(Read(hpp, "allowDuplicateParamsFor"), {})

\* prototype-pollution.js, at any depth
PollutesPrototype(f) == \E i \in Shaped(f) : f.parent[i] # 0 /\ f.key[i] = "proto"

\* nosql.js: what is below the containers up to the depth, and a text that is
\* a surface itself.
IsAllowed(f, i, nosql) ==
    LET allowed == nosql.allowedOperators
        path == PathOf(f, f.parent[i])
    IN path \in DOMAIN allowed /\ f.key[i] \in allowed[path]

IsOperator(f, i, nosql) ==
    \/ f.key[i] \in NOSQL_DANGEROUS_OPERATORS
    \/ f.key[i] \in NOSQL_SUSPICIOUS_OPERATORS /\ ~IsAllowed(f, i, nosql)

InspectNoSQL(f, nosql) ==
    \E i \in Shaped(f) :
        /\ Depth(f, i) <= NoSQLDepth + 1
        /\ \/ f.parent[i] # 0 /\ IsOperator(f, i, nosql)
           \/ f.kind[i] = "leaf" /\ f.text[i] = "nosql"

\* path-traversal.js: isRequestValueTarget looks at how the label begins;
\* below a list it begins with "body[".
IsRequestValueTarget(f, i) ==
    \/ i = 3
    \/ Root(f, i) \in 1 .. 3 /\ i > 4 /\ f.kind[Root(f, i)] = "object"

Traverses(f, targets) ==
    \E i \in targets : IsRequestValueTarget(f, i) /\ f.text[i] = "traversal"

-----------------------------------------------------------------------------
(* engine.js *)

ScanStructuredGuards(f, config, targets) ==
    {d \in {"HTTP_PARAMETER_POLLUTION", "PROTOTYPE_POLLUTION",
            "NOSQL_INJECTION", "PATH_TRAVERSAL"} :
        CASE d = "HTTP_PARAMETER_POLLUTION" ->
                Truthy(config.hpp.enabled) /\ DuplicateParams(f, config.hpp)
          [] d = "PROTOTYPE_POLLUTION" ->
                Truthy(config.prototypePollution.enabled) /\ PollutesPrototype(f)
          [] d = "NOSQL_INJECTION" -> config.nosql.enabled /\ InspectNoSQL(f, config.nosql)
          [] d = "PATH_TRAVERSAL" ->
                Truthy(config.pathTraversal.enabled) /\ Traverses(f, targets)}

ScanTargets(f, config, targets) ==
    {d \in {"SQL_INJECTION", "XSS"} :
        \E i \in targets :
            \/ d = "SQL_INJECTION" /\ Truthy(config.sql) /\ f.text[i] = "sql"
            \/ d = "XSS" /\ Truthy(config.xss) /\ f.text[i] = "xss"}

\* analyzeRequest: a request of excessive shape is not looked at any further.
Threats(f, config) ==
    IF Truthy(config.requestShape.enabled) /\ ExceedsShape(f, config.requestShape)
    THEN {"REQUEST_SHAPE"}
    ELSE LET targets == CollectRequestTargets(f, config)
         IN ScanStructuredGuards(f, config, targets) \cup ScanTargets(f, config, targets)

-----------------------------------------------------------------------------
(* scoring.js and the two threat-event.js *)

Rank == [none |-> 0, low |-> 1, medium |-> 2, high |-> 3]

THREAT_SEVERITY(d) ==
    IF d \in {"HTTP_PARAMETER_POLLUTION", "REQUEST_SHAPE"} THEN "medium" ELSE "high"

\* Mutant: the comparison is the wrong way round.
LowestSeverity(threats) ==
    CHOOSE s \in {"none"} \cup {THREAT_SEVERITY(d) : d \in threats} :
        \A d \in threats : Rank[s] <= Rank[THREAT_SEVERITY(d)]

SeverityForThreats(threats) ==
    CHOOSE s \in {"none"} \cup {THREAT_SEVERITY(d) : d \in threats} :
        \A d \in threats : Rank[s] >= Rank[THREAT_SEVERITY(d)]

\* The guards come in an order of their own before the texts, where it is the
\* first text with something in it that counts.
FirstThreats(threats) ==
    LET order == <<"HTTP_PARAMETER_POLLUTION", "PROTOTYPE_POLLUTION", "NOSQL_INJECTION",
                   "PATH_TRAVERSAL">>
        guards == {i \in DOMAIN order : order[i] \in threats}
    IN IF guards = {} THEN threats ELSE {order[Min(guards)]}

\* What the event of a blocked request says is what its first threat is.
ThreatEvent(first) == [detector |-> first, severity |-> THREAT_SEVERITY(first)]

-----------------------------------------------------------------------------
(* What the detectors are for, whatever the depth. *)

\* A node with something a detector that is on is told to look for.
\* Left out is what the code leaves out by rule and not by depth: no operator
\* and no traversal in a header, no traversal below a list at the top.
Harmful(f, i, config) ==
    \/ i \in Leaves(f) /\ (Root(f, i) = 4 => ScannedHeader \in config.headers)
        /\ \/ f.text[i] = "sql" /\ Truthy(config.sql)
           \/ f.text[i] = "xss" /\ Truthy(config.xss)
           \/ f.text[i] = "nosql" /\ config.nosql.enabled /\ Root(f, i) # 4
           \/ /\ f.text[i] = "traversal" /\ Truthy(config.pathTraversal.enabled)
              /\ Root(f, i) # 4 /\ (i > 4 => f.kind[Root(f, i)] = "object")
    \/ i > 4 /\ Root(f, i) # 4
        /\ \/ f.key[i] = "proto" /\ Truthy(config.prototypePollution.enabled)
           \/ config.nosql.enabled /\ IsOperator(f, i, config.nosql)

\* The guard turns away what is deeper than the two other walks go.
GuardCovers(config) ==
    /\ Truthy(config.requestShape.enabled)
    /\ config.requestShape.maxDepth # Undefined
    /\ config.requestShape.maxDepth <= MaxObjectDepth(config)
    /\ config.requestShape.maxDepth <= NoSQLDepth
=============================================================================
