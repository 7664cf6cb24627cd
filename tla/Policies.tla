------------------------------- MODULE Policies -------------------------------
(***************************************************************************)
(* src/src/policies: the list of route policies, made of a preset and the  *)
(* operator's own, and the choice of the one a request is held to.  A      *)
(* pattern is known by where it is found in a path: a text that must be    *)
(* equal, a prefix and a RegExp differ in nothing else, except that a      *)
(* RegExp with the g flag starts to look where its last success ended.     *)
(***************************************************************************)
EXTENDS Naturals, Sequences, SequencesExt, JsValues

CONSTANTS
    Patterns,           \* entries of match.path
    Stateful,           \* the patterns that are a RegExp with the g flag
    Paths,              \* request paths, the query string cut off
    Found,              \* [Patterns -> [Paths -> sets of <<start, end>>]]
    COMMON_AUTH_PATHS,  \* the patterns of the presets
    PresetName          \* [{"recommended", "strict"} -> [Patterns -> names]]

ASSUME PatternsAssumption ==
    /\ Found \in [Patterns -> [Paths -> SUBSET (Nat \X Nat)]]
    /\ COMMON_AUTH_PATHS \in Seq(Patterns)

-----------------------------------------------------------------------------
(* presets.js and normalize-policy.js *)

IP == [type |-> "ip", parts |-> <<"ip">>]

PRESET_KEYS ==
    <<IP,
      [type |-> "body.email", parts |-> <<"body.email">>],
      [type |-> "ip+body.email", parts |-> <<"ip", "body.email">>],
      [type |-> "body.username", parts |-> <<"body.username">>],
      [type |-> "ip+body.username", parts |-> <<"ip", "body.username">>]>>

CreateAuthPolicies(prefix, maxAttempts, blockDurationMs, routeMax) ==
    [i \in DOMAIN COMMON_AUTH_PATHS |->
        [name |-> PresetName[prefix][COMMON_AUTH_PATHS[i]],
         match |-> [method |-> {"POST"}, path |-> <<COMMON_AUTH_PATHS[i]>>],
         rateLimit |-> [enabled |-> True, max |-> routeMax, windowMs |-> 60000,
                       key |-> IP],
         bruteForce |->
            [enabled |-> True, maxAttempts |-> maxAttempts, windowMs |-> 900000,
             blockDurationMs |-> blockDurationMs,
             keys |-> PRESET_KEYS]]]

PresetKnown(name) == name \in {"off", "recommended", "strict"}

GetPresetPolicies(name) ==
    CASE name = "off" -> <<>>
      [] name = "recommended" -> CreateAuthPolicies(name, 10, 600000, 20)
      [] name = "strict" -> CreateAuthPolicies(name, 5, 900000, 10)

\* Map.set: a policy takes the place of an earlier one of its name.
SetByName(merged, policy) ==
    IF \E k \in DOMAIN merged : merged[k].name = policy.name
    THEN [k \in DOMAIN merged |->
            IF merged[k].name = policy.name THEN policy ELSE merged[k]]
    ELSE Append(merged, policy)

MergePolicies(policies) ==
    LET byName[n \in 0 .. Len(policies)] ==
            IF n = 0 THEN <<>> ELSE SetByName(byName[n - 1], policies[n])
    IN byName[Len(policies)]

NormalizeRateLimit(rate) ==
    IF ~Truthy(rate) \/ Read(rate, "enabled") = False THEN [enabled |-> False]
    ELSE [enabled |-> True,
          max |-> OrPositive(Read(rate, "max"), OrPositive(Read(rate, "maxRequests"), 10)),
          windowMs |-> OrPositive(Read(rate, "windowMs"), 60000),
          key |-> Or(Read(rate, "key"), IP)]

BRUTE_FORCE_DEFAULTS ==
    [enabled |-> False, maxAttempts |-> 5, windowMs |-> 900000,
     blockDurationMs |-> 600000, keys |-> <<IP>>]

NormalizeBruteForce(brute, disabled) ==
    IF disabled \/ ~Truthy(brute) \/ Read(brute, "enabled") = False
    THEN BRUTE_FORCE_DEFAULTS
    ELSE [Spread(BRUTE_FORCE_DEFAULTS, brute) EXCEPT
            !.enabled = True,
            !.keys = IF Read(brute, "keys") \in {Undefined, Wrong, <<>>}
                     THEN BRUTE_FORCE_DEFAULTS.keys ELSE brute.keys]

BruteForceDisabled(options) ==
    LET brute == Read(options, "bruteForce")
    IN \/ brute = False
       \/ IsObject(brute) /\ Read(brute, "enabled") = False

NormalizePolicy(policy, options) ==
    [name |-> policy.name,
     match |-> policy.match,
     inheritGlobalRateLimit |-> Read(policy, "inheritGlobalRateLimit") # False,
     rateLimit |-> NormalizeRateLimit(Read(policy, "rateLimit")),
     bruteForce |-> NormalizeBruteForce(Read(policy, "bruteForce"),
                                        BruteForceDisabled(options))]

BuildPolicies(options) ==
    LET presets == IF Read(options, "bruteForce") = False THEN <<>>
                   ELSE GetPresetPolicies(Or(Read(options, "preset"), "off"))
        explicit == Or(Read(options, "policies"), <<>>)
        merged == MergePolicies(presets \o explicit)
    IN [i \in DOMAIN merged |-> NormalizePolicy(merged[i], options)]

-----------------------------------------------------------------------------
(* matcher.js *)

\* RegExp.prototype.test and the two comparisons of texts: the places where
\* the pattern may be found from lastIndex on.
FoundFrom(pattern, path, lastIndex) ==
    {m \in Found[pattern][path] : pattern \in Stateful => m[1] >= lastIndex[pattern]}

\* Where a search that has come to an end leaves lastIndex.
Left(pattern, path, lastIndex) ==
    IF pattern \notin Stateful THEN lastIndex
    ELSE LET found == FoundFrom(pattern, path, lastIndex)
             first == CHOOSE m \in found : \A n \in found : m[1] <= n[1]
         IN [lastIndex EXCEPT ![pattern] = IF found = {} THEN 0 ELSE first[2]]

MatchesMethod(match, method) ==
    Read(match, "method") = Undefined \/ method \in match.method

\* paths.some: the patterns in turn, up to the first that is found.
MatchesPath(match, path, lastIndex) ==
    LET after[n \in 0 .. Len(match.path)] ==
            IF n = 0 THEN [hit |-> FALSE, lastIndex |-> lastIndex]
            ELSE LET so == after[n - 1]
                 IN IF so.hit THEN so
                    ELSE [hit |-> FoundFrom(match.path[n], path, so.lastIndex) # {},
                          lastIndex |-> Left(match.path[n], path, so.lastIndex)]
    IN after[Len(match.path)]

MatchesPolicy(policy, request, lastIndex) ==
    IF ~MatchesMethod(policy.match, request.method)
    THEN [hit |-> FALSE, lastIndex |-> lastIndex]
    ELSE IF Read(policy.match, "path") = Undefined
    THEN [hit |-> TRUE, lastIndex |-> lastIndex]
    ELSE MatchesPath(policy.match, request.path, lastIndex)

\* Mutant: the last policy that matches.
FindLastPolicy(policies, request, lastIndex) ==
    LET after[n \in 0 .. Len(policies)] ==
            IF n = 0 THEN [chosen |-> 0, lastIndex |-> lastIndex]
            ELSE LET m == MatchesPolicy(policies[n], request, after[n - 1].lastIndex)
                 IN [chosen |-> IF m.hit THEN n ELSE after[n - 1].chosen,
                     lastIndex |-> m.lastIndex]
    IN after[Len(policies)]

\* policies.find: the first policy that matches (0: none), and what the
\* search has done to the patterns.
FindMatchingPolicy(policies, request, lastIndex) ==
    LET after[n \in 0 .. Len(policies)] ==
            IF n = 0 THEN [chosen |-> 0, lastIndex |-> lastIndex]
            ELSE LET so == after[n - 1]
                     m == MatchesPolicy(policies[n], request, so.lastIndex)
                 IN IF so.chosen # 0 THEN so
                    ELSE [chosen |-> IF m.hit THEN n ELSE 0, lastIndex |-> m.lastIndex]
    IN after[Len(policies)]
=============================================================================
