------------------------------ MODULE RedisFlags ------------------------------
(***************************************************************************)
(* src/src/stores/redis-store.js, the bans and blocks: values with a TTL   *)
(* and an index Set that lists their keys.  Every method is a few Redis    *)
(* commands with an await after each, and several Node processes share     *)
(* one Redis, so one command is one step.  Redis itself is external: SET   *)
(* with PX, GET, PTTL, DEL, SADD, SREM and SMEMBERS are atomic, and a      *)
(* value is gone at its deadline.                                          *)
(***************************************************************************)
EXTENDS Integers

CONSTANTS
    Procs,      \* calls in flight, of one or several Node processes
    Keys,
    Kinds,      \* the kinds of flags in use: "bans", "blocks"
    Ttl,        \* ttlMs
    MaxTime,    \* bound: the clock stops there
    MayCrash    \* a process may stop between two commands of a call

ASSUME FlagAssumption ==
    /\ Kinds \subseteq {"bans", "blocks"}
    /\ Kinds # {} /\ Keys # {}
    /\ Ttl \in Nat \ {0}
    /\ MaxTime \in Nat
    /\ MayCrash \in BOOLEAN

VARIABLES
    now,
    deadline,   \* Redis: [Kinds -> [Keys -> when the value expires, 0 if none]]
    index,      \* Redis: [Kinds -> members of the index Set]
    pc,         \* the command a call does next
    kind, key,  \* what a call is about
    todo,       \* members a listing has still to ask about
    fresh,      \* history: the flag was set again since the lookup found it over
    unlisted    \* history: the flags in force whose member of the index was lost

redis == <<deadline, index>>
calls == <<pc, kind, key, todo>>
history == <<fresh, unlisted>>
vars == <<now, deadline, index, pc, kind, key, todo, fresh, unlisted>>

Places == {"idle", "sAdd", "get", "pTTL", "del", "sRem", "unsetDel"}

TypeOK ==
    /\ now \in Nat
    /\ deadline \in [Kinds -> [Keys -> Nat]]
    /\ index \in [Kinds -> SUBSET Keys]
    /\ pc \in [Procs -> Places]
    /\ kind \in [Procs -> Kinds]
    /\ key \in [Procs -> Keys]
    /\ todo \in [Procs -> SUBSET Keys]
    /\ fresh \in [Procs -> BOOLEAN]
    /\ unlisted \subseteq Kinds \X Keys

Init ==
    /\ now = 0
    /\ deadline = [d \in Kinds |-> [k \in Keys |-> 0]]
    /\ index = [d \in Kinds |-> {}]
    /\ pc = [p \in Procs |-> "idle"]
    /\ kind = [p \in Procs |-> CHOOSE d \in Kinds : TRUE]
    /\ key = [p \in Procs |-> CHOOSE k \in Keys : TRUE]
    /\ todo = [p \in Procs |-> {}]
    /\ fresh = [p \in Procs |-> FALSE]
    /\ unlisted = {}

Live(d, k) == deadline[d][k] > now

Goto(p, place) == pc' = [pc EXCEPT ![p] = place]

\* The flag of a call, when it is in force, is from here on not in the index.
Lose(p, lost) ==
    unlisted' = unlisted \cup
        IF lost /\ Live(kind[p], key[p]) /\ key[p] \notin index'[kind[p]]
        THEN {<<kind[p], key[p]>>} ELSE {}

\* Nothing is to be said any more of the flag of a call: it is gone or listed.
Settle(p) == unlisted' = unlisted \ {<<kind[p], key[p]>>}

About(p, d, k) ==
    /\ kind' = [kind EXCEPT ![p] = d]
    /\ key' = [key EXCEPT ![p] = k]

\* Mutant: the deadline of a new flag is before now.
ExpiryBackwards == now - Ttl

\* PX ttlMs.
Expiry == now + Ttl

\* A call returns; a listing goes on with its next member.
Return(p) ==
    IF todo[p] = {}
    THEN Goto(p, "idle") /\ UNCHANGED <<kind, key, todo>>
    ELSE \E k \in todo[p] :
            /\ Goto(p, "get")
            /\ About(p, kind[p], k)
            /\ todo' = [todo EXCEPT ![p] = @ \ {k}]

-----------------------------------------------------------------------------
(* ban and blockKey: SET with PX, then SADD. *)

Set(p, d, k) ==
    /\ pc[p] = "idle"
    /\ deadline' = [deadline EXCEPT ![d][k] = Expiry]
    /\ Goto(p, "sAdd")
    /\ About(p, d, k)
    /\ fresh' = [q \in Procs |->
          fresh[q] \/ (pc[q] \in {"del", "sRem"} /\ kind[q] = d /\ key[q] = k)]
    /\ unlisted' = unlisted \ {<<d, k>>}
    /\ UNCHANGED <<now, index, todo>>

SetBan(p, k) == "bans" \in Kinds /\ Set(p, "bans", k)
SetBlock(p, k) == "blocks" \in Kinds /\ Set(p, "blocks", k)

\* Mutant: every member goes to the index of the bans.
IndexAddToBans(p) ==
    /\ pc[p] = "sAdd"
    /\ index' = [d \in Kinds |-> IF d = "bans" THEN index[d] \cup {key[p]} ELSE index[d]]
    /\ Goto(p, "idle")
    /\ UNCHANGED <<now, deadline, kind, key, todo, fresh>>
    /\ Settle(p)

IndexAdd(p) ==
    /\ pc[p] = "sAdd"
    /\ index' = [index EXCEPT ![kind[p]] = @ \cup {key[p]}]
    /\ Goto(p, "idle")
    /\ UNCHANGED <<now, deadline, kind, key, todo, fresh>>
    /\ Settle(p)

-----------------------------------------------------------------------------
(* isBanned and isBlocked: GET, PTTL, and when the TTL is over DEL, SREM. *)

StartLookup(p, d, k) ==
    /\ pc[p] = "idle"
    /\ Goto(p, "get")
    /\ About(p, d, k)
    /\ UNCHANGED <<now, redis, todo, history>>

LookupBan(p, k) == "bans" \in Kinds /\ StartLookup(p, "bans", k)
LookupBlock(p, k) == "blocks" \in Kinds /\ StartLookup(p, "blocks", k)

\* No value: not banned, and the index is left as it is.
Get(p) ==
    /\ pc[p] = "get"
    /\ IF Live(kind[p], key[p])
       THEN Goto(p, "pTTL") /\ UNCHANGED <<kind, key, todo>>
       ELSE Return(p)
    /\ UNCHANGED <<now, redis, history>>

\* Mutant: the answer of PTTL is taken the wrong way round.
PTtlInverted(p) ==
    /\ pc[p] = "pTTL"
    /\ IF ~Live(kind[p], key[p])
       THEN Return(p)
       ELSE Goto(p, "del") /\ UNCHANGED <<kind, key, todo>>
    /\ UNCHANGED <<now, redis, history>>

\* A TTL that is left: banned.  The value may have expired since GET.
PTtl(p) ==
    /\ pc[p] = "pTTL"
    /\ IF Live(kind[p], key[p])
       THEN Return(p)
       ELSE Goto(p, "del") /\ UNCHANGED <<kind, key, todo>>
    /\ UNCHANGED <<now, redis, history>>

\* The value is deleted whatever it is by now.
Del(p) ==
    /\ pc[p] = "del"
    /\ deadline' = [deadline EXCEPT ![kind[p]][key[p]] = 0]
    /\ Goto(p, "sRem")
    /\ UNCHANGED <<now, index, kind, key, todo, fresh>>
    /\ Settle(p)

IndexRemove(p) ==
    /\ pc[p] = "sRem"
    /\ index' = [index EXCEPT ![kind[p]] = @ \ {key[p]}]
    /\ Return(p)
    /\ fresh' = [fresh EXCEPT ![p] = FALSE]
    /\ Lose(p, fresh[p])
    /\ UNCHANGED <<now, deadline>>

-----------------------------------------------------------------------------
(* unban and unblockKey: SREM, then DEL. *)

Unset(p, d, k) ==
    /\ pc[p] = "idle"
    /\ index' = [index EXCEPT ![d] = @ \ {k}]
    /\ Goto(p, "unsetDel")
    /\ About(p, d, k)
    /\ UNCHANGED <<now, deadline, todo, history>>

UnsetBan(p, k) == "bans" \in Kinds /\ Unset(p, "bans", k)
UnsetBlock(p, k) == "blocks" \in Kinds /\ Unset(p, "blocks", k)

UnsetDel(p) ==
    /\ pc[p] = "unsetDel"
    /\ deadline' = [deadline EXCEPT ![kind[p]][key[p]] = 0]
    /\ Goto(p, "idle")
    /\ UNCHANGED <<now, index, kind, key, todo, fresh>>
    /\ Settle(p)

-----------------------------------------------------------------------------
(* listBans and listBlocks: the members of the index, then a lookup of each. *)
(* One SMEMBERS, as for a client without sScan.  With it the members come in *)
(* several replies, and may be some that are gone or miss some that are new; *)
(* what is then done to each of them is a lookup, and lookups of any keys in *)
(* any order are steps of LookupBan and LookupBlock as well.                 *)

List(p, d) ==
    /\ pc[p] = "idle"
    /\ index[d] # {}
    /\ \E k \in index[d] :
          /\ About(p, d, k)
          /\ todo' = [todo EXCEPT ![p] = index[d] \ {k}]
    /\ Goto(p, "get")
    /\ UNCHANGED <<now, redis, history>>

ListBans(p) == "bans" \in Kinds /\ List(p, "bans")
ListBlocks(p) == "blocks" \in Kinds /\ List(p, "blocks")

-----------------------------------------------------------------------------
\* The process stops, or a command is rejected: the rest of the call is lost.
Crash(p) ==
    /\ MayCrash
    /\ pc[p] # "idle"
    /\ Goto(p, "idle")
    /\ todo' = [todo EXCEPT ![p] = {}]
    /\ fresh' = [fresh EXCEPT ![p] = FALSE]
    /\ UNCHANGED <<now, redis, kind, key>>
    /\ Lose(p, pc[p] \in {"sAdd", "unsetDel"})

Tick ==
    /\ now < MaxTime
    /\ now' = now + 1
    /\ unlisted' = {u \in unlisted : deadline[u[1]][u[2]] > now'}
    /\ UNCHANGED <<redis, calls, fresh>>

Next ==
    \/ \E p \in Procs, k \in Keys :
          \/ SetBan(p, k) \/ SetBlock(p, k) \/ LookupBan(p, k) \/ LookupBlock(p, k)
          \/ UnsetBan(p, k) \/ UnsetBlock(p, k)
    \/ \E p \in Procs :
          \/ IndexAdd(p) \/ Get(p) \/ PTtl(p) \/ Del(p) \/ IndexRemove(p)
          \/ UnsetDel(p) \/ ListBans(p) \/ ListBlocks(p) \/ Crash(p)
    \/ Tick

Spec == Init /\ [][Next]_vars

-----------------------------------------------------------------------------
(* Properties. *)

\* A flag that is in force is only ever lifted by a call that lifts it.
OnlyUnsetLifts ==
    [][\A d \in Kinds, k \in Keys :
          Live(d, k) /\ ~Live(d, k)' /\ now' = now
              => \E p \in Procs : pc[p] = "unsetDel" /\ kind[p] = d /\ key[p] = k]_vars

\* What is left of it: a lookup can delete a flag that is in force, or take it
\* out of the index, but only one that was set after this very lookup found the
\* previous one over (redis-store.js 61-62, 135-136).
OnlyOverlappingSetIsLost ==
    [][\A p \in Procs :
          pc[p] \in {"del", "sRem"} /\ pc'[p] # pc[p] /\ redis' # redis
              => (Live(kind[p], key[p]) => fresh[p])]_vars

\* The admin API lists every flag that is in force, whatever lookups, listings
\* and unbans come between: a flag is missing only while the call that sets or
\* lifts it is between its two commands, or after that call died there, or
\* after the SREM of a lookup that began before the flag was set
\* (redis-store.js 47, 62, 77-82, 120).
InForceIsListed ==
    \A d \in Kinds, k \in Keys :
        Live(d, k) /\ k \notin index[d] =>
            \/ <<d, k>> \in unlisted
            \/ \E p \in Procs : pc[p] \in {"sAdd", "unsetDel"} /\ kind[p] = d /\ key[p] = k
=============================================================================
