-------------------------- MODULE RedisFlags_proofs --------------------------
(***************************************************************************)
(* Proofs about RedisFlags, for any calls, flags and lifetime, whether or  *)
(* not processes crash.  What has to be known beside the property is the   *)
(* past of a lookup that is about to delete: the flag it found over is in  *)
(* force again only if it was set since.                                   *)
(***************************************************************************)
EXTENDS RedisFlags, TLAPS

\* A lookup about to delete a flag in force was overtaken by a set of it.
Overtaken == \A p \in Procs :
    pc[p] \in {"del", "sRem"} /\ Live(kind[p], key[p]) => fresh[p]

FlagsInv == TypeOK /\ Overtaken /\ InForceIsListed

\* A call between the two commands that set or lift the flag.
Between(p, d, k) == pc[p] \in {"sAdd", "unsetDel"} /\ kind[p] = d /\ key[p] = k

-----------------------------------------------------------------------------
LEMMA FlagsInitIsSound ==
  ASSUME Init
  PROVE  FlagsInv
<1>1. (CHOOSE d \in Kinds : TRUE) \in Kinds /\ (CHOOSE k \in Keys : TRUE) \in Keys
  BY FlagAssumption DEF FlagAssumption
<1>2. TypeOK
  BY <1>1 DEF Init, TypeOK, Places
<1>3. Overtaken /\ InForceIsListed
  BY DEF Init, Overtaken, InForceIsListed, Live
<1>4. QED
  BY <1>2, <1>3 DEF FlagsInv

\* Where a call that returns goes: nowhere, or on to the next of its listing.
LEMMA ReturnMoves ==
  ASSUME TypeOK, NEW p \in Procs, Return(p)
  PROVE  /\ pc' \in [Procs -> Places] /\ kind' \in [Procs -> Kinds]
         /\ key' \in [Procs -> Keys] /\ todo' \in [Procs -> SUBSET Keys]
         /\ pc'[p] \in {"idle", "get"}
         /\ \A q \in Procs : q # p => pc'[q] = pc[q] /\ kind'[q] = kind[q] /\ key'[q] = key[q]
<1>1. CASE todo[p] = {}
  BY <1>1 DEF Return, Goto, TypeOK, Places
<1>2. CASE todo[p] # {}
  <2>1. PICK k \in todo[p] : /\ Goto(p, "get")
                             /\ About(p, kind[p], k)
                             /\ todo' = [todo EXCEPT ![p] = @ \ {k}]
    BY <1>2 DEF Return
  <2>2. k \in Keys
    BY DEF TypeOK
  <2>3. QED
    BY <2>1, <2>2 DEF Goto, About, TypeOK, Places
<1>3. QED
  BY <1>1, <1>2

\* A call that touches neither Redis nor the histories, and is between two
\* commands neither before nor after.
LEMMA LookIsSound ==
  ASSUME FlagsInv, NEW p \in Procs,
         pc[p] \notin {"sAdd", "unsetDel"},
         pc' \in [Procs -> Places], kind' \in [Procs -> Kinds],
         key' \in [Procs -> Keys], todo' \in [Procs -> SUBSET Keys],
         pc'[p] \in {"del", "sRem"} => ~Live(kind[p], key[p]) /\ kind'[p] = kind[p] /\ key'[p] = key[p],
         \A q \in Procs : q # p => pc'[q] = pc[q] /\ kind'[q] = kind[q] /\ key'[q] = key[q],
         UNCHANGED <<now, redis, history>>
  PROVE  FlagsInv'
<1>1. \A d \in Kinds, k \in Keys : Live(d, k)' <=> Live(d, k)
  BY DEF Live, redis
<1>2. TypeOK'
  BY DEF FlagsInv, TypeOK, redis, history
<1>3. Overtaken'
  BY <1>1 DEF FlagsInv, TypeOK, Overtaken, Live, redis, history
<1>4. InForceIsListed'
  BY <1>1 DEF FlagsInv, InForceIsListed, redis, history
<1>5. QED
  BY <1>2, <1>3, <1>4 DEF FlagsInv

LEMMA SetIsSound ==
  ASSUME FlagsInv, NEW p \in Procs, NEW d \in Kinds, NEW k \in Keys, Set(p, d, k)
  PROVE  FlagsInv'
<1>1. /\ pc[p] = "idle"
      /\ deadline' = [deadline EXCEPT ![d][k] = Expiry]
      /\ pc' = [pc EXCEPT ![p] = "sAdd"]
      /\ kind' = [kind EXCEPT ![p] = d] /\ key' = [key EXCEPT ![p] = k]
      /\ fresh' = [q \in Procs |->
            fresh[q] \/ (pc[q] \in {"del", "sRem"} /\ kind[q] = d /\ key[q] = k)]
      /\ unlisted' = unlisted \ {<<d, k>>}
      /\ UNCHANGED <<now, index, todo>>
  BY DEF Set, Goto, About
<1>2. Expiry \in Nat
  BY FlagAssumption DEF Expiry, FlagAssumption, FlagsInv, TypeOK
<1>3. TypeOK'
  <2>1. deadline' \in [Kinds -> [Keys -> Nat]]
    BY <1>1, <1>2 DEF FlagsInv, TypeOK
  <2>2. pc' \in [Procs -> Places]
    BY <1>1 DEF FlagsInv, TypeOK, Places
  <2>3. fresh' \in [Procs -> BOOLEAN]
    BY <1>1 DEF FlagsInv, TypeOK
  <2>4. QED
    BY <1>1, <2>1, <2>2, <2>3 DEF FlagsInv, TypeOK
<1>4. \A e \in Kinds, q \in Keys : e # d \/ q # k => (Live(e, q)' <=> Live(e, q))
  BY <1>1 DEF FlagsInv, TypeOK, Live
<1>5. Overtaken'
  <2>1. ASSUME NEW q \in Procs, pc'[q] \in {"del", "sRem"}, Live(kind[q], key[q])'
        PROVE  fresh'[q]
    <3>1. q # p /\ pc[q] = pc'[q] /\ kind'[q] = kind[q] /\ key'[q] = key[q]
      BY <1>1, <2>1 DEF FlagsInv, TypeOK
    <3>2. kind[q] \in Kinds /\ key[q] \in Keys
      BY DEF FlagsInv, TypeOK
    <3>3. CASE kind[q] = d /\ key[q] = k
      BY <1>1, <2>1, <3>1, <3>3
    <3>4. CASE kind[q] # d \/ key[q] # k
      <4>1. Live(kind[q], key[q])
        BY <1>4, <2>1, <3>1, <3>2, <3>4 DEF Live
      <4>2. QED
        BY <1>1, <2>1, <3>1, <4>1 DEF FlagsInv, Overtaken
    <3>5. QED
      BY <3>3, <3>4
  <2>2. QED
    BY <2>1 DEF Overtaken, Live
<1>6. InForceIsListed'
  <2>1. ASSUME NEW e \in Kinds, NEW q \in Keys, Live(e, q)', q \notin index'[e]
        PROVE  \/ <<e, q>> \in unlisted'
               \/ \E c \in Procs : Between(c, e, q)'
    <3>1. CASE e = d /\ q = k
      BY <1>1, <3>1 DEF Between, FlagsInv, TypeOK
    <3>2. CASE e # d \/ q # k
      <4>1. \/ <<e, q>> \in unlisted
            \/ \E c \in Procs : Between(c, e, q)
        BY <1>1, <1>4, <2>1, <3>2 DEF FlagsInv, InForceIsListed, Between
      <4>2. \A c \in Procs : Between(c, e, q) => c # p /\ Between(c, e, q)'
        BY <1>1 DEF Between, FlagsInv, TypeOK
      <4>3. QED
        BY <1>1, <3>2, <4>1, <4>2
    <3>3. QED
      BY <3>1, <3>2
  <2>2. QED
    BY <2>1 DEF InForceIsListed, Between
<1>7. QED
  BY <1>3, <1>5, <1>6 DEF FlagsInv

LEMMA IndexAddIsSound ==
  ASSUME FlagsInv, NEW p \in Procs, IndexAdd(p)
  PROVE  FlagsInv'
<1>1. /\ pc[p] = "sAdd"
      /\ index' = [index EXCEPT ![kind[p]] = @ \cup {key[p]}]
      /\ pc' = [pc EXCEPT ![p] = "idle"]
      /\ unlisted' = unlisted \ {<<kind[p], key[p]>>}
      /\ UNCHANGED <<now, deadline, kind, key, todo, fresh>>
  BY DEF IndexAdd, Goto, Settle
<1>2. kind[p] \in Kinds /\ key[p] \in Keys
  BY DEF FlagsInv, TypeOK
<1>3. \A d \in Kinds, k \in Keys : Live(d, k)' <=> Live(d, k)
  BY <1>1 DEF Live
<1>4. TypeOK'
  BY <1>1, <1>2 DEF FlagsInv, TypeOK, Places
<1>5. Overtaken'
  BY <1>1, <1>3 DEF FlagsInv, TypeOK, Overtaken, Live
<1>6. InForceIsListed'
  <2>1. ASSUME NEW e \in Kinds, NEW q \in Keys, Live(e, q)', q \notin index'[e]
        PROVE  \/ <<e, q>> \in unlisted'
               \/ \E c \in Procs : Between(c, e, q)'
    <3>1. e # kind[p] \/ q # key[p]
      BY <1>1, <1>2, <2>1 DEF FlagsInv, TypeOK
    <3>2. \/ <<e, q>> \in unlisted
          \/ \E c \in Procs : Between(c, e, q)
      BY <1>1, <1>2, <1>3, <2>1 DEF FlagsInv, TypeOK, InForceIsListed, Between
    <3>3. \A c \in Procs : Between(c, e, q) => Between(c, e, q)'
      BY <1>1, <3>1 DEF Between, FlagsInv, TypeOK
    <3>4. QED
      BY <1>1, <3>1, <3>2, <3>3
  <2>2. QED
    BY <2>1 DEF InForceIsListed, Between
<1>7. QED
  BY <1>4, <1>5, <1>6 DEF FlagsInv

\* DEL, of a lookup or of an unban: nothing is in force any more.
LEMMA DeletionIsSound ==
  ASSUME FlagsInv, NEW p \in Procs, NEW place \in {"idle", "sRem"},
         deadline' = [deadline EXCEPT ![kind[p]][key[p]] = 0],
         Goto(p, place),
         UNCHANGED <<now, index, kind, key, todo, fresh>>,
         Settle(p)
  PROVE  FlagsInv'
<1>1. /\ pc' = [pc EXCEPT ![p] = place]
      /\ unlisted' = unlisted \ {<<kind[p], key[p]>>}
  BY DEF Goto, Settle
<1>2. kind[p] \in Kinds /\ key[p] \in Keys
  BY DEF FlagsInv, TypeOK
<1>3. ~Live(kind[p], key[p])'
  BY <1>2 DEF Live, FlagsInv, TypeOK
<1>4. \A e \in Kinds, q \in Keys :
         e # kind[p] \/ q # key[p] => (Live(e, q)' <=> Live(e, q))
  BY <1>2 DEF FlagsInv, TypeOK, Live
<1>5. TypeOK'
  <2>1. deadline' \in [Kinds -> [Keys -> Nat]]
    BY <1>2 DEF FlagsInv, TypeOK
  <2>2. pc' \in [Procs -> Places]
    BY <1>1 DEF FlagsInv, TypeOK, Places
  <2>3. QED
    BY <1>1, <2>1, <2>2 DEF FlagsInv, TypeOK
<1>6. Overtaken'
  <2>1. ASSUME NEW q \in Procs, pc'[q] \in {"del", "sRem"}, Live(kind[q], key[q])'
        PROVE  fresh'[q]
    <3>1. kind[q] \in Kinds /\ key[q] \in Keys /\ kind'[q] = kind[q] /\ key'[q] = key[q]
      BY DEF FlagsInv, TypeOK
    <3>2. Live(kind[q], key[q])
      BY <1>3, <1>4, <2>1, <3>1 DEF Live
    <3>3. q # p /\ pc'[q] = pc[q]
      BY <1>1, <1>3, <2>1, <3>1 DEF FlagsInv, TypeOK, Live
    <3>4. QED
      BY <2>1, <3>2, <3>3 DEF FlagsInv, Overtaken
  <2>2. QED
    BY <2>1 DEF Overtaken, Live
<1>7. InForceIsListed'
  <2>1. ASSUME NEW e \in Kinds, NEW q \in Keys, Live(e, q)', q \notin index'[e]
        PROVE  \/ <<e, q>> \in unlisted'
               \/ \E c \in Procs : Between(c, e, q)'
    <3>1. (e # kind[p] \/ q # key[p]) /\ Live(e, q)
      BY <1>3, <1>4, <2>1
    <3>2. \/ <<e, q>> \in unlisted
          \/ \E c \in Procs : Between(c, e, q)
      BY <2>1, <3>1 DEF FlagsInv, InForceIsListed, Between
    <3>3. \A c \in Procs : Between(c, e, q) => Between(c, e, q)'
      BY <1>1, <3>1 DEF Between, FlagsInv, TypeOK
    <3>4. QED
      BY <1>1, <3>1, <3>2, <3>3
  <2>2. QED
    BY <2>1 DEF InForceIsListed, Between
<1>8. QED
  BY <1>5, <1>6, <1>7 DEF FlagsInv

\* The end of a call at a member of the index that it takes out or leaves
\* unlisted: what is in force by then goes to the history.
LEMMA LosingIsSound ==
  ASSUME FlagsInv, NEW p \in Procs, NEW lost \in BOOLEAN,
         Lose(p, lost),
         index' \in [Kinds -> SUBSET Keys],
         \A d \in Kinds : index'[d] = index[d] \/ (d = kind[p] /\ index'[d] = index[d] \ {key[p]}),
         index' # index \/ pc[p] \in {"sAdd", "unsetDel"}
             => (Live(kind[p], key[p]) => lost),
         pc' \in [Procs -> Places], kind' \in [Procs -> Kinds],
         key' \in [Procs -> Keys], todo' \in [Procs -> SUBSET Keys],
         pc'[p] \in {"idle", "get"},
         \A q \in Procs : q # p => pc'[q] = pc[q] /\ kind'[q] = kind[q] /\ key'[q] = key[q],
         fresh' = [fresh EXCEPT ![p] = FALSE],
         UNCHANGED <<now, deadline>>
  PROVE  FlagsInv'
<1>1. kind[p] \in Kinds /\ key[p] \in Keys
  BY DEF FlagsInv, TypeOK
<1>2. \A d \in Kinds, k \in Keys : Live(d, k)' <=> Live(d, k)
  BY DEF Live
<1>3. /\ unlisted \subseteq unlisted'
      /\ unlisted' \subseteq unlisted \cup {<<kind[p], key[p]>>}
      /\ lost /\ Live(kind[p], key[p]) /\ key[p] \notin index'[kind[p]]
            => <<kind[p], key[p]>> \in unlisted'
  BY DEF Lose
<1>4. TypeOK'
  <2>1. unlisted' \subseteq Kinds \X Keys
    BY <1>1, <1>3 DEF FlagsInv, TypeOK
  <2>2. QED
    BY <2>1 DEF FlagsInv, TypeOK
<1>5. Overtaken'
  BY <1>2 DEF FlagsInv, TypeOK, Overtaken, Live
<1>6. InForceIsListed'
  <2>1. ASSUME NEW e \in Kinds, NEW q \in Keys, Live(e, q)', q \notin index'[e]
        PROVE  \/ <<e, q>> \in unlisted'
               \/ \E c \in Procs : Between(c, e, q)'
    <3>1. Live(e, q)
      BY <1>2, <2>1
    <3>2. CASE e = kind[p] /\ q = key[p] /\ lost
      BY <1>3, <2>1, <3>1, <3>2
    <3>3. CASE ~(e = kind[p] /\ q = key[p] /\ lost)
      <4>1. q \notin index[e]
        <5>1. CASE index'[e] = index[e]
          BY <2>1, <5>1
        <5>2. CASE index'[e] # index[e]
          <6>1. e = kind[p] /\ index'[e] = index[e] \ {key[p]} /\ index' # index
            BY <5>2
          <6>2. q # key[p]
            BY <3>1, <3>3, <6>1
          <6>3. QED
            BY <2>1, <6>1, <6>2
        <5>3. QED
          BY <5>1, <5>2
      <4>2. \/ <<e, q>> \in unlisted
            \/ \E c \in Procs : Between(c, e, q)
        BY <3>1, <4>1 DEF FlagsInv, InForceIsListed, Between
      <4>3. ~Between(p, e, q)
        BY <3>1, <3>3 DEF Between
      <4>4. \A c \in Procs : Between(c, e, q) => Between(c, e, q)'
        BY <4>3 DEF Between
      <4>5. QED
        BY <1>3, <4>2, <4>4
    <3>4. QED
      BY <3>2, <3>3
  <2>2. QED
    BY <2>1 DEF InForceIsListed, Between
<1>7. QED
  BY <1>4, <1>5, <1>6 DEF FlagsInv

LEMMA IndexRemoveIsSound ==
  ASSUME FlagsInv, NEW p \in Procs, IndexRemove(p)
  PROVE  FlagsInv'
<1>1. /\ pc[p] = "sRem"
      /\ index' = [index EXCEPT ![kind[p]] = @ \ {key[p]}]
      /\ Return(p) /\ Lose(p, fresh[p])
      /\ fresh' = [fresh EXCEPT ![p] = FALSE]
      /\ UNCHANGED <<now, deadline>>
  BY DEF IndexRemove
<1>2. kind[p] \in Kinds /\ key[p] \in Keys /\ fresh[p] \in BOOLEAN
  BY DEF FlagsInv, TypeOK
<1>3. /\ index' \in [Kinds -> SUBSET Keys]
      /\ \A d \in Kinds :
            index'[d] = index[d] \/ (d = kind[p] /\ index'[d] = index[d] \ {key[p]})
  BY <1>1, <1>2 DEF FlagsInv, TypeOK
<1>4. Live(kind[p], key[p]) => fresh[p]
  BY <1>1 DEF FlagsInv, Overtaken
<1>5. /\ pc' \in [Procs -> Places] /\ kind' \in [Procs -> Kinds]
      /\ key' \in [Procs -> Keys] /\ todo' \in [Procs -> SUBSET Keys]
      /\ pc'[p] \in {"idle", "get"}
      /\ \A q \in Procs : q # p => pc'[q] = pc[q] /\ kind'[q] = kind[q] /\ key'[q] = key[q]
  BY <1>1, ReturnMoves DEF FlagsInv
<1>6. QED
  BY <1>1, <1>2, <1>3, <1>4, <1>5, LosingIsSound

LEMMA CrashIsSound ==
  ASSUME FlagsInv, NEW p \in Procs, Crash(p)
  PROVE  FlagsInv'
<1> DEFINE lost == pc[p] \in {"sAdd", "unsetDel"}
<1>1. /\ pc' = [pc EXCEPT ![p] = "idle"]
      /\ todo' = [todo EXCEPT ![p] = {}]
      /\ fresh' = [fresh EXCEPT ![p] = FALSE]
      /\ Lose(p, lost)
      /\ UNCHANGED <<now, deadline, index, kind, key>>
  BY DEF Crash, Goto, redis
<1>2. lost \in BOOLEAN /\ (pc[p] \in {"sAdd", "unsetDel"} => lost)
  OBVIOUS
<1> HIDE DEF lost
<1>3. /\ pc' \in [Procs -> Places] /\ pc'[p] = "idle"
      /\ todo' \in [Procs -> SUBSET Keys] /\ index' \in [Kinds -> SUBSET Keys]
      /\ kind' \in [Procs -> Kinds] /\ key' \in [Procs -> Keys]
      /\ \A q \in Procs : q # p => pc'[q] = pc[q] /\ kind'[q] = kind[q] /\ key'[q] = key[q]
  BY <1>1 DEF FlagsInv, TypeOK, Places
<1>4. /\ \A d \in Kinds :
            index'[d] = index[d] \/ (d = kind[p] /\ index'[d] = index[d] \ {key[p]})
      /\ index' # index \/ pc[p] \in {"sAdd", "unsetDel"}
             => (Live(kind[p], key[p]) => lost)
      /\ pc'[p] \in {"idle", "get"}
  BY <1>1, <1>2, <1>3
<1>5. Lose(p, lost) /\ fresh' = [fresh EXCEPT ![p] = FALSE] /\ UNCHANGED <<now, deadline>>
  BY <1>1
<1>6. QED
  BY <1>2, <1>3, <1>4, <1>5, LosingIsSound

LEMMA UnsetIsSound ==
  ASSUME FlagsInv, NEW p \in Procs, NEW d \in Kinds, NEW k \in Keys, Unset(p, d, k)
  PROVE  FlagsInv'
<1>1. /\ pc[p] = "idle"
      /\ index' = [index EXCEPT ![d] = @ \ {k}]
      /\ pc' = [pc EXCEPT ![p] = "unsetDel"]
      /\ kind' = [kind EXCEPT ![p] = d] /\ key' = [key EXCEPT ![p] = k]
      /\ UNCHANGED <<now, deadline, todo, fresh, unlisted>>
  BY DEF Unset, Goto, About, history
<1>2. TypeOK'
  BY <1>1 DEF FlagsInv, TypeOK, Places
<1>3. \A e \in Kinds, q \in Keys : Live(e, q)' <=> Live(e, q)
  BY <1>1 DEF Live
<1>4. Overtaken'
  BY <1>1, <1>3 DEF FlagsInv, TypeOK, Overtaken, Live
<1>5. InForceIsListed'
  <2>1. ASSUME NEW e \in Kinds, NEW q \in Keys, Live(e, q)', q \notin index'[e]
        PROVE  \/ <<e, q>> \in unlisted'
               \/ \E c \in Procs : Between(c, e, q)'
    <3>1. CASE e = d /\ q = k
      BY <1>1, <3>1 DEF Between, FlagsInv, TypeOK
    <3>2. CASE e # d \/ q # k
      <4>1. \/ <<e, q>> \in unlisted
            \/ \E c \in Procs : Between(c, e, q)
        BY <1>1, <1>3, <2>1, <3>2 DEF FlagsInv, TypeOK, InForceIsListed, Between
      <4>2. \A c \in Procs : Between(c, e, q) => c # p /\ Between(c, e, q)'
        BY <1>1 DEF Between, FlagsInv, TypeOK
      <4>3. QED
        BY <1>1, <4>1, <4>2
    <3>3. QED
      BY <3>1, <3>2
  <2>2. QED
    BY <2>1 DEF InForceIsListed, Between
<1>6. QED
  BY <1>2, <1>4, <1>5 DEF FlagsInv

LEMMA TickIsSound ==
  ASSUME FlagsInv, Tick
  PROVE  FlagsInv'
<1>1. /\ now' = now + 1 /\ now \in Nat
      /\ unlisted' = {u \in unlisted : deadline[u[1]][u[2]] > now'}
      /\ UNCHANGED <<deadline, index, pc, kind, key, todo, fresh>>
  BY DEF Tick, redis, calls, FlagsInv, TypeOK
<1>2. \A d \in Kinds, k \in Keys : Live(d, k)' => Live(d, k) /\ deadline[d][k] > now'
  BY <1>1 DEF Live, FlagsInv, TypeOK
<1>3. TypeOK'
  BY <1>1 DEF FlagsInv, TypeOK
<1>4. Overtaken'
  BY <1>1, <1>2 DEF FlagsInv, TypeOK, Overtaken, Live
<1>5. InForceIsListed'
  <2>1. \A d \in Kinds, k \in Keys : Live(d, k)' /\ <<d, k>> \in unlisted => <<d, k>> \in unlisted'
    BY <1>1, <1>2
  <2>2. QED
    BY <1>1, <1>2, <2>1 DEF FlagsInv, InForceIsListed
<1>6. QED
  BY <1>3, <1>4, <1>5 DEF FlagsInv

LEMMA LookupIsSound ==
  ASSUME FlagsInv, NEW p \in Procs,
         \/ Get(p) \/ PTtl(p)
         \/ \E d \in Kinds, k \in Keys : StartLookup(p, d, k)
         \/ \E d \in Kinds : List(p, d)
  PROVE  FlagsInv'
<1>1. ASSUME Get(p) \/ PTtl(p), ~Return(p)
      PROVE  FlagsInv'
  <2>1. /\ pc[p] \in {"get", "pTTL"}
        /\ pc' = [pc EXCEPT ![p] = IF pc[p] = "get" THEN "pTTL" ELSE "del"]
        /\ pc[p] = "pTTL" => ~Live(kind[p], key[p])
        /\ UNCHANGED <<kind, key, todo, now, redis, history>>
    BY <1>1 DEF Get, PTtl, Goto
  <2>2. pc' \in [Procs -> Places] /\ pc'[p] # "sRem" /\ \A q \in Procs : q # p => pc'[q] = pc[q]
    BY <2>1 DEF FlagsInv, TypeOK, Places
  <2>3. pc'[p] = "del" => ~Live(kind[p], key[p])
    BY <2>1 DEF FlagsInv, TypeOK
  <2>4. QED
    BY <2>1, <2>2, <2>3, LookIsSound DEF FlagsInv, TypeOK
<1>2. ASSUME Get(p) \/ PTtl(p), Return(p)
      PROVE  FlagsInv'
  <2>1. pc[p] \in {"get", "pTTL"} /\ UNCHANGED <<now, redis, history>>
    BY <1>2 DEF Get, PTtl
  <2>2. QED
    BY <1>2, <2>1, ReturnMoves, LookIsSound DEF FlagsInv
<1>3. ASSUME NEW d \in Kinds, NEW k \in Keys, StartLookup(p, d, k)
      PROVE  FlagsInv'
  <2>1. /\ pc[p] = "idle" /\ UNCHANGED <<now, redis, todo, history>>
        /\ pc' \in [Procs -> Places] /\ kind' \in [Procs -> Kinds] /\ key' \in [Procs -> Keys]
        /\ pc'[p] = "get"
        /\ \A q \in Procs : q # p => pc'[q] = pc[q] /\ kind'[q] = kind[q] /\ key'[q] = key[q]
    BY <1>3 DEF StartLookup, Goto, About, FlagsInv, TypeOK, Places
  <2>2. QED
    BY <2>1, LookIsSound DEF FlagsInv, TypeOK
<1>4. ASSUME NEW d \in Kinds, List(p, d)
      PROVE  FlagsInv'
  <2>1. PICK k \in index[d] : /\ About(p, d, k)
                              /\ todo' = [todo EXCEPT ![p] = index[d] \ {k}]
    BY <1>4 DEF List
  <2>2. k \in Keys /\ index[d] \subseteq Keys
    BY DEF FlagsInv, TypeOK
  <2>3. /\ pc[p] = "idle" /\ UNCHANGED <<now, redis, history>>
        /\ pc' \in [Procs -> Places] /\ kind' \in [Procs -> Kinds] /\ key' \in [Procs -> Keys]
        /\ todo' \in [Procs -> SUBSET Keys]
        /\ pc'[p] = "get"
        /\ \A q \in Procs : q # p => pc'[q] = pc[q] /\ kind'[q] = kind[q] /\ key'[q] = key[q]
    BY <1>4, <2>1, <2>2 DEF List, Goto, About, FlagsInv, TypeOK, Places
  <2>4. QED
    BY <2>3, LookIsSound
<1>5. QED
  BY <1>1, <1>2, <1>3, <1>4

LEMMA FlagsStepIsSound ==
  ASSUME FlagsInv, [Next]_vars
  PROVE  FlagsInv'
<1>1. CASE UNCHANGED vars
  BY <1>1 DEF vars, FlagsInv, TypeOK, Overtaken, InForceIsListed, Live
<1>2. ASSUME NEW p \in Procs, NEW k \in Keys,
             \/ SetBan(p, k) \/ SetBlock(p, k) \/ LookupBan(p, k) \/ LookupBlock(p, k)
             \/ UnsetBan(p, k) \/ UnsetBlock(p, k)
      PROVE  FlagsInv'
  BY <1>2, SetIsSound, LookupIsSound, UnsetIsSound
     DEF SetBan, SetBlock, LookupBan, LookupBlock, UnsetBan, UnsetBlock
<1>3. ASSUME NEW p \in Procs, Del(p) \/ UnsetDel(p)
      PROVE  FlagsInv'
  BY <1>3, DeletionIsSound DEF Del, UnsetDel
<1>4. ASSUME NEW p \in Procs, Get(p) \/ PTtl(p) \/ ListBans(p) \/ ListBlocks(p)
      PROVE  FlagsInv'
  BY <1>4, LookupIsSound DEF ListBans, ListBlocks
<1>5. QED
  BY <1>1, <1>2, <1>3, <1>4, IndexAddIsSound, IndexRemoveIsSound, CrashIsSound, TickIsSound
     DEF Next

LEMMA FlagsInvariance == Spec => []FlagsInv
<1>1. Init => FlagsInv
  BY FlagsInitIsSound
<1>2. FlagsInv /\ [Next]_vars => FlagsInv'
  BY FlagsStepIsSound
<1>3. QED
  BY <1>1, <1>2, PTL DEF Spec

\* The flags, their index and the calls keep their types, crashes included.
THEOREM FlagsTypeCorrect == Spec => []TypeOK
<1>1. FlagsInv => TypeOK
  BY DEF FlagsInv
<1>2. QED
  BY <1>1, FlagsInvariance, PTL

\* For any number of calls and flags: what is in force and not in the index is
\* being set or lifted, or is accounted for by a crash or an overtaken lookup.
THEOREM FlagsAreListed == Spec => []InForceIsListed
<1>1. FlagsInv => InForceIsListed
  BY DEF FlagsInv
<1>2. QED
  BY <1>1, FlagsInvariance, PTL

\* For any number of calls and flags: a lookup that changes Redis under a flag
\* in force was overtaken by a set of that flag.
THEOREM OvertakenLookupsOnly == Spec => OnlyOverlappingSetIsLost
<1> DEFINE Lost == \A p \in Procs :
               pc[p] \in {"del", "sRem"} /\ pc'[p] # pc[p] /\ redis' # redis
                   => (Live(kind[p], key[p]) => fresh[p])
<1>1. FlagsInv /\ [Next]_vars => [Lost]_vars
  BY DEF FlagsInv, Overtaken
<1>2. QED
  BY <1>1, FlagsInvariance, PTL DEF Spec, OnlyOverlappingSetIsLost
=============================================================================
