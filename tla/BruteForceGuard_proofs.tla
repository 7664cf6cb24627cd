------------------------ MODULE BruteForceGuard_proofs ------------------------
(***************************************************************************)
(* Proofs about BruteForceGuard: for any requests, any keys they share and *)
(* any limits.  Of the store the guard only needs that its Maps keep their *)
(* types under the operations it calls; it never touches a log.            *)
(***************************************************************************)
EXTENDS BruteForceGuard, FiniteSetTheorems, TLAPS

\* A request that is under way is at one of its keys.
Walking == \A r \in Reqs : pc[r] # "idle" => next[r] \in 1 .. Len(KeysOf[r])

FailuresFinite == \A k \in Keys : IsFiniteSet(failures[k])

GuardInv == GuardTypeOK /\ Walking /\ FailuresFinite

-----------------------------------------------------------------------------
\* The operations of the store that the guard, the sweep and the clock call.
LEMMA StoreStaysTyped ==
  ASSUME TypeOK,
         \/ UNCHANGED vars \/ Cleanup \/ Tick
         \/ \E k \in Keys : CheckBlock(k) \/ IncrementCounter(k) \/ BlockKey(k) \/ ResetCounter(k)
  PROVE  TypeOK'
<1> USE TtlAssumption DEF TtlAssumption
<1>1. None \in Entries /\ EmptyLog \in Logs
  BY DEF None, Entries, EmptyLog, Logs
<1>2. CASE UNCHANGED vars
  BY <1>2 DEF vars, TypeOK
<1>3. CASE Cleanup
  BY <1>1, <1>3 DEF Cleanup, TypeOK
<1>4. CASE Tick
  BY <1>4 DEF Tick, storeVars, TypeOK
<1>5. ASSUME NEW k \in Keys, CheckBlock(k) \/ BlockKey(k) \/ ResetCounter(k)
      PROVE  TypeOK'
  BY <1>1, <1>5 DEF CheckBlock, BlockKey, ResetCounter, TypeOK
<1>6. ASSUME NEW k \in Keys, IncrementCounter(k)
      PROVE  TypeOK'
  <2>1. Incremented(counters[k], CounterTtl) \in Entries
    BY DEF Incremented, Entries, TypeOK
  <2>2. QED
    BY <1>6, <2>1 DEF IncrementCounter, TypeOK
<1>7. QED
  BY <1>2, <1>3, <1>4, <1>5, <1>6

LEMMA GuardKeepsStoreTyped ==
  ASSUME GuardInv, [GuardNext]_allVars
  PROVE  TypeOK'
<1>1. TypeOK
  BY DEF GuardInv, GuardTypeOK
<1>2. ASSUME NEW r \in Reqs, pc[r] # "idle"
      PROVE  Current(r) \in Keys
  BY <1>2, GuardAssumption DEF GuardInv, Walking, GuardAssumption, Current
<1>3. CASE UNCHANGED allVars
  BY <1>1, <1>3, StoreStaysTyped DEF allVars
<1>4. ASSUME NEW r \in Reqs,
             \/ Arrive(r) \/ CheckFails(r) \/ Unobserved(r) \/ FinishFailure(r)
             \/ FinishSuccess(r) \/ FinalizeFails(r)
      PROVE  TypeOK'
  BY <1>1, <1>4, StoreStaysTyped
     DEF Arrive, CheckFails, Unobserved, FinishFailure, FinishSuccess, FinalizeFails
<1>5. ASSUME NEW r \in Reqs, CheckKey(r) \/ RecordKey(r) \/ BlockOne(r) \/ ResetOne(r)
      PROVE  TypeOK'
  <2>1. Current(r) \in Keys
    BY <1>2, <1>5 DEF CheckKey, RecordKey, BlockOne, ResetOne
  <2>2. \/ CheckBlock(Current(r)) \/ IncrementCounter(Current(r))
        \/ BlockKey(Current(r)) \/ ResetCounter(Current(r))
    BY <1>5 DEF CheckKey, RecordKey, BlockOne, ResetOne
  <2>3. QED
    BY <1>1, <2>1, <2>2, StoreStaysTyped
<1>6. CASE Sweep \/ TimePasses
  BY <1>1, <1>6, StoreStaysTyped DEF Sweep, TimePasses
<1>7. QED
  BY <1>3, <1>4, <1>5, <1>6 DEF GuardNext

LEMMA GuardInitIsSound ==
  ASSUME GuardInit
  PROVE  GuardInv
<1>1. TypeOK
  BY DEF GuardInit, Init, TypeOK, EmptyLog, Logs, None, Entries
<1>2. GuardTypeOK
  BY <1>1 DEF GuardInit, GuardTypeOK, Places
<1>3. Walking /\ FailuresFinite
  BY FS_EmptySet DEF GuardInit, Walking, FailuresFinite
<1>4. QED
  BY <1>2, <1>3 DEF GuardInv

\* The walk stays on the keys of its request.
LEMMA EnterWalks ==
  ASSUME GuardInv, NEW r \in Reqs, pc[r] # "idle", NEW place \in Places, Enter(r, place)
  PROVE  pc' \in [Reqs -> Places] /\ next' \in [Reqs -> Nat \ {0}] /\ Walking'
<1>1. /\ pc \in [Reqs -> Places] /\ next \in [Reqs -> Nat \ {0}]
      /\ \A q \in Reqs : pc[q] # "idle" => next[q] \in 1 .. Len(KeysOf[q])
  BY DEF GuardInv, GuardTypeOK, Walking
<1>2. Len(KeysOf[r]) \in Nat /\ next[r] \in 1 .. Len(KeysOf[r])
  BY <1>1, GuardAssumption DEF GuardAssumption
<1>3. QED
  BY <1>1, <1>2 DEF Enter, Walking

LEMMA AdvanceWalks ==
  ASSUME GuardInv, NEW r \in Reqs, pc[r] # "idle", NEW place \in Places, Advance(r, place)
  PROVE  pc' \in [Reqs -> Places] /\ next' \in [Reqs -> Nat \ {0}] /\ Walking'
<1>1. /\ pc \in [Reqs -> Places] /\ next \in [Reqs -> Nat \ {0}]
      /\ \A q \in Reqs : pc[q] # "idle" => next[q] \in 1 .. Len(KeysOf[q])
  BY DEF GuardInv, GuardTypeOK, Walking
<1>2. Len(KeysOf[r]) \in Nat
  BY GuardAssumption DEF GuardAssumption
<1>3. CASE next[r] < Len(KeysOf[r])
  BY <1>1, <1>2, <1>3 DEF Advance, Walking
<1>4. CASE ~(next[r] < Len(KeysOf[r]))
  BY <1>4, EnterWalks DEF Advance
<1>5. QED
  BY <1>3, <1>4

\* The steps that leave the failures alone.
LEMMA QuietStep ==
  ASSUME GuardInv, TypeOK',
         pc' \in [Reqs -> Places], next' \in [Reqs -> Nat \ {0}],
         reached' \in [Reqs -> BOOLEAN], overlap' \in [Keys -> SUBSET Reqs],
         settled' \in [Keys -> Nat], failures' = failures,
         Walking'
  PROVE  GuardInv'
  BY DEF GuardInv, GuardTypeOK, FailuresFinite

LEMMA GuardStepIsSound ==
  ASSUME GuardInv, [GuardNext]_allVars
  PROVE  GuardInv'
<1> USE GuardAssumption
<1>1. TypeOK'
  BY GuardKeepsStoreTyped
<1>2. /\ pc \in [Reqs -> Places] /\ next \in [Reqs -> Nat \ {0}]
      /\ reached \in [Reqs -> BOOLEAN] /\ overlap \in [Keys -> SUBSET Reqs]
      /\ settled \in [Keys -> Nat] /\ failures \in [Keys -> SUBSET Timestamps]
      /\ counters \in [Keys -> Entries] /\ now \in Nat
  BY DEF GuardInv, GuardTypeOK, TypeOK
<1>3. \A r \in Reqs : KeysOf[r] \in Seq(Keys) /\ Len(KeysOf[r]) \in Nat
  BY DEF GuardAssumption
<1>4. \A r \in Reqs : pc[r] # "idle" => next[r] \in 1 .. Len(KeysOf[r])
  BY DEF GuardInv, Walking
<1>5. \A r \in Reqs : pc[r] # "idle" => Current(r) \in Keys
  BY <1>3, <1>4 DEF Current
<1>6. CASE UNCHANGED allVars
  BY <1>1, <1>2, <1>4, <1>6, QuietStep DEF allVars, guardVars, Walking
<1>7. ASSUME NEW r \in Reqs, Arrive(r)
      PROVE  GuardInv'
  <2>1. Walking' /\ pc' \in [Reqs -> Places] /\ next' \in [Reqs -> Nat \ {0}]
    BY <1>2, <1>3, <1>4, <1>7 DEF Arrive, Enter, Places, Walking
  <2>2. overlap' \in [Keys -> SUBSET Reqs] /\ UNCHANGED <<reached, settled, failures>>
    BY <1>2, <1>7 DEF Arrive
  <2>3. QED
    BY <1>1, <1>2, <2>1, <2>2, QuietStep
<1>8. ASSUME NEW r \in Reqs, CheckKey(r)
      PROVE  GuardInv'
  <2>1. Walking' /\ pc' \in [Reqs -> Places] /\ next' \in [Reqs -> Nat \ {0}]
    BY <1>8, EnterWalks, AdvanceWalks DEF CheckKey, Leave, Places
  <2>2. reached' \in [Reqs -> BOOLEAN] /\ UNCHANGED <<overlap, settled, failures>>
    BY <1>2, <1>8 DEF CheckKey, Leave, history
  <2>3. QED
    BY <1>1, <1>2, <2>1, <2>2, QuietStep
<1>9. ASSUME NEW r \in Reqs,
             \/ CheckFails(r) \/ Unobserved(r) \/ FinishFailure(r) \/ FinishSuccess(r)
             \/ FinalizeFails(r)
      PROVE  GuardInv'
  <2>1. pc[r] # "idle" /\ \E place \in Places : Enter(r, place)
    BY <1>9 DEF CheckFails, Unobserved, FinishFailure, FinishSuccess, FinalizeFails,
                Leave, Places
  <2>2. Walking' /\ pc' \in [Reqs -> Places] /\ next' \in [Reqs -> Nat \ {0}]
    BY <2>1, EnterWalks
  <2>3. /\ reached' \in [Reqs -> BOOLEAN] /\ UNCHANGED <<overlap, failures>>
        /\ settled' \in [Keys -> Nat]
    <3>1. \A k \in Keys : counters[k].count \in Nat
      BY <1>2 DEF Entries
    <3>2. QED
      BY <1>2, <1>9, <3>1 DEF CheckFails, Unobserved, FinishFailure, FinishSuccess,
                              FinalizeFails, Leave, history
  <2>4. QED
    BY <1>1, <1>2, <2>2, <2>3, QuietStep
<1>10. ASSUME NEW r \in Reqs, BlockOne(r)
       PROVE  GuardInv'
  <2>1. counters[Current(r)].count \in Nat
    BY <1>2, <1>5, <1>10 DEF BlockOne, Entries
  <2>2. Walking' /\ pc' \in [Reqs -> Places] /\ next' \in [Reqs -> Nat \ {0}]
    BY <1>10, AdvanceWalks DEF BlockOne, Places
  <2>3. /\ reached' \in [Reqs -> BOOLEAN] /\ overlap' \in [Keys -> SUBSET Reqs]
        /\ settled' \in [Keys -> Nat] /\ failures' = failures
    BY <1>2, <1>10, <2>1 DEF BlockOne
  <2>4. QED
    BY <1>1, <1>2, <2>2, <2>3, QuietStep
<1>11. ASSUME NEW r \in Reqs, ResetOne(r)
       PROVE  GuardInv'
  <2>1. pc' \in [Reqs -> Places] /\ next' \in [Reqs -> Nat \ {0}] /\ Walking'
    BY <1>11, AdvanceWalks DEF ResetOne, Places
  <2>2. /\ reached' = reached /\ overlap' = overlap
        /\ settled' \in [Keys -> Nat] /\ failures' \in [Keys -> SUBSET Timestamps]
    BY <1>2, <1>11 DEF ResetOne
  <2>3. FailuresFinite'
    BY <1>2, <1>11, FS_EmptySet DEF ResetOne, FailuresFinite, GuardInv
  <2>4. QED
    BY <1>1, <1>2, <2>1, <2>2, <2>3 DEF GuardInv, GuardTypeOK
<1>12. ASSUME NEW r \in Reqs, RecordKey(r)
       PROVE  GuardInv'
  <2> DEFINE k == Current(r)
             instant == {ts \in failures[k] : ts[1] = now}
  <2>1. k \in Keys
    BY <1>5, <1>12 DEF RecordKey
  <2>2. IsFiniteSet(failures[k])
    BY <2>1 DEF GuardInv, FailuresFinite
  <2>3. Cardinality(instant) \in Nat
    BY <2>2, FS_Subset, FS_CardinalityType
  <2>4. failures' = [failures EXCEPT ![k] = @ \cup {<<now, Cardinality(instant)>>}]
    BY <1>12 DEF RecordKey
  <2>5. failures' \in [Keys -> SUBSET Timestamps] /\ FailuresFinite'
    <3> HIDE DEF instant, k
    <3>1. <<now, Cardinality(instant)>> \in Timestamps
      BY <1>2, <2>3 DEF Timestamps
    <3>2. IsFiniteSet(failures[k] \cup {<<now, Cardinality(instant)>>})
      BY <2>2, FS_AddElement
    <3>3. QED
      BY <1>2, <2>1, <2>4, <3>1, <3>2 DEF GuardInv, FailuresFinite
  <2>6. pc' \in [Reqs -> Places] /\ next' \in [Reqs -> Nat \ {0}] /\ Walking'
    BY <1>12, AdvanceWalks DEF RecordKey, Places
  <2>7. reached' \in [Reqs -> BOOLEAN] /\ settled' \in [Keys -> Nat] /\ overlap' = overlap
    BY <1>2, <1>12 DEF RecordKey, Reaches
  <2>8. QED
    BY <1>1, <1>2, <2>5, <2>6, <2>7 DEF GuardInv, GuardTypeOK
<1>13. CASE Sweep
  BY <1>1, <1>2, <1>4, <1>13, QuietStep DEF Sweep, Walking
<1>14. CASE TimePasses
  <2>1. \A k \in Keys : failures'[k] \subseteq failures[k]
    BY <1>14 DEF TimePasses
  <2>2. failures' \in [Keys -> SUBSET Timestamps]
    BY <1>2, <1>14 DEF TimePasses
  <2>3. FailuresFinite'
    BY <2>1, FS_Subset DEF GuardInv, FailuresFinite
  <2>4. Walking'
    BY <1>4, <1>14 DEF TimePasses, Walking
  <2>5. QED
    BY <1>1, <1>2, <1>14, <2>2, <2>3, <2>4 DEF TimePasses, GuardInv, GuardTypeOK
<1>15. QED
  BY <1>6, <1>7, <1>8, <1>9, <1>10, <1>11, <1>12, <1>13, <1>14 DEF GuardNext

LEMMA GuardInvariance == GuardSpec => []GuardInv
<1>1. GuardInit => GuardInv
  BY GuardInitIsSound
<1>2. GuardInv /\ [GuardNext]_allVars => GuardInv'
  BY GuardStepIsSound
<1>3. QED
  BY <1>1, <1>2, PTL DEF GuardSpec

\* The guard and the store under it keep their types, whatever fails.
THEOREM GuardTypeCorrect == GuardSpec => []GuardTypeOK
<1>1. GuardInv => GuardTypeOK
  BY DEF GuardInv
<1>2. QED
  BY <1>1, GuardInvariance, PTL

-----------------------------------------------------------------------------
(* Who is past the check of a blocked key. *)

\* A step that lets nobody past a check and blocks nothing.
LEMMA NobodyGetsPast ==
  ASSUME BlockedStayOut,
         \A k \in Keys : IsBlocked(k)' => IsBlocked(k),
         \A r \in Reqs : \A k \in Keys : Past(r, k)' => Past(r, k),
         overlap' = overlap
  PROVE  BlockedStayOut'
  BY DEF BlockedStayOut

\* A request that leaves, or starts, is past no check.
LEMMA NewcomerIsPastNothing ==
  ASSUME NEW r \in Reqs, NEW place \in {"idle", "checking"}, Enter(r, place),
         pc \in [Reqs -> Places], next \in [Reqs -> Nat \ {0}]
  PROVE  /\ \A k \in Keys : ~Past(r, k)'
         /\ \A q \in Reqs, k \in Keys : Past(q, k)' => Past(q, k)
<1>1. pc'[r] = place /\ next'[r] = 1
  BY DEF Enter
<1>2. \A k \in Keys : ~Past(r, k)'
  BY <1>1 DEF Past
<1>3. \A q \in Reqs : q # r => pc'[q] = pc[q] /\ next'[q] = next[q]
  BY DEF Enter
<1>4. \A q \in Reqs, k \in Keys : q # r => (Past(q, k)' <=> Past(q, k))
  BY <1>3 DEF Past
<1>5. QED
  BY <1>2, <1>4

\* A request past all its checks gets past no other by going on.
LEMMA InsiderGetsPastNothing ==
  ASSUME NEW r \in Reqs, pc[r] \notin {"idle", "checking"},
         pc'[r] # "checking",
         pc \in [Reqs -> Places], next \in [Reqs -> Nat \ {0}],
         \A q \in Reqs : q # r => pc'[q] = pc[q] /\ next'[q] = next[q]
  PROVE  \A q \in Reqs, k \in Keys : Past(q, k)' => Past(q, k)
<1>1. \A k \in Keys : Past(r, k)' => Past(r, k)
  BY DEF Past
<1>2. \A q \in Reqs, k \in Keys : q # r => (Past(q, k)' <=> Past(q, k))
  BY DEF Past
<1>3. QED
  BY <1>1, <1>2

\* An answer to the check lets a request past the key it was about, only.
LEMMA CheckGetsPastOne ==
  ASSUME GuardInv, NEW r \in Reqs, pc[r] = "checking", Advance(r, "handling")
  PROVE  \A q \in Reqs, k \in Keys :
            Past(q, k)' => Past(q, k) \/ (q = r /\ k = Current(r))
<1>1. /\ pc \in [Reqs -> Places] /\ next \in [Reqs -> Nat \ {0}]
      /\ next[r] \in 1 .. Len(KeysOf[r])
  BY DEF GuardInv, GuardTypeOK, Walking
<1>2. Len(KeysOf[r]) \in Nat
  BY GuardAssumption DEF GuardAssumption
<1>3. \A q \in Reqs : q # r => pc'[q] = pc[q] /\ next'[q] = next[q]
  BY <1>1 DEF Advance, Enter
<1>4. \A q \in Reqs, k \in Keys : q # r => (Past(q, k)' <=> Past(q, k))
  BY <1>3 DEF Past
<1>5. ASSUME NEW k \in Keys, Past(r, k)', k # Current(r)
      PROVE  Past(r, k)
  <2>1. CASE next[r] < Len(KeysOf[r])
    <3>1. pc'[r] = "checking" /\ next'[r] = next[r] + 1
      BY <1>1, <2>1 DEF Advance
    <3>2. PICK i \in 1 .. next[r] : KeysOf[r][i] = k
      BY <1>1, <1>5, <3>1 DEF Past
    <3>3. i # next[r]
      BY <1>5, <3>2 DEF Current
    <3>4. QED
      BY <1>1, <3>2, <3>3 DEF Past
  <2>2. CASE ~(next[r] < Len(KeysOf[r]))
    <3>1. pc'[r] = "handling" /\ next[r] = Len(KeysOf[r])
      BY <1>1, <1>2, <2>2 DEF Advance, Enter
    <3>2. PICK i \in 1 .. Len(KeysOf[r]) : KeysOf[r][i] = k
      BY <1>5, <3>1 DEF Past, KeySet
    <3>3. i # next[r]
      BY <1>5, <3>2 DEF Current
    <3>4. QED
      BY <1>1, <1>2, <3>1, <3>2, <3>3 DEF Past
  <2>3. QED
    BY <2>1, <2>2
<1>6. QED
  BY <1>4, <1>5

\* The answers of a store that is not told to fail, or that fails closed, keep
\* everybody out who was not past the check when the block was placed.
LEMMA StayOutStep ==
  ASSUME GuardInv, BlockedStayOut, FailClosed \/ ~StoreMayFail, [GuardNext]_allVars
  PROVE  BlockedStayOut'
<1>1. /\ pc \in [Reqs -> Places] /\ next \in [Reqs -> Nat \ {0}]
      /\ overlap \in [Keys -> SUBSET Reqs] /\ blocks \in [Keys -> Nat] /\ now \in Nat
  BY DEF GuardInv, GuardTypeOK, TypeOK
<1>2. \A r \in Reqs : pc[r] # "idle" => Current(r) \in Keys
  BY GuardAssumption DEF GuardInv, Walking, GuardAssumption, Current
<1>3. ASSUME UNCHANGED vars
      PROVE  \A k \in Keys : IsBlocked(k)' <=> IsBlocked(k)
  BY <1>3 DEF vars, IsBlocked
<1>4. CASE UNCHANGED allVars
  <2>1. \A r \in Reqs : \A k \in Keys : Past(r, k)' <=> Past(r, k)
    BY <1>4 DEF allVars, guardVars, Past
  <2>2. QED
    BY <1>3, <1>4, <2>1, NobodyGetsPast DEF allVars, guardVars
<1>5. ASSUME NEW r \in Reqs, Arrive(r)
      PROVE  BlockedStayOut'
  <2>1. /\ \A k \in Keys : ~Past(r, k)'
        /\ \A q \in Reqs, k \in Keys : Past(q, k)' => Past(q, k)
    BY <1>1, <1>5, NewcomerIsPastNothing DEF Arrive
  <2>2. \A k \in Keys : (IsBlocked(k)' <=> IsBlocked(k)) /\ overlap'[k] = overlap[k] \ {r}
    BY <1>3, <1>5 DEF Arrive
  <2>3. QED
    BY <2>1, <2>2 DEF BlockedStayOut
<1>6. ASSUME NEW r \in Reqs, CheckKey(r)
      PROVE  BlockedStayOut'
  <2>1. \A k \in Keys : IsBlocked(k)' <=> IsBlocked(k)
    BY <1>1, <1>2, <1>6 DEF CheckKey, CheckBlock, IsBlocked
  <2>2. overlap' = overlap
    BY <1>6 DEF CheckKey, history
  <2>3. CASE IsBlocked(Current(r))
    <3>1. \A q \in Reqs, k \in Keys : Past(q, k)' => Past(q, k)
      BY <1>1, <1>6, <2>3, NewcomerIsPastNothing DEF CheckKey, Leave
    <3>2. QED
      BY <2>1, <2>2, <3>1, NobodyGetsPast
  <2>4. CASE ~IsBlocked(Current(r))
    <3>1. \A q \in Reqs, k \in Keys :
             Past(q, k)' => Past(q, k) \/ (q = r /\ k = Current(r))
      BY <1>6, <2>4, CheckGetsPastOne DEF CheckKey
    <3>2. QED
      BY <2>1, <2>2, <2>4, <3>1 DEF BlockedStayOut
  <2>5. QED
    BY <2>3, <2>4
<1>7. ASSUME NEW r \in Reqs,
             \/ CheckFails(r) \/ Unobserved(r) \/ FinishFailure(r) \/ FinishSuccess(r)
             \/ FinalizeFails(r)
      PROVE  BlockedStayOut'
  <2>1. UNCHANGED vars /\ overlap' = overlap
    BY <1>7 DEF CheckFails, Unobserved, FinishFailure, FinishSuccess, FinalizeFails, history
  <2>2. \/ Enter(r, "idle")
        \/ /\ pc[r] = "handling"
           /\ \E place \in {"recording", "resetting"} : Enter(r, place)
    BY <1>7 DEF CheckFails, Unobserved, FinishFailure, FinishSuccess, FinalizeFails, Leave
  <2>3. \A q \in Reqs, k \in Keys : Past(q, k)' => Past(q, k)
    <3>1. CASE Enter(r, "idle")
      BY <1>1, <3>1, NewcomerIsPastNothing
    <3>2. CASE pc[r] = "handling" /\ \E place \in {"recording", "resetting"} : Enter(r, place)
      <4>1. pc'[r] # "checking" /\ \A q \in Reqs : q # r => pc'[q] = pc[q] /\ next'[q] = next[q]
        BY <1>1, <3>2 DEF Enter
      <4>2. QED
        BY <1>1, <3>2, <4>1, InsiderGetsPastNothing
    <3>3. QED
      BY <2>2, <3>1, <3>2
  <2>4. QED
    BY <1>3, <2>1, <2>3, NobodyGetsPast
<1>8. ASSUME NEW r \in Reqs, RecordKey(r) \/ BlockOne(r) \/ ResetOne(r)
      PROVE  \A q \in Reqs, k \in Keys : Past(q, k)' => Past(q, k)
  <2>1. /\ pc[r] \notin {"idle", "checking"}
        /\ \E place \in Places \ {"checking"} : Advance(r, place)
    BY <1>8 DEF RecordKey, BlockOne, ResetOne, Places
  <2>2. pc'[r] # "checking" /\ \A q \in Reqs : q # r => pc'[q] = pc[q] /\ next'[q] = next[q]
    BY <1>1, <2>1 DEF Advance, Enter
  <2>3. QED
    BY <1>1, <2>1, <2>2, InsiderGetsPastNothing
<1>9. ASSUME NEW r \in Reqs, RecordKey(r) \/ ResetOne(r)
      PROVE  BlockedStayOut'
  <2>1. /\ \A k \in Keys : IsBlocked(k)' <=> IsBlocked(k)
        /\ overlap' = overlap
    BY <1>9 DEF RecordKey, ResetOne, IncrementCounter, ResetCounter, IsBlocked
  <2>2. QED
    BY <1>8, <1>9, <2>1, NobodyGetsPast
<1>10. ASSUME NEW r \in Reqs, BlockOne(r)
       PROVE  BlockedStayOut'
  <2> DEFINE b == Current(r)
  <2>1. b \in Keys
    BY <1>2, <1>10 DEF BlockOne
  <2>2. \A k \in Keys : k # b => (IsBlocked(k)' <=> IsBlocked(k)) /\ overlap'[k] = overlap[k]
    BY <1>1, <1>10 DEF BlockOne, BlockKey, IsBlocked
  <2>3. overlap'[b] = IF IsBlocked(b) THEN overlap[b] ELSE {q \in Reqs : Past(q, b)}
    BY <1>1, <1>10, <2>1 DEF BlockOne
  <2>4. \A q \in Reqs : Past(q, b) => q \in overlap'[b]
    BY <2>1, <2>3 DEF BlockedStayOut
  <2>5. \A q \in Reqs, k \in Keys : Past(q, k)' => Past(q, k)
    BY <1>8, <1>10
  <2> HIDE DEF b
  <2>6. ASSUME NEW q \in Reqs, NEW k \in Keys, IsBlocked(k)', Past(q, k)'
        PROVE  q \in overlap'[k]
    BY <2>2, <2>4, <2>5, <2>6 DEF BlockedStayOut
  <2>7. QED
    BY <2>6 DEF BlockedStayOut
<1>11. CASE Sweep \/ TimePasses
  <2>1. /\ \A k \in Keys : IsBlocked(k)' => IsBlocked(k)
        /\ overlap' = overlap
    BY <1>1, <1>11 DEF Sweep, TimePasses, Cleanup, Tick, storeVars, IsBlocked
  <2>2. \A q \in Reqs : \A k \in Keys : Past(q, k)' <=> Past(q, k)
    BY <1>11 DEF Sweep, TimePasses, Past
  <2>3. QED
    BY <2>1, <2>2, NobodyGetsPast
<1>12. QED
  BY <1>4, <1>5, <1>6, <1>7, <1>9, <1>10, <1>11 DEF GuardNext

\* For any requests, keys and limits: while a key is blocked nobody gets past
\* its check who was not past it when the block was placed, unless the store
\* may fail and the mode is fail-open.
THEOREM GuardKeepsOut ==
  ASSUME FailClosed \/ ~StoreMayFail
  PROVE  GuardSpec => []BlockedStayOut
<1>1. GuardInit => BlockedStayOut
  BY DEF GuardInit, BlockedStayOut, Past
<1>2. GuardInv /\ BlockedStayOut /\ [GuardNext]_allVars => BlockedStayOut'
  BY StayOutStep
<1>3. QED
  BY <1>1, <1>2, GuardInvariance, PTL DEF GuardSpec

-----------------------------------------------------------------------------
(* How far the count of a key overshoots. *)

\* A failure of request r on key k that may be past the last settlement of k:
\* r is going to block k, or to fail, unless the others bring it no maximum.
Owes(r, k) ==
    \E i \in 1 .. Len(KeysOf[r]) :
        /\ KeysOf[r][i] = k
        /\ \/ pc[r] = "recording" /\ reached[r] /\ i < next[r]
           \/ pc[r] = "blocking" /\ i >= next[r]

Owers(k) == {r \in Reqs : Owes(r, k)}

Base(k) == IF settled[k] > MaxAttempts - 1 THEN settled[k] ELSE MaxAttempts - 1

EveryExcessIsOwed == \A k \in Keys : counters[k].count <= Base(k) + Cardinality(Owers(k))

\* No policy counts a request on the same key twice.
KeysDiffer ==
    \A r \in Reqs : \A i, j \in 1 .. Len(KeysOf[r]) : KeysOf[r][i] = KeysOf[r][j] => i = j

\* Owers are some of the requests.
LEMMA OwersAreFinite ==
  ASSUME NEW k \in Keys
  PROVE  /\ IsFiniteSet(Owers(k)) /\ Cardinality(Owers(k)) \in Nat
         /\ Cardinality(Reqs) \in Nat /\ Cardinality(Owers(k)) <= Cardinality(Reqs)
         /\ IsFiniteSet(Owers(k)') /\ Cardinality(Owers(k)') \in Nat
<1>1. IsFiniteSet(Reqs)
  BY GuardAssumption DEF GuardAssumption
<1>2. Owers(k) \in SUBSET Reqs /\ Owers(k)' \in SUBSET Reqs
  BY DEF Owers
<1>3. QED
  BY <1>1, <1>2, FS_Subset, FS_CardinalityType

\* A step of request r alone keeps the other owers.
LEMMA OwersStay ==
  ASSUME NEW k \in Keys, NEW r \in Reqs,
         \A q \in Reqs : q # r => pc'[q] = pc[q] /\ next'[q] = next[q] /\ reached'[q] = reached[q],
         Owes(r, k) => Owes(r, k)'
  PROVE  Owers(k) \subseteq Owers(k)'
<1>1. ASSUME NEW q \in Reqs, q # r, Owes(q, k)
      PROVE  Owes(q, k)'
  BY <1>1 DEF Owes
<1>2. QED
  BY <1>1 DEF Owers

\* The three ways in which a step keeps a count within its bound: it is not
\* counted and nobody is released; it is settled or small; it is one more and
\* so are the owers.
LEMMA OwedStep ==
  ASSUME GuardInv, GuardInv', EveryExcessIsOwed, NEW k \in Keys,
         \/ /\ counters'[k].count = counters[k].count
            /\ settled'[k] = settled[k]
            /\ Owers(k) \subseteq Owers(k)'
         \/ counters'[k].count <= settled'[k]
         \/ counters'[k].count <= MaxAttempts - 1
         \/ counters'[k].count = 1 /\ MaxAttempts = 1 /\ Owers(k)' # {}
         \/ /\ counters'[k].count = counters[k].count + 1
            /\ settled'[k] = settled[k]
            /\ Owers(k) \subseteq Owers(k)'
            /\ \E r \in Owers(k)' : r \notin Owers(k)
  PROVE  counters'[k].count <= Base(k)' + Cardinality(Owers(k)')
<1>1. /\ counters[k].count \in Nat /\ counters'[k].count \in Nat
      /\ settled[k] \in Nat /\ settled'[k] \in Nat /\ MaxAttempts \in Nat \ {0}
  BY GuardAssumption DEF GuardInv, GuardTypeOK, TypeOK, Entries, GuardAssumption
<1>2. /\ IsFiniteSet(Owers(k)') /\ Cardinality(Owers(k)') \in Nat /\ Cardinality(Owers(k)) \in Nat
      /\ IsFiniteSet(Owers(k))
  BY OwersAreFinite
<1>3. counters[k].count <= Base(k) + Cardinality(Owers(k))
  BY DEF EveryExcessIsOwed
<1>4. /\ Base(k) = (IF settled[k] > MaxAttempts - 1 THEN settled[k] ELSE MaxAttempts - 1)
      /\ Base(k)' = (IF settled'[k] > MaxAttempts - 1 THEN settled'[k] ELSE MaxAttempts - 1)
  BY DEF Base
<1>5. CASE /\ counters'[k].count = counters[k].count
           /\ settled'[k] = settled[k]
           /\ Owers(k) \subseteq Owers(k)'
  <2>1. Cardinality(Owers(k)) <= Cardinality(Owers(k)')
    BY <1>2, <1>5, FS_Subset
  <2>2. QED
    BY <1>1, <1>2, <1>3, <1>4, <1>5, <2>1
<1>6. CASE counters'[k].count <= settled'[k] \/ counters'[k].count <= MaxAttempts - 1
  BY <1>1, <1>2, <1>4, <1>6
<1>7. CASE counters'[k].count = 1 /\ MaxAttempts = 1 /\ Owers(k)' # {}
  <2>1. Cardinality(Owers(k)') # 0
    BY <1>2, <1>7, FS_EmptySet
  <2>2. QED
    BY <1>1, <1>2, <1>4, <1>7, <2>1
<1>8. CASE /\ counters'[k].count = counters[k].count + 1
           /\ settled'[k] = settled[k]
           /\ Owers(k) \subseteq Owers(k)'
           /\ \E r \in Owers(k)' : r \notin Owers(k)
  <2>1. PICK r \in Owers(k)' : r \notin Owers(k)
    BY <1>8
  <2>2. Cardinality(Owers(k) \cup {r}) = Cardinality(Owers(k)) + 1
    BY <1>2, <2>1, FS_AddElement
  <2>3. Owers(k) \cup {r} \subseteq Owers(k)'
    BY <1>8, <2>1
  <2>4. Cardinality(Owers(k) \cup {r}) <= Cardinality(Owers(k)')
    BY <1>2, <2>3, FS_Subset
  <2>5. QED
    BY <1>1, <1>2, <1>3, <1>4, <1>8, <2>2, <2>4
<1>9. QED
  BY <1>5, <1>6, <1>7, <1>8

\* A failure that reaches the maximum makes its request an ower of the key.
LEMMA RecordOwes ==
  ASSUME GuardInv, KeysDiffer, EveryExcessIsOwed, GuardInv', NEW r \in Reqs, RecordKey(r),
         NEW b \in Keys, b = Current(r)
  PROVE  EveryExcessIsOwed'
<1> DEFINE counted == Incremented(counters[b], CounterTtl).count
<1>1. /\ pc \in [Reqs -> Places] /\ next \in [Reqs -> Nat \ {0}] /\ reached \in [Reqs -> BOOLEAN]
      /\ settled \in [Keys -> Nat] /\ counters \in [Keys -> Entries]
      /\ pc[r] = "recording" /\ next[r] \in 1 .. Len(KeysOf[r]) /\ Len(KeysOf[r]) \in Nat
      /\ MaxAttempts \in Nat \ {0}
  <2>1. pc[r] = "recording" /\ MaxAttempts \in Nat \ {0} /\ KeysOf[r] \in Seq(Keys)
    BY GuardAssumption DEF RecordKey, GuardAssumption
  <2>2. next[r] \in 1 .. Len(KeysOf[r])
    BY <2>1 DEF GuardInv, Walking
  <2>3. Len(KeysOf[r]) \in Nat
    BY <2>1
  <2>4. /\ pc \in [Reqs -> Places] /\ next \in [Reqs -> Nat \ {0}]
        /\ reached \in [Reqs -> BOOLEAN] /\ settled \in [Keys -> Nat]
        /\ counters \in [Keys -> Entries]
    BY DEF GuardInv, GuardTypeOK, TypeOK
  <2>5. QED
    BY <2>1, <2>2, <2>3, <2>4
<1>2. /\ counters' = [counters EXCEPT ![b] = Incremented(@, CounterTtl)]
      /\ reached' = [reached EXCEPT ![r] = @ \/ Reaches(counted)]
      /\ Advance(r, IF reached'[r] THEN "blocking" ELSE "idle")
      /\ settled' = [settled EXCEPT ![b] = IF counted = 1 THEN 0 ELSE @]
  BY DEF RecordKey, IncrementCounter
<1>3. /\ b = KeysOf[r][next[r]] /\ counters'[b].count = counted
      /\ counted = 1 \/ counted = counters[b].count + 1
      /\ reached'[r] = (reached[r] \/ counted >= MaxAttempts)
      /\ settled'[b] = IF counted = 1 THEN 0 ELSE settled[b]
  <2>1. counters[b] \in Entries
    BY <1>1
  <2>2. counted = 1 \/ counted = counters[b].count + 1
    BY <2>1 DEF Incremented, Entries
  <2>3. counters'[b].count = counted
    BY <1>1, <1>2
  <2>4. QED
    BY <1>1, <1>2, <2>2, <2>3 DEF Reaches, Current
<1> HIDE DEF counted
<1>4. \A q \in Reqs : q # r => pc'[q] = pc[q] /\ next'[q] = next[q] /\ reached'[q] = reached[q]
  BY <1>1, <1>2 DEF Advance, Enter
<1>5. reached'[r] => \/ pc'[r] = "recording" /\ next'[r] = next[r] + 1
                     \/ pc'[r] = "blocking" /\ next'[r] = 1
  BY <1>1, <1>2 DEF Advance, Enter
<1>6. ASSUME NEW k \in Keys
      PROVE  Owes(r, k) => Owes(r, k)'
  <2>1. SUFFICES ASSUME NEW i \in 1 .. Len(KeysOf[r]), KeysOf[r][i] = k, reached[r], i < next[r]
                 PROVE  Owes(r, k)'
    BY <1>1 DEF Owes
  <2>2. reached'[r]
    BY <1>3, <2>1
  <2>3. QED
    BY <1>1, <1>5, <2>1, <2>2 DEF Owes
<1>7. \A k \in Keys : Owers(k) \subseteq Owers(k)'
  BY <1>4, <1>6, OwersStay
<1>8. ASSUME NEW k \in Keys, k # b
      PROVE  counters'[k].count <= Base(k)' + Cardinality(Owers(k)')
  <2>1. counters'[k].count = counters[k].count /\ settled'[k] = settled[k]
    BY <1>1, <1>2, <1>8
  <2>2. QED
    BY <1>7, <2>1, OwedStep
<1>9. ASSUME counted >= MaxAttempts
      PROVE  r \in Owers(b)' /\ r \notin Owers(b)
  <2>1. reached'[r]
    BY <1>3, <1>9
  <2>2. Owes(r, b)'
    BY <1>1, <1>3, <1>5, <2>1 DEF Owes
  <2>3. ~Owes(r, b)
    <3>1. SUFFICES ASSUME NEW i \in 1 .. Len(KeysOf[r]), KeysOf[r][i] = b, i < next[r]
                   PROVE  FALSE
      BY <1>1 DEF Owes
    <3>2. KeysOf[r][i] = KeysOf[r][next[r]]
      BY <1>3, <3>1
    <3>3. i = next[r]
      BY <1>1, <3>2 DEF KeysDiffer
    <3>4. QED
      BY <1>1, <3>1, <3>3
  <2>4. QED
    BY <2>2, <2>3 DEF Owers
<1>10. counted \in Nat
  BY <1>1, <1>3 DEF Entries
<1>11. counters'[b].count <= Base(b)' + Cardinality(Owers(b)')
  <2>1. CASE ~(counted >= MaxAttempts)
    <3>1. counters'[b].count <= MaxAttempts - 1
      BY <1>1, <1>3, <1>10, <2>1
    <3>2. QED
      BY <1>1, <3>1, OwedStep
  <2>2. CASE counted >= MaxAttempts /\ counted = 1
    <3>1. counters'[b].count = 1 /\ MaxAttempts = 1 /\ Owers(b)' # {}
      BY <1>1, <1>3, <1>9, <2>2
    <3>2. QED
      BY <1>1, <3>1, OwedStep
  <2>3. CASE counted >= MaxAttempts /\ counted # 1
    <3>1. /\ counters'[b].count = counters[b].count + 1
          /\ settled'[b] = settled[b]
          /\ Owers(b) \subseteq Owers(b)'
          /\ \E q \in Owers(b)' : q \notin Owers(b)
      BY <1>1, <1>3, <1>7, <1>9, <2>3
    <3>2. QED
      BY <1>1, <3>1, OwedStep
  <2>4. QED
    BY <2>1, <2>2, <2>3
<1>12. QED
  BY <1>8, <1>11 DEF EveryExcessIsOwed

LEMMA OwedInvariant ==
  ASSUME GuardInv, GuardInv', EveryExcessIsOwed, KeysDiffer, [GuardNext]_allVars
  PROVE  EveryExcessIsOwed'
<1>1. /\ pc \in [Reqs -> Places] /\ next \in [Reqs -> Nat \ {0}] /\ reached \in [Reqs -> BOOLEAN]
      /\ settled \in [Keys -> Nat] /\ counters \in [Keys -> Entries]
      /\ MaxAttempts \in Nat \ {0}
  BY GuardAssumption DEF GuardInv, GuardTypeOK, TypeOK, GuardAssumption
<1>2. ASSUME UNCHANGED <<counters, settled>>, \A k \in Keys : Owers(k) \subseteq Owers(k)'
      PROVE  EveryExcessIsOwed'
  BY <1>2, OwedStep DEF EveryExcessIsOwed
<1>3. ASSUME UNCHANGED <<pc, next, reached>>, NEW k \in Keys
      PROVE  Owers(k)' = Owers(k)
  BY <1>3 DEF Owers, Owes
<1>4. ASSUME NEW r \in Reqs, pc[r] \notin {"recording", "blocking"},
             \A q \in Reqs : q # r =>
                pc'[q] = pc[q] /\ next'[q] = next[q] /\ reached'[q] = reached[q]
      PROVE  \A k \in Keys : Owers(k) \subseteq Owers(k)'
  <2>1. \A k \in Keys : ~Owes(r, k)
    BY <1>4 DEF Owes
  <2>2. QED
    BY <1>4, <2>1, OwersStay
<1>5. CASE UNCHANGED allVars
  <2>1. UNCHANGED <<counters, settled, pc, next, reached>>
    BY <1>5 DEF allVars, guardVars, vars
  <2>2. QED
    BY <1>2, <1>3, <2>1
<1>6. ASSUME NEW r \in Reqs,
             \/ Arrive(r) \/ CheckKey(r) \/ CheckFails(r) \/ Unobserved(r)
             \/ FinishFailure(r) \/ FinishSuccess(r)
      PROVE  EveryExcessIsOwed'
  <2>1. UNCHANGED <<counters, settled>> /\ pc[r] \in {"idle", "checking", "handling"}
    BY <1>6 DEF Arrive, CheckKey, CheckBlock, CheckFails, Unobserved, FinishFailure,
                FinishSuccess, history, vars
  <2>2. \A q \in Reqs : q # r => pc'[q] = pc[q] /\ next'[q] = next[q] /\ reached'[q] = reached[q]
    BY <1>1, <1>6 DEF Arrive, CheckKey, CheckFails, Unobserved, FinishFailure, FinishSuccess,
                      Leave, Enter, Advance
  <2>3. QED
    BY <1>2, <1>4, <2>1, <2>2
<1>7. ASSUME NEW r \in Reqs, RecordKey(r)
      PROVE  EveryExcessIsOwed'
  <2>1. Current(r) \in Keys
    BY <1>7, GuardAssumption DEF RecordKey, GuardInv, Walking, Current, GuardAssumption
  <2>2. QED
    BY <1>7, <2>1, RecordOwes
<1>8. ASSUME NEW r \in Reqs, BlockOne(r), NEW k \in Keys
      PROVE  counters'[k].count <= Base(k)' + Cardinality(Owers(k)')
  <2>1. /\ pc[r] = "blocking" /\ Advance(r, "idle") /\ counters' = counters
        /\ reached' = [reached EXCEPT ![r] = @ /\ next[r] < Len(KeysOf[r])]
        /\ settled' = [settled EXCEPT ![Current(r)] = counters[Current(r)].count]
    BY <1>8 DEF BlockOne, BlockKey
  <2>2. CASE k = Current(r)
    <3>1. settled'[k] = counters'[k].count /\ counters'[k].count \in Nat
      BY <1>1, <2>1, <2>2 DEF Entries
    <3>2. counters'[k].count <= settled'[k]
      BY <3>1
    <3>3. QED
      BY <3>2, OwedStep
  <2>3. CASE k # Current(r)
    <3>1. counters'[k].count = counters[k].count /\ settled'[k] = settled[k]
      BY <1>1, <2>1, <2>3
    <3>2. \A q \in Reqs : q # r =>
             pc'[q] = pc[q] /\ next'[q] = next[q] /\ reached'[q] = reached[q]
      BY <1>1, <2>1 DEF Advance, Enter
    <3>3. ASSUME Owes(r, k)
          PROVE  Owes(r, k)'
      <4>1. PICK i \in 1 .. Len(KeysOf[r]) : KeysOf[r][i] = k /\ i >= next[r]
        BY <2>1, <3>3 DEF Owes
      <4>2. i # next[r]
        BY <2>3, <4>1 DEF Current
      <4>3. i >= next[r] + 1 /\ next[r] < Len(KeysOf[r])
        <5>1. KeysOf[r] \in Seq(Keys)
          BY GuardAssumption DEF GuardAssumption
        <5>2. Len(KeysOf[r]) \in Nat
          BY <5>1
        <5>3. QED
          BY <1>1, <4>1, <4>2, <5>2
      <4>4. pc'[r] = "blocking" /\ next'[r] = next[r] + 1
        BY <1>1, <2>1, <4>3 DEF Advance
      <4>5. QED
        BY <4>1, <4>3, <4>4 DEF Owes
    <3>4. QED
      BY <3>1, <3>2, <3>3, OwersStay, OwedStep
  <2>4. QED
    BY <2>2, <2>3
<1>9. ASSUME NEW r \in Reqs, ResetOne(r), NEW k \in Keys
      PROVE  counters'[k].count <= Base(k)' + Cardinality(Owers(k)')
  <2>1. /\ pc[r] = "resetting" /\ Advance(r, "idle") /\ reached' = reached
        /\ counters' = [counters EXCEPT ![Current(r)] = None]
        /\ settled' = [settled EXCEPT ![Current(r)] = 0]
    BY <1>9 DEF ResetOne, ResetCounter
  <2>2. CASE k = Current(r)
    <3>1. counters'[k].count = 0
      BY <1>1, <2>1, <2>2 DEF None
    <3>2. counters'[k].count <= MaxAttempts - 1
      BY <1>1, <3>1
    <3>3. QED
      BY <3>2, OwedStep
  <2>3. CASE k # Current(r)
    <3>1. counters'[k].count = counters[k].count /\ settled'[k] = settled[k]
      BY <1>1, <2>1, <2>3
    <3>2. \A q \in Reqs : q # r =>
             pc'[q] = pc[q] /\ next'[q] = next[q] /\ reached'[q] = reached[q]
      BY <1>1, <2>1 DEF Advance, Enter
    <3>3. QED
      BY <1>4, <2>1, <3>1, <3>2, OwedStep
  <2>4. QED
    BY <2>2, <2>3
<1>10. ASSUME NEW r \in Reqs, FinalizeFails(r), NEW k \in Keys
       PROVE  counters'[k].count <= Base(k)' + Cardinality(Owers(k)')
  <2>1. /\ counters' = counters /\ Leave(r)
        /\ settled'[k] = IF k \in KeySet(r) THEN counters[k].count ELSE settled[k]
    BY <1>10 DEF FinalizeFails, vars
  <2>2. CASE k \in KeySet(r)
    <3>1. counters'[k].count <= settled'[k]
      BY <1>1, <2>1, <2>2 DEF Entries
    <3>2. QED
      BY <3>1, OwedStep
  <2>3. CASE k \notin KeySet(r)
    <3>1. ~Owes(r, k)
      BY <2>3 DEF Owes, KeySet
    <3>2. \A q \in Reqs : q # r =>
             pc'[q] = pc[q] /\ next'[q] = next[q] /\ reached'[q] = reached[q]
      BY <1>1, <2>1 DEF Leave, Enter
    <3>3. QED
      BY <2>1, <2>3, <3>1, <3>2, OwersStay, OwedStep
  <2>4. QED
    BY <2>2, <2>3
<1>11. ASSUME Sweep, NEW k \in Keys
       PROVE  counters'[k].count <= Base(k)' + Cardinality(Owers(k)')
  <2>1. /\ counters'[k] = IF counters[k].resetAt <= now THEN None ELSE counters[k]
        /\ settled'[k] = IF counters[k].resetAt <= now THEN 0 ELSE settled[k]
        /\ UNCHANGED <<pc, next, reached>>
    BY <1>11 DEF Sweep, Cleanup
  <2>2. CASE counters[k].resetAt <= now
    <3>1. counters'[k].count <= settled'[k]
      BY <2>1, <2>2 DEF None
    <3>2. QED
      BY <3>1, OwedStep
  <2>3. CASE ~(counters[k].resetAt <= now)
    BY <1>3, <2>1, <2>3, OwedStep
  <2>4. QED
    BY <2>2, <2>3
<1>12. CASE TimePasses
  <2>1. UNCHANGED <<counters, settled, pc, next, reached>>
    BY <1>12 DEF TimePasses, Tick, storeVars
  <2>2. QED
    BY <1>2, <1>3, <2>1
<1>13. QED
  BY <1>5, <1>6, <1>7, <1>8, <1>9, <1>10, <1>11, <1>12 DEF GuardNext, EveryExcessIsOwed

\* For any requests in flight and any maximum: concurrent guesses overshoot
\* maxAttempts by one per request in flight at most, if no policy counts a
\* request on the same key twice.
THEOREM GuardOvershoot ==
  ASSUME KeysDiffer
  PROVE  GuardSpec => []OvershootBounded
<1>1. GuardInit => EveryExcessIsOwed
  <2>1. SUFFICES ASSUME GuardInit, NEW k \in Keys
                 PROVE  counters[k].count <= Base(k) + Cardinality(Owers(k))
    BY DEF EveryExcessIsOwed
  <2>2. counters[k].count = 0 /\ settled[k] = 0 /\ MaxAttempts \in Nat \ {0}
    BY <2>1, GuardAssumption DEF GuardInit, Init, None, GuardAssumption
  <2>3. Cardinality(Owers(k)) \in Nat
    BY OwersAreFinite
  <2>4. QED
    BY <2>2, <2>3 DEF Base
<1>2. GuardInv /\ EveryExcessIsOwed /\ GuardInv' /\ [GuardNext]_allVars => EveryExcessIsOwed'
  BY OwedInvariant
<1>3. GuardInv /\ EveryExcessIsOwed => OvershootBounded
  <2>1. SUFFICES ASSUME GuardInv, EveryExcessIsOwed, NEW k \in Keys
                 PROVE  counters[k].count <= Base(k) + Cardinality(Reqs)
    BY DEF OvershootBounded, Base
  <2>2. counters[k].count \in Nat /\ settled[k] \in Nat /\ MaxAttempts \in Nat \ {0}
    BY <2>1, GuardAssumption DEF GuardInv, GuardTypeOK, TypeOK, Entries, GuardAssumption
  <2>3. /\ Cardinality(Owers(k)) \in Nat /\ Cardinality(Reqs) \in Nat
        /\ Cardinality(Owers(k)) <= Cardinality(Reqs)
    BY OwersAreFinite
  <2>4. counters[k].count <= Base(k) + Cardinality(Owers(k)) /\ Base(k) \in Nat
    BY <2>1, <2>2 DEF EveryExcessIsOwed, Base
  <2>5. QED
    BY <2>2, <2>3, <2>4
<1>4. QED
  BY <1>1, <1>2, <1>3, GuardInvariance, PTL DEF GuardSpec

-----------------------------------------------------------------------------
(* The failures behind a count. *)

InInstant(k) == {ts \in failures[k] : ts[1] = now}
SinceOpened(k) == {ts \in failures[k] : ts[1] >= counters[k].resetAt - CounterTtl}

\* The failures of an instant have the numbers below how many they are, so
\* that the next one is none of them.
FailuresNumbered ==
    \A k \in Keys : \A ts \in failures[k] :
        ts[1] <= now /\ (ts[1] = now => ts[2] < Cardinality(InInstant(k)))

\* A counter that is not over has no more counts than failures since it opened.
CountsHaveFailures ==
    \A k \in Keys : counters[k].resetAt > now =>
        counters[k].count <= Cardinality(SinceOpened(k))

CountersOpened == \A k \in Keys : counters[k].resetAt <= now + CounterTtl

Evidence == FailuresNumbered /\ CountsHaveFailures /\ CountersOpened

\* A failure that is counted is a new one, and is one since the counter opened.
LEMMA RecordIsEvidence ==
  ASSUME GuardInv, GuardInv', Evidence, NEW r \in Reqs, RecordKey(r),
         NEW b \in Keys, b = Current(r)
  PROVE  /\ Evidence'
         /\ Incremented(counters[b], CounterTtl).count <= Cardinality(failures'[b])
<1> DEFINE c == Incremented(counters[b], CounterTtl)
<1> DEFINE n == Cardinality(InInstant(b))
<1> DEFINE x == <<now, n>>
<1>1. /\ counters \in [Keys -> Entries] /\ failures \in [Keys -> SUBSET Timestamps]
      /\ now \in Nat /\ CounterTtl \in Nat \ {0}
      /\ IsFiniteSet(failures[b]) /\ IsFiniteSet(failures'[b])
  <2>1. CounterTtl \in Nat \ {0}
    BY TtlAssumption DEF TtlAssumption
  <2>2. failures \in [Keys -> SUBSET Timestamps]
    BY DEF GuardInv, GuardTypeOK
  <2>3. QED
    BY <2>1, <2>2 DEF GuardInv, GuardTypeOK, TypeOK, FailuresFinite
<1>2. /\ counters' = [counters EXCEPT ![b] = Incremented(@, CounterTtl)]
      /\ failures' = [failures EXCEPT ![b] = @ \cup {x}]
      /\ now' = now
  BY DEF RecordKey, IncrementCounter, InInstant
<1>3. InInstant(b) \in SUBSET failures[b]
  BY DEF InInstant
<1>4. IsFiniteSet(InInstant(b)) /\ n \in Nat
  BY <1>1, <1>3, FS_Subset, FS_CardinalityType
<1>5. x[1] = now /\ x[2] = n /\ x \notin failures[b]
  <2>1. x[1] = now /\ x[2] = n
    OBVIOUS
  <2>2. SUFFICES ASSUME x \in failures[b]
                 PROVE  FALSE
    BY <2>1
  <2>3. x[2] < n
    BY <2>1, <2>2 DEF Evidence, FailuresNumbered
  <2>4. QED
    BY <1>4, <2>1, <2>3
<1> HIDE DEF x, n, c
<1>6. failures'[b] = failures[b] \cup {x}
  BY <1>1, <1>2
<1>7. Cardinality(InInstant(b)') = n + 1
  <2>1. InInstant(b)' = InInstant(b) \cup {x}
    BY <1>2, <1>5, <1>6 DEF InInstant
  <2>2. x \notin InInstant(b)
    BY <1>3, <1>5
  <2>3. QED
    BY <1>4, <2>1, <2>2, FS_AddElement DEF n
<1>8. ASSUME NEW k \in Keys, NEW ts \in failures'[k]
      PROVE  ts[1] <= now' /\ (ts[1] = now' => ts[2] < Cardinality(InInstant(k)'))
  <2>1. CASE k # b
    <3>1. failures'[k] = failures[k]
      BY <1>1, <1>2, <2>1
    <3>2. InInstant(k)' = InInstant(k)
      BY <1>2, <3>1 DEF InInstant
    <3>3. QED
      BY <1>2, <1>8, <3>1, <3>2 DEF Evidence, FailuresNumbered
  <2>2. CASE k = b /\ ts \in failures[b]
    <3>1. ts[1] <= now /\ (ts[1] = now => ts[2] < n)
      BY <2>2 DEF Evidence, FailuresNumbered, n
    <3>2. ts[2] \in Nat
      BY <1>1, <2>2 DEF Timestamps
    <3>3. QED
      BY <1>2, <1>4, <1>7, <2>2, <3>1, <3>2
  <2>3. CASE k = b /\ ts = x
    BY <1>1, <1>2, <1>4, <1>5, <1>7, <2>3
  <2>4. QED
    BY <1>6, <1>8, <2>1, <2>2, <2>3
<1>9. /\ counters'[b] = c
      /\ \/ /\ counters[b].resetAt > now /\ c.count = counters[b].count + 1
            /\ c.resetAt = counters[b].resetAt
         \/ c.count = 1 /\ c.resetAt = now + CounterTtl
  BY <1>1, <1>2 DEF Incremented, Entries, c
<1>10. ASSUME NEW k \in Keys
       PROVE  /\ SinceOpened(k)' \in SUBSET failures'[k]
              /\ SinceOpened(k) \in SUBSET failures[k]
  BY DEF SinceOpened
<1>11. c.count <= Cardinality(SinceOpened(b)')
  <2>1. IsFiniteSet(SinceOpened(b)') /\ Cardinality(SinceOpened(b)') \in Nat
    BY <1>1, <1>10, FS_Subset, FS_CardinalityType
  <2>2. CASE /\ counters[b].resetAt > now /\ c.count = counters[b].count + 1
             /\ c.resetAt = counters[b].resetAt
    <3>1. counters[b].count <= Cardinality(SinceOpened(b))
      BY <2>2 DEF Evidence, CountsHaveFailures
    <3>2. now >= counters[b].resetAt - CounterTtl
      <4>1. counters[b].resetAt \in Nat
        BY <1>1 DEF Entries
      <4>2. counters[b].resetAt <= now + CounterTtl
        BY DEF Evidence, CountersOpened
      <4>3. QED
        BY <1>1, <4>1, <4>2
    <3>3. SinceOpened(b)' = SinceOpened(b) \cup {x}
      BY <1>5, <1>6, <1>9, <2>2, <3>2 DEF SinceOpened
    <3>4. x \notin SinceOpened(b) /\ IsFiniteSet(SinceOpened(b))
      BY <1>1, <1>5, <1>10, FS_Subset
    <3>5. Cardinality(SinceOpened(b)') = Cardinality(SinceOpened(b)) + 1
      BY <3>3, <3>4, FS_AddElement
    <3>6. Cardinality(SinceOpened(b)) \in Nat /\ counters[b].count \in Nat
      BY <1>1, <3>4, FS_CardinalityType DEF Entries
    <3>7. QED
      BY <2>2, <3>1, <3>5, <3>6
  <2>3. CASE c.count = 1 /\ c.resetAt = now + CounterTtl
    <3>1. x \in SinceOpened(b)'
      BY <1>1, <1>5, <1>6, <1>9, <2>3 DEF SinceOpened
    <3>2. Cardinality(SinceOpened(b)') # 0
      BY <2>1, <3>1, FS_EmptySet
    <3>3. QED
      BY <2>1, <2>3, <3>2
  <2>4. QED
    BY <1>9, <2>2, <2>3
<1>12. ASSUME NEW k \in Keys, counters'[k].resetAt > now'
       PROVE  counters'[k].count <= Cardinality(SinceOpened(k)')
  <2>1. CASE k # b
    <3>1. counters'[k] = counters[k] /\ failures'[k] = failures[k]
      BY <1>1, <1>2, <2>1
    <3>2. SinceOpened(k)' = SinceOpened(k)
      BY <3>1 DEF SinceOpened
    <3>3. QED
      BY <1>2, <1>12, <3>1, <3>2 DEF Evidence, CountsHaveFailures
  <2>2. CASE k = b
    BY <1>9, <1>11, <2>2
  <2>3. QED
    BY <2>1, <2>2
<1>13. ASSUME NEW k \in Keys
       PROVE  counters'[k].resetAt <= now' + CounterTtl
  <2>1. CASE k # b
    BY <1>1, <1>2, <2>1 DEF Evidence, CountersOpened
  <2>2. CASE k = b
    <3>1. counters[b].resetAt <= now + CounterTtl /\ counters[b].resetAt \in Nat
      BY <1>1 DEF Evidence, CountersOpened, Entries
    <3>2. QED
      BY <1>1, <1>2, <1>9, <2>2, <3>1
  <2>3. QED
    BY <2>1, <2>2
<1>14. Evidence'
  BY <1>8, <1>12, <1>13 DEF Evidence, FailuresNumbered, CountsHaveFailures, CountersOpened
<1>15. c.count <= Cardinality(failures'[b])
  <2>1. /\ Cardinality(SinceOpened(b)') <= Cardinality(failures'[b])
        /\ Cardinality(SinceOpened(b)') \in Nat /\ Cardinality(failures'[b]) \in Nat
    BY <1>1, <1>10, FS_Subset, FS_CardinalityType
  <2>2. c.count \in Nat
    BY <1>1, <1>9 DEF Entries
  <2>3. QED
    BY <1>11, <2>1, <2>2
<1>16. QED
  BY <1>14, <1>15 DEF c

\* A step that counts nothing keeps the failures behind the counts.
LEMMA QuietEvidence ==
  ASSUME GuardInv, Evidence, now' = now,
         \A k \in Keys : counters'[k] \in {counters[k], None},
         \A k \in Keys : failures'[k] = failures[k] \/ (failures'[k] = {} /\ counters'[k] = None)
  PROVE  Evidence'
<1>1. now \in Nat /\ CounterTtl \in Nat
  BY TtlAssumption DEF TtlAssumption, GuardInv, GuardTypeOK, TypeOK
<1>2. ASSUME NEW k \in Keys, counters'[k] = None
      PROVE  ~(counters'[k].resetAt > now') /\ counters'[k].resetAt <= now' + CounterTtl
  BY <1>1, <1>2 DEF None
<1>3. ASSUME NEW k \in Keys, failures'[k] = failures[k]
      PROVE  InInstant(k)' = InInstant(k) /\ (counters'[k] = counters[k] => SinceOpened(k)' = SinceOpened(k))
  BY <1>3 DEF InInstant, SinceOpened
<1>4. FailuresNumbered'
  BY <1>3 DEF Evidence, FailuresNumbered
<1>5. CountsHaveFailures'
  BY <1>2, <1>3 DEF Evidence, CountsHaveFailures
<1>6. CountersOpened'
  BY <1>2 DEF Evidence, CountersOpened
<1>7. QED
  BY <1>4, <1>5, <1>6 DEF Evidence

\* What is forgotten as time passes is no failure since a counter opened that
\* is not over.
LEMMA TimeKeepsEvidence ==
  ASSUME GuardInv, Evidence, TimePasses
  PROVE  Evidence'
<1>1. /\ now \in Nat /\ CounterTtl \in Nat \ {0} /\ counters \in [Keys -> Entries]
      /\ failures \in [Keys -> SUBSET Timestamps]
  <2>1. failures \in [Keys -> SUBSET Timestamps]
    BY DEF GuardInv, GuardTypeOK
  <2>2. QED
    BY <2>1, TtlAssumption DEF TtlAssumption, GuardInv, GuardTypeOK, TypeOK
<1>2. /\ now' = now + 1 /\ counters' = counters
      /\ \A k \in Keys : failures'[k] = {ts \in failures[k] : ts[1] > now' - CounterTtl}
  BY DEF TimePasses, Tick, storeVars
<1>3. \A k \in Keys : \A ts \in failures[k] : ts[1] \in Nat /\ ts[1] <= now
  BY <1>1 DEF Timestamps, Evidence, FailuresNumbered
<1>4. FailuresNumbered'
  BY <1>1, <1>2, <1>3 DEF FailuresNumbered
<1>5. ASSUME NEW k \in Keys, counters'[k].resetAt > now'
      PROVE  counters'[k].count <= Cardinality(SinceOpened(k)')
  <2>1. counters[k].resetAt \in Nat /\ counters[k].resetAt > now /\ counters[k].resetAt > now'
    BY <1>1, <1>2, <1>5 DEF Entries
  <2>2. \A ts \in failures[k] : ts[1] >= counters[k].resetAt - CounterTtl => ts[1] > now' - CounterTtl
    BY <1>1, <1>2, <1>3, <2>1
  <2>3. SinceOpened(k)' = SinceOpened(k)
    BY <1>2, <2>2 DEF SinceOpened
  <2>4. QED
    BY <1>2, <2>1, <2>3 DEF Evidence, CountsHaveFailures
<1>6. CountersOpened'
  <2>1. \A k \in Keys : counters[k].resetAt \in Nat /\ counters[k].resetAt <= now + CounterTtl
    BY <1>1 DEF Evidence, CountersOpened, Entries
  <2>2. QED
    BY <1>1, <1>2, <2>1 DEF CountersOpened
<1>7. QED
  BY <1>4, <1>5, <1>6 DEF Evidence, CountsHaveFailures

LEMMA EvidenceStep ==
  ASSUME GuardInv, GuardInv', Evidence, [GuardNext]_allVars
  PROVE  Evidence'
<1>1. /\ counters \in [Keys -> Entries] /\ failures \in [Keys -> SUBSET Timestamps]
  BY DEF GuardInv, GuardTypeOK, TypeOK
<1>2. ASSUME UNCHANGED <<now, counters, failures>>
      PROVE  Evidence'
  BY <1>2, QuietEvidence
<1>3. CASE UNCHANGED allVars
  BY <1>2, <1>3 DEF allVars, guardVars, vars
<1>4. ASSUME NEW r \in Reqs,
             \/ Arrive(r) \/ CheckKey(r) \/ CheckFails(r) \/ Unobserved(r)
             \/ FinishFailure(r) \/ FinishSuccess(r) \/ BlockOne(r) \/ FinalizeFails(r)
      PROVE  Evidence'
  <2>1. UNCHANGED <<now, counters, failures>>
    BY <1>4 DEF Arrive, CheckKey, CheckBlock, CheckFails, Unobserved, FinishFailure,
                FinishSuccess, BlockOne, BlockKey, FinalizeFails, history, vars
  <2>2. QED
    BY <1>2, <2>1
<1>5. ASSUME NEW r \in Reqs, RecordKey(r)
      PROVE  Evidence'
  <2>1. Current(r) \in Keys
    BY <1>5, GuardAssumption DEF RecordKey, GuardInv, Walking, Current, GuardAssumption
  <2>2. QED
    BY <1>5, <2>1, RecordIsEvidence
<1>6. ASSUME NEW r \in Reqs, ResetOne(r)
      PROVE  Evidence'
  <2>1. /\ counters' = [counters EXCEPT ![Current(r)] = None] /\ now' = now
        /\ failures' = [failures EXCEPT ![Current(r)] = {}]
    BY <1>6 DEF ResetOne, ResetCounter
  <2>2. \A k \in Keys : /\ counters'[k] \in {counters[k], None}
                        /\ failures'[k] = failures[k] \/ (failures'[k] = {} /\ counters'[k] = None)
    BY <1>1, <2>1
  <2>3. QED
    BY <2>1, <2>2, QuietEvidence
<1>7. CASE Sweep
  <2>1. /\ \A k \in Keys : counters'[k] \in {counters[k], None}
        /\ failures' = failures /\ now' = now
    BY <1>7 DEF Sweep, Cleanup
  <2>2. QED
    BY <2>1, QuietEvidence
<1>8. QED
  BY <1>3, <1>4, <1>5, <1>6, <1>7, TimeKeepsEvidence DEF GuardNext

\* For any requests, keys and limits: a request goes on to block its keys only
\* after maxAttempts failures of one of them, within windowMs and since the
\* last success.
THEOREM GuardBlockJustified == GuardSpec => BlockJustified
<1>1. GuardInit => Evidence
  <2>1. SUFFICES ASSUME GuardInit
                 PROVE  Evidence
    OBVIOUS
  <2>2. \A k \in Keys : counters[k] = None /\ failures[k] = {}
    BY <2>1 DEF GuardInit, Init
  <2>3. now = 0 /\ CounterTtl \in Nat
    BY <2>1, TtlAssumption DEF GuardInit, Init, TtlAssumption
  <2>4. QED
    BY <2>2, <2>3 DEF Evidence, FailuresNumbered, CountsHaveFailures, CountersOpened, None
<1>2. GuardInv /\ GuardInv' /\ Evidence /\ [GuardNext]_allVars => Evidence'
  BY EvidenceStep
<1>3. ASSUME GuardInv, GuardInv', Evidence, [GuardNext]_allVars,
             NEW r \in Reqs, ~reached[r], reached'[r]
      PROVE  Cardinality(failures'[Current(r)]) >= MaxAttempts
  <2>1. reached \in [Reqs -> BOOLEAN]
    BY <1>3 DEF GuardInv, GuardTypeOK
  <2>2. RecordKey(r)
    BY <1>3, <2>1 DEF GuardNext, allVars, guardVars, Arrive, CheckKey, CheckFails, Unobserved,
                      FinishFailure, FinishSuccess, BlockOne, ResetOne, FinalizeFails,
                      RecordKey, Sweep, TimePasses, Leave
  <2>3. Current(r) \in Keys
    BY <1>3, <2>2, GuardAssumption DEF RecordKey, GuardInv, Walking, Current, GuardAssumption
  <2>4. PICK b \in Keys : b = Current(r)
    BY <2>3
  <2>5. Incremented(counters[b], CounterTtl).count >= MaxAttempts
    BY <1>3, <2>1, <2>2, <2>4 DEF RecordKey, Reaches
  <2>6. Incremented(counters[b], CounterTtl).count <= Cardinality(failures'[b])
    BY <1>3, <2>2, <2>4, RecordIsEvidence
  <2>7. /\ Cardinality(failures'[b]) \in Nat /\ MaxAttempts \in Nat
        /\ Incremented(counters[b], CounterTtl).count \in Nat
    <3>1. IsFiniteSet(failures'[b])
      BY <1>3 DEF GuardInv, FailuresFinite
    <3>2. counters[b] \in Entries
      BY <1>3 DEF GuardInv, GuardTypeOK, TypeOK
    <3>3. Incremented(counters[b], CounterTtl).count \in Nat
      BY <3>2 DEF Incremented, Entries
    <3>4. QED
      BY <3>1, <3>3, FS_CardinalityType, GuardAssumption DEF GuardAssumption
  <2>8. QED
    BY <2>4, <2>5, <2>6, <2>7
<1>4. GuardInv /\ GuardInv' /\ Evidence /\ [GuardNext]_allVars =>
        [\A r \in Reqs :
            ~reached[r] /\ reached'[r]
                => Cardinality(failures'[Current(r)]) >= MaxAttempts]_allVars
  BY <1>3
<1>5. QED
  BY <1>1, <1>2, <1>4, GuardInvariance, PTL DEF GuardSpec, BlockJustified
=============================================================================
