------------------------ MODULE RedisCounters_proofs ------------------------
(***************************************************************************)
(* Proofs about RedisCounters, for any processes, keys and window.  The    *)
(* inductive invariant adds to the type that a value and its deadline come *)
(* and go together, that a deadline is ahead and within a window, and that *)
(* a key that is gone between SET NX and MULTI is known to have vanished.  *)
(***************************************************************************)
EXTENDS RedisCounters, TLAPS

Paired == \A k \in Keys : value[k] = Missing <=> deadline[k] = Missing

Ahead == \A k \in Keys :
    deadline[k] \in Nat => now < deadline[k] /\ deadline[k] <= now + CounterTtl

\* A process whose client has eval has no second round trip.
OneTrip == \A p \in Procs : hasEval[p] => pc[p] = "idle"

StillThere == \A p \in Procs : pc[p] = "exec" /\ ~vanished[p] => Exists(key[p])

\* With eval everywhere a counter that exists has counted and ends.
Scripted == AllEval => \A k \in Keys : value[k] # 0 /\ deadline[k] # NoDeadline

CountersInv == TypeOK /\ Paired /\ Ahead /\ OneTrip /\ StillThere /\ Scripted

-----------------------------------------------------------------------------
\* The constants NoDeadline and Missing are no instants and no counts.
LEMMA NotNaturals == NoDeadline \notin Nat /\ Missing \notin Nat /\ NoDeadline # Missing
  BY DEF NoDeadline, Missing

\* What INCR makes of a counter, and when the script finds that it made it.
LEMMA IncrMakes ==
  ASSUME TypeOK, NEW k \in Keys
  PROVE  /\ Incr(k) \in Nat \ {0}
         /\ Incr(k) # Missing
         /\ Opens(k) <=> (~Exists(k) \/ value[k] = 0)
         /\ Exists(k) => Incr(k) = value[k] + 1 /\ value[k] \in Nat
  BY DEF TypeOK, Incr, Opens, Exists, Missing

\* The deadline that an increment leaves.
LEMMA KeptDeadline ==
  ASSUME TypeOK, NEW k \in Keys
  PROVE  /\ Kept(k) \in Nat \cup {NoDeadline, Missing}
         /\ Expiry \in Nat /\ now < Expiry
         /\ Paired => Kept(k) # Missing
  BY CounterAssumption, NotNaturals
     DEF TypeOK, Kept, Expiry, Exists, Paired, CounterAssumption

\* Both kinds of answer are answers.
LEMMA AnswerType ==
  ASSUME now \in Nat, NEW c \in Nat, NEW d \in Nat \cup {NoDeadline, Missing}
  PROVE  CounterResult(c, d) \in Answers
  BY DEF CounterResult, Answers, NoDeadline, Missing

LEMMA CountersInitIsSound ==
  ASSUME Init
  PROVE  CountersInv
  BY NotNaturals
     DEF Init, CountersInv, TypeOK, Answers, Paired, Ahead, OneTrip, StillThere, Scripted

\* A script: one key is counted in, nobody is between two round trips because of it.
LEMMA EvalIsSound ==
  ASSUME CountersInv, NEW p \in Procs, NEW k \in Keys, Eval(p, k)
  PROVE  CountersInv'
<1> DEFINE then == IF Opens(k) THEN Expiry ELSE Kept(k)
<1>1. /\ value' = [value EXCEPT ![k] = Incr(k)]
      /\ deadline' = [deadline EXCEPT ![k] = then]
      /\ answer' = [answer EXCEPT ![p] = CounterResult(Incr(k), then)]
      /\ UNCHANGED <<hasEval, now, pc, key, vanished>>
  BY DEF Eval
<1>2. then \in Nat \cup {NoDeadline, Missing} /\ then # Missing
  BY KeptDeadline, NotNaturals DEF CountersInv
<1>3. Incr(k) \in Nat \ {0} /\ Incr(k) # Missing
  BY IncrMakes DEF CountersInv
<1>4. then \in Nat => now < then /\ then <= now + CounterTtl
  <2>1. Opens(k) => then = now + CounterTtl
    BY DEF Expiry
  <2>2. ~Opens(k) => then = deadline[k]
    BY IncrMakes DEF CountersInv, Kept
  <2>3. QED
    BY <2>1, <2>2, KeptDeadline DEF CountersInv, Ahead, Expiry
<1>5. AllEval => then # NoDeadline
  <2>1. Opens(k) => then \in Nat
    BY KeptDeadline DEF CountersInv
  <2>2. ~Opens(k) => then = deadline[k]
    BY IncrMakes DEF CountersInv, Kept
  <2>3. QED
    BY <2>1, <2>2, NotNaturals DEF CountersInv, Scripted
<1> HIDE DEF then
<1>6. TypeOK'
  <2>1. CounterResult(Incr(k), then) \in Answers
    BY <1>2, <1>3, AnswerType DEF CountersInv, TypeOK
  <2>2. QED
    BY <1>1, <1>2, <1>3, <2>1 DEF CountersInv, TypeOK
<1>7. Paired' /\ Ahead'
  BY <1>1, <1>2, <1>3, <1>4 DEF CountersInv, TypeOK, Paired, Ahead
<1>8. OneTrip' /\ StillThere' /\ Scripted'
  BY <1>1, <1>3, <1>5 DEF CountersInv, TypeOK, OneTrip, StillThere, Scripted, Exists, AllEval
<1>9. QED
  BY <1>6, <1>7, <1>8 DEF CountersInv

LEMMA SetNxIsSound ==
  ASSUME CountersInv, NEW p \in Procs, NEW k \in Keys, SetNx(p, k)
  PROVE  CountersInv'
<1>1. /\ ~hasEval[p]
      /\ value' = [value EXCEPT ![k] = IF Sets(k) THEN 0 ELSE @]
      /\ deadline' = [deadline EXCEPT ![k] = IF Sets(k) THEN Expiry ELSE @]
      /\ pc' = [pc EXCEPT ![p] = "exec"]
      /\ key' = [key EXCEPT ![p] = k]
      /\ vanished' = [vanished EXCEPT ![p] = FALSE]
      /\ UNCHANGED <<hasEval, now, answer>>
  BY DEF SetNx
<1>2. Expiry \in Nat /\ now < Expiry /\ Expiry = now + CounterTtl
  BY KeptDeadline DEF CountersInv, Expiry
<1>3. TypeOK'
  BY <1>1, <1>2 DEF CountersInv, TypeOK
<1>4. Paired' /\ Ahead'
  BY <1>1, <1>2, NotNaturals DEF CountersInv, TypeOK, Paired, Ahead, Sets, Exists
<1>5. ~AllEval'
  BY <1>1 DEF AllEval
<1>6. Exists(k)' /\ \A q \in Keys : Exists(q) => Exists(q)'
  BY <1>1, NotNaturals DEF CountersInv, TypeOK, Sets, Exists
<1>7. OneTrip' /\ StillThere' /\ Scripted'
  BY <1>1, <1>5, <1>6 DEF CountersInv, TypeOK, OneTrip, StillThere, Scripted, Exists
<1>8. QED
  BY <1>3, <1>4, <1>7 DEF CountersInv

LEMMA ExecIsSound ==
  ASSUME CountersInv, NEW p \in Procs, Exec(p)
  PROVE  CountersInv'
<1> DEFINE k == key[p]
<1>1. /\ pc[p] = "exec"
      /\ value' = [value EXCEPT ![k] = Incr(k)]
      /\ deadline' = [deadline EXCEPT ![k] = Kept(k)]
      /\ answer' = [answer EXCEPT ![p] = CounterResult(Incr(k), Kept(k))]
      /\ pc' = [pc EXCEPT ![p] = "idle"]
      /\ UNCHANGED <<hasEval, now, key, vanished>>
  BY DEF Exec
<1>2. k \in Keys
  BY DEF CountersInv, TypeOK
<1>3. Kept(k) \in Nat \cup {NoDeadline, Missing} /\ Kept(k) # Missing
  BY <1>2, KeptDeadline DEF CountersInv
<1>4. Incr(k) \in Nat \ {0} /\ Incr(k) # Missing
  BY <1>2, IncrMakes DEF CountersInv
<1>5. Kept(k) \in Nat => now < Kept(k) /\ Kept(k) <= now + CounterTtl
  BY <1>2, NotNaturals DEF CountersInv, Ahead, Kept
<1>6. ~AllEval'
  BY <1>1 DEF CountersInv, OneTrip, AllEval
<1> HIDE DEF k
<1>7. TypeOK'
  <2>1. CounterResult(Incr(k), Kept(k)) \in Answers
    BY <1>3, <1>4, AnswerType DEF CountersInv, TypeOK
  <2>2. QED
    BY <1>1, <1>2, <1>3, <1>4, <2>1 DEF CountersInv, TypeOK
<1>8. Paired' /\ Ahead'
  BY <1>1, <1>2, <1>3, <1>4, <1>5 DEF CountersInv, TypeOK, Paired, Ahead
<1>9. OneTrip' /\ StillThere' /\ Scripted'
  BY <1>1, <1>2, <1>4, <1>6 DEF CountersInv, TypeOK, OneTrip, StillThere, Scripted, Exists
<1>10. QED
  BY <1>7, <1>8, <1>9 DEF CountersInv

\* A key that goes away leaves nothing, and the calls on it know.
LEMMA RemovalIsSound ==
  ASSUME CountersInv, NEW S \in SUBSET Keys, now' \in {now, now + 1},
         value' = [k \in Keys |-> IF k \in S THEN Missing ELSE value[k]],
         deadline' = [k \in Keys |-> IF k \in S THEN Missing ELSE deadline[k]],
         \A k \in Keys \ S : deadline[k] # now',
         vanished' = Vanished(S),
         UNCHANGED <<hasEval, pc, key, answer>>
  PROVE  CountersInv'
<1>1. TypeOK'
  BY DEF CountersInv, TypeOK, Vanished
<1>2. Paired'
  BY DEF CountersInv, Paired
<1>3. Ahead'
  <2>1. \A k \in Keys : deadline'[k] \in Nat => k \notin S /\ deadline'[k] = deadline[k]
    BY NotNaturals
  <2>2. QED
    BY <2>1, CounterAssumption DEF CountersInv, TypeOK, Ahead, CounterAssumption
<1>4. StillThere'
  <2>1. ASSUME NEW p \in Procs, pc'[p] = "exec", ~vanished'[p]
        PROVE  Exists(key[p])'
    BY <2>1 DEF CountersInv, TypeOK, StillThere, Exists, Vanished
  <2>2. QED
    BY <2>1 DEF StillThere, Exists
<1>5. OneTrip' /\ Scripted'
  BY NotNaturals DEF CountersInv, OneTrip, Scripted, AllEval, Missing, NoDeadline
<1>6. QED
  BY <1>1, <1>2, <1>3, <1>4, <1>5 DEF CountersInv

LEMMA ResetIsSound ==
  ASSUME CountersInv, NEW p \in Procs, NEW k \in Keys, Reset(p, k)
  PROVE  CountersInv'
<1>1. /\ value' = [q \in Keys |-> IF q \in {k} THEN Missing ELSE value[q]]
      /\ deadline' = [q \in Keys |-> IF q \in {k} THEN Missing ELSE deadline[q]]
      /\ vanished' = Vanished({k})
      /\ UNCHANGED <<hasEval, now, pc, key, answer>>
  BY DEF Reset, CountersInv, TypeOK
<1>2. \A q \in Keys : deadline[q] # now
  BY DEF CountersInv, TypeOK, Ahead
<1>3. QED
  BY <1>1, <1>2, RemovalIsSound

LEMMA TickIsSound ==
  ASSUME CountersInv, Tick
  PROVE  CountersInv'
<1> DEFINE S == {k \in Keys : deadline[k] = now'}
<1>1. /\ now' = now + 1
      /\ value' = [k \in Keys |-> IF k \in S THEN Missing ELSE value[k]]
      /\ deadline' = [k \in Keys |-> IF k \in S THEN Missing ELSE deadline[k]]
      /\ vanished' = Vanished(S)
      /\ UNCHANGED <<hasEval, pc, key, answer>>
  BY DEF Tick
<1>2. \A k \in Keys \ S : deadline[k] # now'
  OBVIOUS
<1> HIDE DEF S
<1>3. S \in SUBSET Keys
  BY DEF S
<1>4. QED
  BY <1>1, <1>2, <1>3, RemovalIsSound

LEMMA CountersStepIsSound ==
  ASSUME CountersInv, [Next]_vars
  PROVE  CountersInv'
<1>1. CASE UNCHANGED vars
  BY <1>1 DEF vars, CountersInv, TypeOK, Paired, Ahead, OneTrip, StillThere, Scripted,
              Exists, AllEval
<1>2. QED
  BY <1>1, EvalIsSound, SetNxIsSound, ResetIsSound, ExecIsSound, TickIsSound DEF Next

LEMMA CountersInvariance == Spec => []CountersInv
<1>1. Init => CountersInv
  BY CountersInitIsSound
<1>2. CountersInv /\ [Next]_vars => CountersInv'
  BY CountersStepIsSound
<1>3. QED
  BY <1>1, <1>2, PTL DEF Spec

\* The counters keep their type, with or without eval.
THEOREM CountersTypeCorrect == Spec => []TypeOK
<1>1. CountersInv => TypeOK
  BY DEF CountersInv
<1>2. QED
  BY <1>1, CountersInvariance, PTL

\* For any number of processes and any window: with eval everywhere, every
\* counter has an end, ahead and no later than a window from now.
THEOREM CountersEnd == Spec => []EveryCounterExpires
<1>1. CountersInv => EveryCounterExpires
  BY CounterAssumption
     DEF CountersInv, TypeOK, Paired, Ahead, Scripted, EveryCounterExpires, Exists,
         CounterAssumption
<1>2. QED
  BY <1>1, CountersInvariance, PTL

-----------------------------------------------------------------------------
(* What no step does. *)

LEMMA StepLosesDeadline ==
  ASSUME CountersInv, Next, NEW k \in Keys,
         deadline[k] # NoDeadline, deadline'[k] = NoDeadline
  PROVE  \E p \in Procs : pc[p] = "exec" /\ pc'[p] = "idle" /\ key[p] = k /\ vanished[p]
<1>1. ASSUME NEW p \in Procs, NEW q \in Keys, Eval(p, q)
      PROVE  FALSE
  <2>1. q = k /\ ~Opens(k) /\ Kept(k) = NoDeadline
    BY <1>1, KeptDeadline, NotNaturals DEF Eval, CountersInv, TypeOK
  <2>2. QED
    BY <2>1, IncrMakes DEF Kept, CountersInv
<1>2. ASSUME NEW p \in Procs, NEW q \in Keys, SetNx(p, q) \/ Reset(p, q)
      PROVE  FALSE
  BY <1>2, KeptDeadline, NotNaturals DEF SetNx, Reset, CountersInv, TypeOK
<1>3. ASSUME NEW p \in Procs, Exec(p)
      PROVE  pc[p] = "exec" /\ pc'[p] = "idle" /\ key[p] = k /\ vanished[p]
  <2>1. pc[p] = "exec" /\ pc'[p] = "idle"
    BY <1>3 DEF Exec, CountersInv, TypeOK
  <2>2. key[p] = k /\ Kept(k) = NoDeadline
    BY <1>3 DEF Exec, CountersInv, TypeOK
  <2>3. ~Exists(k)
    BY <2>2 DEF Kept
  <2>4. QED
    BY <2>1, <2>2, <2>3 DEF CountersInv, StillThere, TypeOK
<1>4. CASE Tick
  BY <1>4, NotNaturals DEF Tick
<1>5. QED
  BY <1>1, <1>2, <1>3, <1>4 DEF Next

\* For any number of processes: a counter loses its deadline only by a MULTI
\* whose key went away after its SET NX.
THEOREM DeadlineLostByOverlap == Spec => OnlyOverlapLosesDeadline
<1> DEFINE Lost == \A k \in Keys :
               deadline[k] # NoDeadline /\ deadline'[k] = NoDeadline
                   => \E p \in Procs : pc[p] = "exec" /\ pc'[p] = "idle"
                                      /\ key[p] = k /\ vanished[p]
<1>1. CountersInv /\ [Next]_vars => [Lost]_vars
  BY StepLosesDeadline
<1>2. QED
  BY <1>1, CountersInvariance, PTL DEF Spec, OnlyOverlapLosesDeadline

LEMMA StepFixesWindow ==
  ASSUME CountersInv, Next, NEW k \in Keys, Exists(k), Exists(k)'
  PROVE  value'[k] >= value[k] /\ (value[k] > 0 => deadline'[k] = deadline[k])
<1>0. value[k] \in Nat
  BY IncrMakes DEF CountersInv
<1>1. ASSUME NEW p \in Procs, NEW q \in Keys, Eval(p, q)
      PROVE  value'[k] >= value[k] /\ (value[k] > 0 => deadline'[k] = deadline[k])
  <2>1. CASE q = k
    <3>1. value'[k] = value[k] + 1
      BY <1>1, <2>1, IncrMakes DEF Eval, CountersInv, TypeOK
    <3>2. value[k] > 0 => ~Opens(k) /\ deadline'[k] = Kept(k)
      BY <1>0, <1>1, <2>1, IncrMakes DEF Eval, CountersInv, TypeOK
    <3>3. QED
      BY <1>0, <3>1, <3>2 DEF Kept
  <2>2. CASE q # k
    BY <1>0, <1>1, <2>2 DEF Eval, CountersInv, TypeOK
  <2>3. QED
    BY <2>1, <2>2
<1>2. ASSUME NEW p \in Procs, NEW q \in Keys, SetNx(p, q) \/ Reset(p, q)
      PROVE  value'[k] = value[k] /\ deadline'[k] = deadline[k]
  BY <1>2 DEF SetNx, Reset, CountersInv, TypeOK, Sets, Exists
<1>3. ASSUME NEW p \in Procs, Exec(p)
      PROVE  value'[k] >= value[k] /\ deadline'[k] = deadline[k]
  BY <1>0, <1>3 DEF Exec, CountersInv, TypeOK, Incr, Kept
<1>4. CASE Tick
  <2>1. value'[k] = value[k] /\ deadline'[k] = deadline[k]
    BY <1>4 DEF Tick, Exists
  <2>2. QED
    BY <1>0, <2>1
<1>5. QED
  BY <1>0, <1>1, <1>2, <1>3, <1>4 DEF Next

\* For any number of processes, with or without eval: counting again neither
\* lowers a counter nor moves the end of a window something is counted in.
THEOREM WindowsAreFixed == Spec => WindowIsFixed
<1> DEFINE Fixed == \A k \in Keys :
               Exists(k) /\ Exists(k)'
                   => /\ value'[k] >= value[k]
                      /\ value[k] > 0 => deadline'[k] = deadline[k]
<1>1. CountersInv /\ [Next]_vars => [Fixed]_vars
  BY StepFixesWindow
<1>2. QED
  BY <1>1, CountersInvariance, PTL DEF Spec, WindowIsFixed

-----------------------------------------------------------------------------
(* With eval everywhere the counters are those of the promise; without it   *)
(* there is nothing to see but the time.                                    *)

\* What of a counter the promise sees.
Seen(k) ==
    IF AllEval /\ Exists(k) THEN [count |-> value[k], resetAt |-> deadline[k]]
    ELSE [count |-> 0, resetAt |-> 0]

LEMMA CountersInitRefines ==
  ASSUME Init
  PROVE  Promise!Init
  BY DEF Init, Promise!Init, Promise!None, NoFlags, NoCounts, Exists

\* A script counts as the promise does: what it makes or finds at 0 begins a
\* window, anything else goes on in its own.
LEMMA EvalRefines ==
  ASSUME CountersInv, AllEval, NEW p \in Procs, NEW k \in Keys, Eval(p, k)
  PROVE  Promise!Count(k)
<1> DEFINE then == IF Opens(k) THEN Expiry ELSE Kept(k)
<1>1. /\ value' = [value EXCEPT ![k] = Incr(k)]
      /\ deadline' = [deadline EXCEPT ![k] = then]
      /\ now' = now /\ hasEval' = hasEval
  BY DEF Eval
<1>2. AllEval'
  BY <1>1 DEF AllEval
<1>3. \A q \in Keys : q # k => Seen(q)' = Seen(q)
  BY <1>1, <1>2 DEF Seen, CountersInv, TypeOK, Exists
<1>4. Seen(k)' = [count |-> Incr(k), resetAt |-> then]
  BY <1>1, <1>2, IncrMakes DEF Seen, CountersInv, TypeOK, Exists
<1>5. Seen(k)' = Promise!Incremented(Seen(k), CounterTtl)
  <2>1. CASE Exists(k)
    <3>1. value[k] \in Nat \ {0} /\ ~Opens(k) /\ Incr(k) = value[k] + 1
      BY <2>1, IncrMakes DEF CountersInv, Scripted
    <3>2. then = deadline[k]
      BY <2>1, <3>1 DEF Kept
    <3>3. Seen(k) = [count |-> value[k], resetAt |-> deadline[k]]
      BY <2>1 DEF Seen
    <3>4. Seen(k) # Promise!None
      BY <3>1, <3>3 DEF Promise!None
    <3>5. QED
      BY <1>4, <3>1, <3>2, <3>3, <3>4 DEF Promise!Incremented
  <2>2. CASE ~Exists(k)
    <3>1. Seen(k) = Promise!None /\ Opens(k) /\ Incr(k) = 1
      BY <2>2, IncrMakes DEF Seen, Promise!None, CountersInv, Incr
    <3>2. then = now + CounterTtl
      BY <3>1 DEF Expiry
    <3>3. QED
      BY <1>4, <3>1, <3>2 DEF Promise!Incremented
  <2>3. QED
    BY <2>1, <2>2
<1> HIDE DEF then
<1>6. [q \in Keys |-> Seen(q)]'
         = [[q \in Keys |-> Seen(q)] EXCEPT ![k] = Promise!Incremented(@, CounterTtl)]
  BY <1>3, <1>5
<1>7. QED
  BY <1>1, <1>6 DEF Promise!Count, Seen

LEMMA ResetRefines ==
  ASSUME CountersInv, NEW p \in Procs, NEW k \in Keys, Reset(p, k)
  PROVE  Promise!ResetCount(k)
<1>1. /\ value' = [value EXCEPT ![k] = Missing]
      /\ now' = now /\ hasEval' = hasEval /\ AllEval' = AllEval
      /\ \A q \in Keys : q # k => value'[q] = value[q] /\ deadline'[q] = deadline[q]
  BY DEF Reset, AllEval, CountersInv, TypeOK
<1>2. \A q \in Keys : q # k => Seen(q)' = Seen(q)
  BY <1>1 DEF Seen, Exists
<1>3. Seen(k)' = Promise!None
  BY <1>1 DEF Seen, Exists, Promise!None, CountersInv, TypeOK
<1>4. [q \in Keys |-> Seen(q)]' = [[q \in Keys |-> Seen(q)] EXCEPT ![k] = Promise!None]
  BY <1>2, <1>3
<1>5. QED
  BY <1>1, <1>4 DEF Promise!ResetCount, Seen

\* Redis drops a key when the promise does: at its deadline.
LEMMA TickRefines ==
  ASSUME CountersInv, Tick
  PROVE  Promise!Tick
<1>1. /\ now < MaxTime /\ now' = now + 1 /\ now \in Nat
      /\ value' = [k \in Keys |-> IF deadline[k] = now' THEN Missing ELSE value[k]]
      /\ deadline' = [k \in Keys |-> IF deadline[k] = now' THEN Missing ELSE deadline[k]]
      /\ AllEval' = AllEval
  BY DEF Tick, AllEval, CountersInv, TypeOK
<1>2. ASSUME NEW k \in Keys
      PROVE  Seen(k)' = Promise!LiveCount(Seen(k), now')
  <2>1. CASE AllEval /\ Exists(k)
    <3>1. deadline[k] \in Nat /\ now < deadline[k]
      BY <2>1 DEF CountersInv, TypeOK, Paired, Ahead, Scripted, Exists
    <3>2. Seen(k) = [count |-> value[k], resetAt |-> deadline[k]]
      BY <2>1 DEF Seen
    <3>3. CASE deadline[k] = now'
      BY <1>1, <3>1, <3>2, <3>3 DEF Seen, Exists, Promise!LiveCount, Promise!None
    <3>4. CASE deadline[k] # now'
      BY <1>1, <2>1, <3>1, <3>2, <3>4 DEF Seen, Exists, Promise!LiveCount
    <3>5. QED
      BY <3>3, <3>4
  <2>2. CASE ~(AllEval /\ Exists(k))
    <3>1. ~(AllEval /\ Exists(k))'
      BY <1>1, <2>2 DEF Exists
    <3>2. QED
      BY <2>2, <3>1 DEF Seen, Promise!LiveCount, Promise!None
  <2>3. QED
    BY <2>1, <2>2
<1>3. NoFlags = [k \in Keys |-> Promise!LiveFlag(NoFlags[k], now')]
  BY DEF NoFlags, Promise!LiveFlag
<1>4. NoCounts = [k \in Keys |-> Promise!LiveCount(NoCounts[k], now')]
  BY DEF NoCounts, Promise!LiveCount, Promise!None
<1>5. NoFlags' = NoFlags /\ NoCounts' = NoCounts
  BY DEF NoFlags, NoCounts
<1>6. [k \in Keys |-> Seen(k)]'
         = [k \in Keys |-> Promise!LiveCount([q \in Keys |-> Seen(q)][k], now')]
  BY <1>2
<1>7. QED
  BY <1>1, <1>3, <1>4, <1>5, <1>6 DEF Promise!Tick, Seen

\* Without eval everywhere there is nothing the promise sees.
LEMMA UnscriptedIsUnseen ==
  ASSUME ~AllEval, hasEval' = hasEval, now' = now
  PROVE  UNCHANGED Promise!vars
<1>1. ~AllEval'
  BY DEF AllEval
<1>2. QED
  BY <1>1 DEF Promise!vars, NoFlags, NoCounts

LEMMA CountersStepRefines ==
  ASSUME CountersInv, [Next]_vars
  PROVE  [Promise!Next]_(Promise!vars)
<1>1. CASE UNCHANGED vars
  BY <1>1 DEF vars, Promise!vars, NoFlags, NoCounts, AllEval, Exists
<1>2. CASE Tick
  BY <1>2, TickRefines DEF Promise!Next
<1>3. ASSUME NEW p \in Procs, NEW k \in Keys, Reset(p, k)
      PROVE  Promise!Next
  BY <1>3, ResetRefines DEF Promise!Next
<1>4. ASSUME NEW p \in Procs, NEW k \in Keys, Eval(p, k)
      PROVE  [Promise!Next]_(Promise!vars)
  <2>1. hasEval' = hasEval /\ now' = now
    BY <1>4 DEF Eval
  <2>2. QED
    BY <1>4, <2>1, EvalRefines, UnscriptedIsUnseen DEF Promise!Next
<1>5. ASSUME NEW p \in Procs, Exec(p) \/ \E k \in Keys : SetNx(p, k)
      PROVE  UNCHANGED Promise!vars
  <2>1. hasEval' = hasEval /\ now' = now /\ ~hasEval[p]
    BY <1>5 DEF Exec, SetNx, CountersInv, OneTrip
  <2>2. QED
    BY <2>1, UnscriptedIsUnseen DEF AllEval
<1>6. QED
  BY <1>1, <1>2, <1>3, <1>4, <1>5 DEF Next

\* For any number of processes and any window: the counters implement what
\* ExpiringStore promises of a counter, as long as every client has eval.
THEOREM CountersImplementPromise == Spec => ImplementsExpiringStore
<1>1. Init => Promise!Init
  BY CountersInitRefines
<1>2. CountersInv /\ [Next]_vars => [Promise!Next]_(Promise!vars)
  BY CountersStepRefines
<1>3. QED
  BY <1>1, <1>2, CountersInvariance, PTL DEF Spec, ImplementsExpiringStore, Promise!Spec
=============================================================================
