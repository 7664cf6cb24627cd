--------------------------- MODULE EventBus_proofs ---------------------------
(***************************************************************************)
(* Proofs about EventBus, for any listeners, buffer and page.  Three       *)
(* arguments: what filter makes of an array; where a listener that stays   *)
(* is in the array a loop is over; and where the events are that a reader  *)
(* of the admin API has not been given yet.                                *)
(***************************************************************************)
EXTENDS EventBus, FiniteSetTheorems, WellFoundedInduction, SequenceTheorems, TLAPS

-----------------------------------------------------------------------------
(* Array.prototype.filter. *)

\* A set of natural numbers has a least element.
LEMMA Least ==
  ASSUME NEW K \in SUBSET Nat, K # {}
  PROVE  \E i \in K : \A j \in K : i <= j
<1> DEFINE R == OpToRel(<, Nat)
<1>1. IsWellFoundedOn(R, Nat)
  BY NatLessThanWellFounded
<1> HIDE DEF R
<1>2. PICK i \in K : \A j \in K : ~(<<j, i>> \in R)
  BY <1>1, WFMin
<1>3. \A j \in K : j < i => <<j, i>> \in R
  BY DEF R, OpToRel
<1>4. \A j \in K : ~(j < i)
  BY <1>2, <1>3, Zenon
<1>5. QED
  BY <1>4

\* The rank of a place grows with the place and stays below the number of them.
LEMMA RankGrows ==
  ASSUME NEW K \in SUBSET Nat, IsFiniteSet(K)
  PROVE  /\ Cardinality(K) \in Nat
         /\ \A i \in Nat : Rank(K, i) \in Nat
         /\ \A i \in K : Rank(K, i) < Cardinality(K)
         /\ \A i \in K : \A j \in Nat : i < j => Rank(K, i) + 1 <= Rank(K, j)
<1>1. Cardinality(K) \in Nat
  BY FS_CardinalityType
<1>2. ASSUME NEW i \in Nat
      PROVE  IsFiniteSet({j \in K : j < i}) /\ Rank(K, i) \in Nat
  <2>1. {j \in K : j < i} \in SUBSET K
    OBVIOUS
  <2>2. IsFiniteSet({j \in K : j < i})
    BY <2>1, FS_Subset
  <2>3. QED
    BY <2>2, FS_CardinalityType DEF Rank
<1>3. ASSUME NEW i \in K, NEW T, IsFiniteSet(T), {j \in K : j < i} \cup {i} \subseteq T
      PROVE  Rank(K, i) + 1 <= Cardinality(T)
  <2>1. i \notin {j \in K : j < i}
    OBVIOUS
  <2>2. Cardinality({j \in K : j < i} \cup {i}) = Cardinality({j \in K : j < i}) + 1
    BY <1>2, <2>1, FS_AddElement
  <2>3. Cardinality({j \in K : j < i} \cup {i}) <= Cardinality(T)
    BY <1>3, FS_Subset
  <2>4. QED
    BY <2>2, <2>3 DEF Rank
<1>4. ASSUME NEW i \in K
      PROVE  Rank(K, i) < Cardinality(K)
  <2>1. Rank(K, i) + 1 <= Cardinality(K)
    BY <1>3
  <2>2. Rank(K, i) \in Nat
    BY <1>2
  <2>3. QED
    BY <1>1, <2>1, <2>2
<1>5. ASSUME NEW i \in K, NEW j \in Nat, i < j
      PROVE  Rank(K, i) + 1 <= Rank(K, j)
  <2>1. {m \in K : m < i} \cup {i} \subseteq {m \in K : m < j}
    <3>1. \A m \in K : m \in Nat /\ (m < i => m < j)
      BY <1>5
    <3>2. QED
      BY <1>5, <3>1
  <2>2. Rank(K, i) + 1 <= Cardinality({m \in K : m < j})
    BY <1>2, <1>3, <2>1
  <2>3. QED
    BY <2>2 DEF Rank
<1>6. QED
  BY <1>1, <1>2, <1>4, <1>5

\* Every rank below the number of places is the rank of one of them.
LEMMA EveryRank ==
  ASSUME NEW K \in SUBSET Nat, IsFiniteSet(K), NEW n \in Nat, n < Cardinality(K)
  PROVE  \E i \in K : Rank(K, i) = n
<1> DEFINE Missing == {m \in Nat : m < Cardinality(K) /\ \A i \in K : Rank(K, i) # m}
<1>1. SUFFICES ASSUME Missing # {}
               PROVE  FALSE
  BY DEF Missing
<1>2. PICK m \in Missing : \A x \in Missing : m <= x
  <2>1. Missing \subseteq Nat
    OBVIOUS
  <2>2. QED
    BY <1>1, <2>1, Least
<1>3. m \in Nat /\ m < Cardinality(K) /\ (\A i \in K : Rank(K, i) # m) /\ Cardinality(K) \in Nat
  BY RankGrows
<1> HIDE DEF Missing
<1>4. CASE m = 0
  <2>1. K # {}
    BY <1>3, <1>4, FS_EmptySet
  <2>2. PICK i \in K : \A j \in K : i <= j
    BY <2>1, Least
  <2>3. {j \in K : j < i} = {}
    <3>1. \A j \in K : ~(j < i)
      BY <2>2
    <3>2. QED
      BY <3>1
  <2>4. Rank(K, i) = 0
    BY <2>3, FS_EmptySet DEF Rank
  <2>5. QED
    BY <1>3, <1>4, <2>4
<1>5. CASE m # 0
  <2>1. m - 1 \in Nat /\ m - 1 < Cardinality(K) /\ m - 1 \notin Missing
    BY <1>2, <1>3, <1>5
  <2>2. PICK i \in K : Rank(K, i) = m - 1
    BY <2>1 DEF Missing
  <2> DEFINE Below == {j \in K : j < i}
  <2> DEFINE Upto == Below \cup {i}
  <2>3. IsFiniteSet(Below) /\ i \notin Below /\ Cardinality(Below) = m - 1
    <3>1. Below \in SUBSET K /\ i \notin Below
      OBVIOUS
    <3>2. QED
      BY <2>2, <3>1, FS_Subset DEF Rank
  <2>4. Cardinality(Upto) = m
    <3> HIDE DEF Below
    <3>1. Cardinality(Upto) = Cardinality(Below) + 1
      BY <2>3, FS_AddElement
    <3>2. QED
      BY <1>3, <2>3, <3>1
  <2>5. Upto \subseteq K /\ Upto # K
    BY <1>3, <2>4
  <2> DEFINE Later == {j \in K : j > i}
  <2>6. Later # {} /\ Later \in SUBSET Nat
    <3>1. \A j \in K : j \in Nat
      OBVIOUS
    <3>2. \A j \in K : j < i \/ j = i \/ j > i
      BY <3>1
    <3>3. QED
      BY <2>5, <3>1, <3>2
  <2>7. PICK next \in Later : \A j \in Later : next <= j
    <3> HIDE DEF Later
    <3>1. QED
      BY <2>6, Least
  <2>8. {j \in K : j < next} = Upto
    <3>1. \A j \in K : j \in Nat /\ (j < next => j < i \/ j = i)
      BY <2>7
    <3>2. next > i /\ next \in Nat /\ i \in Nat
      BY <2>6, <2>7
    <3>3. \A j \in K : (j < i \/ j = i) => j < next
      BY <3>1, <3>2
    <3>4. QED
      BY <3>1, <3>3
  <2>9. Rank(K, next) = m /\ next \in K
    BY <2>4, <2>7, <2>8 DEF Rank
  <2>10. QED
    BY <1>3, <2>9
<1>6. QED
  BY <1>4, <1>5

\* The entries of what is kept are those at the kept places, each once and in
\* their order.
LEMMA KeptPicks ==
  ASSUME NEW array, NEW K \in SUBSET Nat, IsFiniteSet(K)
  PROVE  /\ DOMAIN Kept(array, K) = 1 .. Cardinality(K)
         /\ \A n \in 1 .. Cardinality(K) :
               \E i \in K : Rank(K, i) = n - 1 /\ Kept(array, K)[n] = array[i]
         /\ \A i \in K : /\ Rank(K, i) + 1 \in 1 .. Cardinality(K)
                         /\ Kept(array, K)[Rank(K, i) + 1] = array[i]
<1>1. DOMAIN Kept(array, K) = 1 .. Cardinality(K)
  BY DEF Kept
<1>2. ASSUME NEW n \in 1 .. Cardinality(K)
      PROVE  \E i \in K : Rank(K, i) = n - 1 /\ Kept(array, K)[n] = array[i]
  <2>1. n - 1 \in Nat /\ n - 1 < Cardinality(K)
    BY RankGrows
  <2>2. \E i \in K : Rank(K, i) = n - 1
    BY <2>1, EveryRank
  <2> DEFINE i == CHOOSE i \in K : Rank(K, i) = n - 1
  <2>3. i \in K /\ Rank(K, i) = n - 1
    BY <2>2
  <2>4. Kept(array, K)[n] = array[i]
    BY DEF Kept
  <2>5. QED
    BY <2>3, <2>4
<1>3. ASSUME NEW i \in K
      PROVE  /\ Rank(K, i) + 1 \in 1 .. Cardinality(K)
             /\ Kept(array, K)[Rank(K, i) + 1] = array[i]
  <2>1. Rank(K, i) \in Nat /\ Rank(K, i) < Cardinality(K) /\ Cardinality(K) \in Nat
    BY RankGrows
  <2>2. Rank(K, i) + 1 \in 1 .. Cardinality(K)
    BY <2>1
  <2> DEFINE n == Rank(K, i) + 1
  <2>3. PICK j \in K : Rank(K, j) = n - 1 /\ Kept(array, K)[n] = array[j]
    <3> HIDE DEF n
    <3>1. n \in 1 .. Cardinality(K)
      BY <2>2 DEF n
    <3>2. QED
      BY <1>2, <3>1
  <2>4. Rank(K, j) = Rank(K, i)
    BY <2>1, <2>3
  <2>5. ~(i < j) /\ ~(j < i)
    BY <2>1, <2>4, RankGrows
  <2>6. i = j
    BY <2>5
  <2>7. QED
    BY <2>2, <2>3, <2>6
<1>4. QED
  BY <1>1, <1>2, <1>3

\* What is kept of a sequence is a sequence.
LEMMA KeptType ==
  ASSUME NEW S, NEW array \in Seq(S), NEW K \in SUBSET (DOMAIN array)
  PROVE  /\ K \in SUBSET Nat /\ IsFiniteSet(K) /\ Cardinality(K) <= Len(array)
         /\ Kept(array, K) \in Seq(S)
<1>1. Len(array) \in Nat /\ DOMAIN array = 1 .. Len(array)
  OBVIOUS
<1>2. IsFiniteSet(1 .. Len(array)) /\ Cardinality(1 .. Len(array)) = Len(array)
  <2>1. /\ 1 \in Int /\ Len(array) \in Int
        /\ (IF 1 > Len(array) THEN 0 ELSE Len(array) - 1 + 1) = Len(array)
    BY <1>1
  <2>2. QED
    BY <2>1, FS_Interval
<1>3. IsFiniteSet(K) /\ Cardinality(K) <= Len(array) /\ K \in SUBSET Nat
  BY <1>1, <1>2, FS_Subset
<1>4. /\ DOMAIN Kept(array, K) = 1 .. Cardinality(K)
      /\ \A n \in 1 .. Cardinality(K) : \E i \in K : Kept(array, K)[n] = array[i]
      /\ Cardinality(K) \in Nat
  BY <1>3, KeptPicks, RankGrows
<1>5. \A n \in 1 .. Cardinality(K) : Kept(array, K)[n] \in S
  BY <1>1, <1>4
<1>6. Kept(array, K) = [n \in 1 .. Cardinality(K) |-> Kept(array, K)[n]]
  BY DEF Kept
<1>7. QED
  BY <1>3, <1>4, <1>5, <1>6

-----------------------------------------------------------------------------
(* The invariant. *)

\* How often a listener is among those called.
Calls(called, l) == Cardinality({i \in DOMAIN called : called[i] = l})

\* A loop over an array is at a place: a listener that stays is once in the
\* array, and has been called when the loop has passed its place.
Serves(array, at, called, staying) ==
    \A l \in staying : \E p \in DOMAIN array :
        /\ \A q \in DOMAIN array : array[q] = l <=> q = p
        /\ Calls(called, l) = IF p <= at THEN 1 ELSE 0

DispatchOK ==
    /\ arrays # <<>>
    /\ emitted \subseteq 1 .. created
    /\ \A e \in 1 .. MaxEvents : e \notin emitted => delivered[e] = <<>>
    /\ \A i \in DOMAIN stack : /\ stack[i].event \in emitted
                               /\ stack[i].array \in DOMAIN arrays
                               /\ Serves(arrays[stack[i].array], stack[i].at,
                                         delivered[stack[i].event], steady[stack[i].event])
    /\ \A i, j \in DOMAIN stack : stack[i].event = stack[j].event => i = j
    /\ \A e \in emitted : ~Dispatching(e) => \A l \in steady[e] : Calls(delivered[e], l) = 1

\* What the reader has to be given yet is at his offset or behind it.
ReaderOK ==
    /\ reader.atStart \subseteq 1 .. created
    /\ reader.reading => reader.offset <= MaxEvents
    /\ \A i \in DOMAIN events : events[i] \in reader.atStart /\ events[i] \notin reader.given =>
          /\ reader.reading
          /\ i \in Matching(reader.errorsOnly)
          /\ Rank(Matching(reader.errorsOnly), i) >= reader.offset

BusInv == TypeOK /\ BufferIsNewest /\ DispatchOK /\ ReaderOK

-----------------------------------------------------------------------------
(* Lemmas about the parts of the state. *)

\* The buffer after an event: it is first, the others follow.
LEMMA AddedFacts ==
  ASSUME TypeOK, BufferIsNewest, created < MaxEvents, BufferSize \in Nat \ {0}, MaxEvents \in Nat,
         events' = Added(created + 1), created' = created + 1
  PROVE  /\ events' \in Seq(1 .. MaxEvents) /\ created' \in 0 .. MaxEvents
         /\ BufferIsNewest'
         /\ events'[1] = created + 1
         /\ \A i \in DOMAIN events' : i # 1 => i - 1 \in DOMAIN events /\ events'[i] = events[i - 1]
<1> DEFINE e == created + 1
<1> DEFINE n == IF Len(events) < BufferSize THEN Len(events) + 1 ELSE BufferSize
<1>1. /\ events \in Seq(1 .. MaxEvents) /\ created \in 0 .. MaxEvents /\ e \in 1 .. MaxEvents
      /\ Len(events) = IF created < BufferSize THEN created ELSE BufferSize
      /\ \A i \in DOMAIN events : events[i] = created + 1 - i
  BY DEF TypeOK, BufferIsNewest
<1>2. /\ <<e>> \o events \in Seq(1 .. MaxEvents)
      /\ Len(<<e>> \o events) = Len(events) + 1
      /\ (<<e>> \o events)[1] = e
      /\ \A i \in 2 .. Len(events) + 1 : (<<e>> \o events)[i] = events[i - 1]
  BY <1>1
<1>3. n \in 1 .. Len(events) + 1 /\ n = IF e < BufferSize THEN e ELSE BufferSize
  BY <1>1
<1>4. events' = SubSeq(<<e>> \o events, 1, n)
  BY DEF Added
<1> HIDE DEF e, n
<1>5. /\ events' \in Seq(1 .. MaxEvents) /\ Len(events') = n
      /\ \A i \in 1 .. n : events'[i] = (<<e>> \o events)[i]
  <2> DEFINE all == <<e>> \o events
  <2>1. all \in Seq(1 .. MaxEvents) /\ n \in 1 .. Len(all) /\ events' = SubSeq(all, 1, n)
    BY <1>2, <1>3, <1>4
  <2> HIDE DEF all
  <2>2. /\ SubSeq(all, 1, n) \in Seq(1 .. MaxEvents) /\ Len(SubSeq(all, 1, n)) = n
        /\ \A i \in 1 .. n : SubSeq(all, 1, n)[i] = all[i]
    BY <2>1
  <2>3. QED
    BY <2>1, <2>2 DEF all
<1>6. DOMAIN events' = 1 .. n /\ Len(events) \in Nat /\ DOMAIN events = 1 .. Len(events) /\ n \in Nat
  BY <1>1, <1>3, <1>5
<1>7. events'[1] = e
  BY <1>2, <1>3, <1>5, <1>6
<1>8. ASSUME NEW i \in DOMAIN events', i # 1
      PROVE  i - 1 \in DOMAIN events /\ events'[i] = events[i - 1]
  <2>1. i \in 2 .. Len(events) + 1 /\ i \in 1 .. n /\ i - 1 \in 1 .. Len(events)
    BY <1>3, <1>6, <1>8
  <2>2. QED
    BY <1>2, <1>5, <1>6, <2>1
<1>9. \A i \in DOMAIN events' : events'[i] = created' + 1 - i
  <2>1. SUFFICES ASSUME NEW i \in DOMAIN events'
                 PROVE  events'[i] = created' + 1 - i
    OBVIOUS
  <2>2. created \in Nat /\ i \in Nat /\ created' = created + 1
    BY <1>1, <1>6
  <2>3. CASE i = 1
    BY <1>7, <2>2, <2>3 DEF e
  <2>4. CASE i # 1
    <3>1. i - 1 \in DOMAIN events /\ events'[i] = events[i - 1]
      BY <1>8, <2>4
    <3>2. events[i - 1] = created + 1 - (i - 1)
      BY <1>1, <3>1
    <3>3. QED
      BY <2>2, <3>1, <3>2
  <2>5. QED
    BY <2>3, <2>4
<1>10. BufferIsNewest'
  BY <1>3, <1>5, <1>9 DEF BufferIsNewest, e
<1>11. QED
  BY <1>1, <1>5, <1>7, <1>8, <1>10 DEF e

\* One more call of a listener is counted for that listener only.
LEMMA AppendCounts ==
  ASSUME NEW S, NEW d \in Seq(S), NEW x \in S, NEW l
  PROVE  /\ Calls(d, l) \in Nat
         /\ Calls(Append(d, x), l) = Calls(d, l) + (IF x = l THEN 1 ELSE 0)
<1> DEFINE Old == {i \in DOMAIN d : d[i] = l}
<1> DEFINE New == {i \in DOMAIN Append(d, x) : Append(d, x)[i] = l}
<1>1. /\ Len(d) \in Nat /\ DOMAIN d = 1 .. Len(d)
      /\ DOMAIN Append(d, x) = 1 .. Len(d) + 1
      /\ Append(d, x)[Len(d) + 1] = x
      /\ \A i \in 1 .. Len(d) : Append(d, x)[i] = d[i]
  OBVIOUS
<1>2. IsFiniteSet(DOMAIN d)
  BY <1>1, FS_Interval
<1>3. Old \in SUBSET (DOMAIN d) /\ Len(d) + 1 \notin Old
  BY <1>1
<1>4. New = IF x = l THEN Old \cup {Len(d) + 1} ELSE Old
  BY <1>1
<1> HIDE DEF Old, New
<1>5. IsFiniteSet(Old)
  BY <1>2, <1>3, FS_Subset
<1>6. Cardinality(Old) \in Nat /\ Cardinality(Old \cup {Len(d) + 1}) = Cardinality(Old) + 1
  BY <1>3, <1>5, FS_CardinalityType, FS_AddElement
<1>7. Cardinality(New) = Cardinality(Old) + (IF x = l THEN 1 ELSE 0)
  BY <1>4, <1>6
<1>8. QED
  BY <1>6, <1>7 DEF Old, New, Calls

\* Exactly one registration is a registration at one place.
LEMMA OneRegistration ==
  ASSUME NEW l, Registrations(l) = 1, IsFiniteSet(DOMAIN arrays[Current])
  PROVE  \E p \in DOMAIN arrays[Current] :
            \A q \in DOMAIN arrays[Current] : arrays[Current][q] = l <=> q = p
<1> DEFINE P == {i \in DOMAIN arrays[Current] : arrays[Current][i] = l}
<1>1. P \in SUBSET (DOMAIN arrays[Current]) /\ Cardinality(P) = 1
  BY DEF Registrations
<1>2. IsFiniteSet(P)
  BY <1>1, FS_Subset
<1>3. PICK p : P = {p}
  BY <1>1, <1>2, FS_Singleton
<1>4. QED
  BY <1>3

-----------------------------------------------------------------------------
(* Lemmas about the dispatch. *)

\* The innermost frame.
LEMMA TopFrame ==
  ASSUME TypeOK, stack # <<>>
  PROVE  /\ Top = stack[1] /\ Top \in Frames /\ 1 \in DOMAIN stack
         /\ DOMAIN stack = 1 .. Len(stack) /\ Len(stack) \in Nat \ {0}
         /\ Top.event \in Nat /\ Top.array \in Nat /\ Top.at \in Nat /\ Top.running \in BOOLEAN
<1>1. stack \in Seq(Frames)
  BY DEF TypeOK
<1>2. /\ DOMAIN stack = 1 .. Len(stack) /\ Len(stack) \in Nat \ {0}
      /\ Head(stack) = stack[1] /\ stack[1] \in Frames
  BY <1>1
<1>3. QED
  BY <1>2 DEF Top, Frames

\* The innermost frame is replaced: it is of the same event and array.
LEMMA TopReplaced ==
  ASSUME TypeOK, stack # <<>>, NEW at \in Nat, NEW running \in BOOLEAN,
         stack' = [stack EXCEPT ![1] = [Top EXCEPT !.at = at, !.running = running]]
  PROVE  /\ stack' \in Seq(Frames) /\ DOMAIN stack' = DOMAIN stack
         /\ stack'[1].event = Top.event /\ stack'[1].array = Top.array
         /\ stack'[1].at = at /\ stack'[1].running = running
         /\ \A i \in DOMAIN stack : i # 1 => stack'[i] = stack[i]
         /\ \A i \in DOMAIN stack : stack'[i].event = stack[i].event
<1> DEFINE f == [Top EXCEPT !.at = at, !.running = running]
<1>1. stack \in Seq(Frames) /\ 1 \in DOMAIN stack /\ Top = stack[1] /\ Top \in Frames
  BY TopFrame DEF TypeOK
<1>2. /\ f \in Frames /\ f.event = Top.event /\ f.array = Top.array
      /\ f.at = at /\ f.running = running
  BY <1>1 DEF Frames
<1> HIDE DEF f
<1>3. stack' = [stack EXCEPT ![1] = f]
  BY DEF f
<1>4. /\ stack' \in Seq(Frames) /\ DOMAIN stack' = DOMAIN stack /\ stack'[1] = f
      /\ \A i \in DOMAIN stack : i # 1 => stack'[i] = stack[i]
  BY <1>1, <1>2, <1>3
<1>5. \A i \in DOMAIN stack : stack'[i].event = stack[i].event
  BY <1>1, <1>2, <1>4
<1>6. QED
  BY <1>2, <1>4, <1>5

\* When fewer stay, they are served as well.
LEMMA ServesFewer ==
  ASSUME NEW array, NEW at, NEW called, NEW staying, NEW fewer, fewer \subseteq staying,
         Serves(array, at, called, staying)
  PROVE  Serves(array, at, called, fewer)
BY DEF Serves

-----------------------------------------------------------------------------
(* The dispatch, one lemma per action. *)

LEMMA EmitThreatDispatch ==
  ASSUME BusInv, BusAssumption, EmitThreat
  PROVE  TypeOK' /\ BufferIsNewest' /\ DispatchOK'
<1> DEFINE e == created + 1
<1> DEFINE f == [event |-> e, array |-> Current, at |-> 0, running |-> FALSE]
<1>1. /\ created < MaxEvents /\ created' = e /\ events' = Added(e)
      /\ stack' = <<f>> \o stack
      /\ emitted' = emitted \cup {e}
      /\ steady' = [steady EXCEPT ![e] = {l \in Listeners : Registrations(l) = 1}]
      /\ UNCHANGED <<arrays, delivered, reader>>
  BY DEF EmitThreat, NewEvent
<1>2. TypeOK /\ BufferIsNewest /\ DispatchOK
  BY DEF BusInv
<1>3. BufferSize \in Nat \ {0} /\ MaxEvents \in Nat
  BY DEF BusAssumption
<1>4. events' \in Seq(1 .. MaxEvents) /\ created' \in 0 .. MaxEvents /\ BufferIsNewest'
  BY <1>1, <1>2, <1>3, AddedFacts
<1>5. /\ e \in 1 .. MaxEvents /\ e \notin emitted /\ e \in Nat
      /\ emitted \subseteq 1 .. created /\ created \in Nat
  BY <1>1, <1>2, <1>3 DEF TypeOK, DispatchOK
<1>6. /\ Current \in DOMAIN arrays /\ Current \in Nat
      /\ arrays[Current] \in Seq(Listeners)
  BY <1>2 DEF TypeOK, DispatchOK, Current
<1>7. f \in Frames /\ f.event = e /\ f.array = Current /\ f.at = 0
  BY <1>5, <1>6 DEF Frames
<1> HIDE DEF f
<1>8. stack \in Seq(Frames)
  BY <1>2 DEF TypeOK
<1>9. /\ stack' \in Seq(Frames) /\ Len(stack) \in Nat /\ DOMAIN stack = 1 .. Len(stack)
      /\ DOMAIN stack' = 1 .. Len(stack) + 1 /\ stack'[1] = f
      /\ \A i \in 2 .. Len(stack) + 1 : stack'[i] = stack[i - 1]
  BY <1>1, <1>7, <1>8
<1>10. \A i \in DOMAIN stack' : i = 1 \/ (i - 1 \in DOMAIN stack /\ stack'[i] = stack[i - 1])
  BY <1>9
<1>11. TypeOK'
  <2>1. emitted' \subseteq 1 .. MaxEvents /\ steady' \in [1 .. MaxEvents -> SUBSET Listeners]
    BY <1>1, <1>2, <1>5 DEF TypeOK
  <2>2. QED
    BY <1>1, <1>2, <1>4, <1>9, <2>1 DEF TypeOK, Readers
<1>12. /\ steady'[e] = {l \in Listeners : Registrations(l) = 1}
       /\ \A x \in emitted : steady'[x] = steady[x]
  BY <1>1, <1>2, <1>5 DEF TypeOK
<1>13. Serves(arrays[Current], 0, delivered[e], {l \in Listeners : Registrations(l) = 1})
  <2>1. SUFFICES ASSUME NEW l \in Listeners, Registrations(l) = 1
                 PROVE  \E p \in DOMAIN arrays[Current] :
                          /\ \A q \in DOMAIN arrays[Current] : arrays[Current][q] = l <=> q = p
                          /\ Calls(delivered[e], l) = IF p <= 0 THEN 1 ELSE 0
    BY DEF Serves
  <2>2. IsFiniteSet(DOMAIN arrays[Current])
    <3>1. DOMAIN arrays[Current] = 1 .. Len(arrays[Current]) /\ Len(arrays[Current]) \in Nat
      BY <1>6
    <3>2. QED
      BY <3>1, FS_Interval
  <2>3. PICK p \in DOMAIN arrays[Current] :
               \A q \in DOMAIN arrays[Current] : arrays[Current][q] = l <=> q = p
    BY <2>1, <2>2, OneRegistration
  <2>4. ~(p <= 0)
    BY <1>6
  <2>5. delivered[e] = <<>>
    BY <1>2, <1>5 DEF DispatchOK
  <2>6. {i \in DOMAIN delivered[e] : delivered[e][i] = l} = {}
    BY <2>5
  <2>7. Calls(delivered[e], l) = 0
    BY <2>6, FS_EmptySet DEF Calls
  <2>8. QED
    BY <2>3, <2>4, <2>7
<1>14. ASSUME NEW i \in DOMAIN stack'
       PROVE  /\ stack'[i].event \in emitted' /\ stack'[i].array \in DOMAIN arrays'
              /\ Serves(arrays'[stack'[i].array], stack'[i].at,
                        delivered'[stack'[i].event], steady'[stack'[i].event])
  <2>1. CASE i = 1
    BY <1>1, <1>6, <1>7, <1>9, <1>12, <1>13, <2>1
  <2>2. CASE i # 1
    <3>1. i - 1 \in DOMAIN stack /\ stack'[i] = stack[i - 1]
      BY <1>10, <2>2
    <3>2. /\ stack[i - 1].event \in emitted /\ stack[i - 1].array \in DOMAIN arrays
          /\ Serves(arrays[stack[i - 1].array], stack[i - 1].at,
                    delivered[stack[i - 1].event], steady[stack[i - 1].event])
      BY <1>2, <3>1 DEF DispatchOK
    <3>3. QED
      BY <1>1, <1>12, <3>1, <3>2
  <2>3. QED
    BY <2>1, <2>2
<1>15. ASSUME NEW i \in DOMAIN stack', NEW j \in DOMAIN stack', stack'[i].event = stack'[j].event
       PROVE  i = j
  <2>1. \A m \in DOMAIN stack : stack[m].event # e
    BY <1>2, <1>5 DEF DispatchOK
  <2>2. \A m, n \in DOMAIN stack : stack[m].event = stack[n].event => m = n
    BY <1>2 DEF DispatchOK
  <2>3. CASE i = 1 \/ j = 1
    BY <1>7, <1>9, <1>10, <1>15, <2>1, <2>3
  <2>4. CASE i # 1 /\ j # 1
    <3>1. /\ i - 1 \in DOMAIN stack /\ stack'[i] = stack[i - 1]
          /\ j - 1 \in DOMAIN stack /\ stack'[j] = stack[j - 1]
      BY <1>10, <2>4
    <3>2. i - 1 = j - 1
      BY <1>15, <2>2, <3>1
    <3>3. QED
      BY <1>9, <3>2
  <2>5. QED
    BY <2>3, <2>4
<1>16. ASSUME NEW x \in emitted', ~Dispatching(x)', NEW l \in steady'[x]
       PROVE  Calls(delivered'[x], l) = 1
  <2>1. x # e
    BY <1>7, <1>9, <1>16 DEF Dispatching
  <2>2. x \in emitted /\ ~Dispatching(x)
    <3>1. x \in emitted
      BY <1>1, <2>1
    <3>2. ASSUME NEW i \in DOMAIN stack, stack[i].event = x
          PROVE  FALSE
      <4>1. i + 1 \in DOMAIN stack' /\ stack'[i + 1] = stack[i]
        BY <1>9
      <4>2. QED
        BY <1>16, <3>2, <4>1 DEF Dispatching
    <3>3. QED
      BY <3>1, <3>2 DEF Dispatching
  <2>3. QED
    BY <1>1, <1>2, <1>12, <2>2 DEF DispatchOK
<1>17. /\ arrays' # <<>> /\ emitted' \subseteq 1 .. created'
       /\ \A x \in 1 .. MaxEvents : x \notin emitted' => delivered'[x] = <<>>
  BY <1>1, <1>2, <1>5 DEF DispatchOK
<1>18. DispatchOK'
  BY <1>14, <1>15, <1>16, <1>17 DEF DispatchOK
<1>19. QED
  BY <1>4, <1>11, <1>18

LEMMA CallListenerDispatch ==
  ASSUME BusInv, CallListener
  PROVE  TypeOK' /\ BufferIsNewest' /\ DispatchOK'
<1> DEFINE x == Iterated[Top.at + 1]
<1>1. /\ stack # <<>>
      /\ Top.at < Len(Iterated)
      /\ stack' = [stack EXCEPT ![1].at = @ + 1, ![1].running = TRUE]
      /\ delivered' = [delivered EXCEPT ![Top.event] = Append(@, x)]
      /\ UNCHANGED <<events, created, arrays, emitted, steady, reader>>
  BY DEF CallListener
<1>2. TypeOK /\ BufferIsNewest /\ DispatchOK
  BY DEF BusInv
<1>3. /\ Top = stack[1] /\ Top \in Frames /\ 1 \in DOMAIN stack
      /\ Top.at \in Nat
  BY <1>1, <1>2, TopFrame
<1>4. /\ Top.event \in emitted /\ Top.array \in DOMAIN arrays
      /\ Serves(Iterated, Top.at, delivered[Top.event], steady[Top.event])
  BY <1>2, <1>3 DEF DispatchOK, Iterated
<1>5. /\ Iterated \in Seq(Listeners) /\ Top.event \in 1 .. MaxEvents
      /\ delivered[Top.event] \in Seq(Listeners)
  <2>1. /\ arrays \in Seq(Seq(Listeners)) /\ emitted \subseteq 1 .. MaxEvents
        /\ delivered \in [1 .. MaxEvents -> Seq(Listeners)]
    BY <1>2 DEF TypeOK
  <2>2. arrays[Top.array] \in Seq(Listeners)
    BY <1>4, <2>1
  <2>3. Top.event \in 1 .. MaxEvents
    BY <1>4, <2>1
  <2>4. QED
    BY <2>1, <2>2, <2>3 DEF Iterated
<1>6. x \in Listeners /\ Top.at + 1 \in DOMAIN Iterated /\ Top.at + 1 \in Nat
  BY <1>1, <1>3, <1>5
<1>7. stack' = [stack EXCEPT ![1] = [Top EXCEPT !.at = Top.at + 1, !.running = TRUE]]
  BY <1>1, <1>3
<1>8. /\ stack' \in Seq(Frames) /\ DOMAIN stack' = DOMAIN stack
      /\ stack'[1].event = Top.event /\ stack'[1].array = Top.array
      /\ stack'[1].at = Top.at + 1
      /\ \A i \in DOMAIN stack : i # 1 => stack'[i] = stack[i]
      /\ \A i \in DOMAIN stack : stack'[i].event = stack[i].event
  BY <1>1, <1>2, <1>6, <1>7, TopReplaced
<1> HIDE DEF x
<1>9. /\ delivered' \in [1 .. MaxEvents -> Seq(Listeners)]
      /\ delivered'[Top.event] = Append(delivered[Top.event], x)
      /\ \A e \in 1 .. MaxEvents : e # Top.event => delivered'[e] = delivered[e]
  BY <1>1, <1>2, <1>5, <1>6 DEF TypeOK
<1>10. TypeOK'
  BY <1>1, <1>2, <1>8, <1>9 DEF TypeOK, Readers
<1>11. BufferIsNewest'
  BY <1>1, <1>2 DEF BufferIsNewest
<1>12. Serves(Iterated, Top.at + 1, delivered'[Top.event], steady[Top.event])
  <2>1. SUFFICES ASSUME NEW l \in steady[Top.event]
                 PROVE  \E p \in DOMAIN Iterated :
                          /\ \A q \in DOMAIN Iterated : Iterated[q] = l <=> q = p
                          /\ Calls(delivered'[Top.event], l) = IF p <= Top.at + 1 THEN 1 ELSE 0
    BY DEF Serves
  <2>2. PICK p \in DOMAIN Iterated :
            /\ \A q \in DOMAIN Iterated : Iterated[q] = l <=> q = p
            /\ Calls(delivered[Top.event], l) = IF p <= Top.at THEN 1 ELSE 0
    BY <1>4 DEF Serves
  <2>3. Calls(delivered'[Top.event], l) = Calls(delivered[Top.event], l) + (IF x = l THEN 1 ELSE 0)
    BY <1>5, <1>6, <1>9, AppendCounts
  <2>4. p \in Nat /\ (x = l <=> Top.at + 1 = p)
    BY <1>5, <1>6, <2>2 DEF x
  <2>5. Calls(delivered'[Top.event], l) = IF p <= Top.at + 1 THEN 1 ELSE 0
    BY <1>3, <2>2, <2>3, <2>4
  <2>6. QED
    BY <2>2, <2>5
<1>13. ASSUME NEW i \in DOMAIN stack'
       PROVE  /\ stack'[i].event \in emitted' /\ stack'[i].array \in DOMAIN arrays'
              /\ Serves(arrays'[stack'[i].array], stack'[i].at,
                        delivered'[stack'[i].event], steady'[stack'[i].event])
  <2>1. CASE i = 1
    BY <1>1, <1>4, <1>8, <1>12, <2>1 DEF Iterated
  <2>2. CASE i # 1
    <3>1. i \in DOMAIN stack /\ stack'[i] = stack[i]
      BY <1>8, <2>2
    <3>2. /\ stack[i].event \in emitted /\ stack[i].array \in DOMAIN arrays
          /\ Serves(arrays[stack[i].array], stack[i].at,
                    delivered[stack[i].event], steady[stack[i].event])
      BY <1>2, <3>1 DEF DispatchOK
    <3>3. stack[i].event # Top.event
      BY <1>2, <1>3, <2>2, <3>1 DEF DispatchOK
    <3>4. delivered'[stack[i].event] = delivered[stack[i].event]
      BY <1>2, <1>9, <3>2, <3>3 DEF TypeOK
    <3>5. arrays' = arrays /\ steady' = steady /\ emitted' = emitted
      BY <1>1
    <3>6. delivered'[stack'[i].event] = delivered[stack[i].event]
      BY <3>1, <3>4
    <3>7. QED
      BY <3>1, <3>2, <3>5, <3>6
  <2>3. QED
    BY <2>1, <2>2
<1>14. \A i, j \in DOMAIN stack' : stack'[i].event = stack'[j].event => i = j
  BY <1>2, <1>8 DEF DispatchOK
<1>15. ASSUME NEW e \in emitted', ~Dispatching(e)'
       PROVE  \A l \in steady'[e] : Calls(delivered'[e], l) = 1
  <2>1. e \in emitted /\ ~Dispatching(e) /\ e # Top.event
    BY <1>1, <1>3, <1>8, <1>15 DEF Dispatching
  <2>2. delivered'[e] = delivered[e]
    BY <1>2, <1>9, <2>1 DEF TypeOK
  <2>3. QED
    BY <1>1, <1>2, <2>1, <2>2 DEF DispatchOK
<1>16. \A e \in 1 .. MaxEvents : e \notin emitted' => delivered'[e] = <<>>
  BY <1>1, <1>2, <1>4, <1>9 DEF DispatchOK
<1>17. arrays' # <<>> /\ emitted' \subseteq 1 .. created'
  BY <1>1, <1>2 DEF DispatchOK
<1>18. DispatchOK'
  BY <1>13, <1>14, <1>15, <1>16, <1>17 DEF DispatchOK
<1>19. QED
  BY <1>10, <1>11, <1>18

LEMMA EmitReturnsDispatch ==
  ASSUME BusInv, EmitReturns
  PROVE  TypeOK' /\ BufferIsNewest' /\ DispatchOK'
<1>1. /\ stack # <<>>
      /\ Top.at >= Len(Iterated)
      /\ stack' = Tail(stack)
      /\ UNCHANGED <<events, created, arrays, delivered, emitted, steady, reader>>
  BY DEF EmitReturns
<1>2. TypeOK /\ BufferIsNewest /\ DispatchOK
  BY DEF BusInv
<1>3. /\ Top = stack[1] /\ 1 \in DOMAIN stack /\ Top.at \in Nat
      /\ DOMAIN stack = 1 .. Len(stack) /\ Len(stack) \in Nat \ {0}
  BY <1>1, <1>2, TopFrame
<1>4. stack \in Seq(Frames)
  BY <1>2 DEF TypeOK
<1>5. /\ stack' \in Seq(Frames) /\ DOMAIN stack' = 1 .. Len(stack) - 1
      /\ \A i \in DOMAIN stack' : i + 1 \in DOMAIN stack /\ stack'[i] = stack[i + 1]
  BY <1>1, <1>3, <1>4
<1>6. TypeOK'
  BY <1>1, <1>2, <1>5 DEF TypeOK, Readers
<1>7. BufferIsNewest'
  BY <1>1, <1>2 DEF BufferIsNewest
<1>8. \A i \in DOMAIN stack' :
          /\ stack'[i].event \in emitted' /\ stack'[i].array \in DOMAIN arrays'
          /\ Serves(arrays'[stack'[i].array], stack'[i].at,
                    delivered'[stack'[i].event], steady'[stack'[i].event])
  BY <1>1, <1>2, <1>5 DEF DispatchOK
<1>9. ASSUME NEW i \in DOMAIN stack', NEW j \in DOMAIN stack', stack'[i].event = stack'[j].event
      PROVE  i = j
  <2>1. i + 1 = j + 1
    BY <1>2, <1>5, <1>9 DEF DispatchOK
  <2>2. QED
    BY <1>3, <1>5, <2>1
<1>10. ASSUME NEW e \in emitted', ~Dispatching(e)', NEW l \in steady'[e]
       PROVE  Calls(delivered'[e], l) = 1
  <2>1. e \in emitted /\ l \in steady[e]
    BY <1>1
  <2>2. CASE e = Top.event
    <3>1. /\ Top.array \in DOMAIN arrays
          /\ Serves(Iterated, Top.at, delivered[e], steady[e])
      BY <1>2, <1>3, <2>2 DEF DispatchOK, Iterated
    <3>2. Iterated \in Seq(Listeners)
      BY <1>2, <3>1 DEF TypeOK, Iterated
    <3>3. PICK p \in DOMAIN Iterated : Calls(delivered[e], l) = IF p <= Top.at THEN 1 ELSE 0
      BY <2>1, <3>1 DEF Serves
    <3>4. p <= Top.at
      BY <1>1, <1>3, <3>2
    <3>5. QED
      BY <1>1, <3>3, <3>4
  <2>3. CASE e # Top.event
    <3>1. ASSUME NEW i \in DOMAIN stack, stack[i].event = e
          PROVE  FALSE
      <4>1. i # 1
        BY <1>3, <2>3, <3>1
      <4>2. i - 1 \in DOMAIN stack' /\ stack'[i - 1] = stack[i]
        BY <1>3, <1>5, <4>1
      <4>3. QED
        BY <1>10, <3>1, <4>2 DEF Dispatching
    <3>2. ~Dispatching(e)
      BY <3>1 DEF Dispatching
    <3>3. QED
      BY <1>1, <1>2, <2>1, <3>2 DEF DispatchOK
  <2>4. QED
    BY <2>2, <2>3
<1>11. /\ arrays' # <<>> /\ emitted' \subseteq 1 .. created'
       /\ \A e \in 1 .. MaxEvents : e \notin emitted' => delivered'[e] = <<>>
  BY <1>1, <1>2 DEF DispatchOK
<1>12. DispatchOK'
  BY <1>8, <1>9, <1>10, <1>11 DEF DispatchOK
<1>13. QED
  BY <1>6, <1>7, <1>12

\* A listener that returns or throws leaves its frame where it is.
LEMMA ReturnDispatch ==
  ASSUME BusInv, BusAssumption, ListenerReturns \/ ListenerThrows
  PROVE  TypeOK' /\ BufferIsNewest' /\ DispatchOK'
<1>1. /\ stack # <<>>
      /\ stack' = [stack EXCEPT ![1].running = FALSE]
      /\ UNCHANGED <<arrays, delivered, emitted, steady, reader>>
  BY DEF ListenerReturns, ListenerThrows, Running
<1>2. TypeOK /\ BufferIsNewest /\ DispatchOK
  BY DEF BusInv
<1>3. /\ Top = stack[1] /\ Top \in Frames /\ 1 \in DOMAIN stack /\ Top.at \in Nat
  BY <1>1, <1>2, TopFrame
<1>4. stack' = [stack EXCEPT ![1] = [Top EXCEPT !.at = Top.at, !.running = FALSE]]
  BY <1>1, <1>3 DEF Frames
<1>5. /\ stack' \in Seq(Frames) /\ DOMAIN stack' = DOMAIN stack
      /\ stack'[1].event = Top.event /\ stack'[1].array = Top.array
      /\ stack'[1].at = Top.at
      /\ \A i \in DOMAIN stack : i # 1 => stack'[i] = stack[i]
      /\ \A i \in DOMAIN stack : stack'[i].event = stack[i].event
  BY <1>1, <1>2, <1>3, <1>4, TopReplaced
<1>6. /\ events' \in Seq(1 .. MaxEvents) /\ created' \in 0 .. MaxEvents
      /\ BufferIsNewest' /\ created <= created'
  <2>1. CASE ListenerReturns
    BY <1>2, <2>1 DEF ListenerReturns, TypeOK, BufferIsNewest
  <2>2. CASE ListenerThrows
    <3>1. created < MaxEvents /\ created' = created + 1 /\ events' = Added(created + 1)
      BY <2>2 DEF ListenerThrows, NewEvent
    <3>2. BufferSize \in Nat \ {0} /\ MaxEvents \in Nat /\ created \in Nat
      BY <1>2 DEF BusAssumption, TypeOK
    <3>3. QED
      BY <1>2, <3>1, <3>2, AddedFacts
  <2>3. QED
    BY <2>1, <2>2
<1>7. TypeOK'
  BY <1>1, <1>2, <1>5, <1>6 DEF TypeOK, Readers
<1>8. \A i \in DOMAIN stack' : /\ stack'[i].event = stack[i].event
                               /\ stack'[i].array = stack[i].array
                               /\ stack'[i].at = stack[i].at
  BY <1>3, <1>5
<1>9. \A e : Dispatching(e)' <=> Dispatching(e)
  BY <1>5 DEF Dispatching
<1>10. emitted' \subseteq 1 .. created'
  BY <1>1, <1>2, <1>6 DEF DispatchOK, TypeOK
<1>11. DispatchOK'
  BY <1>1, <1>2, <1>5, <1>8, <1>9, <1>10 DEF DispatchOK
<1>12. QED
  BY <1>6, <1>7, <1>11

\* A new registration goes to the end of the array that a loop may be over; it
\* moves nobody, and the listener is no longer one that stays.
LEMMA OnThreatDispatch ==
  ASSUME BusInv, NEW l \in Listeners, OnThreat(l)
  PROVE  TypeOK' /\ BufferIsNewest' /\ DispatchOK'
<1>1. /\ arrays' = [arrays EXCEPT ![Current] = Append(@, l)]
      /\ steady' = [e \in 1 .. MaxEvents |-> steady[e] \ {l}]
      /\ UNCHANGED <<events, created, stack, delivered, emitted, reader>>
  BY DEF OnThreat
<1>2. TypeOK /\ BufferIsNewest /\ DispatchOK
  BY DEF BusInv
<1>3. /\ arrays \in Seq(Seq(Listeners)) /\ Current \in DOMAIN arrays
      /\ arrays[Current] \in Seq(Listeners)
  BY <1>2 DEF TypeOK, DispatchOK, Current
<1>4. /\ arrays' \in Seq(Seq(Listeners)) /\ DOMAIN arrays' = DOMAIN arrays /\ arrays' # <<>>
      /\ arrays'[Current] = Append(arrays[Current], l)
      /\ \A k \in DOMAIN arrays : k # Current => arrays'[k] = arrays[k]
  BY <1>1, <1>3
<1>5. /\ emitted \subseteq 1 .. MaxEvents
      /\ steady \in [1 .. MaxEvents -> SUBSET Listeners]
  BY <1>2 DEF TypeOK
<1>6. /\ steady' \in [1 .. MaxEvents -> SUBSET Listeners]
      /\ \A e \in emitted : steady'[e] = steady[e] \ {l}
  BY <1>1, <1>5
<1>7. TypeOK' /\ BufferIsNewest'
  BY <1>1, <1>2, <1>4, <1>6 DEF TypeOK, Readers, BufferIsNewest
<1>8. ASSUME NEW i \in DOMAIN stack
      PROVE  /\ stack[i].array \in DOMAIN arrays'
             /\ Serves(arrays'[stack[i].array], stack[i].at,
                       delivered[stack[i].event], steady'[stack[i].event])
  <2>1. /\ stack[i].event \in emitted /\ stack[i].array \in DOMAIN arrays
        /\ Serves(arrays[stack[i].array], stack[i].at,
                  delivered[stack[i].event], steady[stack[i].event])
    BY <1>2 DEF DispatchOK
  <2>2. steady'[stack[i].event] = steady[stack[i].event] \ {l}
    BY <1>6, <2>1
  <2>3. CASE stack[i].array # Current
    <3>1. Serves(arrays[stack[i].array], stack[i].at,
                 delivered[stack[i].event], steady'[stack[i].event])
      BY <2>1, <2>2, ServesFewer
    <3>2. QED
      BY <1>4, <2>1, <2>3, <3>1
  <2>4. CASE stack[i].array = Current
    <3> DEFINE array == arrays[Current]
    <3>1. /\ DOMAIN array = 1 .. Len(array) /\ Len(array) \in Nat
          /\ DOMAIN Append(array, l) = 1 .. Len(array) + 1
          /\ Append(array, l)[Len(array) + 1] = l
          /\ \A q \in DOMAIN array : Append(array, l)[q] = array[q]
      BY <1>3
    <3>2. Serves(array, stack[i].at, delivered[stack[i].event], steady[stack[i].event])
      BY <2>1, <2>4
    <3> HIDE DEF array
    <3>3. ASSUME NEW k \in steady[stack[i].event], k # l
          PROVE  \E p \in DOMAIN Append(array, l) :
                    /\ \A q \in DOMAIN Append(array, l) : Append(array, l)[q] = k <=> q = p
                    /\ Calls(delivered[stack[i].event], k) = IF p <= stack[i].at THEN 1 ELSE 0
      <4>1. PICK p \in DOMAIN array :
                    /\ \A q \in DOMAIN array : array[q] = k <=> q = p
                    /\ Calls(delivered[stack[i].event], k) = IF p <= stack[i].at THEN 1 ELSE 0
        BY <3>2 DEF Serves
      <4>2. p \in DOMAIN Append(array, l) /\ p # Len(array) + 1
        BY <3>1
      <4>3. \A q \in DOMAIN Append(array, l) : q \in DOMAIN array \/ q = Len(array) + 1
        BY <3>1
      <4>4. \A q \in DOMAIN Append(array, l) : Append(array, l)[q] = k <=> q = p
        BY <3>1, <3>3, <4>1, <4>2, <4>3
      <4>5. QED
        BY <4>1, <4>2, <4>4
    <3>4. Serves(Append(array, l), stack[i].at, delivered[stack[i].event],
                 steady[stack[i].event] \ {l})
      BY <3>3 DEF Serves
    <3>5. QED
      BY <1>4, <2>1, <2>2, <2>4, <3>4 DEF array
  <2>5. QED
    BY <2>3, <2>4
<1>9. /\ stack' = stack /\ delivered' = delivered /\ emitted' = emitted /\ created' = created
      /\ \A e : Dispatching(e)' <=> Dispatching(e)
  BY <1>1 DEF Dispatching
<1>10. \A e \in emitted : ~Dispatching(e) => \A k \in steady'[e] : Calls(delivered[e], k) = 1
  BY <1>2, <1>6 DEF DispatchOK
<1>11. DispatchOK'
  BY <1>2, <1>4, <1>8, <1>9, <1>10 DEF DispatchOK
<1>12. QED
  BY <1>7, <1>11

\* A listener that leaves is left in the arrays that loops are over.
LEMMA UnsubscribeDispatch ==
  ASSUME BusInv, NEW l \in Listeners, Unsubscribe(l)
  PROVE  TypeOK' /\ BufferIsNewest' /\ DispatchOK'
<1>1. /\ arrays' = Append(arrays, Without(l))
      /\ steady' = [e \in 1 .. MaxEvents |-> steady[e] \ {l}]
      /\ UNCHANGED <<events, created, stack, delivered, emitted, reader>>
  BY DEF Unsubscribe
<1>2. TypeOK /\ BufferIsNewest /\ DispatchOK
  BY DEF BusInv
<1>3. /\ arrays \in Seq(Seq(Listeners)) /\ Current \in DOMAIN arrays
      /\ arrays[Current] \in Seq(Listeners)
  BY <1>2 DEF TypeOK, DispatchOK, Current
<1>4. Without(l) \in Seq(Listeners)
  <2>1. {i \in DOMAIN arrays[Current] : arrays[Current][i] # l} \in SUBSET (DOMAIN arrays[Current])
    OBVIOUS
  <2>2. QED
    BY <1>3, <2>1, KeptType DEF Without
<1>5. /\ arrays' \in Seq(Seq(Listeners)) /\ arrays' # <<>>
      /\ DOMAIN arrays \subseteq DOMAIN arrays'
      /\ \A k \in DOMAIN arrays : arrays'[k] = arrays[k]
  <2> DEFINE new == Without(l)
  <2>1. new \in Seq(Listeners) /\ arrays' = Append(arrays, new)
    BY <1>1, <1>4
  <2> HIDE DEF new
  <2>2. /\ Len(arrays) \in Nat /\ DOMAIN arrays = 1 .. Len(arrays)
        /\ arrays' \in Seq(Seq(Listeners)) /\ DOMAIN arrays' = 1 .. Len(arrays) + 1
        /\ \A k \in DOMAIN arrays : arrays'[k] = arrays[k]
    BY <1>3, <2>1
  <2>3. 1 \in DOMAIN arrays' /\ DOMAIN arrays \subseteq DOMAIN arrays'
    BY <2>2
  <2>4. arrays' # <<>>
    BY <2>2, <2>3
  <2>5. QED
    BY <2>2, <2>3, <2>4
<1>6. /\ emitted \subseteq 1 .. MaxEvents
      /\ steady \in [1 .. MaxEvents -> SUBSET Listeners]
  BY <1>2 DEF TypeOK
<1>7. /\ steady' \in [1 .. MaxEvents -> SUBSET Listeners]
      /\ \A e \in emitted : steady'[e] \subseteq steady[e]
  BY <1>1, <1>6
<1>8. TypeOK' /\ BufferIsNewest'
  BY <1>1, <1>2, <1>5, <1>7 DEF TypeOK, Readers, BufferIsNewest
<1>9. ASSUME NEW i \in DOMAIN stack
      PROVE  /\ stack[i].array \in DOMAIN arrays'
             /\ Serves(arrays'[stack[i].array], stack[i].at,
                       delivered[stack[i].event], steady'[stack[i].event])
  <2>1. /\ stack[i].event \in emitted /\ stack[i].array \in DOMAIN arrays
        /\ Serves(arrays[stack[i].array], stack[i].at,
                  delivered[stack[i].event], steady[stack[i].event])
    BY <1>2 DEF DispatchOK
  <2>2. steady'[stack[i].event] \subseteq steady[stack[i].event]
    BY <1>7, <2>1
  <2>3. Serves(arrays[stack[i].array], stack[i].at,
               delivered[stack[i].event], steady'[stack[i].event])
    BY <2>1, <2>2, ServesFewer
  <2>4. QED
    BY <1>5, <2>1, <2>3
<1>10. /\ stack' = stack /\ delivered' = delivered /\ emitted' = emitted /\ created' = created
       /\ \A e : Dispatching(e)' <=> Dispatching(e)
  BY <1>1 DEF Dispatching
<1>11. \A e \in emitted : ~Dispatching(e) => \A k \in steady'[e] : Calls(delivered[e], k) = 1
  BY <1>2, <1>7 DEF DispatchOK
<1>12. DispatchOK'
  BY <1>2, <1>5, <1>9, <1>10, <1>11 DEF DispatchOK
<1>13. QED
  BY <1>8, <1>12

-----------------------------------------------------------------------------
(* The reader. *)

\* The places of the events that match are places of the buffer.
LEMMA MatchingFacts ==
  ASSUME TypeOK, NEW errorsOnly
  PROVE  /\ Matching(errorsOnly) \in SUBSET (DOMAIN events)
         /\ Matching(errorsOnly) \in SUBSET Nat /\ IsFiniteSet(Matching(errorsOnly))
         /\ Filtered(errorsOnly) \in Seq(1 .. MaxEvents)
         /\ Cardinality(Matching(errorsOnly)) \in Nat
         /\ Cardinality(Matching(errorsOnly)) <= Len(events)
<1>1. Matching(errorsOnly) \in SUBSET (DOMAIN events)
  BY DEF Matching
<1>2. events \in Seq(1 .. MaxEvents)
  BY DEF TypeOK
<1>3. QED
  BY <1>1, <1>2, KeptType, RankGrows DEF Filtered

\* New events come before the others: they move an event behind the offset
\* further behind, and are nothing the reader has to be given.
LEMMA ReaderAfterNew ==
  ASSUME TypeOK, BufferIsNewest, DispatchOK, ReaderOK, TypeOK',
         created' = created + 1, reader' = reader,
         emitted' \in {emitted, emitted \cup {created + 1}},
         events'[1] = created + 1,
         \A i \in DOMAIN events' : i # 1 => i - 1 \in DOMAIN events /\ events'[i] = events[i - 1]
  PROVE  ReaderOK'
<1> DEFINE M == Matching(reader.errorsOnly)
<1> DEFINE N == Matching(reader.errorsOnly)'
<1>1. M \in SUBSET Nat /\ IsFiniteSet(M) /\ M \in SUBSET (DOMAIN events)
  BY MatchingFacts
<1>2. /\ events \in Seq(1 .. MaxEvents) /\ events' \in Seq(1 .. MaxEvents)
      /\ N \in SUBSET (DOMAIN events') /\ created \in Nat
  BY DEF TypeOK, Matching
<1>3. N \in SUBSET Nat /\ IsFiniteSet(N)
  BY <1>2, KeptType
<1>4. \A i \in DOMAIN events : events[i] \in Nat /\ events[i] # created + 1
  BY <1>2 DEF BufferIsNewest
<1>5. ASSUME NEW i \in DOMAIN events', i # 1
      PROVE  i - 1 \in DOMAIN events /\ (i \in N <=> i - 1 \in M)
  <2>1. i - 1 \in DOMAIN events /\ events'[i] = events[i - 1]
    BY <1>5
  <2>2. events[i - 1] \in emitted' <=> events[i - 1] \in emitted
    BY <1>4, <2>1
  <2>3. QED
    BY <2>1, <2>2 DEF Matching
<1> HIDE DEF M, N
<1>6. ASSUME NEW i \in DOMAIN events', i # 1, i \in N
      PROVE  Rank(M, i - 1) <= Rank(N, i)
  <2> DEFINE A == {j \in M : j < i - 1}
  <2> DEFINE B == {j \in N : j < i}
  <2> DEFINE next == [j \in A |-> j + 1]
  <2>1. DOMAIN events' = 1 .. Len(events') /\ Len(events') \in Nat /\ i \in Nat
    BY <1>2
  <2>2. ASSUME NEW j \in A
        PROVE  j + 1 \in B /\ j \in Nat
    <3>1. j \in Nat /\ j \in M /\ j < i - 1 /\ j \in DOMAIN events /\ j >= 1
      <4>1. j \in M /\ j < i - 1
        OBVIOUS
      <4>2. j \in Nat /\ j \in DOMAIN events
        BY <1>1, <4>1
      <4>3. DOMAIN events = 1 .. Len(events)
        BY <1>2
      <4>4. QED
        BY <4>1, <4>2, <4>3
    <3>2. j + 1 \in DOMAIN events' /\ j + 1 # 1 /\ j + 1 < i
      BY <2>1, <3>1
    <3>3. j + 1 \in N
      BY <1>5, <3>1, <3>2
    <3>4. QED
      BY <3>1, <3>2, <3>3
  <2>3. next \in [A -> B]
    BY <2>2
  <2>4. \A j, k \in A : next[j] = next[k] => j = k
    BY <2>2
  <2>5. next \in Injection(A, B)
    BY <2>3, <2>4, Zenon DEF Injection, IsInjective
  <2>6. IsFiniteSet(B)
    <3>1. B \in SUBSET N
      OBVIOUS
    <3>2. QED
      BY <1>3, <3>1, FS_Subset
  <2>7. Cardinality(A) <= Cardinality(B)
    BY <2>5, <2>6, FS_Injection
  <2>8. QED
    BY <2>7 DEF Rank
<1>7. ASSUME NEW i \in DOMAIN events', events'[i] \in reader.atStart, events'[i] \notin reader.given
      PROVE  reader.reading /\ i \in N /\ Rank(N, i) >= reader.offset
  <2>1. i # 1
    <3>1. events'[i] \in 1 .. created
      BY <1>7 DEF ReaderOK
    <3>2. QED
      BY <1>2, <3>1
  <2>2. i - 1 \in DOMAIN events /\ events'[i] = events[i - 1]
    BY <2>1
  <2>3. reader.reading /\ i - 1 \in M /\ Rank(M, i - 1) >= reader.offset
    BY <1>7, <2>2 DEF ReaderOK, M
  <2>4. i \in N
    BY <1>5, <2>1, <2>3
  <2>5. Rank(M, i - 1) <= Rank(N, i)
    BY <1>6, <2>1, <2>4
  <2>6. Rank(M, i - 1) \in Nat /\ Rank(N, i) \in Nat /\ reader.offset \in Nat
    <3>1. i - 1 \in Nat /\ i \in Nat
      BY <1>2, <2>2
    <3>2. reader.offset \in Nat
      BY DEF TypeOK, Readers
    <3>3. QED
      BY <1>1, <1>3, <3>1, <3>2, RankGrows
  <2>7. QED
    BY <2>3, <2>4, <2>5, <2>6
<1>8. reader'.atStart \subseteq 1 .. created'
  BY <1>2 DEF ReaderOK
<1>9. QED
  BY <1>7, <1>8 DEF ReaderOK, N

\* A page has every matching event whose rank is in it, and it is full exactly
\* when there are enough of them.
LEMMA PageFacts ==
  ASSUME TypeOK, BufferIsNewest, BusAssumption, NEW r \in Readers
  PROVE  /\ Page(r) \subseteq 1 .. MaxEvents
         /\ \A i \in Matching(r.errorsOnly) :
               /\ Rank(Matching(r.errorsOnly), i) >= r.offset
               /\ Rank(Matching(r.errorsOnly), i) < r.offset + PageSize
               => events[i] \in Page(r)
         /\ Cardinality(Page(r)) = PageSize
               <=> r.offset + PageSize <= Cardinality(Matching(r.errorsOnly))
<1> DEFINE M == Matching(r.errorsOnly)
<1> DEFINE F == Filtered(r.errorsOnly)
<1> DEFINE o == r.offset
<1> DEFINE c == Cardinality(M)
<1> DEFINE D == DOMAIN F \cap (o + 1 .. o + PageSize)
<1>1. /\ M \in SUBSET Nat /\ IsFiniteSet(M) /\ M \in SUBSET (DOMAIN events) /\ c \in Nat
      /\ F \in Seq(1 .. MaxEvents) /\ F = Kept(events, M)
  BY MatchingFacts DEF Filtered
<1>2. o \in Nat /\ PageSize \in Nat \ {0}
  BY DEF Readers, BusAssumption
<1>3. Page(r) = {F[n] : n \in D}
  BY DEF Page
<1>4. /\ DOMAIN F = 1 .. c
      /\ \A n \in 1 .. c : \E i \in M : Rank(M, i) = n - 1 /\ F[n] = events[i]
      /\ \A i \in M : Rank(M, i) + 1 \in 1 .. c /\ F[Rank(M, i) + 1] = events[i]
  BY <1>1, KeptPicks
<1>5. \A i \in M : Rank(M, i) \in Nat
  BY <1>1, RankGrows
<1> HIDE DEF M, F, o, c
<1>6. Page(r) \subseteq 1 .. MaxEvents
  BY <1>1, <1>3
<1>7. ASSUME NEW i \in M, Rank(M, i) >= o, Rank(M, i) < o + PageSize
      PROVE  events[i] \in Page(r)
  <2>1. Rank(M, i) + 1 \in D
    BY <1>2, <1>4, <1>5, <1>7
  <2>2. QED
    BY <1>3, <1>4, <2>1
<1>8. \A m, n \in D : F[m] = F[n] => m = n
  <2>1. SUFFICES ASSUME NEW m \in D, NEW n \in D, F[m] = F[n]
                 PROVE  m = n
    OBVIOUS
  <2>2. m \in 1 .. c /\ n \in 1 .. c
    BY <1>4
  <2>3. PICK i \in M : Rank(M, i) = m - 1 /\ F[m] = events[i]
    BY <1>4, <2>2
  <2>4. PICK j \in M : Rank(M, j) = n - 1 /\ F[n] = events[j]
    BY <1>4, <2>2
  <2>5. events[i] = created + 1 - i /\ events[j] = created + 1 - j /\ created \in Nat
    BY <1>1 DEF BufferIsNewest, TypeOK
  <2>6. i = j
    <3>1. i \in Nat /\ j \in Nat /\ events[i] = events[j]
      BY <1>1, <2>1, <2>3, <2>4
    <3>2. created + 1 - i = created + 1 - j
      BY <2>5, <3>1
    <3>3. QED
      BY <2>5, <3>1, <3>2
  <2>7. QED
    BY <1>1, <2>2, <2>3, <2>4, <2>6
<1> DEFINE g == [n \in D |-> F[n]]
<1>9. g \in Bijection(D, Page(r))
  <2>1. g \in [D -> Page(r)] /\ \A m, n \in D : g[m] = g[n] => m = n
    BY <1>3, <1>8
  <2>2. \A x \in Page(r) : \E n \in D : g[n] = x
    BY <1>3
  <2> HIDE DEF g
  <2>3. g \in Injection(D, Page(r))
    BY <2>1, Zenon DEF Injection, IsInjective
  <2>4. g \in Surjection(D, Page(r))
    BY <2>1, <2>2, Zenon DEF Surjection
  <2>5. QED
    BY <2>3, <2>4 DEF Bijection
<1>10. IsFiniteSet(D) /\ Cardinality(Page(r)) = Cardinality(D)
  <2>1. IsFiniteSet(o + 1 .. o + PageSize) /\ D \in SUBSET (o + 1 .. o + PageSize)
    BY <1>2, FS_Interval
  <2>2. IsFiniteSet(D)
    BY <2>1, FS_Subset
  <2> HIDE DEF D, g
  <2>3. ExistsBijection(D, Page(r))
    BY <1>9 DEF ExistsBijection
  <2>4. QED
    BY <2>2, <2>3, FS_Bijection
<1>11. CASE o + PageSize <= c
  <2>1. D = o + 1 .. o + PageSize
    <3>1. \A n \in o + 1 .. o + PageSize : n \in 1 .. c
      BY <1>1, <1>2, <1>11
    <3>2. QED
      BY <1>4, <3>1
  <2>2. /\ o + 1 \in Int /\ o + PageSize \in Int
        /\ (IF o + 1 > o + PageSize THEN 0 ELSE (o + PageSize) - (o + 1) + 1) = PageSize
    BY <1>2
  <2>3. Cardinality(o + 1 .. o + PageSize) = PageSize
    BY <2>2, FS_Interval
  <2>4. Cardinality(Page(r)) = PageSize
    BY <1>10, <2>1, <2>3
  <2>5. QED
    BY <1>6, <1>7, <1>11, <2>4 DEF M, o, c
<1>12. CASE ~(o + PageSize <= c)
  <2>1. D = o + 1 .. c
    <3>1. (1 .. c) \cap (o + 1 .. o + PageSize) = o + 1 .. c
      BY <1>1, <1>2, <1>12
    <3>2. QED
      BY <1>4, <3>1
  <2>2. /\ o + 1 \in Int /\ c \in Int
        /\ (IF o + 1 > c THEN 0 ELSE c - (o + 1) + 1) # PageSize
    BY <1>1, <1>2, <1>12
  <2>3. Cardinality(o + 1 .. c) = (IF o + 1 > c THEN 0 ELSE c - (o + 1) + 1)
    BY <2>2, FS_Interval
  <2>4. Cardinality(Page(r)) # PageSize
    BY <1>10, <2>1, <2>2, <2>3
  <2>5. QED
    BY <1>6, <1>7, <1>12, <2>4 DEF M, o, c
<1>13. QED
  BY <1>11, <1>12

\* After a page the reader has what was in it, and what is left is behind it.
LEMMA ReaderAfterPage ==
  ASSUME TypeOK, BufferIsNewest, BusAssumption, NEW r \in Readers, GetPage(r), UNCHANGED busVars,
         r.offset <= MaxEvents, r.atStart \subseteq 1 .. created,
         \A i \in DOMAIN events : events[i] \in r.atStart /\ events[i] \notin r.given =>
            /\ i \in Matching(r.errorsOnly)
            /\ Rank(Matching(r.errorsOnly), i) >= r.offset
  PROVE  TypeOK' /\ ReaderOK'
<1>1. UNCHANGED <<events, created, arrays, stack, delivered, emitted, steady>>
  BY DEF busVars
<1>2. reader' = [r EXCEPT !.reading = Cardinality(Page(r)) = PageSize,
                          !.offset = @ + PageSize,
                          !.given = @ \cup Page(r)]
  BY DEF GetPage
<1>3. /\ r.reading \in BOOLEAN /\ r.errorsOnly \in BOOLEAN /\ r.offset \in Nat
      /\ r.atStart \subseteq 1 .. MaxEvents /\ r.given \subseteq 1 .. MaxEvents
      /\ PageSize \in Nat \ {0} /\ PageSize <= BufferSize /\ MaxEvents \in Nat /\ BufferSize \in Nat
  BY DEF Readers, BusAssumption
<1>4. /\ reader'.reading = (Cardinality(Page(r)) = PageSize)
      /\ reader'.errorsOnly = r.errorsOnly
      /\ reader'.offset = r.offset + PageSize
      /\ reader'.atStart = r.atStart
      /\ reader'.given = r.given \cup Page(r)
  BY <1>2 DEF Readers
<1>5. /\ Page(r) \subseteq 1 .. MaxEvents
      /\ \A i \in Matching(r.errorsOnly) :
            /\ Rank(Matching(r.errorsOnly), i) >= r.offset
            /\ Rank(Matching(r.errorsOnly), i) < r.offset + PageSize
            => events[i] \in Page(r)
      /\ Cardinality(Page(r)) = PageSize
            <=> r.offset + PageSize <= Cardinality(Matching(r.errorsOnly))
  BY PageFacts
<1>6. reader' \in Readers
  <2>1. /\ r.offset + PageSize \in 0 .. MaxEvents + BufferSize
        /\ r.given \cup Page(r) \in SUBSET (1 .. MaxEvents)
    BY <1>3, <1>5
  <2>2. (Cardinality(Page(r)) = PageSize) \in BOOLEAN
    OBVIOUS
  <2>3. QED
    BY <1>2, <2>1, <2>2 DEF Readers
<1>7. TypeOK'
  BY <1>1, <1>6 DEF TypeOK
<1>8. /\ Matching(r.errorsOnly) \in SUBSET Nat /\ IsFiniteSet(Matching(r.errorsOnly))
      /\ Cardinality(Matching(r.errorsOnly)) \in Nat
      /\ Cardinality(Matching(r.errorsOnly)) <= Len(events)
  BY MatchingFacts
<1>9. reader'.reading => reader'.offset <= MaxEvents
  <2>1. created \in Nat /\ created <= MaxEvents
    BY <1>3 DEF TypeOK
  <2>2. Len(events) \in Nat /\ Len(events) <= created
    BY <1>3, <2>1 DEF BufferIsNewest
  <2>3. reader'.reading => r.offset + PageSize <= Cardinality(Matching(r.errorsOnly))
    BY <1>4, <1>5
  <2>4. QED
    BY <1>3, <1>4, <1>8, <2>1, <2>2, <2>3
<1>10. /\ Matching(reader.errorsOnly)' = Matching(r.errorsOnly)
       /\ DOMAIN events' = DOMAIN events
  BY <1>1, <1>4 DEF Matching
<1>11. ASSUME NEW i \in DOMAIN events, events[i] \in r.atStart, events[i] \notin r.given,
              events[i] \notin Page(r)
       PROVE  /\ Cardinality(Page(r)) = PageSize
              /\ i \in Matching(r.errorsOnly)
              /\ Rank(Matching(r.errorsOnly), i) >= r.offset + PageSize
  <2>1. i \in Matching(r.errorsOnly) /\ Rank(Matching(r.errorsOnly), i) >= r.offset
    BY <1>11
  <2>2. /\ Rank(Matching(r.errorsOnly), i) \in Nat
        /\ Rank(Matching(r.errorsOnly), i) < Cardinality(Matching(r.errorsOnly))
    BY <1>8, <2>1, RankGrows
  <2>3. Rank(Matching(r.errorsOnly), i) >= r.offset + PageSize
    BY <1>3, <1>5, <1>11, <2>1, <2>2
  <2>4. r.offset + PageSize <= Cardinality(Matching(r.errorsOnly))
    BY <1>3, <1>8, <2>2, <2>3
  <2>5. QED
    BY <1>5, <2>1, <2>3, <2>4
<1>12. ReaderOK'
  BY <1>1, <1>4, <1>9, <1>10, <1>11 DEF ReaderOK
<1>13. QED
  BY <1>7, <1>12

\* A reader that starts has all that matches before it.
LEMMA StartReadingKeeps ==
  ASSUME BusInv, BusAssumption, NEW errorsOnly \in BOOLEAN, StartReading(errorsOnly)
  PROVE  TypeOK' /\ ReaderOK'
<1> DEFINE r == [reading |-> TRUE, errorsOnly |-> errorsOnly, offset |-> 0, given |-> {},
                 atStart |-> Entries(Filtered(errorsOnly))]
<1>1. /\ GetPage(r) /\ UNCHANGED busVars
      /\ TypeOK /\ BufferIsNewest
  BY DEF StartReading, BusInv
<1>2. /\ Matching(errorsOnly) \in SUBSET (DOMAIN events)
      /\ Matching(errorsOnly) \in SUBSET Nat /\ IsFiniteSet(Matching(errorsOnly))
      /\ Filtered(errorsOnly) \in Seq(1 .. MaxEvents)
  BY <1>1, MatchingFacts
<1>3. /\ events \in Seq(1 .. MaxEvents) /\ created \in 0 .. MaxEvents /\ MaxEvents \in Nat
      /\ Len(events) = IF created < BufferSize THEN created ELSE BufferSize
      /\ \A i \in DOMAIN events : events[i] = created + 1 - i
  BY <1>1 DEF TypeOK, BufferIsNewest, BusAssumption
<1>4. ASSUME NEW x \in Entries(Filtered(errorsOnly))
      PROVE  \E i \in Matching(errorsOnly) : x = events[i]
  <2>1. PICK n \in DOMAIN Filtered(errorsOnly) : x = Filtered(errorsOnly)[n]
    BY DEF Entries
  <2>2. /\ DOMAIN Kept(events, Matching(errorsOnly)) = 1 .. Cardinality(Matching(errorsOnly))
        /\ \A m \in 1 .. Cardinality(Matching(errorsOnly)) :
              \E i \in Matching(errorsOnly) :
                 /\ Rank(Matching(errorsOnly), i) = m - 1
                 /\ Kept(events, Matching(errorsOnly))[m] = events[i]
    BY <1>2, KeptPicks
  <2>3. QED
    BY <2>1, <2>2 DEF Filtered
<1>5. \A i \in DOMAIN events : i \in Nat /\ events[i] \in 1 .. created
  <2>1. SUFFICES ASSUME NEW i \in DOMAIN events
                 PROVE  i \in Nat /\ events[i] \in 1 .. created
    OBVIOUS
  <2>2. i \in 1 .. Len(events) /\ events[i] = created + 1 - i /\ Len(events) <= created
    BY <1>3, BusAssumption DEF BusAssumption
  <2>3. QED
    BY <1>3, <2>2
<1>6. r.atStart \subseteq 1 .. created
  BY <1>2, <1>4, <1>5
<1>7. r \in Readers
  <2>1. 0 \in 0 .. MaxEvents + BufferSize /\ {} \in SUBSET (1 .. MaxEvents)
    BY <1>3, BusAssumption DEF BusAssumption
  <2>2. Entries(Filtered(errorsOnly)) \in SUBSET (1 .. MaxEvents)
    BY <1>3, <1>6
  <2>3. QED
    BY <2>1, <2>2 DEF Readers
<1>8. ASSUME NEW i \in DOMAIN events, events[i] \in r.atStart
      PROVE  i \in Matching(r.errorsOnly) /\ Rank(Matching(r.errorsOnly), i) >= r.offset
  <2>1. PICK k \in Matching(errorsOnly) : events[i] = events[k]
    BY <1>4, <1>8
  <2>2. k \in DOMAIN events /\ k \in Nat /\ i \in Nat
    BY <1>2, <1>5
  <2>3. created + 1 - i = created + 1 - k
    BY <1>3, <2>1, <2>2
  <2>4. i = k
    BY <1>3, <2>2, <2>3
  <2>5. Rank(Matching(errorsOnly), i) \in Nat
    BY <1>2, <2>2, RankGrows
  <2>6. QED
    BY <2>4, <2>5
<1>9. r.offset <= MaxEvents
  BY <1>3
<1> HIDE DEF r
<1>10. QED
  BY <1>1, <1>6, <1>7, <1>8, <1>9, ReaderAfterPage

LEMMA ReadOnKeeps ==
  ASSUME BusInv, BusAssumption, ReadOn
  PROVE  TypeOK' /\ ReaderOK'
<1>1. /\ GetPage(reader) /\ UNCHANGED busVars /\ reader.reading
      /\ TypeOK /\ BufferIsNewest /\ ReaderOK
  BY DEF ReadOn, BusInv
<1>2. reader \in Readers
  BY <1>1 DEF TypeOK
<1>3. /\ reader.offset <= MaxEvents /\ reader.atStart \subseteq 1 .. created
      /\ \A i \in DOMAIN events : events[i] \in reader.atStart /\ events[i] \notin reader.given =>
            /\ i \in Matching(reader.errorsOnly)
            /\ Rank(Matching(reader.errorsOnly), i) >= reader.offset
  BY <1>1 DEF ReaderOK
<1>4. QED
  BY <1>1, <1>2, <1>3, ReaderAfterPage

-----------------------------------------------------------------------------
(* The invariant holds. *)

LEMMA InitBus ==
  ASSUME BusAssumption, Init
  PROVE  BusInv
<1>1. /\ events = <<>> /\ created = 0 /\ arrays = << <<>> >> /\ stack = <<>> /\ emitted = {}
      /\ delivered = [e \in 1 .. MaxEvents |-> <<>>]
      /\ steady = [e \in 1 .. MaxEvents |-> {}]
      /\ reader = [reading |-> FALSE, errorsOnly |-> FALSE, offset |-> 0,
                   atStart |-> {}, given |-> {}]
      /\ BufferSize \in Nat \ {0} /\ MaxEvents \in Nat
  BY DEF Init, BusAssumption
<1>2. reader \in Readers
  BY <1>1 DEF Readers
<1>3. arrays \in Seq(Seq(Listeners)) /\ arrays # <<>>
  BY <1>1
<1>4. /\ events \in Seq(1 .. MaxEvents) /\ stack \in Seq(Frames)
      /\ delivered \in [1 .. MaxEvents -> Seq(Listeners)]
      /\ DOMAIN events = {} /\ DOMAIN stack = {} /\ Len(events) = 0
  BY <1>1
<1>5. TypeOK
  BY <1>1, <1>2, <1>3, <1>4 DEF TypeOK
<1>6. BufferIsNewest
  BY <1>1, <1>4 DEF BufferIsNewest
<1>7. DispatchOK
  BY <1>1, <1>3, <1>4 DEF DispatchOK
<1>8. ReaderOK
  BY <1>1, <1>4 DEF ReaderOK
<1>9. QED
  BY <1>5, <1>6, <1>7, <1>8 DEF BusInv

LEMMA StepBus ==
  ASSUME BusInv, BusAssumption, [Next]_vars
  PROVE  BusInv'
<1>1. ASSUME UNCHANGED <<events, created, emitted, reader>>
      PROVE  ReaderOK'
  BY <1>1 DEF BusInv, ReaderOK, Matching
<1>2. ASSUME EmitThreat \/ ListenerThrows, TypeOK'
      PROVE  ReaderOK'
  <2>1. /\ TypeOK /\ BufferIsNewest /\ DispatchOK /\ ReaderOK
        /\ BufferSize \in Nat \ {0} /\ MaxEvents \in Nat
    BY DEF BusInv, BusAssumption
  <2>2. /\ created < MaxEvents /\ created' = created + 1 /\ events' = Added(created + 1)
        /\ reader' = reader /\ emitted' \in {emitted, emitted \cup {created + 1}}
    BY <1>2 DEF EmitThreat, ListenerThrows, NewEvent
  <2>3. /\ events'[1] = created + 1
        /\ \A i \in DOMAIN events' : i # 1 =>
              i - 1 \in DOMAIN events /\ events'[i] = events[i - 1]
    BY <2>1, <2>2, AddedFacts
  <2>4. QED
    BY <1>2, <2>1, <2>2, <2>3, ReaderAfterNew
<1>3. CASE EmitThreat
  BY <1>2, <1>3, EmitThreatDispatch DEF BusInv
<1>4. CASE CallListener
  <2>1. UNCHANGED <<events, created, emitted, reader>>
    BY <1>4 DEF CallListener
  <2>2. QED
    BY <1>1, <1>4, <2>1, CallListenerDispatch DEF BusInv
<1>5. CASE EmitReturns
  <2>1. UNCHANGED <<events, created, emitted, reader>>
    BY <1>5 DEF EmitReturns
  <2>2. QED
    BY <1>1, <1>5, <2>1, EmitReturnsDispatch DEF BusInv
<1>6. CASE ListenerReturns
  <2>1. UNCHANGED <<events, created, emitted, reader>>
    BY <1>6 DEF ListenerReturns
  <2>2. QED
    BY <1>1, <1>6, <2>1, ReturnDispatch DEF BusInv
<1>7. CASE ListenerThrows
  BY <1>2, <1>7, ReturnDispatch DEF BusInv
<1>8. ASSUME NEW l \in Listeners, OnThreat(l)
      PROVE  BusInv'
  <2>1. UNCHANGED <<events, created, emitted, reader>>
    BY <1>8 DEF OnThreat
  <2>2. QED
    BY <1>1, <1>8, <2>1, OnThreatDispatch DEF BusInv
<1>9. ASSUME NEW l \in Listeners, Unsubscribe(l)
      PROVE  BusInv'
  <2>1. UNCHANGED <<events, created, emitted, reader>>
    BY <1>9 DEF Unsubscribe
  <2>2. QED
    BY <1>1, <1>9, <2>1, UnsubscribeDispatch DEF BusInv
<1>10. ASSUME UNCHANGED busVars
       PROVE  BufferIsNewest' /\ DispatchOK'
  <2>1. UNCHANGED <<events, created, arrays, stack, delivered, emitted, steady>>
    BY <1>10 DEF busVars
  <2>2. QED
    BY <2>1 DEF BusInv, BufferIsNewest, DispatchOK, Dispatching
<1>11. CASE ReadOn
  BY <1>10, <1>11, ReadOnKeeps DEF ReadOn, BusInv
<1>12. ASSUME NEW errorsOnly \in BOOLEAN, StartReading(errorsOnly)
       PROVE  BusInv'
  BY <1>10, <1>12, StartReadingKeeps DEF StartReading, BusInv
<1>13. CASE UNCHANGED vars
  <2>1. UNCHANGED <<events, created, arrays, stack, delivered, emitted, steady>>
        /\ UNCHANGED busVars /\ reader' = reader
    BY <1>13 DEF vars, busVars
  <2>2. TypeOK'
    BY <2>1 DEF BusInv, TypeOK
  <2>3. QED
    BY <1>1, <1>10, <2>1, <2>2 DEF BusInv
<1>14. QED
  BY <1>3, <1>4, <1>5, <1>6, <1>7, <1>8, <1>9, <1>11, <1>12, <1>13 DEF Next

LEMMA AlwaysBus == Spec => []BusInv
<1>1. Init => BusInv
  BY InitBus, BusAssumption
<1>2. BusInv /\ [Next]_vars => BusInv'
  BY StepBus, BusAssumption
<1>3. QED
  BY <1>1, <1>2, PTL DEF Spec

-----------------------------------------------------------------------------
(* Theorems. *)

\* The state has its types: no page of the reader goes past the events by more
\* than a page, and every frame on the stack is one of emitThreat.
THEOREM BusTypeCorrect == Spec => []TypeOK
<1>1. BusInv => TypeOK
  BY DEF BusInv
<1>2. QED
  BY <1>1, AlwaysBus, PTL

\* For any nesting of emits, errors, registrations and departures: a listener
\* registered once that stays is called once with every event that emitThreat
\* has returned from, and at most once with one that is on its way.
THEOREM EachListenerOnce == Spec => []DeliveredOnce
<1>1. BusInv => DeliveredOnce
  <2>1. SUFFICES ASSUME BusInv, NEW e \in emitted, NEW l \in steady[e]
                 PROVE  IF Dispatching(e) THEN Times(e, l) <= 1 ELSE Times(e, l) = 1
    BY DEF DeliveredOnce
  <2>2. Times(e, l) = Calls(delivered[e], l)
    BY DEF Times, Calls
  <2>3. CASE Dispatching(e)
    <3>1. PICK i \in DOMAIN stack : stack[i].event = e
      BY <2>3 DEF Dispatching
    <3>2. Serves(arrays[stack[i].array], stack[i].at, delivered[e], steady[e])
      BY <2>1, <3>1 DEF BusInv, DispatchOK
    <3>3. Calls(delivered[e], l) \in {0, 1}
      BY <3>2 DEF Serves
    <3>4. QED
      BY <2>2, <2>3, <3>3
  <2>4. CASE ~Dispatching(e)
    BY <2>1, <2>2, <2>4 DEF BusInv, DispatchOK
  <2>5. QED
    BY <2>3, <2>4
<1>2. QED
  BY <1>1, AlwaysBus, PTL

\* For any buffer size: the store is the newest events, hook errors among them,
\* newest first.
THEOREM BufferHoldsNewest == Spec => []BufferIsNewest
<1>1. BusInv => BufferIsNewest
  BY DEF BusInv
<1>2. QED
  BY <1>1, AlwaysBus, PTL

\* For any page and any filter: whatever comes in between two pages, the reader
\* is given every event that was there at the start and still is.
THEOREM ReaderIsGivenAll == Spec => []ReaderMissesNothing
<1>1. BusInv => ReaderMissesNothing
  <2>1. SUFFICES ASSUME BusInv, ~reader.reading, NEW x \in reader.atStart, x \in Entries(events)
                 PROVE  x \in reader.given
    BY DEF ReaderMissesNothing
  <2>2. PICK i \in DOMAIN events : x = events[i]
    BY <2>1 DEF Entries
  <2>3. QED
    BY <2>1, <2>2 DEF BusInv, ReaderOK
<1>2. QED
  BY <1>1, AlwaysBus, PTL
=============================================================================
