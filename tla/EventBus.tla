------------------------------- MODULE EventBus -------------------------------
(***************************************************************************)
(* src/src/events: EventBus.emitThreat records an event in the bounded     *)
(* MemoryEventStore and calls the listeners.  All of it is synchronous,    *)
(* but a listener is application code: it may throw, emit another event,   *)
(* subscribe and unsubscribe while it is being called.  The model is the   *)
(* call stack: a frame per emitThreat that has not returned.               *)
(*                                                                         *)
(* `for (const listener of this.listeners)' iterates over the array that   *)
(* this.listeners is when the loop starts.  onThreat pushes to the current *)
(* array in place, so a loop over it meets the new listener; an            *)
(* unsubscription replaces the current array, so a loop over the old one   *)
(* still meets the listener that left.                                     *)
(***************************************************************************)
EXTENDS Naturals, FiniteSets, Sequences

CONSTANTS
    Listeners,
    BufferSize,   \* maxEvents of the event store
    PageSize,     \* limit of a reader of the admin API
    MaxEvents,    \* bound: events ever created
    MaxDepth,     \* bound: nested emits
    MaxArrays,    \* bound: listener arrays ever made
    MaxListeners  \* bound: registrations in one array

ASSUME BusAssumption ==
    /\ BufferSize \in Nat \ {0}
    /\ PageSize \in 1 .. BufferSize
    /\ MaxEvents \in Nat
    /\ MaxDepth \in Nat
    /\ MaxArrays \in Nat \ {0}
    /\ MaxListeners \in Nat

VARIABLES
    events,     \* the event store, newest first
    created,    \* events created so far; an event is its number
    arrays,     \* the listener arrays ever made
    stack,      \* the emitThreat calls under way, innermost first
    delivered,  \* history: [event -> listeners called with it, in order]
    emitted,    \* history: events that emitThreat was called with
    steady,     \* history: [event -> listeners registered once when it was emitted
                \*           and neither registered again nor removed since]
    reader      \* a reader of the admin API that pages through /events

busVars == <<events, created, arrays, stack, delivered, emitted, steady>>
vars == <<busVars, reader>>

\* A frame: the event, the array the loop is over, the index it is at, and
\* whether the listener at that index is running.
Frames == [event : Nat, array : Nat, at : Nat, running : BOOLEAN]

\* A reader: whether it is under way, the type it filters by, its next offset,
\* the events there were when it began and those it was given.
Readers == [reading : BOOLEAN, errorsOnly : BOOLEAN, offset : 0 .. MaxEvents + BufferSize,
            atStart : SUBSET (1 .. MaxEvents), given : SUBSET (1 .. MaxEvents)]

TypeOK ==
    /\ events \in Seq(1 .. MaxEvents)
    /\ created \in 0 .. MaxEvents
    /\ arrays \in Seq(Seq(Listeners))
    /\ stack \in Seq(Frames)
    /\ delivered \in [1 .. MaxEvents -> Seq(Listeners)]
    /\ emitted \subseteq 1 .. MaxEvents
    /\ steady \in [1 .. MaxEvents -> SUBSET Listeners]
    /\ reader \in Readers

Init ==
    /\ events = <<>>
    /\ created = 0
    /\ arrays = << <<>> >>
    /\ stack = <<>>
    /\ delivered = [e \in 1 .. MaxEvents |-> <<>>]
    /\ emitted = {}
    /\ steady = [e \in 1 .. MaxEvents |-> {}]
    /\ reader = [reading |-> FALSE, errorsOnly |-> FALSE, offset |-> 0,
                 atStart |-> {}, given |-> {}]

Entries(array) == {array[i] : i \in DOMAIN array}

\* Array.prototype.filter: the entries of an array at the places K, in their
\* order.
Rank(K, i) == Cardinality({j \in K : j < i})
Kept(array, K) == [n \in 1 .. Cardinality(K) |-> array[CHOOSE i \in K : Rank(K, i) = n - 1]]

\* this.listeners is the array made last.
Current == Len(arrays)
Registrations(l) == Cardinality({i \in DOMAIN arrays[Current] : arrays[Current][i] = l})

Top == Head(stack)
Iterated == arrays[Top.array]
Running == stack # <<>> /\ Top.running

\* The application runs between two calls of the bus or inside a listener.
ApplicationRuns == stack = <<>> \/ Running

\* Mutant: the cut takes the newest off.
AddedAndKept(e) == IF Len(events) < BufferSize THEN <<e>> \o events ELSE events

\* Mutant: an event goes to the end, and the front is cut.
AddedAtEnd(e) == SubSeq(Append(events, e),
                        IF Len(events) < BufferSize THEN 1 ELSE 2, Len(events) + 1)

\* MemoryEventStore.add: newest first, cut to maxEvents.
Added(e) == SubSeq(<<e>> \o events, 1, IF Len(events) < BufferSize
                                       THEN Len(events) + 1 ELSE BufferSize)

\* Mutant: an event gets the number of the one before.
StaleEvent == created

NewEvent == created + 1

-----------------------------------------------------------------------------
\* emitThreat: record, then start the loop.
EmitThreat ==
    LET e == NewEvent
    IN  /\ ApplicationRuns
        /\ created < MaxEvents
        /\ Len(stack) < MaxDepth
        /\ created' = e
        /\ events' = Added(e)
        /\ stack' = <<[event |-> e, array |-> Current, at |-> 0, running |-> FALSE]>> \o stack
        /\ emitted' = emitted \cup {e}
        /\ steady' = [steady EXCEPT ![e] = {l \in Listeners : Registrations(l) = 1}]
        /\ UNCHANGED <<arrays, delivered, reader>>

\* The loop calls the next listener of its array ...
CallListener ==
    /\ stack # <<>> /\ ~Top.running
    /\ Top.at < Len(Iterated)
    /\ stack' = [stack EXCEPT ![1].at = @ + 1, ![1].running = TRUE]
    /\ delivered' = [delivered EXCEPT ![Top.event] = Append(@, Iterated[Top.at + 1])]
    /\ UNCHANGED <<events, created, arrays, emitted, steady, reader>>

\* ... or is over, and emitThreat returns.
EmitReturns ==
    /\ stack # <<>> /\ ~Top.running
    /\ Top.at >= Len(Iterated)
    /\ stack' = Tail(stack)
    /\ UNCHANGED <<events, created, arrays, delivered, emitted, steady, reader>>

ListenerReturns ==
    /\ Running
    /\ stack' = [stack EXCEPT ![1].running = FALSE]
    /\ UNCHANGED <<events, created, arrays, delivered, emitted, steady, reader>>

\* The error of a listener becomes a HOOK_ERROR event that is recorded and
\* goes to no listener; the loop goes on.
ListenerThrows ==
    LET e == NewEvent
    IN  /\ Running
        /\ created < MaxEvents
        /\ created' = e
        /\ events' = Added(e)
        /\ stack' = [stack EXCEPT ![1].running = FALSE]
        /\ UNCHANGED <<arrays, delivered, emitted, steady, reader>>

\* The same listener may be registered again.
OnThreat(l) ==
    /\ ApplicationRuns
    /\ Len(arrays[Current]) < MaxListeners
    /\ arrays' = [arrays EXCEPT ![Current] = Append(@, l)]
    /\ steady' = [e \in 1 .. MaxEvents |-> steady[e] \ {l}]
    /\ UNCHANGED <<events, created, stack, delivered, emitted, reader>>

\* The listeners but for every registration of l.
Without(l) == Kept(arrays[Current], {i \in DOMAIN arrays[Current] : arrays[Current][i] # l})

\* Mutant: the registrations are taken out of the array a loop may be over.
UnsubscribeInPlace(l) ==
    /\ ApplicationRuns
    /\ arrays' = [arrays EXCEPT ![Current] = Without(l)]
    /\ steady' = [e \in 1 .. MaxEvents |-> steady[e] \ {l}]
    /\ UNCHANGED <<events, created, stack, delivered, emitted, reader>>

\* The function onThreat returned: it takes out every registration of the
\* listener, and makes a new array even when there is none.
Unsubscribe(l) ==
    /\ ApplicationRuns
    /\ Len(arrays) < MaxArrays
    /\ arrays' = Append(arrays, Without(l))
    /\ steady' = [e \in 1 .. MaxEvents |-> steady[e] \ {l}]
    /\ UNCHANGED <<events, created, stack, delivered, emitted, reader>>

-----------------------------------------------------------------------------
(* GET /events, between two runs of the application. *)

\* matchesFilters: a HOOK_ERROR is an event that emitThreat was not called with.
Matching(errorsOnly) == {i \in DOMAIN events : errorsOnly => events[i] \notin emitted}
Filtered(errorsOnly) == Kept(events, Matching(errorsOnly))

\* getRecentEvents: a page of the events that match, as they are now.
Page(r) ==
    LET filtered == Filtered(r.errorsOnly)
    IN  {filtered[i] : i \in DOMAIN filtered \cap (r.offset + 1 .. r.offset + PageSize)}

\* The next page.  A page that is not full is the last one.
GetPage(r) ==
    reader' = [r EXCEPT !.reading = Cardinality(Page(r)) = PageSize,
                        !.offset = @ + PageSize,
                        !.given = @ \cup Page(r)]

StartReading(errorsOnly) ==
    /\ stack = <<>>
    /\ ~reader.reading
    /\ GetPage([reading |-> TRUE, errorsOnly |-> errorsOnly, offset |-> 0, given |-> {},
                atStart |-> Entries(Filtered(errorsOnly))])
    /\ UNCHANGED busVars

ReadOn ==
    /\ stack = <<>>
    /\ reader.reading
    /\ GetPage(reader)
    /\ UNCHANGED busVars

Next ==
    \/ EmitThreat \/ CallListener \/ EmitReturns \/ ListenerReturns \/ ListenerThrows
    \/ \E l \in Listeners : OnThreat(l) \/ Unsubscribe(l)
    \/ ReadOn \/ \E errorsOnly \in BOOLEAN : StartReading(errorsOnly)

Spec == Init /\ [][Next]_vars

-----------------------------------------------------------------------------
(* Properties. *)

Dispatching(e) == \E i \in DOMAIN stack : stack[i].event = e

Times(e, l) == Cardinality({i \in DOMAIN delivered[e] : delivered[e][i] = l})

\* Whatever other listeners do while an event is on its way - throw, emit,
\* subscribe, leave - a listener that stays registered is called with it, and
\* only once (event-bus.js 19-25, 39-48).
DeliveredOnce ==
    \A e \in emitted : \A l \in steady[e] :
        IF Dispatching(e) THEN Times(e, l) <= 1 ELSE Times(e, l) = 1

\* The buffer is the newest events that were ever made, newest first, hook
\* errors among them: a burst or a failing hook pushes out the oldest only, and
\* never the event it is about while there is room for two.
BufferIsNewest ==
    /\ Len(events) = IF created < BufferSize THEN created ELSE BufferSize
    /\ \A i \in DOMAIN events : events[i] = created + 1 - i

\* A reader that pages through the events while new ones come in misses none
\* that was there when it began and still is: new events push the others to
\* higher offsets, which the reader has yet to come to (memory-event-store.js
\* 10, 23; it may be given an event twice).
ReaderMissesNothing ==
    ~reader.reading => reader.atStart \cap Entries(events) \subseteq reader.given
=============================================================================
