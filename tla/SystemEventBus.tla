--------------------------- MODULE SystemEventBus ---------------------------
(***************************************************************************)
(* core/events/SystemEventBus.cpp: a ring whose head only a producer and   *)
(* whose tail only the consumer may store.  The firmware has two producing *)
(* tasks on one core: the sensor task, whose publish() is taken step by    *)
(* step, and the telemetry task above it, which consumes as well and whose *)
(* calls complete before the sensor task runs again: one of its calls may  *)
(* overtake a publish() of the sensor task, which then stores a stale head *)
(* over the newer one.  From there on the ring may replay or lose events,  *)
(* until consume() finds it empty between two publications.                *)
(*                                                                         *)
(* An event is the number of the publication it comes from.                *)
(***************************************************************************)
EXTENDS Integers, Sequences

CONSTANTS
    Capacity,           \* CAPACITY
    MaxEvents           \* bound: publish() is called at most this often

ASSUME CapacityAssumption == Capacity \in Nat \ {0, 1}
ASSUME EventsAssumption == MaxEvents \in Nat

VARIABLES
    events,     \* _events
    head,       \* _head
    tail,       \* _tail
    dropped,    \* _dropped
    busPc,      \* where the sensor task is in publish()
    ownEvent,   \* the event it publishes
    loadedHead, \* the head it loaded
    issued,     \* history: publications begun, which numbers the events
    accepted,   \* history: the events publish() returned true for; after the
                \* ring was found empty, those delivered until then
    consumed,   \* history: the events consume() returned
    overtaken,  \* history: a publish() was overtaken, the ring not yet found empty
    uncounted   \* history: events lost less events replayed before it was

overtakenVars == <<overtaken, uncounted>>
busVars ==
    <<events, head, tail, dropped, busPc, ownEvent, loadedHead, issued, accepted, consumed,
      overtakenVars>>

BusSlots == 0..(Capacity - 1)
NoEvent == 0
Event == NoEvent..MaxEvents

BusInit ==
    /\ events = [i \in BusSlots |-> NoEvent]
    /\ head = 0
    /\ tail = 0
    /\ dropped = 0
    /\ busPc = "idle"
    /\ ownEvent = NoEvent
    /\ loadedHead = 0
    /\ issued = 0
    /\ accepted = <<>>
    /\ consumed = <<>>
    /\ overtaken = FALSE /\ uncounted = 0

\* Mutant: the index does not wrap.
nextUnwrapped(i) == i + 1

next(i) == (i + 1) % Capacity

\* Mutant: one slot too many is kept free.
FullEarly(h) == next(next(h)) = tail

Full(h) == next(h) = tail

-----------------------------------------------------------------------------
(* publish() in the sensor task.                                            *)

loadHead ==
    /\ busPc = "idle" /\ issued < MaxEvents
    /\ busPc' = "check"
    /\ ownEvent' = issued + 1
    /\ issued' = issued + 1
    /\ loadedHead' = head
    /\ UNCHANGED <<events, head, tail, dropped, accepted, consumed, overtakenVars>>

\* Mutant: a refusal is not counted.
checkFullUncounted ==
    /\ busPc = "check"
    /\ busPc' = IF Full(loadedHead) THEN "idle" ELSE "write"
    /\ UNCHANGED <<events, head, tail, dropped, ownEvent, loadedHead, issued, accepted, consumed,
                   overtakenVars>>

checkFull ==
    /\ busPc = "check"
    /\ IF Full(loadedHead)
         THEN busPc' = "idle" /\ dropped' = dropped + 1
         ELSE busPc' = "write" /\ UNCHANGED dropped
    /\ UNCHANGED <<events, head, tail, ownEvent, loadedHead, issued, accepted, consumed, overtakenVars>>

\* Mutant: the event goes to the slot after the one head will expose.
writeEventNext ==
    /\ busPc = "write"
    /\ busPc' = "store"
    /\ events' = [events EXCEPT ![next(loadedHead)] = ownEvent]
    /\ UNCHANGED <<head, tail, dropped, ownEvent, loadedHead, issued, accepted, consumed, overtakenVars>>

writeEvent ==
    /\ busPc = "write"
    /\ busPc' = "store"
    /\ events' = [events EXCEPT ![loadedHead] = ownEvent]
    /\ UNCHANGED <<head, tail, dropped, ownEvent, loadedHead, issued, accepted, consumed, overtakenVars>>

storeHead ==
    /\ busPc = "store"
    /\ busPc' = "idle"
    /\ head' = next(loadedHead)
    /\ accepted' = Append(accepted, ownEvent)
    /\ UNCHANGED <<events, tail, dropped, ownEvent, loadedHead, issued, consumed, overtakenVars>>

-----------------------------------------------------------------------------
(* The telemetry task: whole calls.                                         *)

publishTelemetry ==
    /\ issued < MaxEvents
    /\ issued' = issued + 1
    /\ \/ /\ Full(head)
          /\ dropped' = dropped + 1
          /\ UNCHANGED <<events, head, accepted, overtaken>>
       \/ /\ ~Full(head)
          /\ events' = [events EXCEPT ![head] = issued + 1]
          /\ head' = next(head)
          /\ accepted' = Append(accepted, issued + 1)
          /\ overtaken' = (overtaken \/ busPc # "idle")
          /\ UNCHANGED dropped
    /\ UNCHANGED <<tail, busPc, ownEvent, loadedHead, consumed, uncounted>>

consume ==
    /\ tail # head
    /\ consumed' = Append(consumed, events[tail])
    /\ tail' = next(tail)
    /\ UNCHANGED <<events, head, dropped, busPc, ownEvent, loadedHead, issued, accepted,
                   overtakenVars>>

\* consume() returns false.  It changes no state of the ring, but where no
\* publish() is under way the ring is as good as new.
foundEmpty ==
    /\ tail = head
    /\ overtaken /\ busPc = "idle"
    /\ overtaken' = FALSE
    /\ uncounted' = issued - dropped - Len(consumed)
    /\ accepted' = consumed
    /\ UNCHANGED <<events, head, tail, dropped, busPc, ownEvent, loadedHead, issued, consumed>>

-----------------------------------------------------------------------------
publishSensor == loadHead \/ checkFull \/ writeEvent \/ storeHead

\* The bounded run may stop when every event has been published and consumed.
BusDone == busPc = "idle" /\ issued = MaxEvents /\ tail = head /\ UNCHANGED busVars

drainEvents == consume \/ foundEmpty

BusNext == publishSensor \/ publishTelemetry \/ drainEvents \/ BusDone

BusSpec == BusInit /\ [][BusNext]_busVars

\* The health report drains the bus every second; a publish() once begun ends.
BusFairSpec == BusSpec /\ WF_busVars(drainEvents) /\ WF_busVars(checkFull \/ writeEvent \/ storeHead)

-----------------------------------------------------------------------------
BusTypeOK ==
    /\ events \in [BusSlots -> Event]
    /\ head \in BusSlots
    /\ tail \in BusSlots
    /\ dropped \in 0..MaxEvents
    /\ busPc \in {"idle", "check", "write", "store"}
    /\ ownEvent \in Event
    /\ loadedHead \in BusSlots
    /\ issued \in 0..MaxEvents
    /\ accepted \in Seq(Event)
    /\ consumed \in Seq(Event)
    /\ overtaken \in BOOLEAN /\ uncounted \in Int

pendingCount == (head + Capacity - tail) % Capacity
Pending == [k \in 1..pendingCount |-> events[(tail + k - 1) % Capacity]]
publicationUnderWay == IF busPc = "idle" THEN 0 ELSE 1

\* Unless a publish() was overtaken, every event accepted has been delivered or
\* is waiting, once, in the order of acceptance.
AcceptedIsDelivered == ~overtaken => accepted = consumed \o Pending

\* Unless a publish() was overtaken, every event published since is accounted
\* for: accepted, counted as dropped, or still in the hands of publish().
PublishedIsAccounted ==
    ~overtaken =>
      issued = uncounted + Len(consumed) + pendingCount + dropped + publicationUnderWay

\* A loss is always visible in the counter.
NoSilentLoss == issued <= Len(consumed) + pendingCount + dropped + publicationUnderWay

\* Whatever was accepted is delivered in the end, and no overtaken publish()
\* leaves the ring wrong for good.
EventsArrive == <>[](~overtaken /\ consumed = accepted)

Queue == INSTANCE EventQueue
           WITH Limit <- Capacity - 1, queue <- Pending, delivered <- consumed

\* The ring implements the bounded queue.
ImplementsQueue == Queue!Spec
=============================================================================
