--------------------------- MODULE ExchangeProofs ---------------------------
(***************************************************************************)
(* The buffers of Exchange for every capacity and every bound.             *)
(***************************************************************************)
EXTENDS Exchange, SequenceTheorems, FiniteSetTheorems, SeqlockTopicProofs

-----------------------------------------------------------------------------
(* Rings of n slots, one of which stays free, with a head h and a tail t.   *)

RingUsed(h, t, n) == (h + n - t) % n
RingQueue(r, h, t, n) == [k \in 1 .. RingUsed(h, t, n) |-> r[(t + k - 1) % n]]
Ring(r, h, t, n, S) ==
    n \in Nat \ {0} /\ h \in 0 .. n - 1 /\ t \in 0 .. n - 1 /\ r \in [0 .. n - 1 -> S]

\* The entries that wait: with all slots but one taken the ring is full, with none
\* it is empty.
LEMMA RingCount ==
    ASSUME NEW n \in Nat \ {0}, NEW h \in 0 .. n - 1, NEW t \in 0 .. n - 1
    PROVE  /\ RingUsed(h, t, n) \in 0 .. n - 1
           /\ h >= t => RingUsed(h, t, n) = h - t
           /\ h < t => RingUsed(h, t, n) = h + n - t
           /\ RingUsed(h, t, n) = 0 <=> h = t
           /\ RingUsed(h, t, n) = n - 1 <=> (h + 1) % n = t
  <1>1. /\ RingUsed(h, t, n) \in 0 .. n - 1
        /\ h >= t => RingUsed(h, t, n) = h - t
        /\ h < t => RingUsed(h, t, n) = h + n - t
    BY DEF RingUsed
  <1>2. (h + 1) % n = IF h + 1 < n THEN h + 1 ELSE 0
    OBVIOUS
  <1> QED
    BY <1>1, <1>2

\* They occupy the slots from the tail up to the head.
LEMMA RingSlots ==
    ASSUME NEW n \in Nat \ {0}, NEW h \in 0 .. n - 1, NEW t \in 0 .. n - 1
    PROVE  /\ \A k \in 1 .. RingUsed(h, t, n) :
                (t + k - 1) % n \in 0 .. n - 1 /\ (t + k - 1) % n # h
           /\ (t + RingUsed(h, t, n)) % n = h
  <1> DEFINE used == RingUsed(h, t, n)
  <1>1. /\ used \in 0 .. n - 1
        /\ h >= t => used = h - t
        /\ h < t => used = h + n - t
    BY RingCount
  <1> HIDE DEF used
  <1>2. /\ \A k \in 1 .. used : (t + k - 1) % n \in 0 .. n - 1 /\ (t + k - 1) % n # h
        /\ (t + used) % n = h
    BY <1>1
  <1> QED
    BY <1>2 DEF used

\* They are a sequence.
LEMMA RingIsSeq ==
    ASSUME NEW S, NEW n, NEW h, NEW t, NEW r, Ring(r, h, t, n, S)
    PROVE  /\ RingQueue(r, h, t, n) \in Seq(S)
           /\ Len(RingQueue(r, h, t, n)) = RingUsed(h, t, n)
           /\ \A k \in 1 .. RingUsed(h, t, n) : RingQueue(r, h, t, n)[k] = r[(t + k - 1) % n]
  <1>1. n \in Nat \ {0} /\ h \in 0 .. n - 1 /\ t \in 0 .. n - 1 /\ r \in [0 .. n - 1 -> S]
    BY DEF Ring
  <1>2. /\ RingUsed(h, t, n) \in Nat
        /\ \A k \in 1 .. RingUsed(h, t, n) : (t + k - 1) % n \in 0 .. n - 1
    BY <1>1, RingCount, RingSlots
  <1>3. RingQueue(r, h, t, n) \in [1 .. RingUsed(h, t, n) -> S]
    BY <1>1, <1>2 DEF RingQueue
  <1> QED
    BY <1>2, <1>3 DEF RingQueue

\* What the free slot at the head holds does not matter.
LEMMA RingFreeSlot ==
    ASSUME NEW S, NEW n, NEW h, NEW t, NEW r, NEW q, Ring(r, h, t, n, S),
           \A i \in (0 .. n - 1) \ {h} : q[i] = r[i]
    PROVE  RingQueue(q, h, t, n) = RingQueue(r, h, t, n)
  <1>1. n \in Nat \ {0} /\ h \in 0 .. n - 1 /\ t \in 0 .. n - 1
    BY DEF Ring
  <1>2. \A k \in 1 .. RingUsed(h, t, n) :
          (t + k - 1) % n \in 0 .. n - 1 /\ (t + k - 1) % n # h
    BY <1>1, RingSlots
  <1>3. \A k \in 1 .. RingUsed(h, t, n) : q[(t + k - 1) % n] = r[(t + k - 1) % n]
    BY <1>2
  <1> QED
    BY <1>3 DEF RingQueue

\* Moving the head of a ring that is not full adds the entry in its slot.
LEMMA RingPut ==
    ASSUME NEW S, NEW n, NEW h, NEW t, NEW r, NEW q, NEW e \in S, Ring(r, h, t, n, S),
           (h + 1) % n # t, q[h] = e, \A i \in (0 .. n - 1) \ {h} : q[i] = r[i]
    PROVE  /\ RingQueue(q, (h + 1) % n, t, n) = Append(RingQueue(r, h, t, n), e)
           /\ RingUsed((h + 1) % n, t, n) = RingUsed(h, t, n) + 1
  <1> DEFINE m == (h + 1) % n
             used == RingUsed(h, t, n)
             queue == RingQueue(r, h, t, n)
  <1>1. n \in Nat \ {0} /\ h \in 0 .. n - 1 /\ t \in 0 .. n - 1 /\ r \in [0 .. n - 1 -> S]
    BY DEF Ring
  <1>2. m = (IF h + 1 < n THEN h + 1 ELSE 0) /\ m \in 0 .. n - 1
    BY <1>1
  <1>3. /\ used \in 0 .. n - 1 /\ used # n - 1
        /\ h >= t => used = h - t
        /\ h < t => used = h + n - t
    BY <1>1, RingCount
  <1>4. /\ \A k \in 1 .. used : (t + k - 1) % n \in 0 .. n - 1 /\ (t + k - 1) % n # h
        /\ (t + used) % n = h
    BY <1>1, RingSlots
  <1>5. /\ queue \in Seq(S) /\ Len(queue) = used
        /\ \A k \in 1 .. used : queue[k] = r[(t + k - 1) % n]
    BY RingIsSeq
  <1>6. RingUsed(m, t, n) = used + 1
    <2> HIDE DEF m, used
    <2>1. /\ m >= t => RingUsed(m, t, n) = m - t
          /\ m < t => RingUsed(m, t, n) = m + n - t
      <3>1. m \in 0 .. n - 1
        BY <1>2
      <3> QED
        BY ONLY <1>1, <3>1, RingCount
    <2>2. CASE h + 1 < n
      <3>1. m = h + 1
        BY <1>1, <1>2, <2>2
      <3> QED
        BY ONLY <1>1, <1>3, <2>1, <2>2, <3>1
    <2>3. CASE h + 1 = n
      <3>1. m = 0
        BY <1>1, <1>2, <2>3
      <3> QED
        BY ONLY <1>1, <1>3, <2>1, <2>3, <3>1
    <2> QED
      BY <1>1, <2>2, <2>3
  <1> HIDE DEF m, used, queue
  <1>7. /\ Append(queue, e) \in Seq(S) /\ Len(Append(queue, e)) = used + 1
        /\ \A k \in 1 .. used : Append(queue, e)[k] = queue[k]
        /\ Append(queue, e)[used + 1] = e
    BY <1>5, AppendProperties
  <1>8. ASSUME NEW k \in 1 .. used + 1 PROVE q[(t + k - 1) % n] = Append(queue, e)[k]
    <2>1. CASE k \in 1 .. used
      <3>1. (t + k - 1) % n \in 0 .. n - 1 /\ (t + k - 1) % n # h
        BY <1>4, <2>1
      <3> QED
        BY <1>5, <1>7, <2>1, <3>1
    <2>2. CASE k = used + 1
      <3>1. t + k - 1 = t + used
        BY <1>1, <1>3, <2>2
      <3> QED
        BY <1>4, <1>7, <2>2, <3>1
    <2>3. k \in 1 .. used \/ k = used + 1
      BY <1>3
    <2> QED
      BY <2>1, <2>2, <2>3
  <1>9. RingQueue(q, m, t, n) = [k \in 1 .. used + 1 |-> q[(t + k - 1) % n]]
    BY <1>6 DEF RingQueue
  <1>10. Append(queue, e) \in [1 .. used + 1 -> S]
    BY <1>7, LenProperties
  <1>11. RingQueue(q, m, t, n) = Append(queue, e)
    BY <1>8, <1>9, <1>10
  <1> QED
    BY <1>6, <1>11 DEF m, used, queue

\* Moving the tail of a ring that is not empty takes the first waiting entry.
LEMMA RingTake ==
    ASSUME NEW S, NEW n, NEW h, NEW t, NEW r, Ring(r, h, t, n, S), h # t
    PROVE  /\ RingQueue(r, h, t, n) # <<>> /\ r[t] = Head(RingQueue(r, h, t, n))
           /\ RingQueue(r, h, (t + 1) % n, n) = Tail(RingQueue(r, h, t, n))
           /\ RingUsed(h, (t + 1) % n, n) = RingUsed(h, t, n) - 1
  <1> DEFINE m == (t + 1) % n
             used == RingUsed(h, t, n)
             queue == RingQueue(r, h, t, n)
  <1>1. n \in Nat \ {0} /\ h \in 0 .. n - 1 /\ t \in 0 .. n - 1 /\ r \in [0 .. n - 1 -> S]
    BY DEF Ring
  <1>2. m = (IF t + 1 < n THEN t + 1 ELSE 0) /\ m \in 0 .. n - 1
    BY <1>1
  <1>3. /\ used \in 1 .. n - 1
        /\ h >= t => used = h - t
        /\ h < t => used = h + n - t
    <2>1. used \in 0 .. n - 1 /\ used # 0
      BY <1>1, RingCount
    <2> QED
      BY <1>1, <2>1, RingCount
  <1>4. /\ queue \in Seq(S) /\ Len(queue) = used
        /\ \A k \in 1 .. used : queue[k] = r[(t + k - 1) % n]
    BY RingIsSeq
  <1>5. RingUsed(h, m, n) = used - 1
    <2> HIDE DEF m, used
    <2>1. /\ h >= m => RingUsed(h, m, n) = h - m
          /\ h < m => RingUsed(h, m, n) = h + n - m
      <3>1. m \in 0 .. n - 1
        BY <1>2
      <3> QED
        BY ONLY <1>1, <3>1, RingCount
    <2>2. CASE t + 1 < n
      <3>1. m = t + 1
        BY <1>1, <1>2, <2>2
      <3> QED
        BY ONLY <1>1, <1>3, <2>1, <2>2, <3>1
    <2>3. CASE t + 1 = n
      <3>1. m = 0
        BY <1>1, <1>2, <2>3
      <3> QED
        BY ONLY <1>1, <1>3, <2>1, <2>3, <3>1
    <2> QED
      BY <1>1, <2>2, <2>3
  <1> HIDE DEF m, used, queue
  <1>6. queue # <<>> /\ r[t] = Head(queue)
    <2>1. (t + 1 - 1) % n = t
      BY <1>1
    <2> QED
      BY <1>3, <1>4, <2>1
  <1>7. /\ Tail(queue) \in Seq(S) /\ Len(Tail(queue)) = used - 1
        /\ \A k \in 1 .. used - 1 : Tail(queue)[k] = queue[k + 1]
    BY <1>3, <1>4, <1>6, HeadTailProperties
  <1>8. ASSUME NEW k \in 1 .. used - 1 PROVE r[(m + k - 1) % n] = Tail(queue)[k]
    <2>1. (m + k - 1) % n = (t + (k + 1) - 1) % n
      BY <1>1, <1>2, <1>3
    <2>2. k + 1 \in 1 .. used
      BY <1>3
    <2> QED
      BY <1>4, <1>7, <2>1, <2>2
  <1>9. RingQueue(r, h, m, n) = [k \in 1 .. used - 1 |-> r[(m + k - 1) % n]]
    BY <1>5 DEF RingQueue
  <1>10. Tail(queue) \in [1 .. used - 1 -> S]
    BY <1>7, LenProperties
  <1>11. RingQueue(r, h, m, n) = Tail(queue)
    BY <1>8, <1>9, <1>10
  <1> QED
    BY <1>5, <1>6, <1>11 DEF m, used, queue

-----------------------------------------------------------------------------
(* The event bus.                                                           *)

\* A publish() of the sensor task is counted as dropped once at most.
DroppedOnce == dropped + (IF busPc = "idle" THEN 0 ELSE 1) <= issued

BusTypes == BusTypeOK /\ DroppedOnce

\* Unless a publish() was overtaken, no one else moves the head during one of
\* the sensor task, and the slot it has filled is the one it will expose.
OwnPublication ==
    ~overtaken =>
      /\ busPc # "idle" => loadedHead = head
      /\ busPc \in {"write", "store"} => ~Full(head)
      /\ busPc = "store" => events[head] = ownEvent

BusInv == BusTypes /\ OwnPublication /\ AcceptedIsDelivered /\ PublishedIsAccounted

\* The bus is such a ring.
LEMMA BusIsARing ==
    ASSUME BusTypeOK
    PROVE  /\ Ring(events, head, tail, Capacity, Event)
           /\ pendingCount = RingUsed(head, tail, Capacity)
           /\ Pending = RingQueue(events, head, tail, Capacity)
           /\ next(head) = (head + 1) % Capacity /\ next(tail) = (tail + 1) % Capacity
  BY CapacityAssumption
     DEF BusTypeOK, BusSlots, Ring, pendingCount, Pending, RingUsed, RingQueue, next

\* The waiting events are events, fewer than there are slots; with all slots but
\* one taken the ring is full, with none it is empty.
LEMMA PendingSlots ==
    ASSUME BusTypeOK
    PROVE  /\ pendingCount \in 0 .. Capacity - 1
           /\ Pending \in Seq(Event) /\ Len(Pending) = pendingCount
           /\ pendingCount = 0 <=> head = tail
           /\ pendingCount = Capacity - 1 <=> Full(head)
  <1>1. Capacity \in Nat \ {0} /\ head \in 0 .. Capacity - 1 /\ tail \in 0 .. Capacity - 1
    BY CapacityAssumption DEF BusTypeOK, BusSlots
  <1>2. /\ pendingCount \in 0 .. Capacity - 1
        /\ pendingCount = 0 <=> head = tail
        /\ pendingCount = Capacity - 1 <=> (head + 1) % Capacity = tail
    <2> DEFINE used == RingUsed(head, tail, Capacity)
    <2>1. /\ used \in 0 .. Capacity - 1
          /\ used = 0 <=> head = tail
          /\ used = Capacity - 1 <=> (head + 1) % Capacity = tail
      BY <1>1, RingCount
    <2> QED
      BY <2>1, BusIsARing
  <1>3. Pending \in Seq(Event) /\ Len(Pending) = pendingCount
    BY RingIsSeq, BusIsARing
  <1> QED
    BY <1>2, <1>3, BusIsARing DEF Full

\* Where neither the tail, the head nor a waiting slot changes, the same events
\* wait.
LEMMA PendingStands ==
    ASSUME BusTypeOK, UNCHANGED <<head, tail>>,
           \A i \in BusSlots \ {head} : events'[i] = events[i]
    PROVE  Pending' = Pending /\ pendingCount' = pendingCount
  <1>1. Pending' = RingQueue(events', head, tail, Capacity)
    BY DEF Pending, pendingCount, RingUsed, RingQueue
  <1>2. RingQueue(events', head, tail, Capacity) = RingQueue(events, head, tail, Capacity)
    <2>1. \A i \in (0 .. Capacity - 1) \ {head} : events'[i] = events[i]
      BY DEF BusSlots
    <2> QED
      BY <2>1, BusIsARing, RingFreeSlot
  <1> QED
    BY <1>1, <1>2, BusIsARing DEF pendingCount

\* Moving the head of a ring that is not full adds the event in its slot.
LEMMA HeadMoves ==
    ASSUME BusTypeOK, ~Full(head), head' = next(head), UNCHANGED tail, NEW e \in Event,
           \A i \in BusSlots \ {head} : events'[i] = events[i], events'[head] = e
    PROVE  Pending' = Append(Pending, e) /\ pendingCount' = pendingCount + 1
  <1>1. head' = (head + 1) % Capacity /\ (head + 1) % Capacity # tail
    BY BusIsARing DEF Full
  <1>2. /\ Pending' = RingQueue(events', (head + 1) % Capacity, tail, Capacity)
        /\ pendingCount' = RingUsed((head + 1) % Capacity, tail, Capacity)
    BY <1>1 DEF Pending, pendingCount, RingUsed, RingQueue
  <1>3. /\ RingQueue(events', (head + 1) % Capacity, tail, Capacity)
             = Append(RingQueue(events, head, tail, Capacity), e)
        /\ RingUsed((head + 1) % Capacity, tail, Capacity) = RingUsed(head, tail, Capacity) + 1
    <2>1. \A i \in (0 .. Capacity - 1) \ {head} : events'[i] = events[i]
      BY DEF BusSlots
    <2> QED
      BY <1>1, <2>1, BusIsARing, RingPut
  <1> QED
    BY <1>2, <1>3, BusIsARing

\* Moving the tail of a ring that is not empty takes the first waiting event.
LEMMA TailMoves ==
    ASSUME BusTypeOK, tail # head, tail' = next(tail), UNCHANGED <<head, events>>
    PROVE  /\ Pending # <<>> /\ events[tail] = Head(Pending) /\ Pending' = Tail(Pending)
           /\ pendingCount' = pendingCount - 1
  <1>1. tail' = (tail + 1) % Capacity
    BY BusIsARing
  <1>2. /\ Pending' = RingQueue(events, head, (tail + 1) % Capacity, Capacity)
        /\ pendingCount' = RingUsed(head, (tail + 1) % Capacity, Capacity)
    BY <1>1 DEF Pending, pendingCount, RingUsed, RingQueue
  <1>3. /\ Pending # <<>> /\ events[tail] = Head(Pending)
        /\ RingQueue(events, head, (tail + 1) % Capacity, Capacity) = Tail(Pending)
        /\ RingUsed(head, (tail + 1) % Capacity, Capacity) = pendingCount - 1
    BY BusIsARing, RingTake
  <1> QED
    BY <1>2, <1>3

\* The empty ring satisfies the invariant.
LEMMA BusInitInv == BusInit => BusInv
  <1> SUFFICES ASSUME BusInit PROVE BusInv
    OBVIOUS
  <1> USE CapacityAssumption, EventsAssumption DEF BusInit
  <1>1. BusTypeOK /\ DroppedOnce /\ OwnPublication
    <2>1. /\ accepted \in Seq(Event) /\ consumed \in Seq(Event)
          /\ events \in [BusSlots -> Event] /\ 0 \in BusSlots /\ 0 \in Event
      BY DEF BusSlots, Event, NoEvent
    <2> QED
      BY <2>1 DEF BusTypeOK, DroppedOnce, OwnPublication, NoEvent
  <1>2. pendingCount = 0
    BY <1>1, PendingSlots
  <1>3. Pending = <<>>
    BY <1>1, <1>2, PendingSlots
  <1>4. AcceptedIsDelivered /\ PublishedIsAccounted
    BY <1>2, <1>3 DEF AcceptedIsDelivered, PublishedIsAccounted, publicationUnderWay
  <1> QED
    BY <1>1, <1>4 DEF BusInv, BusTypes

\* Indices, places and counters keep their ranges.
LEMMA BusTypesStep == BusTypes /\ [BusNext]_busVars => BusTypes'
  <1> SUFFICES ASSUME BusTypes, [BusNext]_busVars PROVE BusTypes'
    OBVIOUS
  <1> USE CapacityAssumption, EventsAssumption DEF BusTypes, BusTypeOK, DroppedOnce, overtakenVars
  <1>1. \A i \in BusSlots : next(i) \in BusSlots
    BY DEF next, BusSlots
  <1>2. CASE loadHead
    BY <1>2 DEF loadHead, Event, NoEvent
  <1>3. CASE checkFull
    BY <1>3 DEF checkFull
  <1>4. CASE writeEvent
    BY <1>4 DEF writeEvent
  <1>5. CASE storeHead
    BY <1>1, <1>5 DEF storeHead
  <1>6. CASE publishTelemetry
    <2>1. issued + 1 \in Event
      BY <1>6 DEF publishTelemetry, Event, NoEvent
    <2>2. /\ events' \in [BusSlots -> Event] /\ head' \in BusSlots
          /\ accepted' \in Seq(Event)
      <3>1. CASE Full(head)
        BY <1>6, <3>1 DEF publishTelemetry
      <3>2. CASE ~Full(head)
        <4>1. /\ events' = [events EXCEPT ![head] = issued + 1] /\ head' = next(head)
              /\ accepted' = Append(accepted, issued + 1)
          BY <1>6, <3>2 DEF publishTelemetry
        <4> QED
          BY <1>1, <2>1, <4>1
      <3> QED
        BY <3>1, <3>2
    <2>3. /\ dropped' = dropped \/ dropped' = dropped + 1
          /\ issued' = issued + 1 /\ issued < MaxEvents
      BY <1>6 DEF publishTelemetry
    <2>4. /\ UNCHANGED <<tail, busPc, ownEvent, loadedHead, consumed, uncounted>>
          /\ overtaken' \in BOOLEAN
      BY <1>6 DEF publishTelemetry
    <2>5. DroppedOnce' /\ dropped' \in 0 .. MaxEvents /\ issued' \in 0 .. MaxEvents
      <3>1. CASE busPc = "idle"
        BY <2>3, <2>4, <3>1
      <3>2. CASE busPc # "idle"
        BY <2>3, <2>4, <3>2
      <3> QED
        BY <3>1, <3>2
    <2> QED
      BY <2>2, <2>4, <2>5
  <1>7. CASE consume
    BY <1>1, <1>7 DEF consume
  <1>8. CASE foundEmpty
    <2>1. Len(consumed) \in Nat
      BY LenProperties
    <2>2. issued - dropped - Len(consumed) \in Int
      BY <2>1
    <2>3. /\ UNCHANGED <<events, head, tail, dropped, busPc, ownEvent, loadedHead, issued, consumed>>
          /\ overtaken' = FALSE /\ uncounted' \in Int /\ accepted' \in Seq(Event)
      BY <1>8, <2>2 DEF foundEmpty
    <2> QED
      BY <2>3
  <1>9. CASE UNCHANGED busVars
    BY <1>9 DEF busVars
  <1> QED
    BY <1>2, <1>3, <1>4, <1>5, <1>6, <1>7, <1>8, <1>9
       DEF BusNext, publishSensor, drainEvents, BusDone

\* What two sequences of accepted events have in common with the delivered and
\* the waiting ones survives an event at the end and a move over the middle.
LEMMA DeliveredAppend ==
    ASSUME NEW S, NEW a \in Seq(S), NEW c \in Seq(S), NEW p \in Seq(S), NEW e \in S,
           a = c \o p
    PROVE  Append(a, e) = c \o Append(p, e)
  <1>1. <<e>> \in Seq(S)
    OBVIOUS
  <1>2. Append(a, e) = (c \o p) \o <<e>>
    BY AppendIsConcat
  <1>3. Append(p, e) = p \o <<e>>
    BY AppendIsConcat
  <1> QED
    BY <1>1, <1>2, <1>3, ConcatAssociative

\* An event taken from the queue moves from what waits to what was delivered.
LEMMA DeliveredTake ==
    ASSUME NEW S, NEW c \in Seq(S), NEW p \in Seq(S), p # <<>>
    PROVE  c \o p = Append(c, Head(p)) \o Tail(p)
  <1>1. Head(p) \in S /\ Tail(p) \in Seq(S) /\ <<Head(p)>> \in Seq(S)
    BY HeadTailProperties
  <1>2. p = <<Head(p)>> \o Tail(p)
    BY <1>1
  <1>3. Append(c, Head(p)) = c \o <<Head(p)>>
    BY <1>1, AppendIsConcat
  <1> QED
    BY <1>1, <1>2, <1>3, ConcatAssociative

\* A publication of the telemetry task as a whole: an event more waits, or the
\* ring is full and it is counted as dropped.
LEMMA TelemetryPublishes ==
    ASSUME BusTypeOK, publishTelemetry
    PROVE  \/ /\ pendingCount = Capacity - 1
              /\ UNCHANGED <<accepted, Pending, pendingCount, overtaken>>
              /\ dropped' = dropped + 1
           \/ /\ pendingCount < Capacity - 1
              /\ issued + 1 \in Event
              /\ accepted' = Append(accepted, issued + 1)
              /\ overtaken' = (overtaken \/ busPc # "idle")
              /\ Pending' = Append(Pending, issued + 1)
              /\ pendingCount' = pendingCount + 1 /\ UNCHANGED dropped
  <1> USE CapacityAssumption
  <1>1. issued + 1 \in Event
    BY EventsAssumption DEF publishTelemetry, BusTypeOK, Event, NoEvent
  <1>2. CASE Full(head)
    <2>1. UNCHANGED <<events, head, tail, accepted, overtaken>> /\ dropped' = dropped + 1
      BY <1>2 DEF publishTelemetry
    <2>2. Pending' = Pending /\ pendingCount' = pendingCount
      BY <2>1, PendingStands
    <2> QED
      BY <1>2, <2>1, <2>2, PendingSlots
  <1>3. CASE ~Full(head)
    <2>1. /\ events' = [events EXCEPT ![head] = issued + 1]
          /\ head' = next(head) /\ UNCHANGED <<tail, dropped>>
          /\ accepted' = Append(accepted, issued + 1)
          /\ overtaken' = (overtaken \/ busPc # "idle")
      BY <1>3 DEF publishTelemetry
    <2>2. /\ \A i \in BusSlots \ {head} : events'[i] = events[i]
          /\ events'[head] = issued + 1
      BY <2>1 DEF BusTypeOK
    <2>3. Pending' = Append(Pending, issued + 1) /\ pendingCount' = pendingCount + 1
      BY <1>1, <1>3, <2>1, <2>2, HeadMoves
    <2>4. pendingCount < Capacity - 1
      BY <1>3, PendingSlots
    <2> QED
      BY <1>1, <2>1, <2>3, <2>4
  <1> QED
    BY <1>2, <1>3

\* A step of the sensor task's publish(): the same, at its check and its store.
LEMMA SensorPublishes ==
    ASSUME BusTypeOK, ~overtaken, OwnPublication, publishSensor
    PROVE  \/ /\ UNCHANGED <<accepted, Pending, pendingCount, dropped, issued>>
              /\ busPc # "idle" /\ busPc' # "idle"
           \/ /\ UNCHANGED <<accepted, Pending, pendingCount, dropped>>
              /\ issued' = issued + 1 /\ busPc = "idle" /\ busPc' # "idle"
           \/ /\ pendingCount = Capacity - 1 /\ busPc = "check" /\ busPc' = "idle"
              /\ UNCHANGED <<accepted, Pending, pendingCount, issued>> /\ dropped' = dropped + 1
           \/ /\ pendingCount < Capacity - 1 /\ busPc = "store" /\ busPc' = "idle"
              /\ accepted' = Append(accepted, ownEvent)
              /\ Pending' = Append(Pending, ownEvent)
              /\ pendingCount' = pendingCount + 1 /\ UNCHANGED <<dropped, issued>>
  <1> USE CapacityAssumption
  <1>1. CASE loadHead
    <2>1. Pending' = Pending /\ pendingCount' = pendingCount
      BY <1>1, PendingStands DEF loadHead
    <2> QED
      BY <1>1, <2>1 DEF loadHead
  <1>2. CASE checkFull
    <2>1. Pending' = Pending /\ pendingCount' = pendingCount
      BY <1>2, PendingStands DEF checkFull
    <2>2. Full(loadedHead) => pendingCount = Capacity - 1
      BY <1>2, PendingSlots DEF checkFull, OwnPublication
    <2> QED
      BY <1>2, <2>1, <2>2 DEF checkFull
  <1>3. CASE writeEvent
    <2>1. \A i \in BusSlots \ {head} : events'[i] = events[i]
      BY <1>3 DEF writeEvent, OwnPublication, BusTypeOK
    <2>2. Pending' = Pending /\ pendingCount' = pendingCount
      BY <1>3, <2>1, PendingStands DEF writeEvent
    <2> QED
      BY <1>3, <2>2 DEF writeEvent
  <1>4. CASE storeHead
    <2>1. ~Full(head) /\ head' = next(head) /\ UNCHANGED <<events, tail>>
      BY <1>4 DEF storeHead, OwnPublication
    <2>2. events'[head] = ownEvent /\ ownEvent \in Event
      BY <1>4, <2>1 DEF storeHead, OwnPublication, BusTypeOK
    <2>3. Pending' = Append(Pending, ownEvent) /\ pendingCount' = pendingCount + 1
      BY <2>1, <2>2, HeadMoves
    <2>4. pendingCount < Capacity - 1
      BY <2>1, PendingSlots
    <2> QED
      BY <1>4, <2>3, <2>4 DEF storeHead
  <1> QED
    BY <1>1, <1>2, <1>3, <1>4 DEF publishSensor

\* Unless a second producer overtakes, the head loaded stays the head.
LEMMA OwnPublicationStep ==
    ASSUME BusTypeOK, OwnPublication, [BusNext]_busVars
    PROVE  OwnPublication'
  <1> SUFFICES ASSUME ~overtaken'
               PROVE  /\ busPc' # "idle" => loadedHead' = head'
                      /\ busPc' \in {"write", "store"} => ~Full(head)'
                      /\ busPc' = "store" => events'[head'] = ownEvent'
    BY DEF OwnPublication
  <1> USE CapacityAssumption DEF overtakenVars
  <1>1. ASSUME ~overtaken
        PROVE  /\ busPc # "idle" => loadedHead = head
               /\ busPc \in {"write", "store"} => ~Full(head)
               /\ busPc = "store" => events[head] = ownEvent
    BY <1>1 DEF OwnPublication
  <1>2. CASE loadHead
    BY <1>1, <1>2 DEF loadHead
  <1>3. CASE checkFull
    BY <1>1, <1>3 DEF checkFull, Full
  <1>4. CASE writeEvent
    BY <1>1, <1>4 DEF writeEvent, Full, BusTypeOK
  <1>5. CASE storeHead
    BY <1>1, <1>5 DEF storeHead
  <1>6. CASE publishTelemetry
    <2>1. CASE Full(head)
      BY <1>1, <1>6, <2>1 DEF publishTelemetry, Full
    <2>2. CASE ~Full(head)
      BY <1>6, <2>2 DEF publishTelemetry
    <2> QED
      BY <2>1, <2>2
  <1>7. CASE consume
    <2>1. head \in 0 .. Capacity - 1 /\ tail \in 0 .. Capacity - 1
      BY DEF BusTypeOK, BusSlots
    <2>2. tail # head => next(head) # next(tail)
      BY <2>1 DEF next
    <2> QED
      BY <1>1, <1>7, <2>2 DEF consume, Full
  <1>8. CASE foundEmpty
    BY <1>8 DEF foundEmpty
  <1>9. CASE UNCHANGED busVars
    BY <1>1, <1>9 DEF busVars, Full
  <1> QED
    BY <1>2, <1>3, <1>4, <1>5, <1>6, <1>7, <1>8, <1>9
       DEF BusNext, publishSensor, drainEvents, BusDone

\* A step of the sensor task's publish() keeps every event accepted, unless it
\* was overtaken.
LEMMA SensorStep ==
    ASSUME BusInv, publishSensor
    PROVE  AcceptedIsDelivered' /\ PublishedIsAccounted'
  <1> USE DEF BusInv
  <1>1. UNCHANGED <<consumed, overtaken, uncounted>>
    BY DEF publishSensor, loadHead, checkFull, writeEvent, storeHead, overtakenVars
  <1> SUFFICES ASSUME ~overtaken
               PROVE  /\ accepted' = consumed \o Pending'
                      /\ issued' = uncounted + Len(consumed) + pendingCount' + dropped'
                                     + publicationUnderWay'
    BY <1>1 DEF AcceptedIsDelivered, PublishedIsAccounted
  <1>2. /\ BusTypeOK /\ accepted \in Seq(Event) /\ consumed \in Seq(Event) /\ ownEvent \in Event
        /\ Pending \in Seq(Event) /\ pendingCount \in Nat
        /\ issued \in Nat /\ dropped \in Nat /\ uncounted \in Int
    BY PendingSlots, CapacityAssumption, EventsAssumption DEF BusTypes, BusTypeOK
  <1>3. accepted' = consumed \o Pending'
    <2>1. accepted = consumed \o Pending
      BY DEF AcceptedIsDelivered
    <2>2. Append(accepted, ownEvent) = consumed \o Append(Pending, ownEvent)
      <3>1. /\ accepted \in Seq(Event) /\ consumed \in Seq(Event) /\ Pending \in Seq(Event)
            /\ ownEvent \in Event
        BY <1>2
      <3> QED
        BY ONLY <2>1, <3>1, DeliveredAppend
    <2>3. CASE UNCHANGED <<accepted, Pending>>
      BY <2>1, <2>3
    <2>4. CASE accepted' = Append(accepted, ownEvent) /\ Pending' = Append(Pending, ownEvent)
      BY <2>2, <2>4
    <2> QED
      BY <1>2, <2>3, <2>4, SensorPublishes
  <1>4. issued' = uncounted + Len(consumed) + pendingCount' + dropped' + publicationUnderWay'
    <2>1. Len(consumed) \in Nat
      BY <1>2
    <2>2. issued = uncounted + Len(consumed) + pendingCount + dropped
                     + (IF busPc = "idle" THEN 0 ELSE 1)
      BY DEF PublishedIsAccounted, publicationUnderWay
    <2>3. issued' = uncounted + Len(consumed) + pendingCount' + dropped'
                      + (IF busPc' = "idle" THEN 0 ELSE 1)
      <3>1. CASE busPc # "idle" /\ busPc' # "idle" /\ UNCHANGED <<pendingCount, dropped, issued>>
        BY <2>2, <3>1
      <3>2. CASE /\ busPc = "idle" /\ busPc' # "idle"
                 /\ UNCHANGED <<pendingCount, dropped>> /\ issued' = issued + 1
        BY <1>2, <2>1, <2>2, <3>2
      <3>3. CASE /\ busPc # "idle" /\ busPc' = "idle"
                 /\ UNCHANGED <<pendingCount, issued>> /\ dropped' = dropped + 1
        BY <1>2, <2>1, <2>2, <3>3
      <3>4. CASE /\ busPc # "idle" /\ busPc' = "idle"
                 /\ pendingCount' = pendingCount + 1 /\ UNCHANGED <<dropped, issued>>
        BY <1>2, <2>1, <2>2, <3>4
      <3> QED
        BY <1>2, <3>1, <3>2, <3>3, <3>4, SensorPublishes
    <2> QED
      BY <2>3 DEF publicationUnderWay
  <1> QED
    BY <1>3, <1>4

\* A publish() of the telemetry task keeps them, unless it overtakes.
LEMMA TelemetryStep ==
    ASSUME BusInv, publishTelemetry
    PROVE  AcceptedIsDelivered' /\ PublishedIsAccounted'
  <1> USE DEF BusInv
  <1>1. UNCHANGED <<consumed, uncounted, busPc>> /\ issued' = issued + 1
    BY DEF publishTelemetry
  <1>2. /\ BusTypeOK /\ accepted \in Seq(Event) /\ consumed \in Seq(Event)
        /\ Pending \in Seq(Event) /\ pendingCount \in Nat
        /\ issued \in Nat /\ dropped \in Nat /\ uncounted \in Int
    BY PendingSlots, CapacityAssumption, EventsAssumption DEF BusTypes, BusTypeOK
  <1>3. Len(consumed) \in Nat /\ publicationUnderWay \in {0, 1}
    BY <1>2 DEF publicationUnderWay
  <1>4. CASE /\ UNCHANGED <<accepted, Pending, pendingCount, overtaken>>
             /\ dropped' = dropped + 1
    BY <1>1, <1>2, <1>3, <1>4 DEF AcceptedIsDelivered, PublishedIsAccounted, publicationUnderWay
  <1>5. CASE /\ issued + 1 \in Event
             /\ accepted' = Append(accepted, issued + 1)
             /\ overtaken' = (overtaken \/ busPc # "idle")
             /\ Pending' = Append(Pending, issued + 1)
             /\ pendingCount' = pendingCount + 1 /\ UNCHANGED dropped
    <2> SUFFICES ASSUME ~overtaken, busPc = "idle"
                 PROVE  AcceptedIsDelivered' /\ PublishedIsAccounted'
      BY <1>5 DEF AcceptedIsDelivered, PublishedIsAccounted
    <2>1. Append(accepted, issued + 1) = consumed \o Append(Pending, issued + 1)
      BY <1>2, <1>5, DeliveredAppend DEF AcceptedIsDelivered
    <2>2. PublishedIsAccounted'
      BY <1>1, <1>2, <1>3, <1>5 DEF PublishedIsAccounted, publicationUnderWay
    <2> QED
      BY <1>1, <1>5, <2>1, <2>2 DEF AcceptedIsDelivered
  <1> QED
    BY <1>2, <1>4, <1>5, TelemetryPublishes

\* consume() moves an event from the waiting to the delivered; where it finds the
\* ring empty, everything accepted from there on is accounted for again.
LEMMA ConsumeStep ==
    ASSUME BusInv, drainEvents
    PROVE  AcceptedIsDelivered' /\ PublishedIsAccounted'
  <1> USE DEF BusInv, overtakenVars
  <1>1. /\ BusTypeOK /\ accepted \in Seq(Event) /\ consumed \in Seq(Event)
        /\ Pending \in Seq(Event) /\ pendingCount \in Nat /\ Len(Pending) = pendingCount
        /\ issued \in Nat /\ dropped \in Nat /\ uncounted \in Int
    BY PendingSlots, CapacityAssumption, EventsAssumption DEF BusTypes, BusTypeOK
  <1>2. Len(consumed) \in Nat /\ publicationUnderWay \in {0, 1}
    BY <1>1 DEF publicationUnderWay
  <1>3. CASE consume
    <2>1. /\ Pending # <<>> /\ consumed' = Append(consumed, Head(Pending))
          /\ Pending' = Tail(Pending) /\ pendingCount' = pendingCount - 1
          /\ UNCHANGED <<accepted, issued, dropped, busPc, overtaken, uncounted>>
      BY <1>1, <1>3, TailMoves DEF consume
    <2>2. AcceptedIsDelivered'
      BY <1>1, <2>1, DeliveredTake DEF AcceptedIsDelivered
    <2>3. Len(consumed') = Len(consumed) + 1
      <3>1. Head(Pending) \in Event
        BY <1>1, <2>1, HeadTailProperties
      <3> QED
        BY <1>1, <2>1, <3>1, AppendProperties, LenProperties
    <2>4. PublishedIsAccounted'
      BY <1>1, <1>2, <2>1, <2>3 DEF PublishedIsAccounted, publicationUnderWay
    <2> QED
      BY <2>2, <2>4
  <1>4. CASE foundEmpty
    <2>1. /\ UNCHANGED <<events, head, tail, consumed, issued, dropped, busPc>>
          /\ busPc = "idle" /\ head = tail
          /\ accepted' = consumed /\ uncounted' = issued - dropped - Len(consumed)
      BY <1>4 DEF foundEmpty
    <2>2. Pending' = Pending /\ pendingCount' = pendingCount
      BY <1>1, <2>1, PendingStands
    <2>3. pendingCount = 0 /\ Pending = <<>>
      <3>1. pendingCount = 0
        BY <1>1, <2>1, PendingSlots, CapacityAssumption DEF BusTypeOK, BusSlots
      <3> QED
        BY <1>1, <3>1
    <2>4. AcceptedIsDelivered'
      BY <1>1, <2>1, <2>2, <2>3 DEF AcceptedIsDelivered
    <2>5. PublishedIsAccounted'
      BY <1>1, <1>2, <2>1, <2>2, <2>3 DEF PublishedIsAccounted, publicationUnderWay
    <2> QED
      BY <2>4, <2>5
  <1> QED
    BY <1>3, <1>4 DEF drainEvents

\* publish() and consume(), step by step, keep every event accepted.
LEMMA BusStep == BusInv /\ [BusNext]_busVars => BusInv'
  <1> SUFFICES ASSUME BusInv, [BusNext]_busVars PROVE BusInv'
    OBVIOUS
  <1>1. BusTypes' /\ BusTypeOK /\ OwnPublication'
    BY BusTypesStep, OwnPublicationStep DEF BusInv, BusTypes
  <1>2. CASE UNCHANGED busVars
    <2>1. Pending' = Pending /\ pendingCount' = pendingCount
      BY <1>1, <1>2, PendingStands DEF busVars
    <2>2. AcceptedIsDelivered' /\ PublishedIsAccounted'
      BY <1>2, <2>1
         DEF BusInv, busVars, overtakenVars, AcceptedIsDelivered, PublishedIsAccounted,
             publicationUnderWay
    <2> QED
      BY <1>1, <2>2 DEF BusInv
  <1> QED
    BY <1>1, <1>2, SensorStep, TelemetryStep, ConsumeStep DEF BusInv, BusNext, BusDone

\* What a step of the ring is to the bounded queue it implements.
LEMMA BusImplementsQueue ==
    ASSUME BusInv, [BusNext]_busVars
    PROVE  [Queue!Next]_Queue!vars
  <1> USE DEF BusInv, Queue!Next, Queue!vars, overtakenVars
  <1>1. BusTypeOK /\ OwnPublication /\ Pending \in Seq(Event) /\ Len(Pending) = pendingCount
    BY PendingSlots DEF BusTypes
  <1>2. CASE publishSensor
    <2>1. UNCHANGED <<consumed, overtaken>> /\ ownEvent \in Event
      BY <1>1, <1>2 DEF publishSensor, loadHead, checkFull, writeEvent, storeHead, BusTypeOK
    <2>2. CASE ~overtaken
      BY <1>1, <1>2, <2>1, <2>2, SensorPublishes DEF Queue!Put, Queue!Refuse
    <2>3. CASE overtaken /\ UNCHANGED dropped
      <3>1. BusTypeOK'
        BY BusTypesStep DEF BusTypes
      <3>2. Pending' \in Seq(Event) /\ Len(Pending') <= Capacity - 1
        <4>1. BusTypeOK' => /\ (pendingCount \in 0 .. Capacity - 1)'
                            /\ (Pending \in Seq(Event))' /\ (Len(Pending) = pendingCount)'
          BY PendingSlots, PTL
        <4> QED
          BY <3>1, <4>1, CapacityAssumption
      <3> QED
        BY <2>1, <2>3, <3>2 DEF Queue!Disturb
    <2>4. CASE overtaken /\ dropped' # dropped
      <3>1. UNCHANGED <<events, head, tail>> /\ dropped' = dropped + 1
        BY <1>2, <2>4 DEF publishSensor, loadHead, checkFull, writeEvent, storeHead
      <3>2. Pending' = Pending
        BY <1>1, <3>1, PendingStands
      <3> QED
        BY <2>1, <2>4, <3>1, <3>2 DEF Queue!Refuse
    <2> QED
      BY <2>2, <2>3, <2>4
  <1>3. CASE publishTelemetry
    <2>1. UNCHANGED consumed
      BY <1>3 DEF publishTelemetry
    <2>2. overtaken \in BOOLEAN
      BY <1>1 DEF BusTypeOK
    <2> QED
      BY <1>1, <1>3, <2>1, <2>2, TelemetryPublishes DEF Queue!Put, Queue!Refuse
  <1>4. CASE consume
    BY <1>1, <1>4, TailMoves DEF consume, Queue!Take
  <1>5. CASE foundEmpty
    <2>1. UNCHANGED <<events, head, tail, consumed, dropped>> /\ head = tail /\ overtaken' = FALSE
      BY <1>5 DEF foundEmpty
    <2>2. pendingCount = 0
      BY <1>1, <2>1, PendingSlots, CapacityAssumption DEF BusTypeOK, BusSlots
    <2>3. Pending = <<>> /\ Pending' = Pending
      BY <1>1, <2>1, <2>2, PendingStands
    <2> QED
      BY <2>1, <2>3 DEF Queue!Recover
  <1>6. CASE UNCHANGED busVars
    BY <1>1, <1>6, PendingStands DEF busVars
  <1> QED
    BY <1>2, <1>3, <1>4, <1>5, <1>6 DEF BusNext, drainEvents, BusDone

-----------------------------------------------------------------------------
(* The settings of the control loop.                                        *)

\* The counter of a kind is odd exactly while the kind is being stored; the
\* words stored so far are of the publication it will end with.
PublisherInv ==
    /\ \A k \in Kinds : IsOdd(pendingSeq[k]) <=> storing = k
    /\ \A k \in Kinds : storing # k => pendingWord[k] = Record(settingsPublished(k))
    /\ storing = "none" => unstored = {}
    /\ storing \in Kinds =>
         \A w \in SettingWords \ unstored :
           pendingWord[storing][w] = settingsPublished(storing) + 1

\* A copy whose counter still stands consists of words of its publication.
LookInv ==
    \A k \in Kinds :
        Copying(k) =>
          /\ ~IsOdd(seq1) /\ seq1 <= pendingSeq[k]
          /\ seq1 = pendingSeq[k] => \A w \in SettingWords \ uncopied : copied[w] = seq1 \div 2

SettingsInv == SettingsTypeOK /\ PublisherInv /\ LookInv /\ SettingsAreWhole

\* A counter and its parity.
LEMMA Halves ==
    ASSUME NEW n \in 0 .. 2 * MaxSettings
    PROVE  /\ IsOdd(n + 1) <=> ~IsOdd(n)
           /\ n \div 2 \in 0 .. MaxSettings
           /\ IsOdd(n) => n + 1 <= 2 * MaxSettings /\ n \div 2 < MaxSettings
                            /\ (n + 1) \div 2 = n \div 2 + 1
           /\ ~IsOdd(n) => (n + 1) \div 2 = n \div 2
                            /\ (n \div 2 < MaxSettings => n + 1 <= 2 * MaxSettings)
  BY SettingsAssumption DEF IsOdd

\* Nothing is published and nothing is applied at first.
LEMMA SettingsInitInv == SettingsInit => SettingsInv
  <1> SUFFICES ASSUME SettingsInit PROVE SettingsInv
    OBVIOUS
  <1> USE SettingsAssumption DEF SettingsInit, Record
  <1>1. ~IsOdd(0) /\ 0 \div 2 = 0
    BY DEF IsOdd
  <1>2. SettingsTypeOK
    BY DEF SettingsTypeOK
  <1>3. PublisherInv
    BY <1>1 DEF PublisherInv, Kinds, settingsPublished
  <1>4. LookInv /\ SettingsAreWhole
    BY <1>1 DEF LookInv, Copying, SettingsAreWhole
  <1> QED
    BY <1>2, <1>3, <1>4 DEF SettingsInv

\* The sequence of a kind becomes odd before its first word is stored.
LEMMA BeginSettingsStep ==
    ASSUME SettingsInv, NEW k \in Kinds, beginSettings(k)
    PROVE  SettingsInv'
  <1> USE DEF SettingsInv, pendingVars, lookVars, appliedVars
  <1>1. /\ pendingSeq \in [Kinds -> 0 .. 2 * MaxSettings] /\ "none" \notin Kinds
        /\ ~IsOdd(pendingSeq[k])
    BY DEF beginSettings, SettingsTypeOK, PublisherInv, Kinds
  <1>2. /\ pendingSeq' = [pendingSeq EXCEPT ![k] = @ + 1]
        /\ pendingSeq[k] + 1 \in 0 .. 2 * MaxSettings
        /\ IsOdd(pendingSeq[k] + 1)
        /\ (pendingSeq[k] + 1) \div 2 = pendingSeq[k] \div 2
    <2>1. pendingSeq[k] \in 0 .. 2 * MaxSettings /\ pendingSeq[k] \div 2 < MaxSettings
      BY <1>1 DEF beginSettings, settingsPublished
    <2>2. /\ IsOdd(pendingSeq[k] + 1) /\ pendingSeq[k] + 1 <= 2 * MaxSettings
          /\ (pendingSeq[k] + 1) \div 2 = pendingSeq[k] \div 2
      BY <1>1, <2>1, Halves
    <2>3. pendingSeq' = [pendingSeq EXCEPT ![k] = @ + 1]
      BY <2>2 DEF beginSettings
    <2> QED
      BY <2>1, <2>2, <2>3, SettingsAssumption
  <1>3. SettingsTypeOK'
    BY <1>1, <1>2 DEF beginSettings, SettingsTypeOK
  <1>4. PublisherInv'
    BY <1>1, <1>2 DEF beginSettings, PublisherInv, SettingsTypeOK, settingsPublished
  <1>5. LookInv'
    <2>1. ASSUME NEW j \in Kinds, Copying(j)'
          PROVE  /\ ~IsOdd(seq1') /\ seq1' <= pendingSeq'[j]
                 /\ seq1' = pendingSeq'[j] =>
                      \A w \in SettingWords \ uncopied' : copied'[w] = seq1' \div 2
      <3>1. Copying(j) /\ UNCHANGED <<seq1, copied, uncopied>>
        BY <2>1 DEF beginSettings, Copying
      <3>2. ~IsOdd(seq1) /\ seq1 <= pendingSeq[j] /\ seq1 \in Nat /\ pendingSeq[j] \in Nat
        <4>1. seq1 \in 0 .. 2 * MaxSettings /\ pendingSeq[j] \in 0 .. 2 * MaxSettings
          BY DEF SettingsTypeOK
        <4> QED
          BY <3>1, <4>1, SettingsAssumption DEF LookInv
      <3>3. CASE j = k
        BY <1>1, <1>2, <3>1, <3>2, <3>3
      <3>4. CASE j # k
        BY <1>1, <1>2, <3>1, <3>4 DEF LookInv
      <3> QED
        BY <3>3, <3>4
    <2> QED
      BY <2>1 DEF LookInv
  <1>6. SettingsAreWhole'
    BY DEF beginSettings, SettingsAreWhole
  <1> QED
    BY <1>3, <1>4, <1>5, <1>6

\* A word is stored while the sequence is odd.
LEMMA StoreSettingStep == ASSUME SettingsInv, storeSetting PROVE SettingsInv'
  <1> USE DEF SettingsInv, pendingVars, lookVars, appliedVars
  <1>1. PICK w \in unstored :
          /\ pendingWord' = [pendingWord EXCEPT ![storing][w] = settingsPublished(storing) + 1]
          /\ unstored' = unstored \ {w}
    BY DEF storeSetting
  <1>2. UNCHANGED <<pendingSeq, storing, seq1, looking, copied, uncopied, appliedSeq, applied>>
    BY DEF storeSetting
  <1>3. storing \in Kinds /\ w \in SettingWords /\ IsOdd(pendingSeq[storing])
    BY DEF SettingsTypeOK, PublisherInv
  <1>4. settingsPublished(storing) + 1 \in 0 .. MaxSettings
    <2>1. pendingSeq[storing] \in 0 .. 2 * MaxSettings
      BY <1>3 DEF SettingsTypeOK
    <2> QED
      BY <1>3, <2>1, Halves, SettingsAssumption DEF settingsPublished
  <1>5. SettingsTypeOK'
    BY <1>1, <1>2, <1>3, <1>4 DEF SettingsTypeOK
  <1>6. PublisherInv'
    BY <1>1, <1>2, <1>3 DEF PublisherInv, SettingsTypeOK, settingsPublished, Kinds
  <1>7. LookInv' /\ SettingsAreWhole'
    BY <1>2 DEF LookInv, Copying, SettingsAreWhole
  <1> QED
    BY <1>5, <1>6, <1>7

\* The sequence becomes even when the last word is stored.
LEMMA EndSettingsStep == ASSUME SettingsInv, endSettings PROVE SettingsInv'
  <1> USE DEF SettingsInv, pendingVars, lookVars, appliedVars
  <1>1. storing \in Kinds /\ IsOdd(pendingSeq[storing]) /\ unstored = {}
    BY DEF endSettings, SettingsTypeOK, PublisherInv
  <1>2. /\ pendingSeq \in [Kinds -> 0 .. 2 * MaxSettings]
        /\ pendingSeq' = [pendingSeq EXCEPT ![storing] = @ + 1]
        /\ pendingSeq[storing] + 1 \in 0 .. 2 * MaxSettings
        /\ ~IsOdd(pendingSeq[storing] + 1)
        /\ (pendingSeq[storing] + 1) \div 2 = pendingSeq[storing] \div 2 + 1
    <2>1. pendingSeq[storing] \in 0 .. 2 * MaxSettings
      BY <1>1 DEF SettingsTypeOK
    <2>2. /\ ~IsOdd(pendingSeq[storing] + 1) /\ pendingSeq[storing] + 1 <= 2 * MaxSettings
          /\ (pendingSeq[storing] + 1) \div 2 = pendingSeq[storing] \div 2 + 1
      BY <1>1, <2>1, Halves
    <2>3. /\ pendingSeq \in [Kinds -> 0 .. 2 * MaxSettings]
          /\ pendingSeq' = [pendingSeq EXCEPT ![storing] = @ + 1]
      BY DEF endSettings, SettingsTypeOK
    <2> QED
      BY <2>1, <2>2, <2>3, SettingsAssumption
  <1>3. UNCHANGED <<pendingWord, unstored, looking, seq1, copied, uncopied, appliedSeq, applied>>
        /\ storing' = "none"
    BY DEF endSettings
  <1>4. SettingsTypeOK'
    BY <1>1, <1>2, <1>3 DEF SettingsTypeOK
  <1>5. PublisherInv'
    <2>1. pendingWord[storing] = Record((pendingSeq[storing] + 1) \div 2)
      <3>1. \A w \in SettingWords : pendingWord[storing][w] = (pendingSeq[storing] + 1) \div 2
        BY <1>1, <1>2 DEF PublisherInv, settingsPublished
      <3>2. pendingWord[storing] \in [SettingWords -> 0 .. MaxSettings]
        BY <1>1 DEF SettingsTypeOK
      <3> QED
        BY <3>1, <3>2 DEF Record
    <2> QED
      BY <1>1, <1>2, <1>3, <2>1 DEF PublisherInv, settingsPublished, Kinds, Record
  <1>6. LookInv'
    <2>1. ASSUME NEW j \in Kinds, Copying(j)'
          PROVE  /\ ~IsOdd(seq1') /\ seq1' <= pendingSeq'[j]
                 /\ seq1' = pendingSeq'[j] =>
                      \A w \in SettingWords \ uncopied' : copied'[w] = seq1' \div 2
      <3>1. Copying(j)
        BY <1>3, <2>1 DEF Copying
      <3>2. ~IsOdd(seq1) /\ seq1 <= pendingSeq[j] /\ seq1 \in Nat /\ pendingSeq[j] \in Nat
        <4>1. seq1 \in 0 .. 2 * MaxSettings /\ pendingSeq[j] \in 0 .. 2 * MaxSettings
          BY DEF SettingsTypeOK
        <4> QED
          BY <3>1, <4>1, SettingsAssumption DEF LookInv
      <3>3. CASE j = storing
        BY <1>1, <1>2, <1>3, <3>2, <3>3
      <3>4. CASE j # storing
        BY <1>2, <1>3, <3>1, <3>4 DEF LookInv
      <3> QED
        BY <3>3, <3>4
    <2> QED
      BY <2>1 DEF LookInv
  <1>7. SettingsAreWhole'
    BY <1>3 DEF SettingsAreWhole
  <1> QED
    BY <1>4, <1>5, <1>6, <1>7

\* The flight loop looks, copies and applies, or looks another time.
LEMMA LookStep == ASSUME SettingsInv, applySettings PROVE SettingsInv'
  <1> USE DEF SettingsInv, pendingVars, lookVars, appliedVars
  <1>1. PublisherInv' /\ UNCHANGED <<pendingSeq, pendingWord, storing, unstored>>
    BY DEF applySettings, startLook, loadSeq1, copySetting, loadSeq2, PublisherInv,
       settingsPublished
  <1>2. CASE startLook
    BY <1>1, <1>2 DEF startLook, SettingsTypeOK, LookInv, Copying, SettingsAreWhole, Kinds
  <1>3. CASE loadSeq1
    <2>1. SettingsTypeOK'
      BY <1>1, <1>3 DEF loadSeq1, leave, SettingsTypeOK, Kinds
    <2>2. LookInv'
      <3>1. ASSUME NEW k \in Kinds, Copying(k)'
            PROVE  /\ ~IsOdd(seq1') /\ seq1' = pendingSeq'[k] /\ seq1' <= pendingSeq'[k]
                   /\ uncopied' = SettingWords
        <4>1. ~IsOdd(seq1') /\ seq1' = pendingSeq[k] /\ uncopied' = SettingWords
          BY <1>3, <3>1 DEF loadSeq1, leave, worthCopying, Copying, Kinds
        <4>2. pendingSeq[k] \in 0 .. 2 * MaxSettings
          BY DEF SettingsTypeOK
        <4> QED
          BY <1>1, <4>1, <4>2, SettingsAssumption
      <3> QED
        BY <1>1, <3>1 DEF LookInv
    <2>3. SettingsAreWhole'
      BY <1>3 DEF loadSeq1, SettingsAreWhole
    <2> QED
      BY <1>1, <2>1, <2>2, <2>3
  <1>4. ASSUME NEW k \in Kinds, copySetting(k) PROVE SettingsInv'
    <2>1. PICK w \in uncopied :
            copied' = [copied EXCEPT ![w] = pendingWord[k][w]] /\ uncopied' = uncopied \ {w}
      BY <1>4 DEF copySetting
    <2>2. Copying(k) /\ UNCHANGED <<looking, seq1, appliedSeq, applied>>
      BY <1>4 DEF copySetting
    <2>3. SettingsTypeOK'
      BY <1>1, <2>1, <2>2 DEF SettingsTypeOK
    <2>4. LookInv'
      <3>1. ASSUME NEW j \in Kinds, Copying(j)'
            PROVE  j = k /\ ~IsOdd(seq1) /\ seq1 <= pendingSeq[k]
        BY <2>2, <3>1 DEF Copying, LookInv, Kinds
      <3>2. seq1 = pendingSeq[k] =>
              \A v \in SettingWords \ uncopied' : copied'[v] = seq1 \div 2
        <4> SUFFICES ASSUME seq1 = pendingSeq[k], NEW v \in SettingWords \ uncopied'
                     PROVE  copied'[v] = seq1 \div 2
          OBVIOUS
        <4>1. pendingWord[k][v] = seq1 \div 2
          BY <2>2 DEF LookInv, PublisherInv, settingsPublished, Record
        <4>2. v # w => copied[v] = seq1 \div 2
          BY <2>1, <2>2 DEF LookInv
        <4> QED
          BY <2>1, <4>1, <4>2 DEF SettingsTypeOK
      <3> QED
        BY <1>1, <2>2, <3>1, <3>2 DEF LookInv
    <2>5. SettingsAreWhole'
      BY <2>2 DEF SettingsAreWhole
    <2> QED
      BY <1>1, <2>3, <2>4, <2>5
  <1>5. ASSUME NEW k \in Kinds, loadSeq2(k) PROVE SettingsInv'
    <2>1. /\ Copying(k) /\ uncopied = {} /\ UNCHANGED <<seq1, copied, uncopied>>
          /\ looking' \in {"mixer", "none"}
      BY <1>5 DEF loadSeq2, leave
    <2>2. SettingsTypeOK'
      BY <1>1, <1>5, <2>1 DEF loadSeq2, SettingsTypeOK, Kinds
    <2>3. LookInv'
      BY <2>1 DEF LookInv, Copying, Kinds
    <2>4. SettingsAreWhole'
      <3>1. CASE unchanged(k)
        <4>1. copied = Record(pendingSeq[k] \div 2)
          BY <2>1, <3>1 DEF unchanged, LookInv, SettingsTypeOK, Record
        <4>2. applied' = [applied EXCEPT ![k] = copied]
              /\ appliedSeq' = [appliedSeq EXCEPT ![k] = pendingSeq[k]]
          BY <1>5, <3>1 DEF loadSeq2
        <4> QED
          BY <4>1, <4>2 DEF SettingsAreWhole, SettingsTypeOK, Record
      <3>2. CASE ~unchanged(k)
        BY <1>5, <3>2 DEF loadSeq2, SettingsAreWhole
      <3> QED
        BY <3>1, <3>2
    <2> QED
      BY <1>1, <2>2, <2>3, <2>4
  <1> QED
    BY <1>2, <1>3, <1>4, <1>5 DEF applySettings

\* Every step of the two sides keeps settings whole.
LEMMA SettingsStep == SettingsInv /\ [SettingsNext]_settingsVars => SettingsInv'
  <1> SUFFICES ASSUME SettingsInv, [SettingsNext]_settingsVars PROVE SettingsInv'
    OBVIOUS
  <1>1. CASE UNCHANGED settingsVars
    BY <1>1 DEF settingsVars, pendingVars, lookVars, appliedVars, SettingsInv, SettingsTypeOK,
       PublisherInv, settingsPublished, LookInv, Copying, SettingsAreWhole
  <1> QED
    BY <1>1, BeginSettingsStep, StoreSettingStep, EndSettingsStep, LookStep
       DEF SettingsNext, publishSettings

-----------------------------------------------------------------------------
(* The servo frames.                                                        *)

\* Four pulses of one frame, or of two neighbours with the throttle in the lead.
InStep(pulse) ==
    \A c \in Channels \ {"throttle"} :
        pulse[c] <= pulse["throttle"] /\ pulse["throttle"] <= pulse[c] + 1

\* FIFOs that are equally long and in step pulse by pulse.
Level(queue) ==
    \A c \in Channels :
        /\ Len(queue[c]) = Len(queue["throttle"])
        /\ \A j \in 1 .. Len(queue["throttle"]) :
             queue[c][j] <= queue["throttle"][j] /\ queue["throttle"][j] <= queue[c][j] + 1

\* The channels latched so far; the throttle is latched last.
Latched(c) ==
    \/ c = "roll" /\ latched >= 1
    \/ c = "pitch" /\ latched >= 2
    \/ c = "yaw" /\ latched >= 3

\* The channels stored so far are of the frame, the others at most one behind;
\* the throttle is stored first.
StoreInv ==
    /\ \A c \in Channels : frame <= pendingFrame[c] + 1 /\ pendingFrame[c] <= frame
    /\ \A i \in 1 .. stored : pendingFrame[StoreOrder[i]] = frame
    /\ stored = 0 => \A c \in Channels : pendingFrame[c] = pendingFrame["throttle"]

\* What a latch has taken is not ahead of the throttle and at most one frame
\* behind; as long as no frame was begun during it, it is all of one frame.
LatchInv ==
    /\ latched = 0 => ~begun
    /\ \A c \in Channels :
         Latched(c) => sent[c] <= pendingFrame["throttle"] /\ frame <= sent[c] + 1
    /\ latched > 0 /\ ~begun =>
         stored = 4 /\ \A c \in Channels : Latched(c) => sent[c] = frame

\* The FIFOs are equally long but for the pulses of the latch under way, and
\* what lies side by side in them was latched together.
FifoInv ==
    /\ \A c \in Channels :
         Len(fifo[c]) = Len(fifo["throttle"])
                        + (IF Latched(c) /\ Len(fifo["throttle"]) < FifoDepth THEN 1 ELSE 0)
    /\ \A c \in Channels : \A j \in 1 .. Len(fifo["throttle"]) :
         fifo[c][j] <= fifo["throttle"][j] /\ fifo["throttle"][j] <= fifo[c][j] + 1
    /\ \A c \in Channels :
         Latched(c) /\ Len(fifo["throttle"]) < FifoDepth =>
           fifo[c][Len(fifo["throttle"]) + 1] = sent[c]

OutputInv ==
    /\ OutputTypeOK /\ StoreInv /\ LatchInv /\ FifoInv
    /\ ThrottleLeads /\ PulsesStayInStep

\* The orders in which channels are stored and latched.
LEMMA Orders ==
    /\ Len(StoreOrder) = 4 /\ Len(LatchOrder) = 4
    /\ StoreOrder[1] = "throttle" /\ StoreOrder[2] = "roll"
    /\ StoreOrder[3] = "pitch" /\ StoreOrder[4] = "yaw"
    /\ LatchOrder[1] = "roll" /\ LatchOrder[2] = "pitch"
    /\ LatchOrder[3] = "yaw" /\ LatchOrder[4] = "throttle"
  BY DEF StoreOrder, LatchOrder

\* The types, with the lengths of the two orders put in.
LEMMA OutputTypes ==
    ASSUME OutputTypeOK
    PROVE  /\ pendingFrame \in [Channels -> Nat] /\ frame \in Nat /\ frame <= MaxFrames
           /\ stored \in 0 .. 4 /\ latched \in 0 .. 3 /\ due \in Nat
           /\ begun \in BOOLEAN /\ stalled \in BOOLEAN
           /\ sent \in [Channels -> Nat] /\ played \in [Channels -> Nat]
           /\ \A c \in Channels : fifo[c] \in Seq(Nat) /\ Len(fifo[c]) <= FifoDepth
  <1>1. MaxFrames \in Nat /\ MaxHeld \in Nat
    BY OutputAssumption
  <1>2. ASSUME NEW c \in Channels PROVE fifo[c] \in Seq(Nat) /\ Len(fifo[c]) <= FifoDepth
    <2>1. fifo[c] \in Seq(0 .. MaxFrames) /\ Len(fifo[c]) <= FifoDepth
      BY DEF OutputTypeOK
    <2>2. 0 .. MaxFrames \subseteq Nat
      OBVIOUS
    <2> QED
      BY <2>1, <2>2, SeqMonotonic
  <1> QED
    BY <1>1, <1>2, Orders DEF OutputTypeOK

\* All channels begin level.
LEMMA OutputInitInv == OutputInit => OutputInv
  <1> SUFFICES ASSUME OutputInit PROVE OutputInv
    OBVIOUS
  <1> USE OutputAssumption, Orders DEF OutputInit
  <1>1. OutputTypeOK
    <2>1. \A c \in Channels : fifo[c] \in Seq(0 .. MaxFrames) /\ Len(fifo[c]) <= FifoDepth
      OBVIOUS
    <2>2. /\ pendingFrame \in [Channels -> 0 .. MaxFrames] /\ sent \in [Channels -> 0 .. MaxFrames]
          /\ played \in [Channels -> 0 .. MaxFrames]
      OBVIOUS
    <2>3. /\ frame \in 0 .. MaxFrames /\ stored \in 0 .. Len(StoreOrder) /\ due \in 0 .. MaxHeld
          /\ latched \in 0 .. Len(LatchOrder) - 1
      OBVIOUS
    <2>4. begun \in BOOLEAN /\ stalled \in BOOLEAN
      OBVIOUS
    <2> QED
      BY <2>1, <2>2, <2>3, <2>4 DEF OutputTypeOK
  <1>2. StoreInv
    <2>1. \A i \in 1 .. stored : StoreOrder[i] \in Channels
      BY DEF Channels
    <2> QED
      BY <2>1 DEF StoreInv
  <1>3. LatchInv /\ FifoInv
    BY DEF LatchInv, FifoInv, Latched, Channels
  <1>4. ThrottleLeads /\ PulsesStayInStep
    BY DEF ThrottleLeads, PulsesStayInStep, Channels
  <1> QED
    BY <1>1, <1>2, <1>3, <1>4 DEF OutputInv

\* The flight loop begins the frame after the one it has stored.
LEMMA BeginFrameStep == ASSUME OutputInv, beginFrame PROVE OutputInv'
  <1> USE DEF OutputInv, frameVars, latchVars, pioVars
  <1>1. /\ pendingFrame \in [Channels -> Nat] /\ frame \in Nat /\ latched \in 0 .. 3
        /\ sent \in [Channels -> Nat]
    BY OutputTypes
  <1>2. /\ stored = 4 /\ ~begun /\ stored' = 0
        /\ frame' = frame \/ frame' = frame + 1
        /\ UNCHANGED <<pendingFrame, latched, sent, fifo, played>>
    <2>1. frame = MaxFrames \/ frame < MaxFrames
      BY OutputAssumption DEF OutputTypeOK
    <2> QED
      BY <2>1, Orders DEF beginFrame
  <1>3. \A c \in Channels : pendingFrame[c] = frame
    <2>1. \A i \in 1 .. 4 : pendingFrame[StoreOrder[i]] = frame
      BY <1>2 DEF StoreInv
    <2> QED
      BY <2>1, Orders DEF Channels
  <1>4. OutputTypeOK'
    BY Orders, OutputAssumption DEF beginFrame, OutputTypeOK
  <1>5. StoreInv'
    BY <1>1, <1>2, <1>3 DEF StoreInv, Channels
  <1>6. LatchInv'
    <2>1. \A c \in Channels : Latched(c) => sent[c] = frame
      BY <1>1, <1>2 DEF LatchInv, Latched
    <2>2. (latched' > 0 => begun') /\ (latched' = 0 => ~begun')
      <3>1. begun' <=> latched > 0
        BY DEF beginFrame
      <3> QED
        BY <1>1, <1>2, <3>1
    <2>3. ASSUME NEW c \in Channels, Latched(c)'
          PROVE  sent'[c] <= pendingFrame'["throttle"] /\ frame' <= sent'[c] + 1
      <3>1. sent[c] = frame /\ sent'[c] = frame
        BY <1>2, <2>1, <2>3 DEF Latched
      <3>2. pendingFrame'["throttle"] = frame
        BY <1>2, <1>3 DEF Channels
      <3> QED
        BY <1>1, <1>2, <3>1, <3>2
    <2> QED
      BY <2>2, <2>3 DEF LatchInv
  <1>7. FifoInv' /\ ThrottleLeads' /\ PulsesStayInStep'
    BY <1>2 DEF FifoInv, ThrottleLeads, PulsesStayInStep, Latched
  <1> QED
    BY <1>4, <1>5, <1>6, <1>7

\* A channel of the frame is stored.
LEMMA StoreChannelStep == ASSUME OutputInv, storeChannel PROVE OutputInv'
  <1> USE DEF OutputInv, frameVars, latchVars, pioVars
  <1> DEFINE c == StoreOrder[stored + 1]
  <1>1. /\ pendingFrame \in [Channels -> Nat] /\ frame \in Nat /\ latched \in 0 .. 3
        /\ sent \in [Channels -> Nat] /\ stored \in 0 .. 3
    BY OutputTypes, Orders DEF storeChannel
  <1>2. /\ pendingFrame' = [pendingFrame EXCEPT ![c] = frame] /\ stored' = stored + 1
        /\ UNCHANGED <<frame, begun, latched, sent, fifo, played>>
    BY DEF storeChannel
  <1>3. c \in Channels /\ (stored = 0 => c = "throttle") /\ (stored > 0 => c # "throttle")
    BY <1>1, Orders DEF Channels
  <1>4. OutputTypeOK'
    BY <1>1, <1>3, Orders DEF storeChannel, OutputTypeOK
  <1> HIDE DEF c
  <1>5. StoreInv'
    <2>1. \A d \in Channels : frame' <= pendingFrame'[d] + 1 /\ pendingFrame'[d] <= frame'
      BY <1>1, <1>2, <1>3 DEF StoreInv
    <2>2. ASSUME NEW i \in 1 .. stored + 1 PROVE pendingFrame'[StoreOrder[i]] = frame
      <3>1. StoreOrder[i] \in Channels
        BY <1>1, Orders DEF Channels
      <3>2. i = stored + 1 \/ i \in 1 .. stored
        BY <1>1
      <3> QED
        BY <1>1, <1>2, <1>3, <3>1, <3>2 DEF StoreInv, c
    <2> QED
      BY <1>1, <1>2, <2>1, <2>2 DEF StoreInv
  <1>6. LatchInv'
    <2>1. pendingFrame["throttle"] <= pendingFrame'["throttle"]
          /\ pendingFrame["throttle"] \in Nat /\ pendingFrame'["throttle"] \in Nat
      BY <1>1, <1>2, <1>3 DEF StoreInv, Channels
    <2>2. latched > 0 => begun
      BY <1>1 DEF LatchInv
    <2> QED
      BY <1>1, <1>2, <2>1, <2>2 DEF LatchInv, Latched
  <1>7. FifoInv' /\ ThrottleLeads' /\ PulsesStayInStep'
    BY <1>2 DEF FifoInv, ThrottleLeads, PulsesStayInStep, Latched
  <1> QED
    BY <1>4, <1>5, <1>6, <1>7

\* Between two latches the FIFOs are equally long and in step.
LEMMA FifosLevel == OutputTypeOK /\ latched = 0 => (FifoInv <=> Level(fifo))
  <1> SUFFICES ASSUME OutputTypeOK, latched = 0 PROVE FifoInv <=> Level(fifo)
    OBVIOUS
  <1>1. \A c \in Channels : ~Latched(c) /\ Len(fifo[c]) \in Nat
    BY OutputTypes, LenProperties DEF Latched
  <1>2. "throttle" \in Channels
    BY DEF Channels
  <1>3. ASSUME NEW c \in Channels
        PROVE  Len(fifo["throttle"])
                 + (IF Latched(c) /\ Len(fifo["throttle"]) < FifoDepth THEN 1 ELSE 0)
               = Len(fifo["throttle"])
    <2> SUFFICES Len(fifo["throttle"]) + 0 = Len(fifo["throttle"])
      BY <1>1
    <2> QED
      BY <1>1, <1>2
  <1> QED
    BY <1>1, <1>3 DEF FifoInv, Level

\* FIFOs that are in step stay so when every servo takes a pulse, and the pulses
\* taken are in step.
LEMMA TakePulses ==
    ASSUME NEW queue, NEW rest, NEW pulse, Level(queue),
           \A c \in Channels : /\ queue[c] \in Seq(0 .. MaxFrames)
                               /\ Len(queue[c]) <= FifoDepth /\ queue[c] # <<>>,
           rest = [c \in Channels |-> Tail(queue[c])],
           pulse = [c \in Channels |-> Head(queue[c])]
    PROVE  /\ \A c \in Channels : rest[c] \in Seq(0 .. MaxFrames) /\ Len(rest[c]) <= FifoDepth
           /\ pulse \in [Channels -> 0 .. MaxFrames]
           /\ Level(rest) /\ InStep(pulse)
  <1>1. ASSUME NEW c \in Channels
        PROVE  /\ rest[c] \in Seq(0 .. MaxFrames) /\ Len(queue[c]) \in Nat \ {0}
               /\ Len(rest[c]) = Len(queue[c]) - 1
               /\ \A j \in 1 .. Len(rest[c]) : rest[c][j] = queue[c][j + 1]
               /\ pulse[c] = queue[c][1] /\ pulse[c] \in 0 .. MaxFrames
    <2>1. queue[c] \in Seq(0 .. MaxFrames) /\ queue[c] # <<>> /\ rest[c] = Tail(queue[c])
          /\ pulse[c] = Head(queue[c])
      OBVIOUS
    <2>2. /\ Head(queue[c]) \in 0 .. MaxFrames /\ Tail(queue[c]) \in Seq(0 .. MaxFrames)
          /\ Len(Tail(queue[c])) = Len(queue[c]) - 1
          /\ \A j \in 1 .. Len(Tail(queue[c])) : Tail(queue[c])[j] = queue[c][j + 1]
      BY ONLY <2>1, HeadTailProperties
    <2>3. Len(queue[c]) \in Nat \ {0} /\ Head(queue[c]) = queue[c][1]
      BY ONLY <2>1
    <2> QED
      BY ONLY <2>1, <2>2, <2>3
  <1>2. "throttle" \in Channels
    BY DEF Channels
  <1>3. ASSUME NEW c \in Channels
        PROVE  rest[c] \in Seq(0 .. MaxFrames) /\ Len(rest[c]) <= FifoDepth
    <2>1. FifoDepth \in Nat /\ Len(queue[c]) <= FifoDepth
      BY OutputAssumption
    <2> QED
      BY <1>1, <2>1
  <1>4. Level(rest)
    <2>1. ASSUME NEW c \in Channels
          PROVE  Len(rest[c]) = Len(rest["throttle"]) /\ Len(rest[c]) \in Nat
                 /\ Len(queue["throttle"]) = Len(rest["throttle"]) + 1
      BY <1>1, <1>2 DEF Level
    <2>2. ASSUME NEW c \in Channels, NEW j \in 1 .. Len(rest["throttle"])
          PROVE  /\ rest[c][j] <= rest["throttle"][j]
                 /\ rest["throttle"][j] <= rest[c][j] + 1
      <3>1. j + 1 \in 1 .. Len(queue["throttle"]) /\ j \in 1 .. Len(rest[c])
        BY <1>2, <2>1
      <3>2. rest[c][j] = queue[c][j + 1] /\ rest["throttle"][j] = queue["throttle"][j + 1]
        BY <1>1, <1>2, <3>1
      <3> QED
        BY <3>1, <3>2 DEF Level
    <2> QED
      BY <2>1, <2>2 DEF Level
  <1>5. InStep(pulse)
    <2>1. 1 \in 1 .. Len(queue["throttle"])
      BY <1>1, <1>2
    <2> QED
      BY <1>1, <1>2, <2>1 DEF Level, InStep
  <1>6. pulse \in [Channels -> 0 .. MaxFrames]
    BY <1>1
  <1> QED
    BY <1>3, <1>4, <1>5, <1>6

\* The state machines take a pulse each, and a frame period begins.
LEMMA FramePeriodStep == ASSUME OutputInv, framePeriod PROVE OutputInv'
  <1> USE DEF OutputInv, frameVars, latchVars, pioVars
  <1>1. latched = 0 /\ UNCHANGED <<pendingFrame, frame, stored, latched, begun, sent>>
    BY DEF framePeriod
  <1>2. StoreInv' /\ LatchInv' /\ ThrottleLeads'
    BY <1>1 DEF StoreInv, LatchInv, ThrottleLeads, Latched
  <1>3. CASE \E c \in Channels : fifo[c] = <<>>
    <2>1. UNCHANGED <<fifo, played>> /\ stalled' = TRUE /\ due' = due + 1 /\ due < MaxHeld
      BY <1>3 DEF framePeriod
    <2>2. OutputTypeOK'
      BY <1>1, <2>1, OutputAssumption DEF OutputTypeOK
    <2> QED
      BY <1>1, <1>2, <2>1, <2>2 DEF FifoInv, PulsesStayInStep, Latched
  <1>4. CASE \A c \in Channels : fifo[c] # <<>>
    <2>1. /\ played' = [c \in Channels |-> Head(fifo[c])]
          /\ fifo' = [c \in Channels |-> Tail(fifo[c])]
          /\ stalled' = stalled /\ due' = due + 1 /\ due < MaxHeld
      BY <1>4 DEF framePeriod
    <2>2. /\ \A c \in Channels : fifo'[c] \in Seq(0 .. MaxFrames) /\ Len(fifo'[c]) <= FifoDepth
          /\ played' \in [Channels -> 0 .. MaxFrames]
          /\ Level(fifo)' /\ InStep(played')
      <3>1. Level(fifo)
        BY <1>1, FifosLevel
      <3>2. \A c \in Channels : /\ fifo[c] \in Seq(0 .. MaxFrames)
                                /\ Len(fifo[c]) <= FifoDepth /\ fifo[c] # <<>>
        BY <1>4 DEF OutputTypeOK
      <3>3. Level(fifo')
        BY <2>1, <3>1, <3>2, TakePulses
      <3>4. Level(fifo)'
        BY <3>3 DEF Level
      <3>5. InStep(played')
        BY <2>1, <3>1, <3>2, TakePulses
      <3>6. played' \in [Channels -> 0 .. MaxFrames]
        BY <2>1, <3>1, <3>2, TakePulses
      <3>7. \A c \in Channels : fifo'[c] \in Seq(0 .. MaxFrames) /\ Len(fifo'[c]) <= FifoDepth
        BY <2>1, <3>1, <3>2, TakePulses
      <3> QED
        BY <3>4, <3>5, <3>6, <3>7
    <2>3. OutputTypeOK'
      <3>1. fifo' \in [Channels -> Seq(0 .. MaxFrames)]
        BY <2>1, <2>2
      <3>2. due' \in 0 .. MaxHeld
        BY <2>1, OutputAssumption DEF OutputTypeOK
      <3>3. /\ pendingFrame' \in [Channels -> 0 .. MaxFrames] /\ frame' \in 0 .. MaxFrames
            /\ stored' \in 0 .. Len(StoreOrder) /\ latched' \in 0 .. Len(LatchOrder) - 1
            /\ sent' \in [Channels -> 0 .. MaxFrames]
        BY <1>1 DEF OutputTypeOK
      <3>4. begun' \in BOOLEAN /\ stalled' \in BOOLEAN
        BY <1>1, <2>1 DEF OutputTypeOK
      <3>5. /\ played' \in [Channels -> 0 .. MaxFrames]
            /\ \A c \in Channels : Len(fifo'[c]) <= FifoDepth
        BY <2>2
      <3> QED
        BY <3>1, <3>2, <3>3, <3>4, <3>5 DEF OutputTypeOK
    <2>4. PulsesStayInStep' /\ FifoInv'
      <3>1. (OutputTypeOK /\ latched = 0 => (FifoInv <=> Level(fifo)))'
        BY FifosLevel, PTL
      <3> QED
        BY <1>1, <2>2, <2>3, <3>1 DEF PulsesStayInStep, InStep
    <2> QED
      BY <1>2, <2>3, <2>4
  <1> QED
    BY <1>3, <1>4

\* A latch of a channel other than the throttle appends its pulse behind those
\* of the earlier latches.
LEMMA LatchSurfaceStep == ASSUME OutputInv, latchChannel, latched < 3 PROVE OutputInv'
  <1> USE DEF OutputInv, frameVars, latchVars, pioVars
  <1> DEFINE depth == Len(fifo["throttle"])
  <1>1. /\ pendingFrame \in [Channels -> Nat] /\ frame \in Nat /\ latched \in 0 .. 2
        /\ sent \in [Channels -> Nat] /\ stored \in 0 .. 4 /\ begun \in BOOLEAN
        /\ \A d \in Channels : fifo[d] \in Seq(Nat) /\ Len(fifo[d]) \in Nat
    BY OutputTypes, LenProperties
  <1>2. PICK c \in Channels : c = LatchOrder[latched + 1]
    BY <1>1, Orders DEF Channels
  <1>3. /\ c # "throttle" /\ ~Latched(c) /\ "throttle" \in Channels
        /\ latched' = latched + 1 =>
             \A d \in Channels : Latched(d)' <=> Latched(d) \/ d = c
    <2>1. latched = 0 \/ latched = 1 \/ latched = 2
      BY <1>1
    <2>2. CASE latched = 0 /\ c = "roll"
      BY <2>2 DEF Channels, Latched
    <2>3. CASE latched = 1 /\ c = "pitch"
      BY <2>3 DEF Channels, Latched
    <2>4. CASE latched = 2 /\ c = "yaw"
      BY <2>4 DEF Channels, Latched
    <2> QED
      BY <1>2, <2>1, <2>2, <2>3, <2>4, Orders
  <1>4. ~(latched + 1 = Len(LatchOrder)) /\ Len(StoreOrder) = 4
    <2>1. latched \in 0 .. 2
      BY <1>1
    <2> QED
      BY ONLY <2>1, Orders
  <1>5. /\ sent' = [sent EXCEPT ![c] = pendingFrame[c]]
        /\ fifo' = [fifo EXCEPT ![c] = put(c, pendingFrame[c])]
        /\ UNCHANGED <<pendingFrame, frame, stored, played, stalled>>
    BY <1>2, <1>4 DEF latchChannel
  <1>6. latched' = latched + 1 /\ due' = due
    <2>1. /\ latched' = (IF latched + 1 = Len(LatchOrder) THEN 0 ELSE latched + 1)
          /\ due' = (IF latched + 1 = Len(LatchOrder) THEN due - 1 ELSE due)
      BY DEF latchChannel
    <2> QED
      BY <1>4, <2>1
  <1>7. begun' \in BOOLEAN /\ (begun' <=> begun \/ stored < 4)
    <2>1. begun' = (~(latched + 1 = Len(LatchOrder)) /\ (begun \/ stored < Len(StoreOrder)))
      BY DEF latchChannel
    <2>2. begun \in BOOLEAN
      BY <1>1
    <2> QED
      BY ONLY <1>4, <2>1, <2>2
  <1>8. Len(fifo[c]) = depth /\ depth \in Nat /\ depth <= FifoDepth /\ FifoDepth \in Nat
    <2>1. Len(fifo[c]) = depth + (IF Latched(c) /\ depth < FifoDepth THEN 1 ELSE 0)
      BY <1>3 DEF FifoInv
    <2>2. Len(fifo[c]) = depth + 0
      BY <1>3, <2>1
    <2> QED
      BY <1>1, <1>3, <2>2, OutputTypes, OutputAssumption
  <1> HIDE DEF depth
  <1>9. /\ fifo[c] \in Seq(0 .. MaxFrames) /\ pendingFrame[c] \in 0 .. MaxFrames
        /\ \A d \in Channels \ {c} : fifo'[d] = fifo[d]
        /\ fifo'[c] = put(c, pendingFrame[c])
    BY <1>3, <1>5 DEF OutputTypeOK
  <1>10. /\ depth = FifoDepth => fifo'[c] = fifo[c]
         /\ depth < FifoDepth => fifo'[c] = Append(fifo[c], pendingFrame[c])
    BY <1>8, <1>9 DEF put
  <1>11. /\ fifo'[c] \in Seq(0 .. MaxFrames)
         /\ Len(fifo'[c]) = depth + (IF depth < FifoDepth THEN 1 ELSE 0)
         /\ \A j \in 1 .. depth : fifo'[c][j] = fifo[c][j]
         /\ depth < FifoDepth => fifo'[c][depth + 1] = pendingFrame[c]
    <2>1. CASE depth = FifoDepth
      <3>1. fifo'[c] = fifo[c] /\ ~(depth < FifoDepth)
        BY <1>8, <1>10, <2>1
      <3> QED
        BY <1>8, <1>9, <3>1
    <2>2. CASE depth < FifoDepth
      <3>1. fifo'[c] = Append(fifo[c], pendingFrame[c]) /\ Len(fifo[c]) = depth
        BY <1>8, <1>10, <2>2
      <3>2. /\ Append(fifo[c], pendingFrame[c]) \in Seq(0 .. MaxFrames)
            /\ Len(Append(fifo[c], pendingFrame[c])) = Len(fifo[c]) + 1
            /\ \A j \in 1 .. Len(fifo[c]) : Append(fifo[c], pendingFrame[c])[j] = fifo[c][j]
            /\ Append(fifo[c], pendingFrame[c])[Len(fifo[c]) + 1] = pendingFrame[c]
        BY <1>9, AppendProperties
      <3> QED
        BY <2>2, <3>1, <3>2
    <2> QED
      BY <1>8, <2>1, <2>2
  <1>12. \A d \in Channels : (Latched(d)' <=> Latched(d) \/ d = c)
    BY <1>3, <1>6
  <1>13. OutputTypeOK'
    <2>1. fifo' \in [Channels -> Seq(0 .. MaxFrames)]
      <3>1. put(c, pendingFrame[c]) \in Seq(0 .. MaxFrames)
        BY <1>9, <1>11
      <3> QED
        BY <1>3, <1>5, <3>1 DEF OutputTypeOK
    <2>2. \A d \in Channels : Len(fifo'[d]) <= FifoDepth
      <3>1. Len(fifo'[c]) <= FifoDepth
        BY <1>8, <1>11
      <3> QED
        BY <1>9, <3>1 DEF OutputTypeOK
    <2>3. /\ pendingFrame' \in [Channels -> 0 .. MaxFrames] /\ frame' \in 0 .. MaxFrames
          /\ sent' \in [Channels -> 0 .. MaxFrames] /\ played' \in [Channels -> 0 .. MaxFrames]
      BY <1>3, <1>5, <1>9 DEF OutputTypeOK
    <2>4. /\ stored' \in 0 .. Len(StoreOrder) /\ due' \in 0 .. MaxHeld
          /\ latched' \in 0 .. Len(LatchOrder) - 1
      BY <1>1, <1>5, <1>6, Orders DEF OutputTypeOK
    <2>5. begun' \in BOOLEAN /\ stalled' \in BOOLEAN
      BY <1>5, <1>7 DEF OutputTypeOK
    <2> QED
      BY <2>1, <2>2, <2>3, <2>4, <2>5 DEF OutputTypeOK
  <1>14. StoreInv' /\ ThrottleLeads' /\ PulsesStayInStep'
    BY <1>1, <1>5, <1>6 DEF StoreInv, ThrottleLeads, PulsesStayInStep
  <1>15. LatchInv'
    <2>1. pendingFrame[c] <= pendingFrame["throttle"] /\ frame <= pendingFrame[c] + 1
      <3>1. CASE stored = 0
        BY <1>1, <1>3, <3>1 DEF StoreInv
      <3>2. CASE stored > 0
        <4>1. pendingFrame["throttle"] = frame
          BY <1>1, <3>2, Orders DEF StoreInv
        <4> QED
          BY <1>3, <4>1 DEF StoreInv
      <3> QED
        BY <1>1, <3>1, <3>2
    <2>2. ASSUME NEW d \in Channels, Latched(d)'
          PROVE  sent'[d] <= pendingFrame["throttle"] /\ frame <= sent'[d] + 1
      BY <1>1, <1>3, <1>5, <1>12, <2>1, <2>2 DEF LatchInv
    <2>3. ASSUME ~begun'
          PROVE  stored = 4 /\ \A d \in Channels : Latched(d)' => sent'[d] = frame
      <3>1. stored = 4 /\ ~begun
        BY <1>1, <1>7, <2>3
      <3>2. pendingFrame[c] = frame
        <4>1. \A i \in 1 .. 4 : pendingFrame[StoreOrder[i]] = frame
          BY <3>1 DEF StoreInv
        <4> QED
          BY <1>3, <4>1, Orders DEF Channels
      <3>3. \A d \in Channels : Latched(d) => sent[d] = frame
        BY <1>1, <3>1 DEF LatchInv, Latched
      <3> QED
        BY <1>1, <1>3, <1>5, <1>12, <3>1, <3>2, <3>3
    <2>4. latched' > 0
      BY <1>1, <1>6
    <2> QED
      BY <1>5, <2>2, <2>3, <2>4 DEF LatchInv
  <1>16. FifoInv'
    <2>1. fifo'["throttle"] = fifo["throttle"]
      BY <1>3, <1>9
    <2>2. ASSUME NEW d \in Channels
          PROVE  /\ Len(fifo'[d]) = depth + (IF Latched(d)' /\ depth < FifoDepth THEN 1 ELSE 0)
                 /\ \A j \in 1 .. depth : fifo'[d][j] <= fifo["throttle"][j]
                                         /\ fifo["throttle"][j] <= fifo'[d][j] + 1
                 /\ Latched(d)' /\ depth < FifoDepth => fifo'[d][depth + 1] = sent'[d]
      <3>1. CASE d = c
        <4>1. sent'[c] = pendingFrame[c]
          BY <1>1, <1>3, <1>5
        <4>2. \A j \in 1 .. depth : fifo[c][j] <= fifo["throttle"][j]
                                   /\ fifo["throttle"][j] <= fifo[c][j] + 1
          BY DEF FifoInv, depth
        <4>3. Latched(c)'
          BY <1>3, <1>12
        <4> QED
          BY <1>11, <3>1, <4>1, <4>2, <4>3
      <3>2. CASE d # c
        <4>1. fifo'[d] = fifo[d] /\ sent'[d] = sent[d] /\ (Latched(d)' <=> Latched(d))
          BY <1>1, <1>5, <1>9, <1>12, <3>2
        <4> QED
          BY <4>1 DEF FifoInv, depth
      <3> QED
        BY <3>1, <3>2
    <2>3. Len(fifo'["throttle"]) = depth
      BY <2>1 DEF depth
    <2> QED
      BY <2>1, <2>2, <2>3 DEF FifoInv
  <1> QED
    BY <1>13, <1>14, <1>15, <1>16

\* The latch of the throttle completes the pulses of a frame period.
LEMMA LatchThrottleStep == ASSUME OutputInv, latchChannel, latched = 3 PROVE OutputInv'
  <1> USE DEF OutputInv, frameVars, latchVars, pioVars
  <1> DEFINE depth == Len(fifo["throttle"])
             filled == [fifo EXCEPT !["throttle"] = put("throttle", pendingFrame["throttle"])]
  <1>1. /\ pendingFrame \in [Channels -> Nat] /\ frame \in Nat /\ sent \in [Channels -> Nat]
        /\ stored \in 0 .. 4 /\ "throttle" \in Channels
        /\ \A d \in Channels : fifo[d] \in Seq(Nat) /\ Len(fifo[d]) \in Nat
    BY OutputTypes, LenProperties DEF Channels
  <1>2. latched + 1 = Len(LatchOrder) /\ LatchOrder[latched + 1] = "throttle"
    BY Orders
  <1>3. /\ sent' = [sent EXCEPT !["throttle"] = pendingFrame["throttle"]]
        /\ UNCHANGED <<pendingFrame, frame, stored>>
    BY <1>2 DEF latchChannel
  <1>4. latched' = 0 /\ due' = due - 1 /\ due > 0
    <2>1. /\ latched' = (IF latched + 1 = Len(LatchOrder) THEN 0 ELSE latched + 1)
          /\ due' = (IF latched + 1 = Len(LatchOrder) THEN due - 1 ELSE due) /\ due > 0
      BY DEF latchChannel
    <2> QED
      BY <1>2, <2>1
  <1>5. begun' = FALSE
    <2>1. begun' = (~(latched + 1 = Len(LatchOrder)) /\ (begun \/ stored < Len(StoreOrder)))
      BY DEF latchChannel
    <2> QED
      BY ONLY <1>2, <2>1
  <1>6. \/ /\ played' = [d \in Channels |-> Head(filled[d])]
           /\ fifo' = [d \in Channels |-> Tail(filled[d])] /\ stalled' = FALSE
        \/ fifo' = filled /\ UNCHANGED <<played, stalled>>
    BY <1>2 DEF latchChannel
  \* Every channel but the throttle has its pulse of this period.
  <1>7. ASSUME NEW d \in Channels, d # "throttle"
        PROVE  /\ Len(fifo[d]) = depth + (IF depth < FifoDepth THEN 1 ELSE 0)
               /\ depth < FifoDepth => fifo[d][depth + 1] = sent[d]
               /\ sent[d] <= pendingFrame["throttle"] /\ frame <= sent[d] + 1
    <2>1. Latched(d)
      BY <1>7 DEF Latched, Channels
    <2> QED
      BY <2>1 DEF FifoInv, LatchInv
  <1>8. depth \in Nat /\ depth <= FifoDepth /\ FifoDepth \in Nat \ {0}
    BY <1>1, OutputTypes, OutputAssumption
  <1>9. InStep(sent')
    <2>1. pendingFrame["throttle"] <= frame
      BY <1>1 DEF StoreInv
    <2>2. /\ sent'["throttle"] = pendingFrame["throttle"] /\ pendingFrame["throttle"] \in Nat
          /\ \A d \in Channels \ {"throttle"} : sent'[d] = sent[d] /\ sent[d] \in Nat
      BY <1>1, <1>3
    <2>3. ASSUME NEW d \in Channels \ {"throttle"}
          PROVE  sent[d] <= pendingFrame["throttle"] /\ pendingFrame["throttle"] <= sent[d] + 1
      <3>1. sent[d] <= pendingFrame["throttle"] /\ frame <= sent[d] + 1
        BY <1>7
      <3>2. sent[d] \in Nat /\ pendingFrame["throttle"] \in Nat /\ frame \in Nat
        BY <1>1
      <3> QED
        BY <2>1, <3>1, <3>2
    <2> QED
      BY <2>2, <2>3 DEF InStep
  <1>10. /\ filled \in [Channels -> Seq(0 .. MaxFrames)]
         /\ \A d \in Channels : Len(filled[d]) <= FifoDepth /\ filled[d] # <<>>
         /\ Level(filled)
    <2>1. /\ fifo["throttle"] \in Seq(0 .. MaxFrames) /\ pendingFrame["throttle"] \in 0 .. MaxFrames
          /\ \A d \in Channels : fifo[d] \in Seq(0 .. MaxFrames) /\ Len(fifo[d]) <= FifoDepth
          /\ \A d \in Channels \ {"throttle"} : filled[d] = fifo[d]
          /\ filled["throttle"] = put("throttle", pendingFrame["throttle"])
      BY <1>1 DEF OutputTypeOK
    <2>2. CASE depth = FifoDepth
      <3>1. filled["throttle"] = fifo["throttle"]
        BY <2>1, <2>2 DEF put
      <3>2. \A d \in Channels : filled[d] = fifo[d] /\ Len(fifo[d]) = depth
        BY <1>7, <1>8, <2>1, <2>2, <3>1
      <3>3. Level(filled)
        BY <1>1, <3>2 DEF Level, FifoInv
      <3>4. filled \in [Channels -> Seq(0 .. MaxFrames)]
        BY <2>1, <3>1 DEF OutputTypeOK
      <3> QED
        BY <1>8, <2>1, <2>2, <3>2, <3>3, <3>4
    <2>3. CASE depth < FifoDepth
      <3>1. filled["throttle"] = Append(fifo["throttle"], pendingFrame["throttle"])
        <4>1. Len(fifo["throttle"]) # FifoDepth
          BY <1>8, <2>3
        <4> QED
          BY <2>1, <4>1 DEF put
      <3>2. /\ filled["throttle"] \in Seq(0 .. MaxFrames) /\ Len(filled["throttle"]) = depth + 1
            /\ \A j \in 1 .. depth : filled["throttle"][j] = fifo["throttle"][j]
            /\ filled["throttle"][depth + 1] = pendingFrame["throttle"]
        <4>1. /\ Append(fifo["throttle"], pendingFrame["throttle"]) \in Seq(0 .. MaxFrames)
              /\ Len(Append(fifo["throttle"], pendingFrame["throttle"])) = depth + 1
              /\ \A j \in 1 .. depth :
                   Append(fifo["throttle"], pendingFrame["throttle"])[j] = fifo["throttle"][j]
              /\ Append(fifo["throttle"], pendingFrame["throttle"])[depth + 1]
                   = pendingFrame["throttle"]
          BY <2>1, AppendProperties
        <4> QED
          BY <3>1, <4>1
      <3>3. filled \in [Channels -> Seq(0 .. MaxFrames)]
        BY <1>1, <2>1, <3>2 DEF OutputTypeOK
      <3>4. ASSUME NEW d \in Channels
            PROVE  /\ Len(filled[d]) = depth + 1
                   /\ \A j \in 1 .. depth + 1 :
                        filled[d][j] <= filled["throttle"][j] /\ filled["throttle"][j] <= filled[d][j] + 1
        <4>1. CASE d = "throttle"
          <5>1. \A j \in 1 .. depth + 1 : filled["throttle"][j] \in Nat
            <6>1. filled["throttle"] \in [1 .. depth + 1 -> 0 .. MaxFrames]
              BY <3>2, LenProperties
            <6> QED
              BY <6>1
          <5> QED
            BY <3>2, <4>1, <5>1
        <4>2. CASE d # "throttle"
          <5>1. /\ filled[d] = fifo[d] /\ Len(fifo[d]) = depth + 1 /\ fifo[d][depth + 1] = sent[d]
            BY <1>7, <2>1, <2>3, <4>2
          <5>2. /\ sent[d] <= pendingFrame["throttle"]
                /\ pendingFrame["throttle"] <= sent[d] + 1
            BY <1>1, <1>3, <1>9, <4>2 DEF InStep
          <5>3. \A j \in 1 .. depth : fifo[d][j] <= fifo["throttle"][j]
                                      /\ fifo["throttle"][j] <= fifo[d][j] + 1
            BY DEF FifoInv
          <5>4. \A j \in 1 .. depth + 1 : j \in 1 .. depth \/ j = depth + 1
            BY <1>8
          <5> QED
            BY <3>2, <5>1, <5>2, <5>3, <5>4
        <4> QED
          BY <4>1, <4>2
      <3>5. Level(filled)
        BY <1>1, <3>4 DEF Level
      <3> QED
        BY <1>8, <2>3, <3>3, <3>4, <3>5
    <2> QED
      BY <1>8, <2>2, <2>3
  <1> HIDE DEF filled, depth
  <1>11. /\ fifo' \in [Channels -> Seq(0 .. MaxFrames)]
         /\ \A d \in Channels : Len(fifo'[d]) <= FifoDepth
         /\ played' \in [Channels -> 0 .. MaxFrames]
         /\ Level(fifo') /\ InStep(played')
    <2>1. CASE /\ played' = [d \in Channels |-> Head(filled[d])]
               /\ fifo' = [d \in Channels |-> Tail(filled[d])]
      <3>1. /\ \A d \in Channels : fifo'[d] \in Seq(0 .. MaxFrames) /\ Len(fifo'[d]) <= FifoDepth
            /\ Level(fifo')
        BY <1>10, <2>1, TakePulses
      <3>2. played' \in [Channels -> 0 .. MaxFrames] /\ InStep(played')
        BY <1>10, <2>1, TakePulses
      <3> QED
        BY <2>1, <3>1, <3>2
    <2>2. CASE fifo' = filled /\ played' = played
      BY <1>10, <2>2 DEF OutputTypeOK, PulsesStayInStep, InStep
    <2> QED
      BY <1>6, <2>1, <2>2
  <1>12. OutputTypeOK'
    <2>1. pendingFrame' \in [Channels -> 0 .. MaxFrames] /\ frame' \in 0 .. MaxFrames
          /\ sent' \in [Channels -> 0 .. MaxFrames]
      BY <1>1, <1>3 DEF OutputTypeOK
    <2>2. /\ stored' \in 0 .. Len(StoreOrder) /\ due' \in 0 .. MaxHeld
          /\ latched' \in 0 .. Len(LatchOrder) - 1
      BY <1>3, <1>4, Orders, OutputAssumption DEF OutputTypeOK
    <2>3. begun' \in BOOLEAN /\ stalled' \in BOOLEAN
      BY <1>5, <1>6 DEF OutputTypeOK
    <2> QED
      BY <1>11, <2>1, <2>2, <2>3 DEF OutputTypeOK
  <1>13. StoreInv' /\ LatchInv'
    <2>1. \A d \in Channels : ~Latched(d)'
      BY <1>4 DEF Latched
    <2> QED
      BY <1>3, <1>4, <1>5, <2>1 DEF StoreInv, LatchInv
  <1>14. ThrottleLeads' /\ PulsesStayInStep'
    BY <1>9, <1>11 DEF ThrottleLeads, PulsesStayInStep, InStep
  <1>15. FifoInv'
    <2>1. (OutputTypeOK /\ latched = 0 => (FifoInv <=> Level(fifo)))'
      BY FifosLevel, PTL
    <2>2. Level(fifo)'
      BY <1>11 DEF Level
    <2> QED
      BY <1>4, <1>12, <2>1, <2>2
  <1> QED
    BY <1>12, <1>13, <1>14, <1>15

\* Every step keeps the channels within one frame of each other.
LEMMA OutputStep == OutputInv /\ [OutputNext]_outputVars => OutputInv'
  <1> SUFFICES ASSUME OutputInv, [OutputNext]_outputVars PROVE OutputInv'
    OBVIOUS
  <1>1. CASE latchChannel
    <2>1. latched < 3 \/ latched = 3
      BY OutputTypes DEF OutputInv
    <2> QED
      BY <1>1, <2>1, LatchSurfaceStep, LatchThrottleStep
  <1>2. CASE UNCHANGED outputVars
    BY <1>2 DEF outputVars, frameVars, latchVars, pioVars, OutputInv, OutputTypeOK, StoreInv,
       LatchInv, FifoInv, Latched, ThrottleLeads, PulsesStayInStep
  <1> QED
    BY <1>1, <1>2, BeginFrameStep, StoreChannelStep, FramePeriodStep DEF OutputNext

-----------------------------------------------------------------------------
(* The log and the telemetry port.                                          *)

Chained(bytes) == \A i \in 1 .. Len(bytes) - 1 : Follows(bytes[i], bytes[i + 1])

\* The byte after which the next one queued will be sent, and whether it ends a
\* record or belongs to a packet.
lastByte == IF txQueue = <<>> THEN wire ELSE txQueue[Len(txQueue)]
Complete(b) == b.from = "log" => b.left = 0

\* What drain() has found out still holds at its later steps; the room it has
\* seen cannot shrink, so that a record is never cut.
DrainInv ==
    /\ logPc \in {"card", "uart", "write", "pop"} => logQueue # <<>> /\ drainedNow < DrainMax
    /\ logPc = "card" => ToSd
    /\ toSend # <<>> => logPc \in {"write", "packet"}
    /\ logPc = "write" => Len(toSend) <= availableForWrite

\* Each record made is queued, delivered or dropped, some twice; those queued
\* are in order.
CountInv ==
    /\ delivered + Len(logQueue) <= logSequence
    /\ droppedRecords <= MaxRecords + logSequence

SortedInv ==
    /\ \A i, j \in 1 .. Len(logQueue) : i <= j => logQueue[i] <= logQueue[j]
    /\ \A i \in 1 .. Len(logQueue) : logQueue[i] <= logSequence

\* Only texts mix with other writes. A text goes on while it has bytes; unless
\* writes have mixed, the head it has looked at is still the head, with room
\* behind it.
TextInv ==
    /\ texts = 0 => textPc = "idle" /\ ~uartMixed
    /\ \A i \in 1 .. Len(text) : text[i] = PacketByte
    /\ textHoldsHead => text # <<>>
    /\ ~uartMixed =>
         /\ textHoldsHead => textNext = txNext(txHead) /\ txNext(txHead) # txTail
         /\ textPc \in {"byte", "head"} => textSlot = txHead
         /\ textPc = "head" => txRing[txHead] = PacketByte

\* The bytes sent, queued and still to be queued follow each other.
StreamInv ==
    /\ Chained(txQueue) /\ Chained(toSend)
    /\ txQueue # <<>> => Follows(wire, txQueue[1])
    /\ logPc = "write" /\ toSend # <<>> =>
         Follows(lastByte, toSend[1]) /\ toSend[Len(toSend)].left = 0
    /\ logPc # "write" \/ toSend = <<>> => Complete(lastByte)
    /\ logPc = "packet" => \A i \in 1 .. Len(toSend) : toSend[i].from = "packet"

OnTheWay ==
    {wire} \cup {txQueue[i] : i \in 1 .. Len(txQueue)} \cup {toSend[i] : i \in 1 .. Len(toSend)}

\* No byte on its way is of a record later than those that wait.
OrderInv ==
    \A b \in OnTheWay :
      b.from = "log" => /\ b.of <= logSequence
                        /\ \A i \in 1 .. Len(logQueue) : b.of <= logQueue[i]

\* Writes that have mixed leave nothing to say about the bytes.
BlackboxInv ==
    /\ BlackboxTypeOK /\ DrainInv /\ CountInv /\ SortedInv /\ TextInv
    /\ LossIsCounted /\ BytesAreServed
    /\ ~uartMixed => StreamInv /\ OrderInv

\* The transmit queue is a ring of one slot more than it has room.
LEMMA TxRing ==
    ASSUME BlackboxTypeOK
    PROVE  /\ Ring(txRing, txHead, txTail, TxRoom + 1, Bytes)
           /\ txUsed = RingUsed(txHead, txTail, TxRoom + 1)
           /\ txQueue = RingQueue(txRing, txHead, txTail, TxRoom + 1)
           /\ txNext(txHead) = (txHead + 1) % (TxRoom + 1) /\ txNext(txHead) \in TxSlots
           /\ txNext(txTail) = (txTail + 1) % (TxRoom + 1) /\ txNext(txTail) \in TxSlots
           /\ TxRoom + 1 \in Nat \ {0} /\ TxSlots = 0 .. (TxRoom + 1) - 1
  <1>1. /\ TxRoom \in Nat \ {0} /\ txHead \in 0 .. TxRoom /\ txTail \in 0 .. TxRoom
        /\ txRing \in [0 .. TxRoom -> Bytes]
    BY BlackboxAssumption DEF BlackboxTypeOK, TxSlots
  <1>2. TxRoom + 1 \in Nat \ {0} /\ (TxRoom + 1) - 1 = TxRoom /\ TxSlots = 0 .. (TxRoom + 1) - 1
    BY <1>1 DEF TxSlots
  <1>3. Ring(txRing, txHead, txTail, TxRoom + 1, Bytes)
    BY <1>1, <1>2 DEF Ring
  <1>4. txHead + TxRoom + 1 - txTail = txHead + (TxRoom + 1) - txTail
    BY <1>1
  <1>5. txUsed = RingUsed(txHead, txTail, TxRoom + 1)
    BY <1>4 DEF txUsed, RingUsed
  <1>6. txNext(txHead) \in TxSlots /\ txNext(txTail) \in TxSlots
    BY <1>1 DEF txNext, TxSlots
  <1> QED
    BY <1>2, <1>3, <1>5, <1>6 DEF txQueue, RingQueue, txNext

\* It holds bytes; with all slots but one taken it is full, with none it is empty.
LEMMA TxSlotsUsed ==
    ASSUME BlackboxTypeOK
    PROVE  /\ txUsed \in 0 .. TxRoom
           /\ txQueue \in Seq(Bytes) /\ Len(txQueue) = txUsed
           /\ txUsed = 0 <=> txHead = txTail
           /\ txUsed = TxRoom <=> txNext(txHead) = txTail
  <1> DEFINE n == TxRoom + 1
             used == RingUsed(txHead, txTail, n)
  <1>1. n \in Nat \ {0} /\ txHead \in 0 .. n - 1 /\ txTail \in 0 .. n - 1
    BY TxRing DEF Ring
  <1>2. txQueue \in Seq(Bytes) /\ Len(txQueue) = used
    BY TxRing, RingIsSeq
  <1>3. used = txUsed /\ txNext(txHead) = (txHead + 1) % n
    BY TxRing
  <1> HIDE DEF n
  <1>4. /\ used \in 0 .. n - 1
        /\ used = 0 <=> txHead = txTail
        /\ used = n - 1 <=> (txHead + 1) % n = txTail
    BY <1>1, RingCount
  <1>5. n - 1 = TxRoom
    BY BlackboxAssumption DEF n
  <1> QED
    BY <1>2, <1>3, <1>4, <1>5

\* Where neither end nor a waiting slot changes, the same bytes wait.
LEMMA TxStands ==
    ASSUME BlackboxTypeOK, UNCHANGED <<txHead, txTail>>,
           \A i \in TxSlots \ {txHead} : txRing'[i] = txRing[i]
    PROVE  txQueue' = txQueue /\ txUsed' = txUsed /\ availableForWrite' = availableForWrite
  <1>1. txUsed' = txUsed
    BY DEF txUsed
  <1>2. txQueue' = RingQueue(txRing', txHead, txTail, TxRoom + 1)
    <2>1. txUsed = RingUsed(txHead, txTail, TxRoom + 1)
      BY TxRing
    <2> QED
      BY <1>1, <2>1 DEF txQueue, RingQueue
  <1>3. RingQueue(txRing', txHead, txTail, TxRoom + 1) = RingQueue(txRing, txHead, txTail, TxRoom + 1)
    <2>1. \A i \in (0 .. (TxRoom + 1) - 1) \ {txHead} : txRing'[i] = txRing[i]
      BY TxRing
    <2> QED
      BY <2>1, TxRing, RingFreeSlot
  <1> QED
    BY <1>1, <1>2, <1>3, TxRing DEF availableForWrite

\* Moving the head of a queue that is not full adds the byte in its slot.
LEMMA TxPut ==
    ASSUME BlackboxTypeOK, NEW b \in Bytes, txNext(txHead) # txTail,
           txHead' = txNext(txHead), UNCHANGED txTail,
           \A i \in TxSlots \ {txHead} : txRing'[i] = txRing[i], txRing'[txHead] = b
    PROVE  txQueue' = Append(txQueue, b) /\ txUsed' = txUsed + 1
  <1> DEFINE n == TxRoom + 1
             h == (txHead + 1) % n
  <1>1. txHead' = h /\ h # txTail /\ h \in TxSlots
    BY TxRing
  <1>2. txUsed' = RingUsed(h, txTail, n) /\ txQueue' = RingQueue(txRing', h, txTail, n)
    <2>1. TxRoom \in Nat /\ h \in Nat /\ txTail \in Nat
      BY <1>1, BlackboxAssumption DEF BlackboxTypeOK, TxSlots
    <2> HIDE DEF h
    <2>2. h + TxRoom + 1 - txTail = h + n - txTail
      BY <2>1
    <2>3. txUsed' = RingUsed(h, txTail, n)
      BY <1>1, <2>2 DEF txUsed, RingUsed
    <2> QED
      BY <2>3 DEF txQueue, RingQueue
  <1>3. /\ RingQueue(txRing', h, txTail, n) = Append(RingQueue(txRing, txHead, txTail, n), b)
        /\ RingUsed(h, txTail, n) = RingUsed(txHead, txTail, n) + 1
    <2>1. \A i \in (0 .. n - 1) \ {txHead} : txRing'[i] = txRing[i]
      BY TxRing
    <2>2. Ring(txRing, txHead, txTail, n, Bytes)
      BY TxRing
    <2> QED
      BY <1>1, <2>1, <2>2, RingPut
  <1> QED
    BY <1>2, <1>3, TxRing

\* Moving the tail of a queue that is not empty takes its first byte.
LEMMA TxTake ==
    ASSUME BlackboxTypeOK, txTail # txHead, txTail' = txNext(txTail), UNCHANGED <<txHead, txRing>>
    PROVE  /\ txQueue # <<>> /\ txRing[txTail] = Head(txQueue) /\ txQueue' = Tail(txQueue)
           /\ txUsed' = txUsed - 1
  <1> DEFINE n == TxRoom + 1
             t == (txTail + 1) % n
  <1>1. txTail' = t /\ t \in TxSlots
    BY TxRing
  <1>2. txUsed' = RingUsed(txHead, t, n) /\ txQueue' = RingQueue(txRing, txHead, t, n)
    <2>1. TxRoom \in Nat /\ t \in Nat /\ txHead \in Nat
      BY <1>1, BlackboxAssumption DEF BlackboxTypeOK, TxSlots
    <2> HIDE DEF t
    <2>2. txHead + TxRoom + 1 - t = txHead + n - t
      BY <2>1
    <2>3. txUsed' = RingUsed(txHead, t, n)
      BY <1>1, <2>2 DEF txUsed, RingUsed
    <2> QED
      BY <1>1, <2>3 DEF txQueue, RingQueue
  <1>3. /\ RingQueue(txRing, txHead, txTail, n) # <<>>
        /\ txRing[txTail] = Head(RingQueue(txRing, txHead, txTail, n))
        /\ RingQueue(txRing, txHead, t, n) = Tail(RingQueue(txRing, txHead, txTail, n))
        /\ RingUsed(txHead, t, n) = RingUsed(txHead, txTail, n) - 1
    <2>1. Ring(txRing, txHead, txTail, n, Bytes)
      BY TxRing
    <2> QED
      BY <2>1, RingTake
  <1> QED
    BY <1>2, <1>3, TxRing

\* The types of the log and the port in the form the proofs use.
LEMMA BlackboxTypes ==
    ASSUME BlackboxTypeOK
    PROVE  /\ txQueue \in Seq(Bytes) /\ Len(txQueue) \in Nat /\ Len(txQueue) <= TxRoom
           /\ toSend \in Seq(Bytes) /\ Len(toSend) \in Nat
           /\ logQueue \in Seq(Nat) /\ Len(logQueue) \in Nat
           /\ wire \in Bytes /\ lastByte \in Bytes
           /\ {logSequence, delivered, droppedRecords, drainedNow} \subseteq Nat
           /\ {TxRoom, RecordSize, DrainMax, QueueSlots} \subseteq Nat \ {0} /\ MaxRecords \in Nat
           /\ txQueue # <<>> => lastByte = txQueue[Len(txQueue)] /\ Len(txQueue) >= 1
           /\ txQueue = <<>> => lastByte = wire
           /\ OnTheWay \subseteq Bytes /\ lastByte \in OnTheWay
  <1>1. /\ txQueue \in Seq(Bytes) /\ toSend \in Seq(Bytes) /\ wire \in Bytes
        /\ logQueue \in Seq(1 .. MaxRecords) /\ Len(txQueue) <= TxRoom
    <2>1. txQueue \in Seq(Bytes) /\ Len(txQueue) \in 0 .. TxRoom /\ TxRoom \in Nat
      BY TxSlotsUsed, BlackboxAssumption
    <2> QED
      BY <2>1 DEF BlackboxTypeOK
  <1>2. /\ Len(txQueue) \in Nat /\ Len(toSend) \in Nat /\ Len(logQueue) \in Nat
        /\ txQueue # <<>> => Len(txQueue) >= 1
    BY <1>1
  <1>3. logQueue \in Seq(Nat)
    <2>1. 1 .. MaxRecords \subseteq Nat
      OBVIOUS
    <2> QED
      BY <1>1, <2>1, SeqMonotonic
  <1>4. txQueue # <<>> => txQueue[Len(txQueue)] \in Bytes
    BY <1>1, <1>2, ElementOfSeq
  <1>5. /\ {TxRoom, RecordSize, DrainMax, QueueSlots} \subseteq Nat \ {0} /\ MaxRecords \in Nat
        /\ {logSequence, delivered, droppedRecords, drainedNow} \subseteq Nat
    BY BlackboxAssumption DEF BlackboxTypeOK
  <1>6. OnTheWay \subseteq Bytes /\ lastByte \in OnTheWay
    <2>1. /\ \A i \in 1 .. Len(txQueue) : txQueue[i] \in Bytes
          /\ \A i \in 1 .. Len(toSend) : toSend[i] \in Bytes
      BY <1>1, ElementOfSeq
    <2>2. txQueue # <<>> => Len(txQueue) \in 1 .. Len(txQueue)
      BY <1>2
    <2> QED
      BY <1>1, <2>1, <2>2 DEF OnTheWay, lastByte
  <1> QED
    BY <1>1, <1>2, <1>3, <1>4, <1>5, <1>6 DEF lastByte

\* What write() is given is a sequence of bytes.
LEMMA BytesToSend ==
    ASSUME NEW n \in Nat, NEW bytes \in [1 .. n -> Bytes]
    PROVE  bytes \in Seq(Bytes) /\ Len(bytes) = n
  OBVIOUS

\* The byte of a packet is no byte of a record.
LEMMA TypedPacketByte == PacketByte \in Bytes /\ PacketByte.from = "packet"
  BY DEF PacketByte, Bytes

\* A packet's bytes, and a text's, are all alike.
LEMMA PacketIsBytes ==
    ASSUME NEW size \in Nat \ {0}
    PROVE  /\ PacketBytes(size) \in Seq(Bytes) /\ Len(PacketBytes(size)) = size
           /\ PacketBytes(size) # <<>>
           /\ \A i \in 1 .. size : PacketBytes(size)[i] = PacketByte
  <1>1. PacketBytes(size) \in [1 .. size -> Bytes]
    BY TypedPacketByte DEF PacketBytes
  <1>2. PacketBytes(size) \in Seq(Bytes) /\ Len(PacketBytes(size)) = size
    BY <1>1, BytesToSend
  <1> QED
    BY <1>2 DEF PacketBytes

\* Chains lose a byte at the front and gain one at the end.
LEMMA ChainTail ==
    ASSUME NEW q \in Seq(Bytes), q # <<>>, Chained(q)
    PROVE  /\ Chained(Tail(q)) /\ Tail(q) \in Seq(Bytes) /\ Len(Tail(q)) = Len(q) - 1
           /\ \A i \in 1 .. Len(Tail(q)) : Tail(q)[i] = q[i + 1]
           /\ Tail(q) # <<>> => Follows(q[1], Tail(q)[1]) /\ Tail(q)[Len(Tail(q))] = q[Len(q)]
  <1>1. /\ Tail(q) \in Seq(Bytes) /\ Len(Tail(q)) = Len(q) - 1 /\ Len(q) \in Nat
        /\ \A i \in 1 .. Len(Tail(q)) : Tail(q)[i] = q[i + 1]
    BY HeadTailProperties, LenProperties
  <1>2. Chained(Tail(q))
    <2> SUFFICES ASSUME NEW i \in 1 .. Len(Tail(q)) - 1
                 PROVE  Follows(Tail(q)[i], Tail(q)[i + 1])
      BY DEF Chained
    <2>1. i + 1 \in 1 .. Len(q) - 1 /\ i \in 1 .. Len(Tail(q)) /\ i + 1 \in 1 .. Len(Tail(q))
      BY <1>1
    <2>2. Tail(q)[i] = q[i + 1] /\ Tail(q)[i + 1] = q[(i + 1) + 1]
      BY <1>1, <2>1
    <2>3. Follows(q[i + 1], q[(i + 1) + 1])
      BY <2>1 DEF Chained
    <2> QED
      BY <2>2, <2>3
  <1>3. ASSUME Tail(q) # <<>>
        PROVE  Follows(q[1], Tail(q)[1]) /\ Tail(q)[Len(Tail(q))] = q[Len(q)]
    <2>1. Len(Tail(q)) >= 1
      BY <1>1, <1>3
    <2>2. 1 \in 1 .. Len(q) - 1 /\ 1 \in 1 .. Len(Tail(q)) /\ Len(Tail(q)) \in 1 .. Len(Tail(q))
      BY <1>1, <2>1
    <2>3. Follows(q[1], q[1 + 1]) /\ Tail(q)[1] = q[1 + 1]
      BY <1>1, <2>2 DEF Chained
    <2>4. Tail(q)[Len(Tail(q))] = q[Len(q)]
      BY <1>1, <2>2
    <2> QED
      BY <2>3, <2>4
  <1> QED
    BY <1>1, <1>2, <1>3

\* A byte that follows the last one goes behind it.
LEMMA ChainAppend ==
    ASSUME NEW q \in Seq(Bytes), NEW b \in Bytes, Chained(q),
           q # <<>> => Follows(q[Len(q)], b)
    PROVE  /\ Chained(Append(q, b)) /\ Append(q, b) \in Seq(Bytes)
           /\ Append(q, b) # <<>> /\ Append(q, b)[Len(Append(q, b))] = b
           /\ Len(Append(q, b)) = Len(q) + 1
           /\ \A i \in 1 .. Len(q) : Append(q, b)[i] = q[i]
           /\ Append(q, b)[Len(q) + 1] = b
  <1>1. /\ Append(q, b) \in Seq(Bytes) /\ Append(q, b) # <<>>
        /\ Len(Append(q, b)) = Len(q) + 1 /\ Len(q) \in Nat
        /\ \A i \in 1 .. Len(q) : Append(q, b)[i] = q[i]
        /\ Append(q, b)[Len(q) + 1] = b
    BY AppendProperties, LenProperties
  <1>2. Chained(Append(q, b))
    <2> SUFFICES ASSUME NEW i \in 1 .. Len(Append(q, b)) - 1
                 PROVE  Follows(Append(q, b)[i], Append(q, b)[i + 1])
      BY DEF Chained
    <2>1. i \in 1 .. Len(q) /\ Append(q, b)[i] = q[i]
      BY <1>1
    <2>2. CASE i = Len(q)
      <3>1. q # <<>>
        BY <2>1, <2>2
      <3>2. Append(q, b)[i + 1] = b
        BY <1>1, <2>2
      <3> QED
        BY <2>1, <2>2, <3>1, <3>2
    <2>3. CASE i # Len(q)
      <3>1. i \in 1 .. Len(q) - 1 /\ i + 1 \in 1 .. Len(q)
        BY <1>1, <2>1, <2>3
      <3>2. Append(q, b)[i + 1] = q[i + 1]
        BY <1>1, <3>1
      <3> QED
        BY <2>1, <3>1, <3>2 DEF Chained
    <2> QED
      BY <2>2, <2>3
  <1> QED
    BY <1>1, <1>2

\* An idle port satisfies the invariant.
LEMMA BlackboxInitInv == BlackboxInit => BlackboxInv
  <1> SUFFICES ASSUME BlackboxInit PROVE BlackboxInv
    OBVIOUS
  <1> USE BlackboxAssumption DEF BlackboxInit
  <1>1. BlackboxTypeOK
    <2>1. logQueue \in Seq(1 .. MaxRecords) /\ toSend \in Seq(Bytes) /\ text \in Seq(Bytes)
      OBVIOUS
    <2>2. wire \in Bytes /\ txIrq \in BOOLEAN /\ uartMixed \in BOOLEAN
      BY TypedPacketByte
    <2>3. /\ Len(logQueue) <= QueueSlots
          /\ {logSequence, delivered} \subseteq 0 .. MaxRecords
          /\ droppedRecords \in 0 .. 2 * MaxRecords /\ drainedNow \in 0 .. DrainMax
          /\ packets \in 0 .. MaxPackets /\ texts \in 0 .. MaxTexts
      OBVIOUS
    <2>4. /\ outputMode \in {"telemetry", "sd", "both"}
          /\ logPc \in {"idle", "peek", "card", "uart", "write", "pop", "packet"}
          /\ textPc \in {"idle", "next", "slot", "byte", "head"}
      OBVIOUS
    <2>5. /\ txRing \in [TxSlots -> Bytes]
          /\ {txHead, txTail, textNext, textSlot} \subseteq TxSlots
      BY TypedPacketByte DEF TxSlots
    <2> QED
      BY <2>1, <2>2, <2>3, <2>4, <2>5 DEF BlackboxTypeOK
  <1>2. /\ DrainInv /\ CountInv /\ LossIsCounted /\ BytesAreServed /\ TextInv
    BY DEF DrainInv, CountInv, LossIsCounted, BytesAreServed, TextInv, textHoldsHead
  <1>3. SortedInv
    BY DEF SortedInv
  <1>4. txQueue = <<>> /\ Len(txQueue) = 0
    <2>1. txQueue \in Seq(Bytes) /\ Len(txQueue) = 0
      BY <1>1, TxSlotsUsed
    <2> QED
      BY <2>1
  <1>5. StreamInv
    BY <1>4 DEF StreamInv, Chained, Complete, lastByte, PacketByte
  <1>6. OrderInv
    <2>1. OnTheWay = {wire} /\ wire.from = "packet"
      BY <1>4 DEF OnTheWay, PacketByte
    <2> QED
      BY <2>1 DEF OrderInv
  <1> QED
    BY <1>1, <1>2, <1>3, <1>5, <1>6 DEF BlackboxInv

\* A step that queues no other record and puts no other byte on its way.
LEMMA OrderStands ==
    ASSUME OrderInv, UNCHANGED <<logQueue, logSequence>>, OnTheWay' \subseteq OnTheWay
    PROVE  OrderInv'
  BY DEF OrderInv

\* A step that leaves the bytes and the drain's findings alone.
LEMMA BytesStand ==
    ASSUME StreamInv, UNCHANGED <<txQueue, toSend, wire>>,
           UNCHANGED logPc \/ {logPc, logPc'} \cap {"write", "packet"} = {}
    PROVE  StreamInv' /\ OnTheWay' = OnTheWay
  <1>1. lastByte' = lastByte
    BY DEF lastByte
  <1> QED
    BY <1>1 DEF StreamInv, OnTheWay

\* A step that leaves the port alone.
LEMMA PortStands ==
    ASSUME BlackboxInv, UNCHANGED <<toSend, uartVars, textVars>>,
           UNCHANGED logPc \/ {logPc, logPc'} \cap {"write", "packet"} = {}
    PROVE  /\ UNCHANGED <<txQueue, availableForWrite, uartMixed>>
           /\ TextInv' /\ BytesAreServed'
           /\ ~uartMixed => StreamInv' /\ OnTheWay' = OnTheWay
  <1> USE DEF uartVars, queueVars, textVars
  <1>1. UNCHANGED <<txQueue, availableForWrite>>
    BY TxStands DEF BlackboxInv
  <1>2. TextInv' /\ BytesAreServed'
    BY DEF BlackboxInv, TextInv, BytesAreServed, textHoldsHead
  <1>3. ~uartMixed => StreamInv' /\ OnTheWay' = OnTheWay
    BY <1>1, BytesStand DEF BlackboxInv
  <1> QED
    BY <1>1, <1>2, <1>3

\* The types of what the port and a text are.
LEMMA PortTypesStand ==
    ASSUME BlackboxTypeOK, UNCHANGED <<uartVars, textVars>>
    PROVE  /\ txRing' \in [TxSlots -> Bytes] /\ {txHead, txTail}' \subseteq TxSlots
           /\ txIrq' \in BOOLEAN /\ wire' \in Bytes /\ uartMixed' \in BOOLEAN
           /\ text' \in Seq(Bytes) /\ textPc' \in {"idle", "next", "slot", "byte", "head"}
           /\ {textNext, textSlot}' \subseteq TxSlots /\ texts' \in 0 .. MaxTexts
  BY DEF BlackboxTypeOK, uartVars, queueVars, textVars

\* A write() begins behind the bytes queued, or anew.
LEMMA WriteBegins ==
    ASSUME BlackboxInv, beginWrite, UNCHANGED queueVars, logPc \notin {"write", "packet"}
    PROVE  /\ txQueue' = txQueue /\ availableForWrite' = availableForWrite
           /\ wire' \in Bytes /\ uartMixed' \in BOOLEAN
           /\ ~uartMixed' =>
                /\ Chained(txQueue') /\ Complete(lastByte') /\ lastByte' \in Bytes
                /\ txQueue' # <<>> => Follows(wire', txQueue'[1])
                /\ lastByte' = wire' \/ \E i \in 1 .. Len(txQueue') : lastByte' = txQueue'[i]
                /\ \A b \in {wire'} \cup {txQueue'[i] : i \in 1 .. Len(txQueue')} :
                     b.from = "log" => b \in OnTheWay /\ ~uartMixed
           /\ uartMixed' = uartMixed \/ (~textHoldsHead /\ ~uartMixed')
  <1> USE DEF BlackboxInv, queueVars
  <1>1. txQueue' = txQueue /\ availableForWrite' = availableForWrite
    BY TxStands
  <1>2. CASE uartMixed /\ txHead = txTail /\ ~textHoldsHead
    <2>1. uartMixed' = FALSE /\ wire' = PacketByte
      BY <1>2 DEF beginWrite
    <2>2. txQueue' = <<>> /\ Len(txQueue') = 0
      BY <1>1, <1>2, TxSlotsUsed
    <2>3. lastByte' = PacketByte
      BY <2>1, <2>2 DEF lastByte
    <2>4. /\ wire' \in Bytes /\ wire'.from = "packet" /\ uartMixed' \in BOOLEAN /\ ~uartMixed'
          /\ lastByte' = wire'
      BY <2>1, <2>3, TypedPacketByte
    <2>5. Chained(txQueue') /\ Complete(lastByte')
      BY <2>2, <2>4 DEF Chained, Complete
    <2>6. \A b \in {wire'} \cup {txQueue'[i] : i \in 1 .. Len(txQueue')} : b = wire'
      BY <2>2
    <2> QED
      BY <1>1, <1>2, <2>2, <2>4, <2>5, <2>6
  <1>3. CASE ~(uartMixed /\ txHead = txTail /\ ~textHoldsHead)
    <2>1. uartMixed' = uartMixed /\ wire' = wire
      BY <1>3 DEF beginWrite
    <2>2. wire \in Bytes /\ uartMixed \in BOOLEAN /\ lastByte \in Bytes
      BY BlackboxTypes DEF BlackboxTypeOK
    <2>3. lastByte' = lastByte
      BY <1>1, <2>1 DEF lastByte
    <2>4. ASSUME ~uartMixed
          PROVE  /\ Chained(txQueue) /\ Complete(lastByte)
                 /\ txQueue # <<>> => Follows(wire, txQueue[1])
                 /\ lastByte = wire \/ \E i \in 1 .. Len(txQueue) : lastByte = txQueue[i]
                 /\ {wire} \cup {txQueue[i] : i \in 1 .. Len(txQueue)} \subseteq OnTheWay
      <3>1. txQueue # <<>> => Len(txQueue) \in 1 .. Len(txQueue) /\ lastByte = txQueue[Len(txQueue)]
        BY BlackboxTypes
      <3>2. txQueue = <<>> => lastByte = wire
        BY BlackboxTypes
      <3> QED
        BY <2>4, <3>1, <3>2 DEF StreamInv, OnTheWay
    <2> QED
      BY <1>1, <2>1, <2>2, <2>3, <2>4 DEF Chained
  <1> QED
    BY <1>1, <1>2, <1>3

\* So does a text that stands.
LEMMA TextStands ==
    ASSUME TextInv, UNCHANGED <<queueVars, textVars>>,
           uartMixed' = uartMixed \/ (~textHoldsHead /\ ~uartMixed')
    PROVE  TextInv'
  BY DEF TextInv, queueVars, textVars, textHoldsHead

\* A record takes the next number, and a place in the queue or among the drops.
LEMMA WriteRecordStep == ASSUME BlackboxInv, writeRecord PROVE BlackboxInv'
  <1> USE DEF BlackboxInv, drainVars
  <1>1. /\ logPc = "idle" /\ logSequence < MaxRecords /\ logSequence' = logSequence + 1
        /\ UNCHANGED <<outputMode, delivered, logPc, drainedNow, toSend, uartVars, packets, textVars>>
    BY DEF writeRecord
  <1>2. /\ logQueue \in Seq(1 .. MaxRecords) /\ Len(logQueue) \in Nat /\ Len(logQueue) <= QueueSlots
        /\ logSequence \in Nat /\ delivered \in Nat /\ droppedRecords \in Nat /\ MaxRecords \in Nat
        /\ QueueSlots \in Nat /\ MaxRecords \in Nat
    BY BlackboxTypes DEF BlackboxTypeOK
  <1>3. \/ logQueue' = logQueue /\ droppedRecords' = droppedRecords + 1
        \/ /\ logQueue' = Append(logQueue, logSequence + 1) /\ droppedRecords' = droppedRecords
           /\ Len(logQueue) # QueueSlots
    BY DEF writeRecord
  <1>4. /\ logQueue' \in Seq(1 .. MaxRecords) /\ Len(logQueue') \in Nat
        /\ Len(logQueue') <= QueueSlots
        /\ logQueue' = Append(logQueue, logSequence + 1) =>
             /\ Len(logQueue') = Len(logQueue) + 1
             /\ \A i \in 1 .. Len(logQueue) : logQueue'[i] = logQueue[i]
             /\ logQueue'[Len(logQueue) + 1] = logSequence + 1
    <2>1. logSequence + 1 \in 1 .. MaxRecords
      BY <1>1, <1>2
    <2>2. LET q == Append(logQueue, logSequence + 1)
          IN  /\ q \in Seq(1 .. MaxRecords) /\ Len(q) = Len(logQueue) + 1
              /\ \A i \in 1 .. Len(logQueue) : q[i] = logQueue[i]
              /\ q[Len(logQueue) + 1] = logSequence + 1
      BY <1>2, <2>1, AppendProperties
    <2>3. CASE logQueue' = logQueue /\ droppedRecords' = droppedRecords + 1
      BY <1>2, <2>2, <2>3
    <2>4. CASE /\ logQueue' = Append(logQueue, logSequence + 1)
               /\ droppedRecords' = droppedRecords /\ Len(logQueue) # QueueSlots
      BY <1>2, <2>2, <2>4
    <2> QED
      BY <1>3, <2>3, <2>4
  <1>5. CountInv' /\ LossIsCounted'
    <2>1. /\ delivered + Len(logQueue) <= logSequence
          /\ droppedRecords <= MaxRecords + logSequence
          /\ logSequence <= droppedRecords + delivered + Len(logQueue)
          /\ outputMode = "telemetry" =>
               logSequence = droppedRecords + delivered + Len(logQueue)
      BY DEF CountInv, LossIsCounted
    <2>2. droppedRecords' + Len(logQueue') = droppedRecords + Len(logQueue) + 1
          /\ Len(logQueue') <= Len(logQueue) + 1 /\ droppedRecords' <= droppedRecords + 1
          /\ droppedRecords' \in Nat /\ Len(logQueue') \in Nat
      <3>1. CASE logQueue' = logQueue /\ droppedRecords' = droppedRecords + 1
        BY <1>2, <3>1
      <3>2. CASE /\ logQueue' = Append(logQueue, logSequence + 1)
                 /\ droppedRecords' = droppedRecords
        BY <1>2, <1>4, <3>2
      <3> QED
        BY <1>3, <3>1, <3>2
    <2>3. /\ logSequence' = logSequence + 1 /\ delivered' = delivered /\ outputMode' = outputMode
          /\ {logSequence, delivered, droppedRecords, Len(logQueue), MaxRecords} \subseteq Nat
      BY <1>1, <1>2
    <2>4. /\ delivered' + Len(logQueue') <= logSequence'
          /\ droppedRecords' <= MaxRecords + logSequence'
          /\ logSequence' <= droppedRecords' + delivered' + Len(logQueue')
          /\ logSequence = droppedRecords + delivered + Len(logQueue) =>
                logSequence' = droppedRecords' + delivered' + Len(logQueue')
      <3>1. /\ logSequence \in Nat /\ delivered \in Nat /\ droppedRecords \in Nat
            /\ Len(logQueue) \in Nat /\ MaxRecords \in Nat
            /\ logSequence' = logSequence + 1 /\ delivered' = delivered
        BY <2>3
      <3>2. /\ delivered + Len(logQueue) <= logSequence
            /\ droppedRecords <= MaxRecords + logSequence
            /\ logSequence <= droppedRecords + delivered + Len(logQueue)
        BY <2>1
      <3> DEFINE n == Len(logQueue)
                 m == Len(logQueue')
      <3>3. n \in Nat /\ m \in Nat /\ droppedRecords' \in Nat
            /\ droppedRecords' + m = droppedRecords + n + 1 /\ m <= n + 1
            /\ droppedRecords' <= droppedRecords + 1
        BY <2>2, <3>1
      <3> HIDE DEF n, m
      <3>4. delivered + n <= logSequence /\ logSequence <= droppedRecords + delivered + n
        BY <3>2 DEF n
      <3>5. delivered' + m <= logSequence'
        BY ONLY <3>1, <3>3, <3>4
      <3>6. droppedRecords' <= MaxRecords + logSequence'
        BY ONLY <3>1, <3>2, <3>3
      <3>7. delivered' \in Nat /\ delivered \in Nat /\ droppedRecords \in Nat /\ delivered' = delivered
        BY <3>1
      <3>8. (droppedRecords' + m) + delivered' = droppedRecords + n + 1 + delivered
        BY <3>3, <3>7
      <3>9. droppedRecords' + delivered' + m = (droppedRecords' + m) + delivered'
        BY ONLY <3>3, <3>7
      <3>10. droppedRecords + n + 1 + delivered = droppedRecords + delivered + n + 1
        BY ONLY <3>3, <3>7
      <3>11. droppedRecords' + delivered' + m = droppedRecords + delivered + n + 1
        BY ONLY <3>8, <3>9, <3>10
      <3>12. logSequence' <= droppedRecords' + delivered' + m
        <4>1. logSequence + 1 <= droppedRecords + delivered + n + 1
          BY ONLY <3>1, <3>3, <3>4
        <4> QED
          BY ONLY <3>1, <3>11, <4>1
      <3>13. logSequence = droppedRecords + delivered + n => logSequence' = droppedRecords' + delivered' + m
        BY <3>1, <3>11
      <3> QED
        BY <3>5, <3>6, <3>12, <3>13 DEF n, m
    <2>5. CountInv'
      BY <2>4 DEF CountInv
    <2>6. outputMode' = "telemetry" => logSequence = droppedRecords + delivered + Len(logQueue)
      BY <2>1, <2>3
    <2>7. LossIsCounted'
      BY <2>4, <2>6 DEF LossIsCounted
    <2> QED
      BY <2>5, <2>7
  <1>6. BlackboxTypeOK'
    <2>1. droppedRecords' \in 0 .. 2 * MaxRecords
      BY <1>1, <1>2, <1>3 DEF CountInv
    <2>2. logSequence' \in 0 .. MaxRecords
      BY <1>1, <1>2
    <2> QED
      BY <1>1, <1>4, <2>1, <2>2, PortTypesStand DEF BlackboxTypeOK
  <1>7. /\ UNCHANGED <<availableForWrite, uartMixed>> /\ TextInv' /\ BytesAreServed'
        /\ ~uartMixed => StreamInv' /\ OnTheWay' = OnTheWay
    BY <1>1, PortStands
  <1>8. DrainInv'
    BY <1>1, <1>7 DEF DrainInv, ToSd
  <1>9. \A i \in 1 .. Len(logQueue) : logQueue[i] <= logSequence /\ logQueue[i] \in Nat
    <2>1. \A i \in 1 .. Len(logQueue) : logQueue[i] \in 1 .. MaxRecords
      BY <1>2
    <2> QED
      BY <2>1 DEF SortedInv
  <1>10. CASE logQueue' = logQueue
    <2>1. SortedInv'
      BY <1>1, <1>2, <1>9, <1>10 DEF SortedInv
    <2>2. ASSUME ~uartMixed PROVE OrderInv'
      <3>1. ASSUME NEW b \in OnTheWay, b.from = "log" PROVE b.of \in Nat
        BY <3>1, BlackboxTypes DEF Bytes
      <3> QED
        BY <1>1, <1>2, <1>7, <1>10, <2>2, <3>1 DEF OrderInv
    <2> QED
      BY <1>5, <1>6, <1>7, <1>8, <2>1, <2>2
  <1>11. CASE logQueue' = Append(logQueue, logSequence + 1)
    <2>1. /\ Len(logQueue') = Len(logQueue) + 1
          /\ \A i \in 1 .. Len(logQueue) : logQueue'[i] = logQueue[i]
          /\ logQueue'[Len(logQueue) + 1] = logSequence + 1
          /\ \A i \in 1 .. Len(logQueue') : i \in 1 .. Len(logQueue) \/ i = Len(logQueue) + 1
      <3>1. /\ Len(logQueue') = Len(logQueue) + 1
            /\ \A i \in 1 .. Len(logQueue) : logQueue'[i] = logQueue[i]
            /\ logQueue'[Len(logQueue) + 1] = logSequence + 1
        BY <1>4, <1>11
      <3>2. \A i \in 1 .. Len(logQueue') : i \in 1 .. Len(logQueue) \/ i = Len(logQueue) + 1
        BY ONLY <1>2, <3>1
      <3> QED
        BY <3>1, <3>2
    <2>2. ASSUME NEW i \in 1 .. Len(logQueue'), NEW j \in 1 .. Len(logQueue'), i <= j
          PROVE  logQueue'[i] <= logQueue'[j]
      <3>1. \A k \in 1 .. Len(logQueue) : logQueue[k] <= logSequence + 1
        BY <1>2, <1>9
      <3>2. CASE i \in 1 .. Len(logQueue) /\ j \in 1 .. Len(logQueue)
        BY <2>1, <2>2, <3>2 DEF SortedInv
      <3>3. CASE j = Len(logQueue) + 1
        BY <1>2, <2>1, <3>1, <3>3
      <3>4. j \in 1 .. Len(logQueue) => i \in 1 .. Len(logQueue)
        BY <1>2, <2>1, <2>2
      <3> QED
        BY <2>1, <3>2, <3>3, <3>4
    <2>3. ASSUME NEW i \in 1 .. Len(logQueue') PROVE logQueue'[i] <= logSequence'
      <3>1. CASE i \in 1 .. Len(logQueue)
        <4>1. logQueue'[i] = logQueue[i] /\ logQueue[i] <= logSequence /\ logQueue[i] \in Nat
          BY <1>9, <2>1, <3>1
        <4>2. logSequence' = logSequence + 1 /\ logSequence \in Nat
          BY <1>1, <1>2
        <4> QED
          BY ONLY <4>1, <4>2
      <3>2. CASE i = Len(logQueue) + 1
        BY <1>1, <1>2, <2>1, <3>2
      <3> QED
        BY <2>1, <3>1, <3>2
    <2>4. SortedInv'
      BY <2>2, <2>3 DEF SortedInv
    <2>5. ASSUME ~uartMixed, NEW b \in OnTheWay', b.from = "log"
          PROVE  b.of <= logSequence' /\ \A i \in 1 .. Len(logQueue') : b.of <= logQueue'[i]
      <3>1. b \in OnTheWay /\ OrderInv
        BY <1>7, <2>5
      <3>2. /\ b.of \in Nat /\ b.of <= logSequence
            /\ \A i \in 1 .. Len(logQueue) : b.of <= logQueue[i]
        BY <2>5, <3>1, BlackboxTypes DEF OrderInv, Bytes
      <3> QED
        BY <1>1, <1>2, <2>1, <3>2, SMTT(30)
    <2>6. ~uartMixed => OrderInv'
      BY <2>5 DEF OrderInv
    <2> QED
      BY <1>5, <1>6, <1>7, <1>8, <2>4, <2>6
  <1> QED
    BY <1>3, <1>10, <1>11

\* The steps of drain() that queue nothing.
LEMMA DrainStep ==
    ASSUME BlackboxInv, beginDrain \/ peekRecord \/ writeCard
    PROVE  BlackboxInv'
  <1> USE DEF BlackboxInv, drainVars, recordVars
  <1>1. /\ UNCHANGED <<outputMode, logQueue, logSequence, delivered, toSend, uartVars, packets,
                       textVars>>
        /\ logPc \in {"idle", "peek", "card"} /\ logPc' \in {"peek", "idle", "card", "uart", "pop"}
    BY DEF beginDrain, peekRecord, writeCard
  <1>2. /\ UNCHANGED <<availableForWrite, uartMixed>> /\ TextInv' /\ BytesAreServed'
        /\ ~uartMixed => StreamInv' /\ OnTheWay' = OnTheWay
    BY <1>1, PortStands
  <1>3. SortedInv' /\ (~uartMixed => OrderInv')
    BY <1>1, <1>2, OrderStands DEF SortedInv
  <1>4. DrainInv' /\ drainedNow' \in 0 .. DrainMax
    <2>1. drainedNow \in Nat /\ drainedNow <= DrainMax /\ DrainMax \in Nat \ {0}
      BY BlackboxAssumption DEF BlackboxTypeOK
    <2>2. CASE beginDrain
      BY <1>1, <2>1, <2>2 DEF beginDrain, DrainInv, ToSd
    <2>3. CASE peekRecord
      BY <1>1, <2>1, <2>3 DEF peekRecord, DrainInv, ToSd
    <2>4. CASE writeCard
      BY <1>1, <2>1, <2>4 DEF writeCard, DrainInv, ToSd
    <2> QED
      BY <2>2, <2>3, <2>4
  <1>5. \/ droppedRecords' = droppedRecords
        \/ /\ droppedRecords' = droppedRecords + 1 /\ droppedRecords < MaxRecords
           /\ outputMode # "telemetry"
    <2>1. CASE beginDrain \/ peekRecord
      BY <2>1 DEF beginDrain, peekRecord
    <2>2. CASE writeCard
      <3>1. outputMode # "telemetry"
        BY <2>2 DEF writeCard, DrainInv, ToSd
      <3> QED
        BY <2>2, <3>1 DEF writeCard
    <2> QED
      BY <2>1, <2>2
  <1>6. /\ logSequence \in Nat /\ delivered \in Nat /\ droppedRecords \in Nat
        /\ Len(logQueue) \in Nat /\ MaxRecords \in Nat
    BY BlackboxTypes
  <1>7. CountInv' /\ LossIsCounted'
    <2>1. CountInv'
      <3>1. droppedRecords' <= MaxRecords + logSequence
        <4>1. droppedRecords <= MaxRecords + logSequence
          BY DEF CountInv
        <4> QED
          BY <1>5, <1>6, <4>1
      <3> QED
        BY <1>1, <3>1 DEF CountInv
    <2>2. CASE droppedRecords' = droppedRecords
      BY <1>1, <2>1, <2>2 DEF LossIsCounted
    <2>3. CASE droppedRecords' = droppedRecords + 1 /\ outputMode # "telemetry"
      BY <1>1, <1>6, <2>1, <2>3 DEF LossIsCounted
    <2> QED
      BY <1>5, <2>1, <2>2, <2>3
  <1>8. BlackboxTypeOK'
    <2>1. droppedRecords' \in 0 .. 2 * MaxRecords
      BY <1>5, <1>6 DEF BlackboxTypeOK
    <2> QED
      BY <1>1, <1>4, <2>1, PortTypesStand DEF BlackboxTypeOK
  <1> QED
    BY <1>2, <1>3, <1>4, <1>7, <1>8

\* A record that is written leaves the queue.
LEMMA PopStep == ASSUME BlackboxInv, popRecord PROVE BlackboxInv'
  <1> USE DEF BlackboxInv
  <1>1. /\ UNCHANGED <<outputMode, logSequence, droppedRecords, toSend, uartVars, packets, textVars>>
        /\ logPc = "pop" /\ logPc' = "peek"
        /\ logQueue' = Tail(logQueue) /\ delivered' = delivered + 1
        /\ drainedNow' = drainedNow + 1
    BY DEF popRecord
  <1>2. logQueue # <<>> /\ drainedNow < DrainMax
    BY <1>1 DEF DrainInv
  <1>3. /\ {logSequence, delivered, droppedRecords, drainedNow, DrainMax, Len(logQueue), MaxRecords,
            QueueSlots} \subseteq Nat
        /\ Len(logQueue) <= QueueSlots /\ logSequence <= MaxRecords
    BY BlackboxTypes DEF BlackboxTypeOK
  <1>4. /\ logQueue' \in Seq(1 .. MaxRecords) /\ Len(logQueue') = Len(logQueue) - 1
        /\ \A i \in 1 .. Len(logQueue') : logQueue'[i] = logQueue[i + 1]
        /\ Len(logQueue) >= 1
    <2>1. logQueue \in Seq(1 .. MaxRecords)
      BY DEF BlackboxTypeOK
    <2> QED
      BY <1>1, <1>2, <1>3, <2>1, HeadTailProperties
  <1>5. CountInv'
    BY <1>1, <1>3, <1>4 DEF CountInv
  <1>6. LossIsCounted'
    <2>1. delivered' + Len(logQueue') = delivered + Len(logQueue)
      BY <1>1, <1>3, <1>4
    <2>2. /\ droppedRecords + delivered + Len(logQueue) = droppedRecords + (delivered + Len(logQueue))
          /\ droppedRecords + delivered' + Len(logQueue') = droppedRecords + (delivered' + Len(logQueue'))
      BY <1>1, <1>3, <1>4
    <2> QED
      BY <1>1, <2>1, <2>2 DEF LossIsCounted
  <1>7. BlackboxTypeOK'
    <2>1. delivered' \in 0 .. MaxRecords /\ drainedNow' \in 0 .. DrainMax /\ Len(logQueue') <= QueueSlots
      <3>1. delivered + Len(logQueue) <= logSequence
        BY DEF CountInv
      <3>2. /\ logSequence \in Nat /\ delivered \in Nat /\ MaxRecords \in Nat /\ Len(logQueue) \in Nat
            /\ drainedNow \in Nat /\ DrainMax \in Nat /\ QueueSlots \in Nat
        BY <1>3
      <3>3. delivered' = delivered + 1 /\ drainedNow' = drainedNow + 1
        BY <1>1
      <3>4. Len(logQueue') = Len(logQueue) - 1 /\ Len(logQueue) >= 1
        BY <1>4
      <3>5. Len(logQueue) <= QueueSlots /\ logSequence <= MaxRecords /\ drainedNow < DrainMax
        BY <1>2, <1>3
      <3> QED
        BY ONLY <3>1, <3>2, <3>3, <3>4, <3>5
    <2> QED
      BY <1>1, <1>4, <2>1, PortTypesStand DEF BlackboxTypeOK
  <1>8. /\ UNCHANGED <<availableForWrite, uartMixed>> /\ TextInv' /\ BytesAreServed'
        /\ ~uartMixed => StreamInv' /\ OnTheWay' = OnTheWay
    BY <1>1, PortStands
  <1>9. DrainInv'
    BY <1>1, <1>8 DEF DrainInv
  <1>10. SortedInv' /\ (~uartMixed => OrderInv')
    <2>1. \A i \in 1 .. Len(logQueue') : i + 1 \in 1 .. Len(logQueue) /\ logQueue'[i] = logQueue[i + 1]
      <3>1. Len(logQueue) \in Nat
        BY <1>3
      <3>2. \A i \in 1 .. Len(logQueue') : i + 1 \in 1 .. Len(logQueue)
        BY ONLY <3>1, <1>4
      <3> QED
        BY <1>4, <3>2
    <2>2. ASSUME NEW i \in 1 .. Len(logQueue'), NEW j \in 1 .. Len(logQueue'), i <= j
          PROVE  logQueue'[i] <= logQueue'[j]
      <3>1. i + 1 <= j + 1
        BY <2>2
      <3> QED
        BY <2>1, <3>1 DEF SortedInv
    <2>3. SortedInv'
      BY <1>1, <2>1, <2>2 DEF SortedInv
    <2>4. ~uartMixed => OrderInv'
      BY <1>1, <1>8, <2>1 DEF OrderInv
    <2> QED
      BY <2>3, <2>4
  <1> QED
    BY <1>5, <1>6, <1>7, <1>8, <1>9, <1>10

\* drain() begins to write a record that fits, which follows the bytes queued.
LEMMA OfferStep == ASSUME BlackboxInv, offerUart PROVE BlackboxInv'
  <1> USE DEF BlackboxInv, recordVars
  <1>1. /\ UNCHANGED <<outputMode, logQueue, logSequence, droppedRecords, delivered, drainedNow,
                       queueVars, packets, textVars>>
        /\ logPc = "uart" /\ toSend = <<>>
    BY DEF offerUart, DrainInv
  <1>2. CASE ~enoughRoom
    <2>1. logPc' = "idle" /\ UNCHANGED <<toSend, uartVars>>
      BY <1>1, <1>2 DEF offerUart, uartVars
    <2>2. /\ TextInv' /\ BytesAreServed' /\ UNCHANGED uartMixed
          /\ ~uartMixed => StreamInv' /\ OnTheWay' = OnTheWay
      BY <1>1, <2>1, PortStands
    <2>3. BlackboxTypeOK'
      BY <1>1, <2>1, PortTypesStand DEF BlackboxTypeOK
    <2> QED
      BY <1>1, <2>1, <2>2, <2>3, OrderStands DEF DrainInv, CountInv, SortedInv, LossIsCounted
  <1>3. CASE enoughRoom
    <2> DEFINE n == Head(logQueue)
    <2>1. logPc' = "write" /\ toSend' = LogBytes(n) /\ beginWrite
      BY <1>3 DEF offerUart
    <2>2. n = logQueue[1] /\ n \in Nat /\ 1 \in 1 .. Len(logQueue)
      <3>1. logQueue # <<>> /\ logQueue \in Seq(Nat)
        BY <1>1, BlackboxTypes DEF DrainInv
      <3> QED
        BY <3>1
    <2>3. RecordSize \in Nat \ {0} /\ TxRoom \in Nat /\ Len(txQueue) \in Nat
      BY BlackboxTypes
    <2> HIDE DEF n
    <2>4. /\ toSend' \in Seq(Bytes) /\ Len(toSend') = RecordSize
          /\ \A i \in 1 .. RecordSize : toSend'[i] = [from |-> "log", of |-> n, left |-> RecordSize - i]
      <3>1. toSend' = [i \in 1 .. RecordSize |->
                         [from |-> "log", of |-> n, left |-> RecordSize - i]]
        BY <2>1 DEF LogBytes
      <3>2. \A i \in 1 .. RecordSize : RecordSize - i \in Nat
        BY <2>3
      <3>3. toSend' \in [1 .. RecordSize -> Bytes]
        BY <2>2, <3>1, <3>2 DEF Bytes
      <3>4. toSend' \in Seq(Bytes) /\ Len(toSend') = RecordSize
        BY <2>3, <3>3, BytesToSend
      <3> QED
        BY <3>1, <3>4
    <2>5. /\ UNCHANGED <<txQueue, availableForWrite>>
          /\ wire' \in Bytes /\ uartMixed' \in BOOLEAN 
          /\ uartMixed' = uartMixed \/ (~textHoldsHead /\ ~uartMixed')
          /\ ~uartMixed' =>
               /\ Chained(txQueue') /\ Complete(lastByte') /\ lastByte' \in Bytes
               /\ txQueue' # <<>> => Follows(wire', txQueue'[1])
               /\ lastByte' = wire' \/ \E i \in 1 .. Len(txQueue') : lastByte' = txQueue'[i]
               /\ \A b \in {wire'} \cup {txQueue'[i] : i \in 1 .. Len(txQueue')} :
                    b.from = "log" => b \in OnTheWay /\ ~uartMixed
      BY <1>1, <2>1, WriteBegins
    <2>6. BlackboxTypeOK' /\ TextInv'
      <3>1. TextInv'
        BY <1>1, <2>5, TextStands DEF textVars
      <3> QED
        BY <1>1, <2>1, <2>4, <2>5, <3>1 DEF BlackboxTypeOK, queueVars, textVars
    <2>7. DrainInv' /\ CountInv' /\ SortedInv' /\ LossIsCounted' /\ BytesAreServed'
      BY <1>1, <1>3, <2>1, <2>4, <2>5
         DEF DrainInv, CountInv, SortedInv, LossIsCounted, BytesAreServed, enoughRoom
    <2>8. ASSUME ~uartMixed' PROVE StreamInv'
      <3>1. Chained(toSend')
        <4> SUFFICES ASSUME NEW i \in 1 .. RecordSize - 1
                     PROVE  Follows(toSend'[i], toSend'[i + 1])
          BY <2>4 DEF Chained
        <4>1. i \in 1 .. RecordSize /\ i + 1 \in 1 .. RecordSize
          BY <2>3
        <4>2. /\ toSend'[i] = [from |-> "log", of |-> n, left |-> RecordSize - i]
              /\ toSend'[i + 1] = [from |-> "log", of |-> n, left |-> RecordSize - (i + 1)]
          BY <2>4, <4>1
        <4>3. RecordSize - (i + 1) = (RecordSize - i) - 1 /\ RecordSize - i = (RecordSize - (i + 1)) + 1
          BY <2>3
        <4>4. /\ toSend'[i + 1] = [toSend'[i] EXCEPT !.left = @ - 1]
              /\ toSend'[i] = [toSend'[i + 1] EXCEPT !.left = @ + 1]
          BY <4>2, <4>3
        <4> QED
          BY <2>2, <4>2, <4>4 DEF Follows
      <3>2. lastByte'.from = "log" => lastByte'.of <= n /\ lastByte'.left = 0
        <4>1. lastByte'.from = "log" => lastByte' \in OnTheWay /\ OrderInv
          BY <2>5, <2>8
        <4> QED
          BY <2>2, <2>5, <2>8, <4>1 DEF OrderInv, Complete
      <3>3. Follows(lastByte', toSend'[1]) /\ toSend'[Len(toSend')].left = 0
        <4>1. toSend'[1] = [from |-> "log", of |-> n, left |-> RecordSize - 1]
              /\ toSend'[RecordSize] = [from |-> "log", of |-> n, left |-> RecordSize - RecordSize]
          BY <2>3, <2>4
        <4> QED
          BY <2>3, <2>4, <3>2, <4>1 DEF Follows
      <3>4. toSend' # <<>>
        BY <2>3, <2>4
      <3> QED
        BY <2>1, <2>5, <2>8, <3>1, <3>3, <3>4 DEF StreamInv, Chained
    <2>9. ASSUME ~uartMixed' PROVE OrderInv'
      <3>1. ASSUME NEW b \in OnTheWay', b.from = "log"
            PROVE  b.of <= logSequence /\ \A i \in 1 .. Len(logQueue) : b.of <= logQueue[i]
        <4>1. CASE b \in {wire'} \cup {txQueue'[i] : i \in 1 .. Len(txQueue')}
          BY <2>5, <2>9, <3>1, <4>1 DEF OrderInv
        <4>2. CASE \E i \in 1 .. RecordSize : b = toSend'[i]
          <5>1. b.of = n
            BY <2>4, <4>2
          <5>2. \A i \in 1 .. Len(logQueue) : 1 <= i
            OBVIOUS
          <5> QED
            BY <2>2, <5>1, <5>2 DEF SortedInv
        <4>3. \/ b \in {wire'} \cup {txQueue'[i] : i \in 1 .. Len(txQueue')}
              \/ \E i \in 1 .. RecordSize : b = toSend'[i]
          BY <2>4 DEF OnTheWay
        <4> QED
          BY <4>1, <4>2, <4>3
      <3> QED
        BY <1>1, <3>1 DEF OrderInv
    <2> QED
      BY <2>6, <2>7, <2>8, <2>9
  <1> QED
    BY <1>2, <1>3

\* A packet is written behind the bytes queued.
LEMMA WritePacketStep ==
    ASSUME BlackboxInv, NEW size \in PacketSizes, writePacket(size)
    PROVE  BlackboxInv'
  <1> USE DEF BlackboxInv, recordVars
  <1>1. /\ UNCHANGED <<outputMode, logQueue, logSequence, droppedRecords, delivered, drainedNow,
                       queueVars, textVars>>
        /\ logPc = "idle" /\ logPc' = "packet" /\ packets < MaxPackets /\ packets' = packets + 1
        /\ toSend' = PacketBytes(size) /\ beginWrite
    BY DEF writePacket
  <1>2. size \in Nat \ {0} /\ packets' \in 0 .. MaxPackets
    <2>1. size \in Nat \ {0} /\ MaxPackets \in Nat
      BY BlackboxAssumption
    <2>2. packets \in 0 .. MaxPackets
      BY DEF BlackboxTypeOK
    <2> QED
      BY <1>1, <2>1, <2>2
  <1>3. /\ toSend' \in Seq(Bytes) /\ Len(toSend') = size
        /\ \A i \in 1 .. size : toSend'[i] = PacketByte
    BY <1>1, <1>2, PacketIsBytes
  <1>4. /\ UNCHANGED <<txQueue, availableForWrite>>
        /\ wire' \in Bytes /\ uartMixed' \in BOOLEAN 
        /\ uartMixed' = uartMixed \/ (~textHoldsHead /\ ~uartMixed')
        /\ ~uartMixed' =>
             /\ Chained(txQueue') /\ Complete(lastByte')
             /\ txQueue' # <<>> => Follows(wire', txQueue'[1])
             /\ \A b \in {wire'} \cup {txQueue'[i] : i \in 1 .. Len(txQueue')} :
                  b.from = "log" => b \in OnTheWay /\ ~uartMixed
    BY <1>1, WriteBegins
  <1>5. BlackboxTypeOK' /\ TextInv'
    <2>1. TextInv'
      BY <1>1, <1>4, TextStands DEF textVars
    <2> QED
      BY <1>1, <1>2, <1>3, <1>4, <2>1 DEF BlackboxTypeOK, queueVars, textVars
  <1>6. DrainInv' /\ CountInv' /\ SortedInv' /\ LossIsCounted' /\ BytesAreServed'
    BY <1>1 DEF DrainInv, CountInv, SortedInv, LossIsCounted, BytesAreServed
  <1>7. ASSUME ~uartMixed' PROVE StreamInv'
    <2>1. Chained(toSend)'
      <3> SUFFICES ASSUME NEW i \in 1 .. size - 1 PROVE Follows(toSend'[i], toSend'[i + 1])
        BY <1>3 DEF Chained
      <3>1. i \in 1 .. size /\ i + 1 \in 1 .. size
        BY <1>2
      <3> QED
        BY <1>3, <3>1, TypedPacketByte DEF Follows
    <2>2. \A i \in 1 .. Len(toSend') : toSend'[i].from = "packet"
      BY <1>3, TypedPacketByte
    <2> QED
      BY <1>1, <1>4, <1>7, <2>1, <2>2 DEF StreamInv, Chained
  <1>8. ASSUME ~uartMixed' PROVE OrderInv'
    <2>1. ASSUME NEW b \in OnTheWay', b.from = "log" PROVE b \in OnTheWay /\ ~uartMixed
      <3>1. \/ b \in {wire'} \cup {txQueue'[i] : i \in 1 .. Len(txQueue')}
            \/ \E i \in 1 .. size : b = toSend'[i]
        BY <1>3 DEF OnTheWay
      <3>2. ~\E i \in 1 .. size : b = toSend'[i]
        BY <1>3, <2>1, TypedPacketByte
      <3> QED
        BY <1>4, <1>8, <2>1, <3>1, <3>2
    <2> QED
      BY <1>1, <2>1 DEF OrderInv
  <1> QED
    BY <1>5, <1>6, <1>7, <1>8

\* So is a text of the sensor task.
LEMMA BeginTextStep ==
    ASSUME BlackboxInv, NEW size \in TextSizes, beginText(size)
    PROVE  BlackboxInv'
  <1> USE DEF BlackboxInv, recordVars, drainVars
  <1>1. /\ UNCHANGED <<outputMode, logQueue, logSequence, droppedRecords, delivered, logPc, drainedNow,
                       toSend, queueVars, packets, textNext, textSlot>>
        /\ logPc = "idle" /\ textPc = "idle" /\ textPc' = "next"
        /\ texts < MaxTexts /\ texts' = texts + 1
        /\ text' = PacketBytes(size) /\ beginWrite
    BY DEF beginText
  <1>2. size \in Nat \ {0} /\ texts' \in 0 .. MaxTexts
    <2>1. size \in Nat \ {0} /\ MaxTexts \in Nat
      BY BlackboxAssumption
    <2>2. texts \in 0 .. MaxTexts
      BY DEF BlackboxTypeOK
    <2> QED
      BY <1>1, <2>1, <2>2
  <1>3. /\ text' \in Seq(Bytes) /\ Len(text') = size
        /\ \A i \in 1 .. size : text'[i] = PacketByte
    BY <1>1, <1>2, PacketIsBytes
  <1>4. /\ UNCHANGED <<txQueue, availableForWrite>>
        /\ wire' \in Bytes /\ uartMixed' \in BOOLEAN
        /\ ~uartMixed' =>
             /\ Chained(txQueue') /\ Complete(lastByte')
             /\ txQueue' # <<>> => Follows(wire', txQueue'[1])
             /\ \A b \in {wire'} \cup {txQueue'[i] : i \in 1 .. Len(txQueue')} :
                  b.from = "log" => b \in OnTheWay /\ ~uartMixed
    BY <1>1, WriteBegins
  <1>5. toSend = <<>>
    BY <1>1 DEF DrainInv
  <1>6. BlackboxTypeOK'
    BY <1>1, <1>2, <1>3, <1>4 DEF BlackboxTypeOK, queueVars
  <1>7. TextInv'
    <2>1. texts' # 0
      BY <1>1 DEF BlackboxTypeOK
    <2> QED
      BY <1>1, <1>3, <2>1 DEF TextInv, textHoldsHead
  <1>8. DrainInv' /\ CountInv' /\ SortedInv' /\ LossIsCounted' /\ BytesAreServed'
    BY <1>1 DEF DrainInv, CountInv, SortedInv, LossIsCounted, BytesAreServed
  <1>9. ASSUME ~uartMixed' PROVE StreamInv'
    BY <1>1, <1>4, <1>5, <1>9 DEF StreamInv, Chained
  <1>10. ASSUME ~uartMixed' PROVE OrderInv'
    <2>1. ASSUME NEW b \in OnTheWay', b.from = "log" PROVE b \in OnTheWay /\ ~uartMixed
      <3>1. b \in {wire'} \cup {txQueue'[i] : i \in 1 .. Len(txQueue')}
        BY <1>1, <1>5 DEF OnTheWay
      <3> QED
        BY <1>4, <1>10, <2>1, <3>1
    <2> QED
      BY <1>1, <2>1 DEF OrderInv
  <1> QED
    BY <1>6, <1>7, <1>8, <1>9, <1>10

\* What a byte queued behind the one it follows does to the stream.
LEMMA ByteQueued ==
    ASSUME BlackboxTypeOK, StreamInv, NEW b \in Bytes, Follows(lastByte, b),
           txQueue' = Append(txQueue, b), UNCHANGED wire
    PROVE  /\ Chained(txQueue') /\ txQueue' # <<>> /\ Follows(wire', txQueue'[1])
           /\ lastByte' = b
           /\ \A i \in 1 .. Len(txQueue') :
                txQueue'[i] = b \/ \E k \in 1 .. Len(txQueue) : txQueue'[i] = txQueue[k]
  <1>1. txQueue \in Seq(Bytes) /\ Len(txQueue) \in Nat
    BY BlackboxTypes
  <1>2. /\ Chained(txQueue') /\ txQueue' \in Seq(Bytes) /\ txQueue' # <<>>
        /\ txQueue'[Len(txQueue')] = b /\ Len(txQueue') = Len(txQueue) + 1
        /\ \A i \in 1 .. Len(txQueue) : txQueue'[i] = txQueue[i]
        /\ txQueue'[Len(txQueue) + 1] = b
    <2>1. txQueue # <<>> => Follows(txQueue[Len(txQueue)], b)
      BY BlackboxTypes
    <2> QED
      BY <1>1, <2>1, ChainAppend DEF StreamInv
  <1>3. lastByte' = b
    BY <1>2 DEF lastByte
  <1>4. Follows(wire', txQueue'[1])
    <2>1. CASE txQueue = <<>>
      BY <1>2, <2>1, BlackboxTypes
    <2>2. CASE txQueue # <<>>
      <3>1. 1 \in 1 .. Len(txQueue)
        BY <2>2, BlackboxTypes
      <3> QED
        BY <1>2, <2>2, <3>1 DEF StreamInv
    <2> QED
      BY <2>1, <2>2
  <1>5. ASSUME NEW i \in 1 .. Len(txQueue')
        PROVE  txQueue'[i] = b \/ \E k \in 1 .. Len(txQueue) : txQueue'[i] = txQueue[k]
    <2>1. i \in 1 .. Len(txQueue) \/ i = Len(txQueue) + 1
      BY <1>1, <1>2
    <2> QED
      BY <1>2, <2>1
  <1> QED
    BY <1>2, <1>3, <1>4, <1>5

\* A byte is queued behind the one it follows.
LEMMA WriteByteStep == ASSUME BlackboxInv, writeByte PROVE BlackboxInv'
  <1> USE DEF BlackboxInv, drainVars, recordVars, textVars
  <1>1. /\ UNCHANGED <<outputMode, logQueue, logSequence, droppedRecords, delivered, logPc,
                       drainedNow, txTail, txIrq, wire, packets, textVars>>
        /\ toSend # <<>> /\ txNext(txHead) # txTail /\ txHead' = txNext(txHead)
        /\ txRing' = [txRing EXCEPT ![txHead] = Head(toSend)] /\ toSend' = Tail(toSend)
        /\ uartMixed' = (uartMixed \/ textHoldsHead)
    BY DEF writeByte
  <1> DEFINE b == toSend[1]
  <1>2. toSend \in Seq(Bytes) /\ TxRoom \in Nat /\ Len(toSend) \in Nat
    BY BlackboxTypes
  <1>3. b \in Bytes /\ Head(toSend) = b /\ Len(toSend) >= 1
    BY <1>1, <1>2, ElementOfSeq
  <1>4. logPc \in {"write", "packet"}
    BY <1>1 DEF DrainInv
  <1> HIDE DEF b
  <1>5. /\ toSend' \in Seq(Bytes) /\ Len(toSend') = Len(toSend) - 1
        /\ \A i \in 1 .. Len(toSend') : toSend'[i] = toSend[i + 1] /\ i + 1 \in 1 .. Len(toSend)
    BY <1>1, <1>2, HeadTailProperties
  <1>6. /\ txHead' \in TxSlots /\ txRing' \in [TxSlots -> Bytes]
        /\ txQueue' = Append(txQueue, b) /\ txUsed' = txUsed + 1 /\ txUsed \in Nat
    <2>1. txHead \in TxSlots /\ txRing \in [TxSlots -> Bytes]
      BY DEF BlackboxTypeOK
    <2>2. txRing' \in [TxSlots -> Bytes] /\ txRing'[txHead] = b
          /\ \A i \in TxSlots \ {txHead} : txRing'[i] = txRing[i]
      BY <1>1, <1>3, <2>1
    <2>3. txQueue' = Append(txQueue, b) /\ txUsed' = txUsed + 1
      BY <1>1, <1>3, <2>2, TxPut
    <2> QED
      BY <1>1, <2>2, <2>3, TxRing, TxSlotsUsed
  <1>7. BlackboxTypeOK'
    BY <1>1, <1>5, <1>6 DEF BlackboxTypeOK
  <1>8. DrainInv' /\ CountInv' /\ SortedInv' /\ LossIsCounted' /\ BytesAreServed'
    <2>1. logPc = "write" => Len(toSend') <= TxRoom - txUsed'
      BY <1>1, <1>2, <1>5, <1>6 DEF DrainInv, availableForWrite
    <2>2. DrainInv'
      BY <1>1, <1>4, <2>1 DEF DrainInv, ToSd, availableForWrite
    <2>3. CountInv' /\ SortedInv' /\ LossIsCounted' /\ BytesAreServed'
      BY <1>1, <1>4 DEF CountInv, SortedInv, LossIsCounted, BytesAreServed
    <2> QED
      BY <2>2, <2>3
  <1>9. TextInv'
    BY <1>1 DEF TextInv, textHoldsHead
  <1>10. ASSUME ~uartMixed' PROVE StreamInv' /\ OrderInv'
    <2>1. StreamInv /\ OrderInv
      BY <1>1, <1>10
    <2>2. Follows(lastByte, b)
      <3>1. CASE logPc = "write"
        BY <1>1, <2>1, <3>1 DEF StreamInv, b
      <3>2. CASE logPc = "packet"
        <4>1. b.from = "packet" /\ Complete(lastByte)
          BY <1>2, <1>3, <2>1, <3>2 DEF StreamInv, b
        <4>2. lastByte.from = "log" => lastByte.left = 0
          BY <4>1 DEF Complete
        <4> QED
          BY <4>1, <4>2 DEF Follows
      <3> QED
        BY <1>4, <3>1, <3>2
    <2>3. /\ Chained(toSend')
          /\ toSend' # <<>> => Follows(b, toSend'[1]) /\ toSend'[Len(toSend')] = toSend[Len(toSend)]
      BY <1>1, <1>2, <2>1, ChainTail DEF StreamInv, b
    <2>4. /\ Chained(txQueue') /\ txQueue' # <<>> /\ Follows(wire', txQueue'[1])
          /\ lastByte' = b
          /\ \A i \in 1 .. Len(txQueue') :
               txQueue'[i] = b \/ \E k \in 1 .. Len(txQueue) : txQueue'[i] = txQueue[k]
      BY <1>1, <1>3, <1>6, <2>1, <2>2, ByteQueued
    <2>5. StreamInv'
      <3>1. logPc = "write" /\ toSend' # <<>> =>
              Follows(b, toSend'[1]) /\ toSend'[Len(toSend')].left = 0
        BY <1>1, <2>1, <2>3 DEF StreamInv
      <3>2. logPc # "write" \/ toSend' = <<>> => Complete(b)
        <4>1. CASE logPc = "packet"
          BY <1>2, <1>3, <2>1, <4>1 DEF StreamInv, b, Complete
        <4>2. CASE logPc = "write" /\ toSend' = <<>>
          <5>1. Len(toSend) = 1
            BY <1>2, <1>5, <4>2
          <5> QED
            BY <1>1, <2>1, <4>2, <5>1 DEF StreamInv, b, Complete
        <4> QED
          BY <1>4, <4>1, <4>2
      <3>3. logPc = "packet" => \A i \in 1 .. Len(toSend') : toSend'[i].from = "packet"
        BY <1>5, <2>1 DEF StreamInv
      <3>4. Chained(txQueue)' /\ Chained(toSend)' /\ (Complete(lastByte)' <=> Complete(b))
        BY <2>3, <2>4 DEF Chained, Complete
      <3> QED
        BY <1>1, <2>4, <3>1, <3>2, <3>3, <3>4 DEF StreamInv
    <2>6. OnTheWay' \subseteq OnTheWay
      <3>1. b \in OnTheWay
        <4>1. 1 \in 1 .. Len(toSend)
          BY <1>2, <1>3
        <4> QED
          BY <4>1 DEF OnTheWay, b
      <3>2. \A i \in 1 .. Len(txQueue') : txQueue'[i] \in OnTheWay
        BY <2>4, <3>1 DEF OnTheWay
      <3>3. \A i \in 1 .. Len(toSend') : toSend'[i] \in OnTheWay
        BY <1>5 DEF OnTheWay
      <3>4. wire' \in OnTheWay
        BY <1>1 DEF OnTheWay
      <3> QED
        BY <3>2, <3>3, <3>4 DEF OnTheWay
    <2> QED
      BY <1>1, <2>1, <2>5, <2>6, OrderStands
  <1> QED
    BY <1>7, <1>8, <1>9, <1>10

\* A write ends: a record is then queued whole, a packet perhaps cut.
LEMMA EndWriteStep == ASSUME BlackboxInv, endWrite PROVE BlackboxInv'
  <1> USE DEF BlackboxInv, textVars
  <1>1. /\ UNCHANGED <<outputMode, logQueue, logSequence, delivered, drainedNow, txRing, txHead, txTail,
                       wire, uartMixed, packets, textVars>>
        /\ logPc \in {"write", "packet"} /\ toSend' = <<>> /\ txIrq' = TRUE
        /\ toSend = <<>> \/ txNext(txHead) = txTail
    BY DEF endWrite
  <1>2. /\ Len(toSend) \in Nat /\ toSend \in Seq(Bytes) /\ TxRoom \in Nat /\ droppedRecords \in Nat
    BY BlackboxTypes
  <1>3. logPc = "write" => toSend = <<>>
    <2>1. txNext(txHead) = txTail => availableForWrite = 0
      BY <1>2, TxSlotsUsed DEF availableForWrite
    <2>2. logPc = "write" /\ availableForWrite = 0 => Len(toSend) = 0
      BY <1>2 DEF DrainInv
    <2>3. Len(toSend) = 0 => toSend = <<>>
      BY <1>2
    <2> QED
      BY <1>1, <2>1, <2>2, <2>3
  <1>4. droppedRecords' = droppedRecords
    BY <1>2, <1>3 DEF endWrite
  <1>5. logPc' = IF logPc = "packet" THEN "idle" ELSE "pop"
    BY <1>1, <1>3 DEF endWrite
  <1>6. BlackboxTypeOK'
    <2>1. toSend' \in Seq(Bytes) /\ txIrq' \in BOOLEAN /\ droppedRecords' \in 0 .. 2 * MaxRecords
      BY <1>1, <1>4 DEF BlackboxTypeOK
    <2>2. logPc' \in {"idle", "pop"}
      BY <1>5
    <2> QED
      BY <1>1, <2>1, <2>2 DEF BlackboxTypeOK
  <1>7. DrainInv' /\ CountInv' /\ SortedInv' /\ LossIsCounted' /\ BytesAreServed' /\ TextInv'
    BY <1>1, <1>4, <1>5
       DEF DrainInv, CountInv, SortedInv, LossIsCounted, BytesAreServed, TextInv, textHoldsHead
  <1>8. txQueue' = txQueue /\ lastByte' = lastByte
    <2>1. txQueue' = txQueue
      BY <1>1, TxStands
    <2> QED
      BY <1>1, <2>1 DEF lastByte
  <1>9. ASSUME ~uartMixed PROVE StreamInv' /\ OrderInv'
    <2>1. Complete(lastByte)
      BY <1>1, <1>3, <1>9 DEF StreamInv
    <2>2. Chained(txQueue)' /\ Chained(toSend)' /\ Complete(lastByte)'
      BY <1>1, <1>8, <1>9, <2>1 DEF StreamInv, Chained, Complete
    <2>3. StreamInv'
      BY <1>1, <1>5, <1>8, <1>9, <2>2 DEF StreamInv
    <2>4. OnTheWay' \subseteq OnTheWay
      BY <1>1, <1>8 DEF OnTheWay
    <2> QED
      BY <1>1, <1>9, <2>3, <2>4, OrderStands
  <1> QED
    BY <1>1, <1>6, <1>7, <1>9

\* The interrupt sends the first byte of the queue.
LEMMA ServiceTxStep == ASSUME BlackboxInv, serviceTx PROVE BlackboxInv'
  <1> USE DEF BlackboxInv, drainVars, recordVars, textVars
  <1>1. /\ UNCHANGED <<outputMode, logQueue, logSequence, droppedRecords, delivered, logPc, drainedNow,
                       toSend, txRing, txHead, uartMixed, packets, textVars>>
        /\ \/ txTail = txHead /\ txTail' = txTail /\ wire' = wire
           \/ txTail # txHead /\ txTail' = txNext(txTail) /\ wire' = txRing[txTail]
        /\ txIrq' = (txIrq /\ txTail' # txHead)
    BY DEF serviceTx
  <1>2. /\ txQueue \in Seq(Bytes) /\ Len(txQueue) \in Nat /\ TxRoom \in Nat
        /\ wire \in Bytes /\ txIrq \in BOOLEAN /\ Len(toSend) \in Nat
        /\ txRing \in [TxSlots -> Bytes] /\ {txHead, txTail} \subseteq TxSlots
    BY BlackboxTypes DEF BlackboxTypeOK
  <1>3. txIrq' \in BOOLEAN /\ BytesAreServed' /\ CountInv' /\ SortedInv' /\ LossIsCounted'
    BY <1>1, <1>2 DEF BytesAreServed, CountInv, SortedInv, LossIsCounted
  <1>4. CASE txTail = txHead
    <2>1. txTail' = txTail /\ wire' = wire
      BY <1>1, <1>4
    <2>2. UNCHANGED <<txQueue, availableForWrite>>
      BY <1>1, <2>1, TxStands
    <2>3. BlackboxTypeOK' /\ DrainInv' /\ TextInv'
      BY <1>1, <1>3, <2>1, <2>2 DEF BlackboxTypeOK, DrainInv, ToSd, TextInv, textHoldsHead
    <2>4. ~uartMixed => StreamInv' /\ OrderInv'
      BY <1>1, <2>1, <2>2, BytesStand, OrderStands
    <2> QED
      BY <1>1, <1>3, <2>3, <2>4
  <1>5. CASE txTail # txHead
    <2>1. txTail' = txNext(txTail) /\ wire' = txRing[txTail]
      BY <1>1, <1>5
    <2>2. /\ txQueue # <<>> /\ wire' = Head(txQueue) /\ txQueue' = Tail(txQueue)
          /\ txUsed' = txUsed - 1 /\ txUsed \in Nat /\ txUsed <= TxRoom
      BY <1>1, <1>2, <1>5, <2>1, TxTake, TxSlotsUsed
    <2>3. BlackboxTypeOK'
      <3>1. txTail' \in TxSlots /\ wire' \in Bytes
        BY <1>2, <2>1, TxRing
      <3> QED
        BY <1>1, <1>3, <3>1 DEF BlackboxTypeOK
    <2>4. DrainInv'
      <3>1. logPc = "write" => Len(toSend) <= TxRoom - txUsed'
        BY <1>2, <2>2 DEF DrainInv, availableForWrite
      <3> QED
        BY <1>1, <3>1 DEF DrainInv, ToSd, availableForWrite
    <2>5. TextInv'
      <3>1. BlackboxTypeOK' => ((txUsed = TxRoom) <=> (txNext(txHead) = txTail))'
        BY TxSlotsUsed, PTL
      <3>2. txNext(txHead)' # txTail'
        BY <1>2, <2>2, <2>3, <3>1
      <3>3. txNext(txHead)' = txNext(txHead)
        BY <1>1 DEF txNext
      <3> QED
        BY <1>1, <3>2, <3>3 DEF TextInv, textHoldsHead
    <2>6. ASSUME ~uartMixed PROVE StreamInv' /\ OrderInv'
      <3>1. /\ Chained(txQueue') /\ Len(txQueue') = Len(txQueue) - 1
            /\ \A i \in 1 .. Len(txQueue') : txQueue'[i] = txQueue[i + 1]
            /\ txQueue' # <<>> => /\ Follows(txQueue[1], txQueue'[1])
                                  /\ txQueue'[Len(txQueue')] = txQueue[Len(txQueue)]
        <4>1. Chained(txQueue)
          BY <2>6 DEF StreamInv
        <4> QED
          BY ONLY <1>2, <2>2, <4>1, ChainTail
      <3>2. wire' = txQueue[1] /\ 1 \in 1 .. Len(txQueue)
        BY <1>2, <2>2
      <3>3. lastByte' = lastByte
        <4>1. CASE txQueue' = <<>>
          <5>1. Len(txQueue) = 1
            BY <1>2, <3>1, <4>1
          <5> QED
            BY <2>2, <3>2, <4>1, <5>1 DEF lastByte
        <4>2. CASE txQueue' # <<>>
          BY <2>2, <3>1, <4>2 DEF lastByte
        <4> QED
          BY <4>1, <4>2
      <3>4. StreamInv'
        <4>1. Chained(txQueue)' /\ Chained(toSend)' /\ (Complete(lastByte)' <=> Complete(lastByte))
          BY <1>1, <2>6, <3>1, <3>3 DEF StreamInv, Chained, Complete
        <4>2. txQueue' # <<>> => Follows(wire', txQueue'[1])
          BY <3>1, <3>2
        <4> QED
          BY <1>1, <2>6, <3>3, <4>1, <4>2 DEF StreamInv
      <3>5. OnTheWay' \subseteq OnTheWay
        <4>1. wire' \in OnTheWay
          BY <3>2 DEF OnTheWay
        <4>2. ASSUME NEW i \in 1 .. Len(txQueue') PROVE txQueue'[i] \in OnTheWay
          <5>1. i + 1 \in 1 .. Len(txQueue) /\ txQueue'[i] = txQueue[i + 1]
            BY <1>2, <3>1
          <5> QED
            BY <5>1 DEF OnTheWay
        <4>3. \A i \in 1 .. Len(toSend') : toSend'[i] \in OnTheWay
          BY <1>1 DEF OnTheWay
        <4> QED
          BY <4>1, <4>2, <4>3 DEF OnTheWay
      <3> QED
        BY <1>1, <2>6, <3>4, <3>5, OrderStands
    <2> QED
      BY <1>1, <1>3, <2>3, <2>4, <2>5, <2>6
  <1> QED
    BY <1>4, <1>5

\* The steps of a text that queue nothing.
LEMMA TextGoesOnStep ==
    ASSUME BlackboxInv, nextText \/ slotText \/ byteText
    PROVE  BlackboxInv'
  <1> USE DEF BlackboxInv, drainVars, recordVars, uartVars, queueVars
  <1>1. /\ UNCHANGED <<outputMode, logQueue, logSequence, droppedRecords, delivered, logPc, drainedNow,
                       toSend, txHead, txTail, wire, uartMixed, packets, texts>>
        /\ logPc = "idle" /\ textPc \in {"next", "slot", "byte"}
    BY DEF nextText, slotText, byteText
  <1>2. /\ txRing \in [TxSlots -> Bytes] /\ {txHead, txTail, textNext, textSlot} \subseteq TxSlots
        /\ text \in Seq(Bytes) /\ txIrq \in BOOLEAN /\ textPc \in {"next", "slot", "byte", "head", "idle"}
    BY DEF BlackboxTypeOK
  <1>3. /\ txRing' \in [TxSlots -> Bytes] /\ {textNext, textSlot}' \subseteq TxSlots
        /\ text' \in Seq(Bytes) /\ txIrq' \in BOOLEAN /\ textPc' \in {"next", "slot", "byte", "head", "idle"}
        /\ TextInv' /\ BytesAreServed'
        /\ ~uartMixed => \A i \in TxSlots \ {txHead} : txRing'[i] = txRing[i]
    <2>1. CASE nextText
      <3>1. txNext(txHead)' = txNext(txHead)
        BY <1>1 DEF txNext
      <3>2. CASE text = <<>> \/ txNext(txHead) = txTail
        <4>1. /\ textPc' = "idle" /\ text' = <<>> /\ txIrq' = TRUE
              /\ UNCHANGED <<textNext, textSlot, txRing>>
          BY <2>1, <3>2 DEF nextText
        <4> QED
          BY <1>1, <1>2, <4>1 DEF TextInv, textHoldsHead, BytesAreServed
      <3>3. CASE ~(text = <<>> \/ txNext(txHead) = txTail)
        <4>1. /\ textPc' = "slot" /\ textNext' = txNext(txHead)
              /\ UNCHANGED <<text, txIrq, textSlot, txRing>>
          BY <2>1, <3>3 DEF nextText
        <4>2. textNext' \in TxSlots
          BY <4>1, TxRing
        <4> QED
          BY <1>1, <1>2, <3>1, <3>3, <4>1, <4>2 DEF TextInv, textHoldsHead, BytesAreServed
      <3> QED
        BY <3>2, <3>3
    <2>2. CASE slotText
      <3>1. /\ textPc = "slot" /\ textPc' = "byte" /\ textSlot' = txHead
            /\ UNCHANGED <<text, textNext, txIrq, txRing>>
        BY <2>2 DEF slotText
      <3>2. txNext(txHead)' = txNext(txHead)
        BY <1>1 DEF txNext
      <3> QED
        BY <1>1, <1>2, <3>1, <3>2 DEF TextInv, textHoldsHead, BytesAreServed
    <2>3. CASE byteText
      <3>1. /\ textPc = "byte" /\ textPc' = "head" /\ txRing' = [txRing EXCEPT ![textSlot] = Head(text)]
            /\ UNCHANGED <<text, textNext, textSlot, txIrq>>
        BY <2>3 DEF byteText
      <3>2. text # <<>> /\ Head(text) = PacketByte
        <4>1. text # <<>>
          BY <3>1 DEF TextInv, textHoldsHead
        <4>2. Head(text) = text[1] /\ 1 \in 1 .. Len(text)
          BY <1>2, <4>1
        <4> QED
          BY <4>1, <4>2 DEF TextInv
      <3>3. /\ txRing' \in [TxSlots -> Bytes]
            /\ ~uartMixed => /\ textSlot = txHead /\ txRing'[txHead] = PacketByte
                             /\ \A i \in TxSlots \ {txHead} : txRing'[i] = txRing[i]
        BY <1>2, <3>1, <3>2, TypedPacketByte DEF TextInv
      <3>4. txNext(txHead)' = txNext(txHead)
        BY <1>1 DEF txNext
      <3> QED
        BY <1>1, <1>2, <3>1, <3>3, <3>4 DEF TextInv, textHoldsHead, BytesAreServed
    <2> QED
      BY <2>1, <2>2, <2>3
  <1>4. BlackboxTypeOK'
    BY <1>1, <1>3 DEF BlackboxTypeOK
  <1>5. DrainInv' /\ CountInv' /\ SortedInv' /\ LossIsCounted'
    BY <1>1 DEF DrainInv, CountInv, SortedInv, LossIsCounted
  <1>6. ASSUME ~uartMixed PROVE StreamInv' /\ OrderInv'
    <2>1. txQueue' = txQueue
      BY <1>1, <1>3, <1>6, TxStands
    <2> QED
      BY <1>1, <1>6, <2>1, BytesStand, OrderStands
  <1> QED
    BY <1>1, <1>3, <1>4, <1>5, <1>6

\* A text's byte is queued behind the bytes of packets and whole records.
LEMMA HeadTextStep == ASSUME BlackboxInv, headText PROVE BlackboxInv'
  <1> USE DEF BlackboxInv, drainVars, recordVars
  <1>1. /\ UNCHANGED <<outputMode, logQueue, logSequence, droppedRecords, delivered, logPc, drainedNow,
                       toSend, txRing, txTail, txIrq, wire, uartMixed, packets, texts>>
        /\ logPc = "idle" /\ textPc = "head" /\ textPc' = "next"
        /\ txHead' = textNext /\ text' = Tail(text) /\ textNext' = 0 /\ textSlot' = 0
    BY DEF headText
  <1>2. /\ text \in Seq(Bytes) /\ text # <<>> /\ textNext \in TxSlots /\ toSend = <<>>
    BY <1>1 DEF BlackboxTypeOK, TextInv, textHoldsHead, DrainInv
  <1>3. /\ text' \in Seq(Bytes) /\ \A i \in 1 .. Len(text') : text'[i] = PacketByte
    <2>1. /\ text' \in Seq(Bytes) /\ Len(text') = Len(text) - 1 /\ Len(text) \in Nat
          /\ \A i \in 1 .. Len(text') : text'[i] = text[i + 1]
      BY <1>1, <1>2, HeadTailProperties, LenProperties
    <2>2. \A i \in 1 .. Len(text') : i + 1 \in 1 .. Len(text)
      BY <2>1
    <2> QED
      BY <2>1, <2>2 DEF TextInv
  <1>4. BlackboxTypeOK'
    <2>1. 0 \in TxSlots
      BY BlackboxAssumption DEF TxSlots
    <2> QED
      BY <1>1, <1>2, <1>3, <2>1 DEF BlackboxTypeOK
  <1>5. /\ TextInv' /\ DrainInv' /\ CountInv' /\ SortedInv' /\ LossIsCounted' /\ BytesAreServed'
    BY <1>1, <1>3 DEF TextInv, textHoldsHead, DrainInv, CountInv, SortedInv, LossIsCounted, BytesAreServed
  <1>6. ASSUME ~uartMixed PROVE StreamInv' /\ OrderInv'
    <2>1. /\ txHead' = txNext(txHead) /\ txNext(txHead) # txTail /\ txRing'[txHead] = PacketByte
          /\ StreamInv /\ OrderInv
      BY <1>1, <1>6 DEF TextInv, textHoldsHead
    <2>2. txQueue' = Append(txQueue, PacketByte)
      BY <1>1, <2>1, TypedPacketByte, TxPut
    <2>3. Complete(lastByte) /\ Follows(lastByte, PacketByte) /\ Complete(PacketByte)
      BY <1>1, <2>1, TypedPacketByte DEF StreamInv, Complete, Follows
    <2>4. /\ Chained(txQueue') /\ txQueue' # <<>> /\ Follows(wire', txQueue'[1])
          /\ lastByte' = PacketByte
          /\ \A i \in 1 .. Len(txQueue') :
               txQueue'[i] = PacketByte \/ \E k \in 1 .. Len(txQueue) : txQueue'[i] = txQueue[k]
      BY <1>1, <2>1, <2>2, <2>3, TypedPacketByte, ByteQueued
    <2>5. StreamInv'
      BY <1>1, <1>2, <2>1, <2>3, <2>4 DEF StreamInv, Chained, Complete
    <2>6. ASSUME NEW c \in OnTheWay', c.from = "log" PROVE c \in OnTheWay
      <3>1. c = wire \/ \E i \in 1 .. Len(txQueue') : c = txQueue'[i]
        BY <1>1, <1>2 DEF OnTheWay
      <3>2. c = wire \/ \E k \in 1 .. Len(txQueue) : c = txQueue[k]
        BY <2>4, <2>6, <3>1, TypedPacketByte
      <3> QED
        BY <3>2 DEF OnTheWay
    <2>7. OrderInv'
      BY <1>1, <2>1, <2>6 DEF OrderInv
    <2> QED
      BY <2>5, <2>7
  <1> QED
    BY <1>1, <1>4, <1>5, <1>6

\* Every step of the log, the packets, the texts and the port keeps them in step.
LEMMA BlackboxStep == BlackboxInv /\ [BlackboxNext]_blackboxVars => BlackboxInv'
  <1> SUFFICES ASSUME BlackboxInv, [BlackboxNext]_blackboxVars PROVE BlackboxInv'
    OBVIOUS
  <1>1. CASE UNCHANGED blackboxVars
    <2>1. UNCHANGED <<outputMode, logQueue, logSequence, droppedRecords, delivered, logPc,
                      drainedNow, toSend, uartVars, packets, textVars>>
      BY <1>1 DEF blackboxVars, drainVars, recordVars
    <2>2. /\ UNCHANGED <<availableForWrite, uartMixed>> /\ TextInv' /\ BytesAreServed'
          /\ ~uartMixed => StreamInv' /\ OrderInv'
      BY <2>1, PortStands, OrderStands DEF BlackboxInv
    <2>3. BlackboxTypeOK'
      BY <2>1, PortTypesStand DEF BlackboxInv, BlackboxTypeOK
    <2> QED
      BY <2>1, <2>2, <2>3 DEF BlackboxInv, DrainInv, CountInv, SortedInv, LossIsCounted, ToSd
  <1>2. CASE drain
    BY <1>2, DrainStep, OfferStep, PopStep DEF drain
  <1>3. CASE textGoesOn
    BY <1>3, TextGoesOnStep, HeadTextStep DEF textGoesOn
  <1> QED
    BY <1>1, <1>2, <1>3, WriteRecordStep, WriteByteStep, EndWriteStep, ServiceTxStep, WritePacketStep,
       BeginTextStep
       DEF BlackboxNext

\* Unless writes have mixed, only the interrupt sends, and the byte it sends
\* follows the one before.
LEMMA RecordsGoOutWhole ==
    ASSUME BlackboxInv, [BlackboxNext]_blackboxVars, wire' # wire, ~uartMixed
    PROVE  Follows(wire, wire')
  <1> USE DEF drainVars, uartVars, recordVars
  <1>1. CASE serviceTx
    <2>1. txTail # txHead /\ wire' = txRing[txTail]
      BY <1>1 DEF serviceTx
    <2>2. txQueue # <<>> /\ txRing[txTail] = txQueue[1]
      <3>1. txUsed # 0 /\ txUsed \in Nat /\ Len(txQueue) = txUsed /\ txQueue \in Seq(Bytes)
        BY <2>1, TxSlotsUsed DEF BlackboxInv
      <3>2. txQueue[1] = txRing[(txTail + 1 - 1) % (TxRoom + 1)]
        <4>1. 1 \in 1 .. txUsed
          BY <3>1
        <4> QED
          BY <4>1 DEF txQueue
      <3>3. (txTail + 1 - 1) % (TxRoom + 1) = txTail
        <4>1. txTail \in 0 .. TxRoom /\ TxRoom \in Nat
          BY BlackboxAssumption DEF BlackboxInv, BlackboxTypeOK, TxSlots
        <4> QED
          BY <4>1
      <3> QED
        BY <3>1, <3>2, <3>3
    <2> QED
      BY <2>1, <2>2 DEF BlackboxInv, StreamInv
  <1>2. CASE beginWrite
    BY <1>2 DEF beginWrite
  <1>3. CASE drain
    BY <1>2, <1>3 DEF drain, beginDrain, peekRecord, writeCard, offerUart, popRecord
  <1>4. CASE writeRecord \/ writeByte \/ endWrite \/ UNCHANGED blackboxVars
    BY <1>4 DEF writeRecord, writeByte, endWrite, blackboxVars
  <1>5. CASE textGoesOn
    BY <1>5 DEF textGoesOn, nextText, slotText, byteText, headText
  <1>6. CASE \/ \E size \in PacketSizes : writePacket(size)
             \/ \E size \in TextSizes : beginText(size)
    BY <1>2, <1>6 DEF writePacket, beginText
  <1> QED
    BY <1>1, <1>3, <1>4, <1>5, <1>6 DEF BlackboxNext

-----------------------------------------------------------------------------
(* The USB output.                                                          *)

UsbByte == [of : Nat, left : Nat]

UsbDataOK ==
    /\ usbRing \in [0 .. UsbCapacity - 1 -> UsbByte]
    /\ usbPacket \in [UsbTasks -> Seq(UsbByte)]
    /\ enqueued \in Seq(UsbByte) /\ received \in Seq(UsbByte)

\* Between tryLock() and the unlock a task is alone with the ring.
HoldsLock == {"locked", "head", "count", "full", "done", "service", "serviced"}
LockInv ==
    /\ \A t \in UsbTasks : usbPc[t] \in HoldsLock => usbLock
    /\ \A t, u \in UsbTasks : {usbPc[t], usbPc[u]} \subseteq HoldsLock => t = u

\* A packet has a last byte, one only, which ends it.
PacketInv ==
    \A t \in UsbTasks :
      /\ \A k \in 1 .. Len(usbPacket[t]) : usbPacket[t][k].left = Len(usbPacket[t]) - k
      /\ usbPc[t] \in {"locked", "head", "count"} => Len(usbPacket[t]) >= 1

\* The head stands behind the waiting bytes, and behind the packet whose bytes
\* the count does not yet include.
RingInv ==
    /\ (\A t \in UsbTasks : usbPc[t] # "count") => usbHead = at(usbTail + usbCount)
    /\ \A t \in UsbTasks :
         usbPc[t] = "count" => usbHead = at(usbTail + usbCount + Len(usbPacket[t]))
    /\ \A t \in UsbTasks : usbPc[t] \in {"head", "count"} =>
         /\ Len(usbPacket[t]) <= UsbCapacity - usbCount
         /\ \A k \in 1 .. Len(usbPacket[t]) :
              usbRing[at(usbTail + usbCount + k - 1)] = usbPacket[t][k]

\* Byte for byte, at every step and not only while the lock is free.
BytesLineUp ==
    /\ Len(enqueued) = Len(received) + usbCount
    /\ \A i \in 1 .. Len(received) : enqueued[i] = received[i]
    /\ \A k \in 1 .. usbCount : enqueued[Len(received) + k] = usbRing[at(usbTail + k - 1)]

UsbInv ==
    /\ UsbTypeOK /\ UsbDataOK /\ LockInv /\ PacketInv /\ RingInv /\ BytesLineUp
    /\ RefusalsAreCounted

\* Places in the ring, once around its end.
LEMMA Places ==
    /\ \A x \in 0 .. UsbCapacity - 1 : at(x) = x
    /\ \A x \in UsbCapacity .. 2 * UsbCapacity - 1 : at(x) = x - UsbCapacity
  BY UsbAssumption DEF at

\* The types of the USB output in the form the proofs use.
LEMMA UsbTypes ==
    ASSUME UsbInv
    PROVE  /\ UsbCapacity \in Nat \ {0} /\ usbCount \in 0 .. UsbCapacity
           /\ {usbHead, usbTail} \subseteq 0 .. UsbCapacity - 1
           /\ \A t \in UsbTasks : usbPacket[t] \in Seq(UsbByte) /\ Len(usbPacket[t]) \in Nat
           /\ Len(enqueued) \in Nat /\ DOMAIN enqueued = 1 .. Len(enqueued)
           /\ Len(received) \in Nat /\ DOMAIN received = 1 .. Len(received)
  <1>1. enqueued \in Seq(UsbByte) /\ received \in Seq(UsbByte)
    BY DEF UsbInv, UsbDataOK
  <1>2. \A t \in UsbTasks : usbPacket[t] \in Seq(UsbByte)
    BY DEF UsbInv, UsbDataOK
  <1>3. \A t \in UsbTasks : Len(usbPacket[t]) \in Nat
    BY <1>2
  <1> QED
    BY <1>1, <1>2, <1>3, UsbAssumption DEF UsbInv, UsbTypeOK

\* The packets that are neither taken nor refused yet are those of calls.
InCall == {"locked", "head", "count", "full", "drop"}
underWay == {t \in UsbTasks : usbPc[t] \in InCall}
lastBytes == {i \in DOMAIN enqueued : enqueued[i].left = 0}

\* A call begins and ends with one more and one less under way.
LEMMA Calls ==
    ASSUME UsbTypeOK, NEW t \in UsbTasks, NEW place, to(t, place)
    PROVE  /\ Cardinality(underWay) \in Nat /\ Cardinality(underWay') \in Nat
           /\ (usbPc[t] \in InCall <=> place \in InCall) => underWay' = underWay
           /\ usbPc[t] \notin InCall /\ place \in InCall =>
                Cardinality(underWay') = Cardinality(underWay) + 1
           /\ usbPc[t] \in InCall /\ place \notin InCall =>
                Cardinality(underWay) = Cardinality(underWay') + 1
  <1>1. \A u \in UsbTasks : usbPc'[u] = IF u = t THEN place ELSE usbPc[u]
    BY DEF to, UsbTypeOK
  <1>2. IsFiniteSet(underWay) /\ IsFiniteSet(underWay')
    BY UsbAssumption, FS_Subset DEF underWay
  <1>3. Cardinality(underWay) \in Nat /\ Cardinality(underWay') \in Nat
    BY <1>2, FS_CardinalityType
  <1>4. (usbPc[t] \in InCall <=> place \in InCall) => underWay' = underWay
    BY <1>1 DEF underWay
  <1>5. ASSUME usbPc[t] \notin InCall, place \in InCall
        PROVE  Cardinality(underWay') = Cardinality(underWay) + 1
    <2>1. underWay' = underWay \cup {t} /\ t \notin underWay
      BY <1>1, <1>5 DEF underWay
    <2> QED
      BY <1>2, <2>1, FS_AddElement
  <1>6. ASSUME usbPc[t] \in InCall, place \notin InCall
        PROVE  Cardinality(underWay) = Cardinality(underWay') + 1
    <2>1. underWay = underWay' \cup {t} /\ t \notin underWay'
      BY <1>1, <1>6 DEF underWay
    <2> QED
      BY <1>2, <2>1, FS_AddElement
  <1> QED
    BY <1>3, <1>4, <1>5, <1>6

\* The packets taken are counted by their last bytes.
LEMMA LastBytes ==
    ASSUME UsbInv
    PROVE  Cardinality(lastBytes) \in Nat /\ IsFiniteSet(lastBytes)
  <1>1. IsFiniteSet(1 .. Len(enqueued))
    BY UsbTypes, FS_Interval
  <1>2. IsFiniteSet(lastBytes)
    BY <1>1, UsbTypes, FS_Subset DEF lastBytes
  <1> QED
    BY <1>2, FS_CardinalityType

\* The empty ring satisfies the invariant.
LEMMA UsbInitInv == UsbInit => UsbInv
  <1> SUFFICES ASSUME UsbInit PROVE UsbInv
    OBVIOUS
  <1> USE UsbAssumption DEF UsbInit
  <1>1. UsbTypeOK
    <2>1. /\ {usbHead, usbTail} \subseteq 0 .. UsbCapacity - 1 /\ usbCount \in 0 .. UsbCapacity
          /\ {droppedWrites, offered} \subseteq 0 .. MaxUsbPackets
      OBVIOUS
    <2>2. /\ usbLock \in BOOLEAN /\ attached \in BOOLEAN
          /\ usbPc \in [UsbTasks -> {"away", "locked", "head", "count", "full", "done", "drop",
                                     "service", "serviced"}]
      OBVIOUS
    <2> QED
      BY <2>1, <2>2 DEF UsbTypeOK
  <1>2. UsbDataOK
    <2>1. [of |-> 0, left |-> 0] \in UsbByte /\ <<>> \in Seq(UsbByte)
      BY DEF UsbByte
    <2> QED
      BY <2>1 DEF UsbDataOK
  <1>3. LockInv /\ PacketInv
    BY DEF LockInv, PacketInv, HoldsLock
  <1>4. RingInv
    BY Places DEF RingInv
  <1>5. BytesLineUp
    BY DEF BytesLineUp
  <1>6. RefusalsAreCounted
    <2>1. /\ {i \in DOMAIN enqueued : enqueued[i].left = 0} = {}
          /\ {t \in UsbTasks : usbPc[t] \in {"locked", "head", "count", "full", "drop"}} = {}
      OBVIOUS
    <2> QED
      BY <2>1, FS_EmptySet DEF RefusalsAreCounted
  <1> QED
    BY <1>1, <1>2, <1>3, <1>4, <1>5, <1>6 DEF UsbInv

\* The lock is taken by one who finds it free, kept, or given back.
LEMMA LockStep ==
    ASSUME UsbTypeOK, LockInv, NEW t \in UsbTasks, NEW place, to(t, place),
           \/ tryLock
           \/ UNCHANGED usbLock /\ (place \in HoldsLock => usbPc[t] \in HoldsLock)
           \/ usbPc[t] \in HoldsLock /\ place \notin HoldsLock
    PROVE  LockInv'
  <1>1. \A u \in UsbTasks : usbPc'[u] = IF u = t THEN place ELSE usbPc[u]
    BY DEF to, UsbTypeOK
  <1>2. CASE tryLock
    BY <1>1, <1>2 DEF LockInv, tryLock
  <1>3. CASE UNCHANGED usbLock /\ (place \in HoldsLock => usbPc[t] \in HoldsLock)
    BY <1>1, <1>3 DEF LockInv
  <1>4. CASE usbPc[t] \in HoldsLock /\ place \notin HoldsLock
    BY <1>1, <1>4 DEF LockInv
  <1> QED
    BY <1>2, <1>3, <1>4

\* A task outside the ring's two half-done places leaves the ring as it was.
LEMMA RingStands ==
    ASSUME UsbInv, NEW t \in UsbTasks, NEW place, to(t, place),
           UNCHANGED <<ringVars, enqueued, received>>,
           \A u \in UsbTasks : u # t => usbPacket'[u] = usbPacket[u],
           usbPc[t] # "count", place \notin {"head", "count"}
    PROVE  RingInv' /\ BytesLineUp'
  <1>1. \A u \in UsbTasks : usbPc'[u] = IF u = t THEN place ELSE usbPc[u]
    BY DEF to, UsbInv, UsbTypeOK
  <1>2. UNCHANGED <<usbRing, usbHead, usbTail, usbCount, enqueued, received>>
    BY DEF ringVars
  <1>3. BytesLineUp'
    BY <1>2 DEF UsbInv, BytesLineUp
  <1>4. (\A u \in UsbTasks : usbPc'[u] # "count") => usbHead' = at(usbTail' + usbCount')
    BY <1>1, <1>2 DEF UsbInv, RingInv
  <1>5. ASSUME NEW u \in UsbTasks, usbPc'[u] \in {"head", "count"}
        PROVE  u # t /\ usbPc[u] = usbPc'[u] /\ usbPacket'[u] = usbPacket[u]
    BY <1>1, <1>5
  <1>6. ASSUME NEW u \in UsbTasks, usbPc'[u] = "count"
        PROVE  usbHead' = at(usbTail' + usbCount' + Len(usbPacket'[u]))
    BY <1>2, <1>5, <1>6 DEF UsbInv, RingInv
  <1>7. ASSUME NEW u \in UsbTasks, usbPc'[u] \in {"head", "count"}
        PROVE  /\ Len(usbPacket'[u]) <= UsbCapacity - usbCount'
               /\ \A k \in 1 .. Len(usbPacket'[u]) :
                    usbRing'[at(usbTail' + usbCount' + k - 1)] = usbPacket'[u][k]
    BY <1>2, <1>5, <1>7 DEF UsbInv, RingInv
  <1> QED
    BY <1>3, <1>4, <1>6, <1>7 DEF RingInv
\* The packets offered are refused, taken or under way.
LEMMA Refusals ==
    RefusalsAreCounted <=> offered = droppedWrites + Cardinality(lastBytes) + Cardinality(underWay)
  BY DEF RefusalsAreCounted, lastBytes, underWay, InCall

\* A packet is brought, and the lock tried.
LEMMA EnqueueUsbStep ==
    ASSUME UsbInv, NEW t \in UsbTasks, NEW size \in UsbPacketSizes, enqueueUsb(t, size)
    PROVE  UsbInv'
  <1>1. /\ usbPc[t] = "away" /\ offered < MaxUsbPackets /\ offered' = offered + 1
        /\ usbPacket' = [usbPacket EXCEPT ![t] = UsbBytes(offered + 1, size)]
        /\ UNCHANGED <<ringVars, droppedWrites, attached, enqueued, received>>
    BY DEF enqueueUsb
  <1>2. PICK place \in {"locked", "drop"} :
          /\ to(t, place)
          /\ \/ place = "locked" /\ tryLock
             \/ place = "drop" /\ UNCHANGED usbLock
    BY DEF enqueueUsb
  <1>3. offered \in Nat /\ offered' \in 0 .. MaxUsbPackets /\ size \in Nat \ {0}
    BY <1>1, UsbAssumption DEF UsbInv, UsbTypeOK
  <1>4. UsbTypeOK'
    <2>1. usbLock' \in BOOLEAN
      BY <1>2 DEF tryLock, UsbInv, UsbTypeOK
    <2>2. usbPc' \in [UsbTasks -> {"away", "locked", "head", "count", "full", "done", "drop",
                                   "service", "serviced"}]
      BY <1>2 DEF to, UsbInv, UsbTypeOK
    <2> QED
      BY <1>1, <1>3, <2>1, <2>2 DEF UsbInv, UsbTypeOK, ringVars
  <1>5. LET bytes == UsbBytes(offered + 1, size)
        IN  /\ bytes \in Seq(UsbByte) /\ Len(bytes) = size
            /\ \A k \in 1 .. size : bytes[k].left = size - k
    <2>1. \A k \in 1 .. size : size - k \in Nat
      BY <1>3
    <2>2. UsbBytes(offered + 1, size) \in [1 .. size -> UsbByte]
      BY <1>3, <2>1 DEF UsbBytes, UsbByte
    <2>3. \A k \in 1 .. size : UsbBytes(offered + 1, size)[k].left = size - k
      BY DEF UsbBytes
    <2>4. size \in Nat
      BY <1>3
    <2> QED
      BY <2>2, <2>3, <2>4
  <1>6. UsbDataOK'
    BY <1>1, <1>5 DEF UsbInv, UsbDataOK, ringVars
  <1>7. LockInv'
    BY <1>1, <1>2, LockStep DEF UsbInv, HoldsLock
  <1>8. PacketInv'
    <2>1. \A u \in UsbTasks :
            /\ usbPc'[u] = IF u = t THEN place ELSE usbPc[u]
            /\ usbPacket'[u] = IF u = t THEN UsbBytes(offered + 1, size) ELSE usbPacket[u]
      BY <1>1, <1>2 DEF to, UsbInv, UsbTypeOK, UsbDataOK
    <2> SUFFICES ASSUME NEW u \in UsbTasks
                 PROVE  /\ \A k \in 1 .. Len(usbPacket'[u]) :
                             usbPacket'[u][k].left = Len(usbPacket'[u]) - k
                        /\ usbPc'[u] \in {"locked", "head", "count"} => Len(usbPacket'[u]) >= 1
      BY DEF PacketInv
    <2>2. CASE u = t
      <3>1. usbPacket'[u] = UsbBytes(offered + 1, size)
        BY <2>1, <2>2
      <3>2. size >= 1
        BY <1>3
      <3> QED
        BY <1>5, <3>1, <3>2
    <2>3. CASE u # t
      BY <2>1, <2>3 DEF UsbInv, PacketInv
    <2> QED
      BY <2>2, <2>3
  <1>9. RingInv' /\ BytesLineUp'
    <2>1. \A u \in UsbTasks : u # t => usbPacket'[u] = usbPacket[u]
      BY <1>1 DEF UsbInv, UsbDataOK
    <2> QED
      BY <1>1, <1>2, <2>1, RingStands
  <1>10. RefusalsAreCounted'
    <2>1. Cardinality(underWay') = Cardinality(underWay) + 1 /\ Cardinality(underWay) \in Nat
      BY <1>1, <1>2, Calls DEF InCall, UsbInv
    <2>2. Cardinality(lastBytes) \in Nat /\ lastBytes' = lastBytes
      BY <1>1, LastBytes DEF lastBytes
    <2>3. offered = droppedWrites + Cardinality(lastBytes) + Cardinality(underWay)
          /\ droppedWrites' = droppedWrites /\ droppedWrites \in Nat
      BY <1>1, Refusals DEF UsbInv, UsbTypeOK
    <2>4. offered' = droppedWrites' + Cardinality(lastBytes') + Cardinality(underWay')
      BY <1>1, <2>1, <2>2, <2>3
    <2> QED
      BY <2>4 DEF RefusalsAreCounted, lastBytes, underWay, InCall
  <1> QED
    BY <1>4, <1>6, <1>7, <1>8, <1>9, <1>10 DEF UsbInv

\* The bytes go behind those that wait, where nothing waits.
LEMMA CopyPacketStep ==
    ASSUME UsbInv, NEW t \in UsbTasks, copyPacket(t)
    PROVE  UsbInv'
  <1>1. /\ usbPc[t] = "locked"
        /\ UNCHANGED <<usbHead, usbTail, usbCount, usbLock, droppedWrites, usbPacket, attached,
                       offered, enqueued, received>>
    BY DEF copyPacket, usbHistory
  <1>2. PICK place \in {"full", "head"} :
          /\ to(t, place)
          /\ place = "full" => UNCHANGED usbRing
          /\ place = "head" => ~(Len(usbPacket[t]) > UsbCapacity - usbCount)
    BY DEF copyPacket
  <1> DEFINE n == Len(usbPacket[t])
             slot(k) == at(usbHead + k - 1)
  <1>3. /\ UsbCapacity \in Nat \ {0} /\ usbCount \in 0 .. UsbCapacity /\ n \in Nat
        /\ usbHead \in 0 .. UsbCapacity - 1 /\ usbTail \in 0 .. UsbCapacity - 1
        /\ usbPacket[t] \in Seq(UsbByte)
    BY UsbTypes
  <1>4. \A u \in UsbTasks : usbPc'[u] = IF u = t THEN place ELSE usbPc[u]
    BY <1>2 DEF to, UsbInv, UsbTypeOK
  <1>5. UsbTypeOK' /\ LockInv' /\ PacketInv'
    <2>1. usbPc' \in [UsbTasks -> {"away", "locked", "head", "count", "full", "done", "drop",
                                   "service", "serviced"}]
      BY <1>2 DEF to, UsbInv, UsbTypeOK
    <2>2. LockInv'
      BY <1>1, <1>2, LockStep DEF UsbInv, HoldsLock
    <2>3. PacketInv'
      BY <1>1, <1>4 DEF UsbInv, PacketInv
    <2> QED
      BY <1>1, <2>1, <2>2, <2>3 DEF UsbInv, UsbTypeOK
  <1>6. RefusalsAreCounted'
    <2>1. underWay' = underWay /\ lastBytes' = lastBytes
      BY <1>1, <1>2, Calls DEF InCall, UsbInv, lastBytes
    <2>2. offered' = droppedWrites' + Cardinality(lastBytes') + Cardinality(underWay')
      BY <1>1, <2>1, Refusals DEF UsbInv
    <2> QED
      BY <2>2 DEF RefusalsAreCounted, lastBytes, underWay, InCall
  <1>7. CASE place = "full"
    <2>1. UsbDataOK'
      BY <1>1, <1>2, <1>7 DEF UsbInv, UsbDataOK
    <2>2. RingInv' /\ BytesLineUp'
      BY <1>1, <1>2, <1>7, RingStands DEF ringVars
    <2> QED
      BY <1>5, <1>6, <2>1, <2>2 DEF UsbInv
  <1>8. CASE place = "head"
    <2>1. /\ usbRing' = [i \in DOMAIN usbRing |->
                IF \E k \in DOMAIN usbPacket[t] : i = slot(k)
                  THEN usbPacket[t][CHOOSE k \in DOMAIN usbPacket[t] : i = slot(k)]
                  ELSE usbRing[i]]
          /\ DOMAIN usbRing = 0 .. UsbCapacity - 1 /\ DOMAIN usbPacket[t] = 1 .. n
      <3>1. usbPc'[t] = "head"
        BY <1>4, <1>8
      <3>2. ~(to(t, "full"))
        BY <3>1 DEF to, UsbInv, UsbTypeOK
      <3>3. DOMAIN usbRing = 0 .. UsbCapacity - 1 /\ DOMAIN usbPacket[t] = 1 .. n
        BY <1>3 DEF UsbInv, UsbDataOK
      <3> QED
        BY <3>2, <3>3 DEF copyPacket
    <2>2. n <= UsbCapacity - usbCount
      BY <1>2, <1>3, <1>8
    <2>3. \A u \in UsbTasks : usbPc[u] # "count"
      BY <1>1 DEF UsbInv, LockInv, HoldsLock
    <2>4. usbHead = at(usbTail + usbCount)
      BY <2>3 DEF UsbInv, RingInv
    <2>5. \A k \in 1 .. n : slot(k) = at(usbTail + usbCount + k - 1) /\ slot(k) \in 0 .. UsbCapacity - 1
      <3> SUFFICES ASSUME NEW k \in 1 .. n
                   PROVE  /\ slot(k) = at(usbTail + usbCount + k - 1)
                          /\ slot(k) \in 0 .. UsbCapacity - 1
        OBVIOUS
      <3>1. /\ usbHead + k - 1 \in 0 .. 2 * UsbCapacity - 1
            /\ usbTail + usbCount \in 0 .. 2 * UsbCapacity - 1
            /\ usbTail + usbCount + k - 1 \in 0 .. 2 * UsbCapacity - 1
        BY <1>3, <2>2, SMTT(30)
      <3> QED
        BY <1>3, <2>2, <2>4, <3>1, Places, SMTT(30)
    <2>6. ASSUME NEW k \in 1 .. n, NEW j \in 1 .. n, slot(k) = slot(j) PROVE k = j
      <3>1. /\ usbHead + k - 1 \in 0 .. 2 * UsbCapacity - 1
            /\ usbHead + j - 1 \in 0 .. 2 * UsbCapacity - 1
        BY <1>3, <2>2
      <3> QED
        BY <1>3, <2>2, <2>6, <3>1, Places
    <2>7. ASSUME NEW k \in 1 .. n, NEW j \in 1 .. usbCount PROVE slot(k) # at(usbTail + j - 1)
      <3>1. /\ usbTail + usbCount + k - 1 \in 0 .. 2 * UsbCapacity - 1
            /\ usbTail + j - 1 \in 0 .. 2 * UsbCapacity - 1
        BY <1>3, <2>2
      <3>2. at(usbTail + usbCount + k - 1) # at(usbTail + j - 1)
        BY <1>3, <2>2, <3>1, Places
      <3> QED
        BY <2>5, <3>2
    <2> HIDE DEF slot, n
    <2>8. \A k \in 1 .. n : usbRing'[slot(k)] = usbPacket[t][k]
      <3> SUFFICES ASSUME NEW k \in 1 .. n PROVE usbRing'[slot(k)] = usbPacket[t][k]
        OBVIOUS
      <3>1. slot(k) \in DOMAIN usbRing
        BY <2>1, <2>5
      <3>2. (CHOOSE j \in DOMAIN usbPacket[t] : slot(k) = slot(j)) = k
        BY <2>1, <2>6
      <3>3. \E j \in DOMAIN usbPacket[t] : slot(k) = slot(j)
        BY <2>1
      <3> QED
        BY <2>1, <3>1, <3>2, <3>3
    <2>9. \A j \in 1 .. usbCount : usbRing'[at(usbTail + j - 1)] = usbRing[at(usbTail + j - 1)]
      <3> SUFFICES ASSUME NEW j \in 1 .. usbCount
                   PROVE  usbRing'[at(usbTail + j - 1)] = usbRing[at(usbTail + j - 1)]
        OBVIOUS
      <3>1. usbTail + j - 1 \in 0 .. 2 * UsbCapacity - 1
        BY <1>3
      <3>2. at(usbTail + j - 1) \in DOMAIN usbRing
        BY <1>3, <2>1, <3>1, Places
      <3>3. ~ \E k \in DOMAIN usbPacket[t] : at(usbTail + j - 1) = slot(k)
        BY <2>1, <2>7
      <3> QED
        BY <2>1, <3>2, <3>3
    <2>10. UsbDataOK'
      <3>1. \A k \in 1 .. n : usbPacket[t][k] \in UsbByte
        BY <1>3, ElementOfSeq DEF n
      <3>2. \A i \in DOMAIN usbRing : usbRing'[i] \in UsbByte
        <4> SUFFICES ASSUME NEW i \in DOMAIN usbRing PROVE usbRing'[i] \in UsbByte
          OBVIOUS
        <4>1. CASE \E k \in DOMAIN usbPacket[t] : i = slot(k)
          BY <2>1, <2>8, <3>1, <4>1
        <4>2. CASE ~ \E k \in DOMAIN usbPacket[t] : i = slot(k)
          BY <2>1, <4>2 DEF UsbInv, UsbDataOK
        <4> QED
          BY <4>1, <4>2
      <3>3. usbRing' \in [0 .. UsbCapacity - 1 -> UsbByte]
        BY <2>1, <3>2
      <3> QED
        BY <1>1, <3>3 DEF UsbInv, UsbDataOK
    <2>11. BytesLineUp'
      BY <1>1, <2>9 DEF UsbInv, BytesLineUp
    <2>12. RingInv'
      <3>1. \A u \in UsbTasks : usbPc'[u] # "count"
        BY <1>4, <1>8, <2>3
      <3>2. ASSUME NEW u \in UsbTasks, usbPc'[u] \in {"head", "count"} PROVE u = t
        BY <1>1, <1>4, <3>2 DEF UsbInv, LockInv, HoldsLock
      <3>3. \A k \in 1 .. n : usbRing'[at(usbTail + usbCount + k - 1)] = usbPacket[t][k]
        BY <2>5, <2>8
      <3> QED
        BY <1>1, <2>2, <2>4, <3>1, <3>2, <3>3 DEF RingInv, n
    <2> QED
      BY <1>5, <1>6, <2>10, <2>11, <2>12 DEF UsbInv
  <1> QED
    BY <1>7, <1>8
\* The head passes the bytes just written.
LEMMA AdvanceHeadStep ==
    ASSUME UsbInv, NEW t \in UsbTasks, advanceHead(t)
    PROVE  UsbInv'
  <1>1. /\ usbPc[t] = "head" /\ usbHead' = at(usbHead + Len(usbPacket[t])) /\ to(t, "count")
        /\ UNCHANGED <<usbRing, usbTail, usbCount, usbLock, droppedWrites, usbPacket, attached,
                       offered, enqueued, received>>
    BY DEF advanceHead, usbHistory
  <1> DEFINE n == Len(usbPacket[t])
  <1>2. /\ UsbCapacity \in Nat \ {0} /\ usbCount \in 0 .. UsbCapacity /\ n \in Nat
        /\ usbHead \in 0 .. UsbCapacity - 1 /\ usbTail \in 0 .. UsbCapacity - 1
    BY UsbTypes
  <1>3. \A u \in UsbTasks : usbPc'[u] = IF u = t THEN "count" ELSE usbPc[u]
    BY <1>1 DEF to, UsbInv, UsbTypeOK
  <1>4. \A u \in UsbTasks : u # t => usbPc[u] \notin HoldsLock
    BY <1>1 DEF UsbInv, LockInv, HoldsLock
  <1>5. /\ n <= UsbCapacity - usbCount /\ usbHead = at(usbTail + usbCount)
        /\ \A k \in 1 .. n : usbRing[at(usbTail + usbCount + k - 1)] = usbPacket[t][k]
    BY <1>1, <1>4 DEF UsbInv, RingInv, HoldsLock
  <1>6. usbHead' = at(usbTail + usbCount + n) /\ usbHead' \in 0 .. UsbCapacity - 1
    <2>1. n <= UsbCapacity - usbCount /\ usbHead = at(usbTail + usbCount)
      BY <1>5
    <2> HIDE DEF n
    <2>2. /\ usbHead + n \in 0 .. 2 * UsbCapacity - 1
          /\ usbTail + usbCount \in 0 .. 2 * UsbCapacity - 1
          /\ usbTail + usbCount + n \in 0 .. 2 * UsbCapacity - 1
      BY <1>2, <2>1
    <2>3. usbHead' = at(usbHead + n)
      BY <1>1 DEF n
    <2> QED
      BY <1>2, <2>1, <2>2, <2>3, Places
  <1>7. UsbTypeOK'
    <2>1. usbPc' \in [UsbTasks -> {"away", "locked", "head", "count", "full", "done", "drop",
                                   "service", "serviced"}]
      BY <1>1 DEF to, UsbInv, UsbTypeOK
    <2> QED
      BY <1>1, <1>6, <2>1 DEF UsbInv, UsbTypeOK
  <1>8. LockInv'
    BY <1>1, LockStep DEF UsbInv, HoldsLock
  <1>9. UsbDataOK' /\ PacketInv' /\ BytesLineUp'
    BY <1>1, <1>3 DEF UsbInv, UsbDataOK, PacketInv, BytesLineUp
  <1>10. RingInv'
    <2>1. \A u \in UsbTasks : usbPc'[u] \in {"head", "count"} => u = t
      BY <1>3, <1>4 DEF HoldsLock
    <2>2. usbPc'[t] = "count"
      BY <1>3
    <2> QED
      BY <1>1, <1>5, <1>6, <2>1, <2>2 DEF RingInv
  <1>11. RefusalsAreCounted'
    <2>1. underWay' = underWay /\ lastBytes' = lastBytes
      BY <1>1, Calls DEF InCall, UsbInv, lastBytes
    <2>2. offered' = droppedWrites' + Cardinality(lastBytes') + Cardinality(underWay')
      BY <1>1, <2>1, Refusals DEF UsbInv
    <2> QED
      BY <2>2 DEF RefusalsAreCounted, lastBytes, underWay, InCall
  <1> QED
    BY <1>7, <1>8, <1>9, <1>10, <1>11 DEF UsbInv

\* The packet counts: its bytes wait behind the others, its call is answered.
LEMMA AddCountStep ==
    ASSUME UsbInv, NEW t \in UsbTasks, addCount(t)
    PROVE  UsbInv'
  <1>1. /\ usbPc[t] = "count" /\ usbCount' = usbCount + Len(usbPacket[t])
        /\ enqueued' = enqueued \o usbPacket[t] /\ to(t, "done")
        /\ UNCHANGED <<usbRing, usbHead, usbTail, usbLock, droppedWrites, usbPacket, attached,
                       offered, received>>
    BY DEF addCount
  <1> DEFINE n == Len(usbPacket[t])
  <1>2. /\ UsbCapacity \in Nat \ {0} /\ usbCount \in 0 .. UsbCapacity /\ n \in Nat
        /\ Len(enqueued) \in Nat /\ Len(received) \in Nat
        /\ usbPacket[t] \in Seq(UsbByte) /\ enqueued \in Seq(UsbByte)
    BY UsbTypes DEF UsbInv, UsbDataOK
  <1>3. \A u \in UsbTasks : usbPc'[u] = IF u = t THEN "done" ELSE usbPc[u]
    BY <1>1 DEF to, UsbInv, UsbTypeOK
  <1>4. \A u \in UsbTasks : u # t => usbPc[u] \notin HoldsLock
    BY <1>1 DEF UsbInv, LockInv, HoldsLock
  <1>5. /\ n <= UsbCapacity - usbCount /\ usbHead = at(usbTail + usbCount + n)
        /\ \A k \in 1 .. n : usbRing[at(usbTail + usbCount + k - 1)] = usbPacket[t][k]
    BY <1>1 DEF UsbInv, RingInv
  <1>6. /\ enqueued' \in Seq(UsbByte) /\ Len(enqueued') = Len(enqueued) + n
        /\ \A i \in 1 .. Len(enqueued) : enqueued'[i] = enqueued[i]
        /\ \A k \in 1 .. n : enqueued'[Len(enqueued) + k] = usbPacket[t][k]
    <2>1. /\ enqueued' \in Seq(UsbByte) /\ Len(enqueued') = Len(enqueued) + n
          /\ \A i \in 1 .. Len(enqueued) + n :
               enqueued'[i] = IF i <= Len(enqueued) THEN enqueued[i]
                                                    ELSE usbPacket[t][i - Len(enqueued)]
      BY <1>1, <1>2, ConcatProperties
    <2>2. \A i \in 1 .. Len(enqueued) : i \in 1 .. Len(enqueued) + n /\ i <= Len(enqueued)
      BY <1>2
    <2>3. \A k \in 1 .. n : /\ Len(enqueued) + k \in 1 .. Len(enqueued) + n
                            /\ ~(Len(enqueued) + k <= Len(enqueued))
                            /\ (Len(enqueued) + k) - Len(enqueued) = k
      BY <1>2
    <2> QED
      BY <2>1, <2>2, <2>3
  <1>7. UsbTypeOK' /\ LockInv' /\ UsbDataOK' /\ PacketInv'
    <2>1. usbPc' \in [UsbTasks -> {"away", "locked", "head", "count", "full", "done", "drop",
                                   "service", "serviced"}]
      BY <1>1 DEF to, UsbInv, UsbTypeOK
    <2>2. usbCount' \in 0 .. UsbCapacity
      BY <1>1, <1>2, <1>5
    <2>3. UsbTypeOK'
      BY <1>1, <2>1, <2>2 DEF UsbInv, UsbTypeOK
    <2>4. LockInv'
      BY <1>1, LockStep DEF UsbInv, HoldsLock
    <2>5. UsbDataOK'
      BY <1>1, <1>6 DEF UsbInv, UsbDataOK
    <2>6. PacketInv'
      BY <1>1, <1>3 DEF UsbInv, PacketInv
    <2> QED
      BY <2>3, <2>4, <2>5, <2>6
  <1>8. RingInv'
    <2>1. \A u \in UsbTasks : usbPc'[u] \notin {"head", "count"}
      BY <1>3, <1>4 DEF HoldsLock
    <2>2. usbTail' + usbCount' = usbTail + usbCount + n
      BY <1>1, <1>2, UsbTypes
    <2> QED
      BY <1>1, <1>5, <2>1, <2>2 DEF RingInv
  <1>9. BytesLineUp'
    <2>1. /\ Len(enqueued) = Len(received) + usbCount
          /\ \A i \in 1 .. Len(received) : enqueued[i] = received[i]
          /\ \A k \in 1 .. usbCount : enqueued[Len(received) + k] = usbRing[at(usbTail + k - 1)]
      BY DEF UsbInv, BytesLineUp
    <2>2. Len(enqueued') = Len(received') + usbCount'
      <3>1. Len(enqueued') = Len(enqueued) + n /\ usbCount' = usbCount + n /\ received' = received
        BY <1>1, <1>6
      <3> HIDE DEF n
      <3> QED
        BY <1>2, <2>1, <3>1
    <2>3. \A i \in 1 .. Len(received) : enqueued'[i] = received[i]
      <3>1. \A i \in 1 .. Len(received) : i \in 1 .. Len(enqueued)
        BY ONLY <1>2, <2>1
      <3> QED
        BY <1>6, <2>1, <3>1
    <2>4. ASSUME NEW k \in 1 .. usbCount + n
          PROVE  enqueued'[Len(received) + k] = usbRing[at(usbTail + k - 1)]
      <3>1. CASE k <= usbCount
        <4>1. k \in 1 .. usbCount /\ Len(received) + k \in 1 .. Len(enqueued)
          BY <1>2, <2>1, <3>1
        <4> QED
          BY <1>6, <2>1, <4>1
      <3>2. CASE k > usbCount
        <4>1. PICK j \in 1 .. n : k = usbCount + j
          <5>1. k - usbCount \in 1 .. n /\ k = usbCount + (k - usbCount)
            BY <1>2, <3>2
          <5> QED
            BY <5>1
        <4>2. /\ Len(received) + k = Len(enqueued) + j
              /\ usbTail + k - 1 = usbTail + usbCount + j - 1
          BY <1>2, <2>1, <4>1, UsbTypes
        <4>3. enqueued'[Len(enqueued) + j] = usbPacket[t][j]
          BY <1>6
        <4>4. usbRing[at(usbTail + usbCount + j - 1)] = usbPacket[t][j]
          BY <1>5
        <4> QED
          BY ONLY <4>2, <4>3, <4>4
      <3> QED
        BY <1>2, <3>1, <3>2
    <2> QED
      BY <1>1, <2>2, <2>3, <2>4 DEF BytesLineUp
  <1>10. RefusalsAreCounted'
    <2>1. Cardinality(underWay) = Cardinality(underWay') + 1 /\ Cardinality(underWay') \in Nat
      BY <1>1, Calls DEF InCall, UsbInv
    <2>2. n >= 1 /\ \A k \in 1 .. n : usbPacket[t][k].left = n - k
      BY <1>1 DEF UsbInv, PacketInv
    <2>3. lastBytes' = lastBytes \cup {Len(enqueued) + n} /\ Len(enqueued) + n \notin lastBytes
      <3>1. DOMAIN enqueued' = 1 .. Len(enqueued) + n /\ DOMAIN enqueued = 1 .. Len(enqueued)
        BY <1>6, UsbTypes, LenProperties
      <3>2. \A k \in 1 .. n : enqueued'[Len(enqueued) + k].left = n - k
        BY <1>6, <2>2
      <3>3. ASSUME NEW i \in 1 .. Len(enqueued) + n
            PROVE  i \in lastBytes' <=> i \in lastBytes \/ i = Len(enqueued) + n
        <4>1. CASE i \in 1 .. Len(enqueued)
          <5>1. i # Len(enqueued) + n
            BY <1>2, <2>2, <4>1
          <5> QED
            BY <1>6, <3>1, <4>1, <5>1 DEF lastBytes
        <4>2. CASE i \notin 1 .. Len(enqueued)
          <5>1. PICK k \in 1 .. n : i = Len(enqueued) + k
            <6>1. i - Len(enqueued) \in 1 .. n /\ i = Len(enqueued) + (i - Len(enqueued))
              BY <1>2, <4>2
            <6> QED
              BY <6>1
          <5>2. n - k = 0 <=> i = Len(enqueued) + n
            BY <1>2, <5>1
          <5>3. i \in lastBytes' <=> n - k = 0
            BY <3>1, <3>2, <5>1 DEF lastBytes
          <5> QED
            BY <3>1, <4>2, <5>2, <5>3 DEF lastBytes
        <4> QED
          BY <4>1, <4>2
      <3>4. lastBytes' \subseteq 1 .. Len(enqueued) + n /\ lastBytes \subseteq 1 .. Len(enqueued)
        BY <3>1 DEF lastBytes
      <3>5. /\ Len(enqueued) + n \in 1 .. Len(enqueued) + n
            /\ Len(enqueued) + n \notin 1 .. Len(enqueued)
            /\ 1 .. Len(enqueued) \subseteq 1 .. Len(enqueued) + n
        BY <1>2, <2>2
      <3> QED
        BY <3>3, <3>4, <3>5
    <2>4. /\ Cardinality(lastBytes') = Cardinality(lastBytes) + 1 /\ Cardinality(lastBytes) \in Nat
      BY <2>3, LastBytes, FS_AddElement
    <2>5. /\ offered = droppedWrites + Cardinality(lastBytes) + Cardinality(underWay)
          /\ droppedWrites \in Nat
      BY Refusals DEF UsbInv, UsbTypeOK
    <2>6. offered' = droppedWrites' + Cardinality(lastBytes') + Cardinality(underWay')
      BY <1>1, <2>1, <2>4, <2>5
    <2> QED
      BY <2>6 DEF RefusalsAreCounted, lastBytes, underWay, InCall
  <1> QED
    BY <1>7, <1>8, <1>9, <1>10 DEF UsbInv
\* A call gives the lock back, counts its refusal, or begins to service the port.
LEMMA UsbCallStep ==
    ASSUME UsbInv, NEW t \in UsbTasks,
           unlockUsb(t) \/ recordDrop(t) \/ (t = UsbServicer /\ beginService)
    PROVE  UsbInv'
  <1>1. UNCHANGED <<ringVars, usbPacket, attached, offered, enqueued, received>>
    BY DEF unlockUsb, recordDrop, beginService, usbHistory
  <1>2. PICK place \in {"drop", "away", "service"} :
          /\ to(t, place)
          /\ \/ /\ usbPc[t] \in {"full", "done", "serviced"}
                /\ place = (IF usbPc[t] = "full" THEN "drop" ELSE "away")
                /\ usbLock' = FALSE /\ UNCHANGED droppedWrites
             \/ /\ usbPc[t] = "drop" /\ place = "away"
                /\ droppedWrites' = droppedWrites + 1 /\ UNCHANGED usbLock
             \/ /\ usbPc[t] = "away" /\ place = "service"
                /\ tryLock /\ UNCHANGED droppedWrites
    <2>1. CASE unlockUsb(t)
      BY <2>1 DEF unlockUsb
    <2>2. CASE recordDrop(t)
      BY <2>2 DEF recordDrop
    <2>3. CASE t = UsbServicer /\ beginService
      BY <2>3 DEF beginService
    <2> QED
      BY <2>1, <2>2, <2>3
  <1>3. \A u \in UsbTasks : usbPc'[u] = IF u = t THEN place ELSE usbPc[u]
    BY <1>2 DEF to, UsbInv, UsbTypeOK
  <1>4. LockInv'
    BY <1>2, LockStep DEF UsbInv, HoldsLock
  <1>5. UsbDataOK' /\ PacketInv'
    BY <1>1, <1>3 DEF UsbInv, UsbDataOK, PacketInv, ringVars
  <1>6. RingInv' /\ BytesLineUp'
    BY <1>1, <1>2, RingStands
  <1>7. /\ {offered, droppedWrites, MaxUsbPackets} \subseteq Nat /\ offered <= MaxUsbPackets
        /\ Cardinality(lastBytes) \in Nat
        /\ Cardinality(underWay) \in Nat /\ Cardinality(underWay') \in Nat
        /\ offered = droppedWrites + Cardinality(lastBytes) + Cardinality(underWay)
    BY <1>2, UsbAssumption, LastBytes, Calls, Refusals DEF UsbInv, UsbTypeOK
  <1>8. offered = droppedWrites' + Cardinality(lastBytes) + Cardinality(underWay')
    <2>1. CASE usbPc[t] = "drop" /\ place = "away" /\ droppedWrites' = droppedWrites + 1
      <3>1. Cardinality(underWay) = Cardinality(underWay') + 1
        BY <1>2, <2>1, Calls DEF InCall, UsbInv
      <3> QED
        BY <1>7, <2>1, <3>1
    <2>2. CASE UNCHANGED droppedWrites /\ (usbPc[t] \in InCall <=> place \in InCall)
      <3>1. underWay' = underWay
        BY <1>2, <2>2, Calls DEF UsbInv
      <3> QED
        BY <1>7, <2>2, <3>1
    <2> QED
      BY <1>2, <2>1, <2>2 DEF InCall
  <1>9. RefusalsAreCounted'
    <2>1. lastBytes' = lastBytes
      BY <1>1 DEF lastBytes
    <2>2. offered' = droppedWrites' + Cardinality(lastBytes') + Cardinality(underWay')
      BY <1>1, <1>8, <2>1
    <2> QED
      BY <2>2 DEF RefusalsAreCounted, lastBytes, underWay, InCall
  <1>10. UsbTypeOK'
    <2>1. droppedWrites' \in 0 .. MaxUsbPackets
      <3>1. droppedWrites' = droppedWrites \/ droppedWrites' = droppedWrites + 1
        BY <1>2
      <3> QED
        BY <1>7, <1>8, <3>1
    <2>2. usbLock' \in BOOLEAN
      BY <1>2 DEF tryLock, UsbInv, UsbTypeOK
    <2>3. usbPc' \in [UsbTasks -> {"away", "locked", "head", "count", "full", "done", "drop",
                                   "service", "serviced"}]
      BY <1>2 DEF to, UsbInv, UsbTypeOK
    <2> QED
      BY <1>1, <2>1, <2>2, <2>3 DEF UsbInv, UsbTypeOK, ringVars
  <1> QED
    BY <1>4, <1>5, <1>6, <1>9, <1>10 DEF UsbInv

\* The host takes the bytes that have waited longest.
LEMMA ServiceChunkStep == ASSUME UsbInv, serviceChunk PROVE UsbInv'
  <1> DEFINE t == UsbServicer
  <1>1. /\ usbPc[t] = "service" /\ to(t, "serviced") /\ t \in UsbTasks
        /\ UNCHANGED <<usbRing, usbHead, usbLock, droppedWrites, usbPacket, attached, offered,
                       enqueued>>
    BY UsbAssumption DEF serviceChunk
  <1>2. PICK written \in 0 .. usbCount :
          /\ written <= UsbCapacity - usbTail
          /\ received' = received \o [k \in 1 .. written |-> usbRing[usbTail + k - 1]]
          /\ usbTail' = at(usbTail + written)
          /\ usbCount' = usbCount - written
    BY DEF serviceChunk
  <1> HIDE DEF t
  <1>3. /\ UsbCapacity \in Nat \ {0} /\ usbCount \in 0 .. UsbCapacity /\ written \in Nat
        /\ usbHead \in 0 .. UsbCapacity - 1 /\ usbTail \in 0 .. UsbCapacity - 1
        /\ Len(enqueued) \in Nat /\ Len(received) \in Nat
    BY UsbTypes
  <1>4. \A u \in UsbTasks : usbPc'[u] = IF u = t THEN "serviced" ELSE usbPc[u]
    BY <1>1 DEF to, UsbInv, UsbTypeOK
  <1>5. \A u \in UsbTasks : u # t => usbPc[u] \notin HoldsLock
    BY <1>1 DEF UsbInv, LockInv, HoldsLock
  <1>6. /\ usbTail' \in 0 .. UsbCapacity - 1 /\ usbCount' \in 0 .. UsbCapacity
        /\ \A k \in 1 .. usbCount' : at(usbTail' + k - 1) = at(usbTail + (written + k) - 1)
        /\ at(usbTail' + usbCount') = at(usbTail + usbCount)
    <2>1. usbTail + written \in 0 .. 2 * UsbCapacity - 1 /\ usbTail + written <= UsbCapacity
      BY <1>2, <1>3
    <2>2. usbTail' = IF usbTail + written = UsbCapacity THEN 0 ELSE usbTail + written
      <3>1. CASE usbTail + written = UsbCapacity
        BY <1>2, <1>3, <2>1, <3>1, Places
      <3>2. CASE usbTail + written < UsbCapacity
        BY <1>2, <1>3, <2>1, <3>2, Places
      <3> QED
        BY <1>3, <2>1, <3>1, <3>2
    <2>3. usbTail' \in 0 .. UsbCapacity - 1 /\ usbCount' \in 0 .. UsbCapacity
      BY <1>2, <1>3, <2>1, <2>2
    <2>4. ASSUME NEW x \in 0 .. usbCount'
          PROVE  at(usbTail' + x) = at(usbTail + (written + x))
      <3>1. /\ usbTail' + x \in 0 .. 2 * UsbCapacity - 1
            /\ usbTail + (written + x) \in 0 .. 2 * UsbCapacity - 1
        BY <1>2, <1>3, <2>1, <2>3
      <3>2. CASE usbTail' = 0 /\ usbTail + written = UsbCapacity
        <4>1. usbTail' + x = (usbTail + (written + x)) - UsbCapacity
          BY <1>3, <3>2
        <4>2. x \in Nat /\ x <= UsbCapacity
          BY <1>3, <2>3
        <4>3. CASE x < UsbCapacity
          BY <1>3, <3>1, <3>2, <4>1, <4>2, <4>3, Places
        <4>4. CASE x = UsbCapacity
          <5>1. written = 0 /\ usbTail = UsbCapacity
            BY <1>2, <1>3, <2>3, <3>2, <4>4
          <5> QED
            BY <1>3, <5>1
        <4> QED
          BY <1>3, <4>2, <4>3, <4>4
      <3>3. CASE usbTail' = usbTail + written
        <4>1. usbTail' + x = usbTail + (written + x)
          BY <1>3, <3>3
        <4> QED
          BY <4>1
      <3> QED
        BY <2>2, <3>2, <3>3
    <2>5. ASSUME NEW k \in 1 .. usbCount'
          PROVE  at(usbTail' + k - 1) = at(usbTail + (written + k) - 1)
      <3>1. /\ k - 1 \in 0 .. usbCount' /\ usbTail' + (k - 1) = usbTail' + k - 1
            /\ usbTail + (written + (k - 1)) = usbTail + (written + k) - 1
        BY <1>3, <2>3
      <3>2. at(usbTail' + (k - 1)) = at(usbTail + (written + (k - 1)))
        BY <2>4, <3>1
      <3> QED
        BY <3>1, <3>2
    <2>6. at(usbTail' + usbCount') = at(usbTail + usbCount)
      <3>1. usbCount' \in 0 .. usbCount' /\ written + usbCount' = usbCount
        BY <1>2, <1>3, <2>3
      <3>2. at(usbTail' + usbCount') = at(usbTail + (written + usbCount'))
        BY <2>4, <3>1
      <3> QED
        BY <3>1, <3>2
    <2> QED
      BY <2>3, <2>5, <2>6
  <1>7. /\ \A k \in 1 .. written : at(usbTail + k - 1) = usbTail + k - 1
        /\ \A k \in 1 .. written : usbTail + k - 1 \in 0 .. UsbCapacity - 1
    <2>1. \A k \in 1 .. written : usbTail + k - 1 \in 0 .. UsbCapacity - 1
      BY <1>2, <1>3
    <2> QED
      BY <2>1, Places
  <1>8. /\ received' \in Seq(UsbByte) /\ Len(received') = Len(received) + written
        /\ \A i \in 1 .. Len(received) : received'[i] = received[i]
        /\ \A k \in 1 .. written : received'[Len(received) + k] = usbRing[at(usbTail + k - 1)]
    <2> DEFINE chunk == [k \in 1 .. written |-> usbRing[usbTail + k - 1]]
    <2>1. chunk \in [1 .. written -> UsbByte]
      BY <1>7 DEF UsbInv, UsbDataOK
    <2>2. \A k \in 1 .. written : chunk[k] = usbRing[at(usbTail + k - 1)]
      BY <1>7
    <2>3. received' = received \o chunk
      BY <1>2
    <2> HIDE DEF chunk
    <2>4. chunk \in Seq(UsbByte) /\ Len(chunk) = written /\ received \in Seq(UsbByte)
      BY <1>3, <2>1 DEF UsbInv, UsbDataOK
    <2>5. /\ received' \in Seq(UsbByte) /\ Len(received') = Len(received) + written
          /\ \A i \in 1 .. Len(received) + written :
               received'[i] = IF i <= Len(received) THEN received[i] ELSE chunk[i - Len(received)]
      BY <2>3, <2>4, ConcatProperties
    <2>6. \A i \in 1 .. Len(received) : i \in 1 .. Len(received) + written /\ i <= Len(received)
      BY <1>3
    <2>7. \A k \in 1 .. written : /\ Len(received) + k \in 1 .. Len(received) + written
                                  /\ ~(Len(received) + k <= Len(received))
                                  /\ (Len(received) + k) - Len(received) = k
      BY <1>3
    <2> QED
      BY <2>2, <2>5, <2>6, <2>7
  <1>9. UsbTypeOK' /\ LockInv' /\ UsbDataOK' /\ PacketInv'
    <2>1. usbPc' \in [UsbTasks -> {"away", "locked", "head", "count", "full", "done", "drop",
                                   "service", "serviced"}]
      BY <1>1 DEF to, UsbInv, UsbTypeOK
    <2>2. UsbTypeOK'
      BY <1>1, <1>6, <2>1 DEF UsbInv, UsbTypeOK
    <2>3. LockInv'
      BY <1>1, LockStep DEF UsbInv, HoldsLock
    <2>4. UsbDataOK' /\ PacketInv'
      BY <1>1, <1>4, <1>8 DEF UsbInv, UsbDataOK, PacketInv
    <2> QED
      BY <2>2, <2>3, <2>4
  <1>10. RingInv'
    <2>1. \A u \in UsbTasks : usbPc'[u] \notin {"head", "count"}
      BY <1>4, <1>5 DEF HoldsLock
    <2>2. \A u \in UsbTasks : usbPc[u] # "count"
      BY <1>1, <1>5 DEF HoldsLock
    <2>3. usbHead = at(usbTail + usbCount)
      BY <2>2 DEF UsbInv, RingInv
    <2> QED
      BY <1>1, <1>6, <2>1, <2>3 DEF RingInv
  <1>11. BytesLineUp'
    <2>1. /\ Len(enqueued) = Len(received) + usbCount
          /\ \A i \in 1 .. Len(received) : enqueued[i] = received[i]
          /\ \A k \in 1 .. usbCount : enqueued[Len(received) + k] = usbRing[at(usbTail + k - 1)]
      BY DEF UsbInv, BytesLineUp
    <2>2. Len(enqueued) = Len(received') + usbCount'
      <3>1. Len(received') = Len(received) + written
        BY <1>8
      <3> QED
        BY <1>2, <1>3, <2>1, <3>1
    <2>3. ASSUME NEW i \in 1 .. Len(received) + written PROVE enqueued[i] = received'[i]
      <3>1. CASE i \in 1 .. Len(received)
        BY <1>8, <2>1, <3>1
      <3>2. CASE i \notin 1 .. Len(received)
        <4>1. PICK k \in 1 .. written : i = Len(received) + k
          <5>1. i - Len(received) \in 1 .. written /\ i = Len(received) + (i - Len(received))
            BY <1>3, <3>2
          <5> QED
            BY <5>1
        <4>2. k \in 1 .. usbCount
          BY <1>3
        <4> QED
          BY <1>8, <2>1, <4>1, <4>2
      <3> QED
        BY <3>1, <3>2
    <2>4. ASSUME NEW k \in 1 .. usbCount'
          PROVE  enqueued[(Len(received) + written) + k] = usbRing[at(usbTail' + k - 1)]
      <3>1. written + k \in 1 .. usbCount /\ (Len(received) + written) + k = Len(received) + (written + k)
        BY <1>2, <1>3
      <3> QED
        BY <1>6, <2>1, <3>1
    <2>5. Len(received') = Len(received) + written
      BY <1>8
    <2> QED
      BY <1>1, <2>2, <2>3, <2>4, <2>5 DEF BytesLineUp
  <1>12. RefusalsAreCounted'
    <2>1. underWay' = underWay /\ lastBytes' = lastBytes
      BY <1>1, Calls DEF InCall, UsbInv, lastBytes
    <2>2. offered' = droppedWrites' + Cardinality(lastBytes') + Cardinality(underWay')
      BY <1>1, <2>1, Refusals DEF UsbInv
    <2> QED
      BY <2>2 DEF RefusalsAreCounted, lastBytes, underWay, InCall
  <1> QED
    BY <1>9, <1>10, <1>11, <1>12 DEF UsbInv

\* Every step of the tasks, the servicer and the host keeps the bytes in line.
LEMMA UsbStep == UsbInv /\ [UsbNext]_usbVars => UsbInv'
  <1> SUFFICES ASSUME UsbInv, [UsbNext]_usbVars PROVE UsbInv'
    OBVIOUS
  <1>1. CASE attach \/ UNCHANGED usbVars
    <2>1. /\ UNCHANGED <<usbRing, usbHead, usbTail, usbCount, usbLock, droppedWrites, usbPc,
                         usbPacket, offered, enqueued, received>>
          /\ attached' \in BOOLEAN
      BY <1>1 DEF attach, usbVars, ringVars, usbHistory, UsbInv, UsbTypeOK
    <2> QED
      BY <2>1 DEF UsbInv, UsbTypeOK, UsbDataOK, LockInv, PacketInv, RingInv, BytesLineUp,
         RefusalsAreCounted
  <1>2. ASSUME NEW t \in UsbTasks, enqueueStep(t) PROVE UsbInv'
    BY <1>2, CopyPacketStep, AdvanceHeadStep, AddCountStep, UsbCallStep DEF enqueueStep
  <1>3. CASE beginService
    BY <1>3, UsbCallStep, UsbAssumption
  <1> QED
    BY <1>1, <1>2, <1>3, EnqueueUsbStep, ServiceChunkStep DEF UsbNext

\* What enqueue() took is what the host has got followed by what waits.
LEMMA BytesLinedUp == UsbInv => enqueued = received \o waitingBytes
  <1> SUFFICES ASSUME UsbInv PROVE enqueued = received \o waitingBytes
    OBVIOUS
  <1>1. /\ UsbCapacity \in Nat \ {0} /\ usbCount \in 0 .. UsbCapacity
        /\ usbTail \in 0 .. UsbCapacity - 1
        /\ Len(received) \in Nat
        /\ enqueued \in Seq(UsbByte) /\ received \in Seq(UsbByte)
    BY UsbTypes DEF UsbInv, UsbDataOK
  <1>2. waitingBytes \in Seq(UsbByte) /\ Len(waitingBytes) = usbCount
    <2>1. \A k \in 1 .. usbCount : at(usbTail + k - 1) \in 0 .. UsbCapacity - 1
      <3> SUFFICES ASSUME NEW k \in 1 .. usbCount
                   PROVE  at(usbTail + k - 1) \in 0 .. UsbCapacity - 1
        OBVIOUS
      <3>1. usbTail + k - 1 \in 0 .. 2 * UsbCapacity - 1
        BY <1>1
      <3> QED
        BY <1>1, <3>1, Places
    <2>2. waitingBytes \in [1 .. usbCount -> UsbByte]
      BY <2>1 DEF waitingBytes, UsbInv, UsbDataOK
    <2> QED
      BY <1>1, <2>2
  <1>3. /\ received \o waitingBytes \in Seq(UsbByte)
        /\ Len(received \o waitingBytes) = Len(received) + usbCount
        /\ \A i \in 1 .. Len(received) + usbCount :
             (received \o waitingBytes)[i] = IF i <= Len(received) THEN received[i]
                                             ELSE waitingBytes[i - Len(received)]
    BY <1>1, <1>2, ConcatProperties
  <1>4. /\ Len(enqueued) = Len(received) + usbCount
        /\ \A i \in 1 .. Len(received) : enqueued[i] = received[i]
        /\ \A k \in 1 .. usbCount : enqueued[Len(received) + k] = waitingBytes[k]
    BY DEF UsbInv, BytesLineUp, waitingBytes
  <1>5. ASSUME NEW i \in 1 .. Len(received) + usbCount
        PROVE  enqueued[i] = (received \o waitingBytes)[i]
    <2>1. CASE i <= Len(received)
      <3>1. i \in 1 .. Len(received)
        BY <1>1, <2>1
      <3> QED
        BY <1>3, <1>4, <2>1, <3>1
    <2>2. CASE ~(i <= Len(received))
      <3>1. i - Len(received) \in 1 .. usbCount /\ i = Len(received) + (i - Len(received))
        BY <1>1, <2>2
      <3> QED
        BY <1>3, <1>4, <2>2, <3>1
    <2> QED
      BY <2>1, <2>2
  <1> QED
    BY <1>1, <1>3, <1>4, <1>5, SeqEqual

-----------------------------------------------------------------------------
(* Exchange as a whole: a step is one of a single buffer.                   *)

\* A step of the whole is a step or a stutter of each buffer.
LEMMA ExchangeParts ==
    [ExchangeNext]_exchangeVars =>
      /\ [Next]_vars /\ [BusNext]_busVars /\ [SettingsNext]_settingsVars
      /\ [OutputNext]_outputVars /\ [BlackboxNext]_blackboxVars /\ [UsbNext]_usbVars
  BY DEF ExchangeNext, exchangeVars

\* Every event accepted is delivered or waiting in the order of acceptance, and
\* every one published is accounted for, since the ring was last found empty after
\* an overtaken publish(); none is in doubt before one is overtaken.
THEOREM BusKeepsEvents ==
    ExchangeSpec => [](BusTypeOK /\ AcceptedIsDelivered /\ PublishedIsAccounted)
  <1>1. ExchangeInit => BusInv
    BY BusInitInv DEF ExchangeInit
  <1>2. BusInv /\ [ExchangeNext]_exchangeVars => BusInv'
    BY ExchangeParts, BusStep
  <1>3. BusInv => BusTypeOK /\ AcceptedIsDelivered /\ PublishedIsAccounted
    BY DEF BusInv, BusTypes
  <1> QED
    BY <1>1, <1>2, <1>3, PTL DEF ExchangeSpec

\* The ring with its two indices is a bounded first-in first-out queue that refuses
\* an event only when it is full, but for the time from an overtaken publish() to
\* the next time it is found empty.
THEOREM BusIsAQueue == ExchangeSpec => ImplementsQueue
  <1>1. ExchangeInit => BusInv
    BY BusInitInv DEF ExchangeInit
  <1>2. BusInv /\ [ExchangeNext]_exchangeVars => BusInv'
    BY ExchangeParts, BusStep
  <1>3. ExchangeInit => Queue!Init
    <2> SUFFICES ASSUME BusInit PROVE Queue!Init
      BY DEF ExchangeInit
    <2>1. BusTypeOK /\ pendingCount = 0
      BY BusInitInv, PendingSlots, CapacityAssumption DEF BusInit, BusInv, BusTypes
    <2>2. Pending = <<>>
      BY <2>1, PendingSlots
    <2> QED
      BY <2>2 DEF BusInit, Queue!Init
  <1>4. BusInv /\ [ExchangeNext]_exchangeVars => [Queue!Next]_Queue!vars
    BY ExchangeParts, BusImplementsQueue
  <1> QED
    BY <1>1, <1>2, <1>3, <1>4, PTL DEF ExchangeSpec, ImplementsQueue, Queue!Spec

\* What the five buffers besides the topic hold is of its type at every step, for
\* every capacity, number of tasks and length of packets.
THEOREM BuffersAreTyped == ExchangeSpec => []BuffersTypeOK
  <1> DEFINE Inv == BusTypes /\ SettingsInv /\ OutputInv /\ BlackboxInv /\ UsbInv
  <1>1. ExchangeInit => Inv
    BY BusInitInv, SettingsInitInv, OutputInitInv, BlackboxInitInv, UsbInitInv
       DEF ExchangeInit, BusInv
  <1>2. Inv /\ [ExchangeNext]_exchangeVars => Inv'
    BY ExchangeParts, BusTypesStep, SettingsStep, OutputStep, BlackboxStep, UsbStep
  <1>3. Inv => BuffersTypeOK
    BY DEF BuffersTypeOK, BusTypes, SettingsInv, OutputInv, BlackboxInv, UsbInv
  <1> QED
    BY <1>1, <1>2, <1>3, PTL DEF ExchangeSpec

\* The flight loop applies whole settings, the servos follow whole frames with the
\* throttle in the lead, and a reader that preempts the writer needs one copy.
THEOREM NothingMixed == ExchangeSpec => []NothingIsMixed
  <1> DEFINE Inv == SettingsInv /\ OutputInv /\ SeqlockInv /\ PreemptingReadIsStable
  <1>1. ExchangeInit => Inv
    BY SettingsInitInv, OutputInitInv, InitInv, PreemptingInit DEF ExchangeInit
  <1>2. Inv /\ [ExchangeNext]_exchangeVars => Inv'
    BY ExchangeParts, SettingsStep, OutputStep, InvStep, PreemptingStep DEF SeqlockInv
  <1>3. Inv => NothingIsMixed
    BY DEF NothingIsMixed, SettingsInv, OutputInv
  <1> QED
    BY <1>1, <1>2, <1>3, PTL DEF ExchangeSpec

\* No buffer loses anything without counting it: events (unless a publish() was
\* overtaken), log records and USB packets are delivered in order, waiting, or
\* among the counted.
THEOREM NothingLost == ExchangeSpec => []NothingIsLost
  <1> DEFINE Inv == BusInv /\ BlackboxInv /\ UsbInv
  <1>1. ExchangeInit => Inv
    BY BusInitInv, BlackboxInitInv, UsbInitInv DEF ExchangeInit
  <1>2. Inv /\ [ExchangeNext]_exchangeVars => Inv'
    BY ExchangeParts, BusStep, BlackboxStep, UsbStep
  <1>3. Inv => NothingIsLost
    BY BytesLinedUp DEF NothingIsLost, BusInv, BlackboxInv, UsbInv, BytesInOrder
  <1> QED
    BY <1>1, <1>2, <1>3, PTL DEF ExchangeSpec

\* Every record goes out whole and in order between the packets and the texts,
\* whatever their lengths and the room in the transmit queue, but for the time
\* after a write came into the sensor task's update of the head; without a text
\* that time never comes.
THEOREM RecordsGoOut == ExchangeSpec => RecordsAreWhole /\ [](texts = 0 => ~uartMixed)
  <1>1. ExchangeInit => BlackboxInv
    BY BlackboxInitInv DEF ExchangeInit
  <1>2. BlackboxInv /\ [ExchangeNext]_exchangeVars => BlackboxInv'
    BY ExchangeParts, BlackboxStep
  <1>3. BlackboxInv /\ [ExchangeNext]_exchangeVars =>
          [wire' # wire /\ ~uartMixed => Follows(wire, wire')]_blackboxVars
    BY ExchangeParts, RecordsGoOutWhole
  <1>4. BlackboxInv => (texts = 0 => ~uartMixed)
    BY DEF BlackboxInv, TextInv
  <1> QED
    BY <1>1, <1>2, <1>3, <1>4, PTL DEF ExchangeSpec, RecordsAreWhole

\* A behaviour of the whole is one of the topic, whose theorems hold of it as well: no torn
\* reading, none of the past, and the atomic topic implemented (SystemBlackboard.h).
THEOREM ExchangeKeepsTopic == ExchangeSpec => Spec
  <1>1. ExchangeInit => Init
    BY DEF ExchangeInit
  <1> QED
    BY <1>1, ExchangeParts, PTL DEF ExchangeSpec, Spec

\* So what is read in the run of all six is a record as it was published.
THEOREM ReadersSeeRecords ==
    ExchangeSpec => []TypeOK /\ []NoTornSnapshot /\ ImplementsAtomicTopic
  BY ExchangeKeepsTopic, TypeCorrect, NeverTorn, Refinement, PTL
=============================================================================
