------------------------------ MODULE UsbCdcTx ------------------------------
(***************************************************************************)
(* utils/UsbCdcTx.cpp: text and packets of the sensor and the telemetry    *)
(* task go through one byte ring to the USB port.  Its lock is never       *)
(* waited for: who finds it taken drops its packet, or services the port   *)
(* another time.  The tasks interleave at every step.                      *)
(* A byte is known by its packet and by how many follow it; the host comes *)
(* and goes and takes as many bytes as it likes.                           *)
(***************************************************************************)
EXTENDS Naturals, Sequences, FiniteSets

CONSTANTS
    UsbCapacity,        \* QUEUE_CAPACITY
    UsbPacketSizes,     \* lengths given to enqueue()
    UsbTasks, UsbServicer,  \* the tasks that enqueue; the one that services the port
    MaxUsbPackets       \* bound: packets offered

ASSUME UsbAssumption ==
    /\ UsbCapacity \in Nat \ {0} /\ UsbPacketSizes \subseteq Nat \ {0}
    /\ IsFiniteSet(UsbTasks) /\ UsbServicer \in UsbTasks /\ MaxUsbPackets \in Nat

VARIABLES
    usbRing, usbHead, usbTail, usbCount, usbLock, droppedWrites,
    usbPc, usbPacket,   \* per task: its place in a call, and the bytes it brings
    attached,           \* (bool)Serial
    offered,            \* bound: packets offered, which numbers them
    enqueued, received  \* history: bytes enqueue() took; bytes the host got

ringVars == <<usbRing, usbHead, usbTail, usbCount>>
usbHistory == <<offered, enqueued, received>>
usbVars ==
    <<ringVars, usbLock, droppedWrites, usbPc, usbPacket, attached, usbHistory>>

UsbBytes(n, size) == [i \in 1 .. size |-> [of |-> n, left |-> size - i]]
at(i) == i % UsbCapacity

UsbInit ==
    /\ usbRing = [i \in 0 .. UsbCapacity - 1 |-> [of |-> 0, left |-> 0]]
    /\ usbHead = 0 /\ usbTail = 0 /\ usbCount = 0 /\ usbLock = FALSE /\ droppedWrites = 0
    /\ usbPc = [t \in UsbTasks |-> "away"] /\ usbPacket = [t \in UsbTasks |-> <<>>]
    /\ attached \in BOOLEAN
    /\ offered = 0 /\ enqueued = <<>> /\ received = <<>>

to(t, place) == usbPc' = [usbPc EXCEPT ![t] = place]

-----------------------------------------------------------------------------
\* Mutant: the lock is not looked at.
tryLockBlind == usbLock' = TRUE

tryLock == ~usbLock /\ usbLock' = TRUE

\* enqueue(): a packet longer than the queue or one that finds the lock taken is
\* dropped.
enqueueUsb(t, size) ==
    /\ usbPc[t] = "away" /\ offered < MaxUsbPackets
    /\ offered' = offered + 1
    /\ usbPacket' = [usbPacket EXCEPT ![t] = UsbBytes(offered + 1, size)]
    /\ \/ size <= UsbCapacity /\ tryLock /\ to(t, "locked")
       \/ (size > UsbCapacity \/ usbLock) /\ to(t, "drop") /\ UNCHANGED usbLock
    /\ UNCHANGED <<ringVars, droppedWrites, attached, enqueued, received>>

\* enqueueLocked(): the bytes, in one piece or around the end of the queue
copyPacket(t) ==
    /\ usbPc[t] = "locked"
    /\ IF Len(usbPacket[t]) > UsbCapacity - usbCount
         THEN to(t, "full") /\ UNCHANGED usbRing
         ELSE /\ usbRing' = [i \in DOMAIN usbRing |->
                    IF \E k \in DOMAIN usbPacket[t] : i = at(usbHead + k - 1)
                      THEN usbPacket[t][CHOOSE k \in DOMAIN usbPacket[t] : i = at(usbHead + k - 1)]
                      ELSE usbRing[i]]
              /\ to(t, "head")
    /\ UNCHANGED <<usbHead, usbTail, usbCount, usbLock, droppedWrites, usbPacket, attached,
                   usbHistory>>

advanceHead(t) ==
    /\ usbPc[t] = "head"
    /\ usbHead' = at(usbHead + Len(usbPacket[t]))
    /\ to(t, "count")
    /\ UNCHANGED <<usbRing, usbTail, usbCount, usbLock, droppedWrites, usbPacket, attached,
                   usbHistory>>

addCount(t) ==
    /\ usbPc[t] = "count"
    /\ usbCount' = usbCount + Len(usbPacket[t])
    /\ enqueued' = enqueued \o usbPacket[t]
    /\ to(t, "done")
    /\ UNCHANGED <<usbRing, usbHead, usbTail, usbLock, droppedWrites, usbPacket, attached,
                   offered, received>>

\* Mutant: the return for want of room forgets the lock.
unlockUsbUnlessFull(t) ==
    /\ usbPc[t] \in {"full", "done", "serviced"}
    /\ usbLock' = (usbPc[t] = "full")
    /\ to(t, IF usbPc[t] = "full" THEN "drop" ELSE "away")
    /\ UNCHANGED <<ringVars, droppedWrites, usbPacket, attached, usbHistory>>

unlockUsb(t) ==
    /\ usbPc[t] \in {"full", "done", "serviced"}
    /\ usbLock' = FALSE
    /\ to(t, IF usbPc[t] = "full" THEN "drop" ELSE "away")
    /\ UNCHANGED <<ringVars, droppedWrites, usbPacket, attached, usbHistory>>

recordDrop(t) ==
    /\ usbPc[t] = "drop"
    /\ droppedWrites' = droppedWrites + 1
    /\ to(t, "away")
    /\ UNCHANGED <<ringVars, usbLock, usbPacket, attached, usbHistory>>

-----------------------------------------------------------------------------
beginService ==
    /\ usbPc[UsbServicer] = "away" /\ attached
    /\ tryLock
    /\ to(UsbServicer, "service")
    /\ UNCHANGED <<ringVars, droppedWrites, usbPacket, attached, usbHistory>>

\* service() once it has the lock: one chunk, not around the end of the queue, of
\* which the port takes what it can.
serviceChunk ==
    /\ usbPc[UsbServicer] = "service"
    /\ \E written \in 0 .. usbCount :
         /\ written <= UsbCapacity - usbTail
         /\ received' = received \o [k \in 1 .. written |-> usbRing[usbTail + k - 1]]
         /\ usbTail' = at(usbTail + written)
         /\ usbCount' = usbCount - written
    /\ to(UsbServicer, "serviced")
    /\ UNCHANGED <<usbRing, usbHead, usbLock, droppedWrites, usbPacket, attached, offered,
                   enqueued>>

\* The host attaches or detaches.
attach ==
    /\ attached' = ~attached
    /\ UNCHANGED <<ringVars, usbLock, droppedWrites, usbPc, usbPacket, usbHistory>>

enqueueStep(t) ==
    copyPacket(t) \/ advanceHead(t) \/ addCount(t) \/ unlockUsb(t) \/ recordDrop(t)

UsbNext ==
    \/ \E t \in UsbTasks : enqueueStep(t) \/ \E size \in UsbPacketSizes : enqueueUsb(t, size)
    \/ beginService \/ serviceChunk \/ attach

CallGoesOn == serviceChunk \/ \E t \in UsbTasks : enqueueStep(t)
ServiceTakes == serviceChunk /\ received' # received

\* Calls end, the port is serviced every few milliseconds, and an attached
\* host takes bytes again and again.
UsbFairness ==
    /\ WF_usbVars(CallGoesOn)
    /\ SF_usbVars(beginService)
    /\ SF_usbVars(ServiceTakes)

UsbSpec == UsbInit /\ [][UsbNext]_usbVars /\ UsbFairness

-----------------------------------------------------------------------------
UsbTypeOK ==
    /\ {usbHead, usbTail} \subseteq 0 .. UsbCapacity - 1 /\ usbCount \in 0 .. UsbCapacity
    /\ usbLock \in BOOLEAN /\ attached \in BOOLEAN
    /\ {droppedWrites, offered} \subseteq 0 .. MaxUsbPackets
    /\ usbPc \in [UsbTasks -> {"away", "locked", "head", "count", "full", "done", "drop", "service",
                            "serviced"}]

waitingBytes == [k \in 1 .. usbCount |-> usbRing[at(usbTail + k - 1)]]

\* What enqueue() took, the host has got or will get, byte for byte and packet
\* after packet, however the calls of the two tasks overlap.
BytesInOrder == usbLock \/ enqueued = received \o waitingBytes

\* A packet that was not taken was counted.
RefusalsAreCounted ==
    offered = droppedWrites + Cardinality({i \in DOMAIN enqueued : enqueued[i].left = 0})
              + Cardinality({t \in UsbTasks : usbPc[t] \in {"locked", "head", "count", "full", "drop"}})

\* An attached host that keeps reading gets everything.
UsbDrains == <>[]attached => <>[](usbCount = 0)
=============================================================================
