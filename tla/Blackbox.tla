------------------------------ MODULE Blackbox ------------------------------
(***************************************************************************)
(* telemetry/Blackbox.cpp with its ring, and the transmit queue of         *)
(* drivers/PioUart.cpp it shares with the MAVLink packets.  The telemetry  *)
(* task makes the records, drains them and writes the packets; the UART's  *)
(* interrupt takes bytes between any two steps of it.  While it boots, the *)
(* sensor task writes texts (runDeferredSensorBoot() of main.cpp); it runs *)
(* only between two calls of the telemetry task, and its write() is taken  *)
(* one access to the queue at a time.                                      *)
(* A byte of a record is known by the record and by how many follow it;    *)
(* the bytes of packets and texts are all alike.  The contents, the log's  *)
(* period and the unused receive queue are left out.                       *)
(***************************************************************************)
EXTENDS Naturals, Sequences

CONSTANTS
    QueueSlots,     \* capacity() of the record ring
    TxRoom,         \* what fits into the transmit queue
    RecordSize,     \* bytes of a record
    PacketSizes,    \* bytes of a MAVLink packet
    TextSizes,      \* bytes of the packet a text of the sensor task is
    DrainMax,       \* records drainedNow in one call
    MaxRecords,     \* bound: records made
    MaxPackets,     \* bound: packets written
    MaxTexts        \* bound: texts written by the sensor task

ASSUME BlackboxAssumption ==
    /\ {QueueSlots, TxRoom, RecordSize, DrainMax} \subseteq Nat \ {0}
    /\ PacketSizes \subseteq Nat \ {0} /\ TextSizes \subseteq Nat \ {0}
    /\ RecordSize <= TxRoom
    /\ {MaxRecords, MaxPackets, MaxTexts} \subseteq Nat

VARIABLES
    outputMode,     \* BLACKBOX_OUTPUT_MODE
    logQueue, logSequence, droppedRecords,
    logPc, drainedNow, \* place in drain(), and its count of records
    delivered,      \* history: records taken out of the queue
    toSend,         \* bytes the telemetry task's write() has still to accept
    txRing, txHead, txTail, txIrq, \* transmit queue; its interrupt is enabled
    wire,           \* history: the byte sent last
    uartMixed,      \* history: two writes have mixed, and none has begun since
                    \* with the queue empty
    packets,        \* bound: packets written
    text, textPc,   \* bytes of the sensor task's write(), and where it is
    textNext, textSlot, \* the head it will store; the slot it has looked up
    texts           \* bound: texts written

recordVars == <<logQueue, logSequence, droppedRecords, delivered>>
drainVars == <<logPc, drainedNow>>
queueVars == <<txRing, txHead, txTail, txIrq>>
uartVars == <<queueVars, wire, uartMixed>>
textVars == <<text, textPc, textNext, textSlot, texts>>
blackboxVars == <<outputMode, recordVars, drainVars, toSend, uartVars, packets, textVars>>

PacketByte == [from |-> "packet", of |-> 0, left |-> 0]
LogBytes(n) == [i \in 1 .. RecordSize |-> [from |-> "log", of |-> n, left |-> RecordSize - i]]
PacketBytes(size) == [i \in 1 .. size |-> PacketByte]
ToSd == outputMode \in {"sd", "both"}
ToUart == outputMode \in {"telemetry", "both"}

TxSlots == 0 .. TxRoom
txNext(i) == (i + 1) % (TxRoom + 1)
txUsed == (txHead + TxRoom + 1 - txTail) % (TxRoom + 1)
availableForWrite == TxRoom - txUsed

\* The bytes queued.
txQueue == [k \in 1 .. txUsed |-> txRing[(txTail + k - 1) % (TxRoom + 1)]]


BlackboxInit ==
    /\ outputMode \in {"telemetry", "sd", "both"}
    /\ logQueue = <<>> /\ logSequence = 0 /\ droppedRecords = 0 /\ delivered = 0
    /\ logPc = "idle" /\ drainedNow = 0
    /\ toSend = <<>> /\ txIrq = FALSE
    /\ txRing = [i \in TxSlots |-> PacketByte] /\ txHead = 0 /\ txTail = 0
    /\ wire = PacketByte /\ uartMixed = FALSE
    /\ packets = 0
    /\ text = <<>> /\ textPc = "idle" /\ textNext = 0 /\ textSlot = 0 /\ texts = 0

\* The sensor task has looked at the head and not stored it yet.
textHoldsHead == textPc \in {"slot", "byte", "head"}

\* A write() that begins with the queue empty begins anew on the wire.
beginWrite ==
    IF uartMixed /\ txHead = txTail /\ ~textHoldsHead
      THEN uartMixed' = FALSE /\ wire' = PacketByte
      ELSE UNCHANGED <<uartMixed, wire>>

-----------------------------------------------------------------------------
\* Mutant: a record that finds the queue full takes no number.
writeRecordUnnumbered ==
    /\ logPc = "idle" /\ logSequence < MaxRecords
    /\ IF Len(logQueue) = QueueSlots
         THEN UNCHANGED <<logQueue, logSequence>>
         ELSE logQueue' = Append(logQueue, logSequence + 1) /\ logSequence' = logSequence + 1
    /\ droppedRecords' = droppedRecords + (IF Len(logQueue) = QueueSlots THEN 1 ELSE 0)
    /\ UNCHANGED <<outputMode, delivered, drainVars, toSend, uartVars, packets, textVars>>

\* A record takes its number before it is known to fit.
writeRecord ==
    /\ logPc = "idle" /\ logSequence < MaxRecords
    /\ logSequence' = logSequence + 1
    /\ IF Len(logQueue) = QueueSlots
         THEN droppedRecords' = droppedRecords + 1 /\ UNCHANGED logQueue
         ELSE logQueue' = Append(logQueue, logSequence + 1) /\ UNCHANGED droppedRecords
    /\ UNCHANGED <<outputMode, delivered, drainVars, toSend, uartVars, packets, textVars>>

beginDrain ==
    /\ logPc = "idle" /\ logQueue # <<>>
    /\ logPc' = "peek" /\ drainedNow' = 0
    /\ UNCHANGED <<outputMode, recordVars, toSend, uartVars, packets, textVars>>

peekRecord ==
    /\ logPc = "peek"
    /\ logPc' = (IF drainedNow = DrainMax \/ logQueue = <<>> THEN "idle"
                 ELSE IF ToSd THEN "card" ELSE "uart")
    /\ UNCHANGED <<outputMode, recordVars, drainedNow, toSend, uartVars, packets, textVars>>

\* The card takes all, a part (which counts as a drop, though the record stays
\* first in the queue), or is not there.
writeCard ==
    /\ logPc = "card"
    /\ \/ logPc' = (IF ToUart THEN "uart" ELSE "pop") /\ UNCHANGED recordVars
       \/ /\ logPc' = "idle"
          /\ droppedRecords' = droppedRecords + 1
          /\ droppedRecords < MaxRecords
          /\ UNCHANGED <<logQueue, logSequence, delivered>>
       \/ logPc' = "idle" /\ UNCHANGED recordVars
    /\ UNCHANGED <<outputMode, drainedNow, toSend, uartVars, packets, textVars>>

\* Mutant: any room will do.
enoughRoomAny == availableForWrite > 0

enoughRoom == availableForWrite >= RecordSize

\* PioUart::write() begins, or the record waits for the next drain.
offerUart ==
    /\ logPc = "uart"
    /\ IF enoughRoom
         THEN logPc' = "write" /\ toSend' = LogBytes(Head(logQueue)) /\ beginWrite
         ELSE logPc' = "idle" /\ UNCHANGED <<toSend, wire, uartMixed>>
    /\ UNCHANGED <<outputMode, recordVars, drainedNow, queueVars, packets, textVars>>

popRecord ==
    /\ logPc = "pop"
    /\ logQueue' = Tail(logQueue)
    /\ delivered' = delivered + 1
    /\ drainedNow' = drainedNow + 1
    /\ logPc' = "peek"
    /\ UNCHANGED <<outputMode, logSequence, droppedRecords, toSend, uartVars, packets, textVars>>

\* MavlinkTransport::writePacket() does not ask for room.
writePacket(size) ==
    /\ logPc = "idle" /\ packets < MaxPackets
    /\ packets' = packets + 1
    /\ toSend' = PacketBytes(size)
    /\ logPc' = "packet"
    /\ beginWrite
    /\ UNCHANGED <<outputMode, recordVars, drainedNow, queueVars, textVars>>

-----------------------------------------------------------------------------
(* PioUart                                                                  *)

writeByte ==
    /\ toSend # <<>> /\ txNext(txHead) # txTail
    /\ txRing' = [txRing EXCEPT ![txHead] = Head(toSend)]
    /\ txHead' = txNext(txHead)
    /\ uartMixed' = (uartMixed \/ textHoldsHead)
    /\ toSend' = Tail(toSend)
    /\ UNCHANGED <<outputMode, recordVars, drainVars, txTail, txIrq, wire, packets, textVars>>

\* Mutant: the interrupt is enabled only for a queue that was empty.
endWriteFirst ==
    /\ logPc \in {"write", "packet"}
    /\ toSend = <<>> \/ txNext(txHead) = txTail
    /\ toSend' = <<>>
    /\ txIrq' = (txIrq \/ txUsed = 1)
    /\ logPc' = (IF logPc = "packet" \/ toSend # <<>> THEN "idle" ELSE "pop")
    /\ droppedRecords' = droppedRecords + (IF logPc = "write" /\ toSend # <<>> THEN 1 ELSE 0)
    /\ UNCHANGED <<outputMode, logQueue, logSequence, delivered, drainedNow, txRing, txHead,
                   txTail, wire, uartMixed, packets, textVars>>

\* All is accepted, or the queue is full and the rest is dropped.
endWrite ==
    /\ logPc \in {"write", "packet"}
    /\ toSend = <<>> \/ txNext(txHead) = txTail
    /\ toSend' = <<>>
    /\ txIrq' = TRUE
    /\ logPc' = (IF logPc = "packet" \/ toSend # <<>> THEN "idle" ELSE "pop")
    /\ droppedRecords' = droppedRecords + (IF logPc = "write" /\ toSend # <<>> THEN 1 ELSE 0)
    /\ UNCHANGED <<outputMode, logQueue, logSequence, delivered, drainedNow, txRing, txHead,
                   txTail, wire, uartMixed, packets, textVars>>

\* serviceTx(), a byte at a time; a received byte calls it as well.
serviceTx ==
    /\ IF txTail = txHead
         THEN UNCHANGED <<txTail, wire>>
         ELSE wire' = txRing[txTail] /\ txTail' = txNext(txTail)
    /\ txIrq' = (txIrq /\ txTail' # txHead)
    /\ UNCHANGED <<outputMode, recordVars, drainVars, toSend, txRing, txHead, uartMixed, packets,
                   textVars>>

-----------------------------------------------------------------------------
(* write() in the sensor task, between two calls of the telemetry task.     *)

beginText(size) ==
    /\ logPc = "idle" /\ textPc = "idle" /\ texts < MaxTexts
    /\ texts' = texts + 1
    /\ text' = PacketBytes(size)
    /\ textPc' = "next"
    /\ beginWrite
    /\ UNCHANGED <<outputMode, recordVars, drainVars, toSend, queueVars, packets, textNext, textSlot>>

\* The head to store is computed and compared with the tail.
nextText ==
    /\ logPc = "idle" /\ textPc = "next"
    /\ IF text = <<>> \/ txNext(txHead) = txTail
         THEN /\ textPc' = "idle" /\ text' = <<>>
              /\ txIrq' = TRUE
              /\ UNCHANGED textNext
         ELSE textPc' = "slot" /\ textNext' = txNext(txHead) /\ UNCHANGED <<text, txIrq>>
    /\ UNCHANGED <<outputMode, recordVars, drainVars, toSend, txRing, txHead, txTail, wire, uartMixed,
                   packets, textSlot, texts>>

slotText ==
    /\ logPc = "idle" /\ textPc = "slot"
    /\ textPc' = "byte"
    /\ textSlot' = txHead
    /\ UNCHANGED <<outputMode, recordVars, drainVars, toSend, uartVars, packets, text, textNext, texts>>

byteText ==
    /\ logPc = "idle" /\ textPc = "byte"
    /\ textPc' = "head"
    /\ txRing' = [txRing EXCEPT ![textSlot] = Head(text)]
    /\ UNCHANGED <<outputMode, recordVars, drainVars, toSend, txHead, txTail, txIrq, wire, uartMixed,
                   packets, text, textNext, textSlot, texts>>

headText ==
    /\ logPc = "idle" /\ textPc = "head"
    /\ textPc' = "next"
    /\ txHead' = textNext
    /\ text' = Tail(text)
    /\ textNext' = 0 /\ textSlot' = 0
    /\ UNCHANGED <<outputMode, recordVars, drainVars, toSend, txRing, txTail, txIrq, wire, uartMixed,
                   packets, texts>>

-----------------------------------------------------------------------------
textGoesOn == nextText \/ slotText \/ byteText \/ headText

drain == beginDrain \/ peekRecord \/ writeCard \/ offerUart \/ popRecord

BlackboxNext ==
    \/ writeRecord \/ drain \/ writeByte \/ endWrite \/ serviceTx
    \/ textGoesOn
    \/ \E size \in PacketSizes : writePacket(size)
    \/ \E size \in TextSizes : beginText(size)

\* The drain is called again and again, a call ends, the interrupt is served; the
\* telemetry task waits between two rounds, and the sensor task runs then.
BlackboxFairness ==
    /\ WF_blackboxVars(drain \/ writeByte \/ endWrite)
    /\ WF_blackboxVars(txIrq /\ serviceTx)
    /\ SF_blackboxVars(textGoesOn)

BlackboxSpec == BlackboxInit /\ [][BlackboxNext]_blackboxVars /\ BlackboxFairness

-----------------------------------------------------------------------------
Bytes == [from : {"log", "packet"}, of : Nat, left : Nat]

BlackboxTypeOK ==
    /\ outputMode \in {"telemetry", "sd", "both"}
    /\ logQueue \in Seq(1 .. MaxRecords) /\ Len(logQueue) <= QueueSlots
    /\ {logSequence, delivered} \subseteq 0 .. MaxRecords
    /\ droppedRecords \in 0 .. 2 * MaxRecords
    /\ logPc \in {"idle", "peek", "card", "uart", "write", "pop", "packet"}
    /\ drainedNow \in 0 .. DrainMax
    /\ toSend \in Seq(Bytes)
    /\ txRing \in [TxSlots -> Bytes] /\ {txHead, txTail} \subseteq TxSlots
    /\ txIrq \in BOOLEAN /\ wire \in Bytes /\ packets \in 0 .. MaxPackets
    /\ text \in Seq(Bytes) /\ textPc \in {"idle", "next", "slot", "byte", "head"}
    /\ {textNext, textSlot} \subseteq TxSlots
    /\ texts \in 0 .. MaxTexts /\ uartMixed \in BOOLEAN

\* A record that is missing from the output was counted: exactly as long as the
\* telemetry port is the only output, and never too few otherwise.
LossIsCounted ==
    /\ logSequence <= droppedRecords + delivered + Len(logQueue)
    /\ outputMode = "telemetry" => logSequence = droppedRecords + delivered + Len(logQueue)

\* Queued bytes do not stay behind: the interrupt that sends them is enabled or
\* the write that queued them is about to enable it.
BytesAreServed == txHead # txTail => txIrq \/ logPc \in {"write", "packet"} \/ textPc # "idle"

\* Byte b may come right after byte a: a record goes on and begins at its first
\* byte, and a later record has a higher number.
Follows(a, b) ==
    /\ a.from = "log" /\ a.left > 0 => b = [a EXCEPT !.left = @ - 1]
    /\ b.from = "log" /\ b.left < RecordSize - 1 => a = [b EXCEPT !.left = @ + 1]
    /\ a.from = "log" /\ b.from = "log" => b.of >= a.of

\* On the wire every record is whole and later than the one before, although
\* packets that find no room are cut short around it and texts come in between;
\* but for the time from a write that came into the sensor task's update of the
\* head to the next one that begins with the queue empty.
RecordsAreWhole == [][wire' # wire /\ ~uartMixed => Follows(wire, wire')]_blackboxVars

\* On the wire every record is whole.
RecordsAreNeverTorn == [][wire' # wire => Follows(wire, wire')]_blackboxVars

\* Over the telemetry port everything queued goes out.
LogDrains == <>[](outputMode = "telemetry" => logQueue = <<>> /\ txQueue = <<>>)
=============================================================================
