---------------------------- MODULE ServoOutput ----------------------------
(***************************************************************************)
(* drivers/Output.cpp: the flight task on core 1 stores a frame channel by *)
(* channel; the timer interrupt on core 0 latches the channels into the    *)
(* FIFOs of four PIO state machines, which play one pulse per frame period *)
(* in step.  The timer counts its periods from start to start, so when     *)
(* interrupts were off (a sector is being erased) it catches up at once.   *)
(* A pulse carries the number of its frame; the statistics, which nothing  *)
(* reads, are left out.                                                    *)
(***************************************************************************)
EXTENDS Naturals, Sequences

CONSTANTS
    FifoDepth,      \* of a state machine's FIFO
    MaxHeld,        \* bound: frame periods the interrupt is held off
    MaxFrames       \* bound: different frames; the last is written again and again

ASSUME OutputAssumption == {FifoDepth, MaxHeld, MaxFrames} \subseteq Nat \ {0}

VARIABLES
    pendingFrame,   \* pendingThrottleFrame ... pendingYawFrame
    frame, stored,  \* the frame writeMotors() stores, and how many channels it has stored
    due,            \* frame periods the timer owes
    latched,        \* how many channels serviceFrame() has latched
    begun,          \* bound: a frame was being stored during this latch
    sent,           \* history: what each channel latched last
    fifo, played,   \* per channel: the pulses to come, and the one the servo gets
    stalled         \* the state machines wait for a pulse

frameVars == <<pendingFrame, frame, stored>>
latchVars == <<due, latched, begun, sent>>
pioVars == <<fifo, played, stalled>>
outputVars == <<frameVars, latchVars, pioVars>>

Channels == {"throttle", "roll", "pitch", "yaw"}

\* Mutant: the throttle is stored last.
StoreOrderThrottleLast == <<"roll", "pitch", "yaw", "throttle">>

StoreOrder == <<"throttle", "roll", "pitch", "yaw">>

LatchOrder == <<"roll", "pitch", "yaw", "throttle">>

\* init(): the safe frame is stored and latched before the timer runs.
OutputInit ==
    /\ pendingFrame = [c \in Channels |-> 0]
    /\ frame = 0 /\ stored = Len(StoreOrder)
    /\ due = 0 /\ latched = 0 /\ begun = FALSE
    /\ sent = [c \in Channels |-> 0]
    /\ fifo = [c \in Channels |-> <<>>] /\ played = [c \in Channels |-> 0]
    /\ stalled = FALSE

-----------------------------------------------------------------------------
\* An iteration of the flight task is much longer than a latch: at most one frame
\* is being stored during it.
beginFrame ==
    /\ stored = Len(StoreOrder) /\ ~begun
    /\ frame' = IF frame < MaxFrames THEN frame + 1 ELSE MaxFrames
    /\ stored' = 0
    /\ begun' = (latched > 0)
    /\ UNCHANGED <<pendingFrame, due, latched, sent, pioVars>>

\* updatePendingFrame()
storeChannel ==
    /\ stored < Len(StoreOrder)
    /\ pendingFrame' = [pendingFrame EXCEPT ![StoreOrder[stored + 1]] = frame]
    /\ stored' = stored + 1
    /\ UNCHANGED <<frame, latchVars, pioVars>>

\* writePackedPulse(): a full FIFO drops the pulse.
put(c, pulse) == IF Len(fifo[c]) = FifoDepth THEN fifo[c] ELSE Append(fifo[c], pulse)

\* serviceFrame(); state machines that wait for a pulse play it at once.
latchChannel ==
    LET c == LatchOrder[latched + 1]
        last == latched + 1 = Len(LatchOrder)
        next == [fifo EXCEPT ![c] = put(c, pendingFrame[c])]
    IN  /\ due > 0
        /\ sent' = [sent EXCEPT ![c] = pendingFrame[c]]
        /\ latched' = (IF last THEN 0 ELSE latched + 1)
        /\ due' = (IF last THEN due - 1 ELSE due)
        /\ begun' = (~last /\ (begun \/ stored < Len(StoreOrder)))
        /\ IF last /\ stalled
             THEN /\ played' = [d \in Channels |-> Head(next[d])]
                  /\ fifo' = [d \in Channels |-> Tail(next[d])]
                  /\ stalled' = FALSE
             ELSE fifo' = next /\ UNCHANGED <<played, stalled>>
        /\ UNCHANGED frameVars

\* A frame period passes: the PIO program pulls the next pulses, the timer owes
\* one more call.
framePeriod ==
    /\ latched = 0 /\ due < MaxHeld
    /\ due' = due + 1
    /\ IF \E c \in Channels : fifo[c] = <<>>
         THEN stalled' = TRUE /\ UNCHANGED <<fifo, played>>
         ELSE /\ played' = [c \in Channels |-> Head(fifo[c])]
              /\ fifo' = [c \in Channels |-> Tail(fifo[c])]
              /\ UNCHANGED stalled
    /\ UNCHANGED <<frameVars, latched, begun, sent>>

OutputNext == beginFrame \/ storeChannel \/ latchChannel \/ framePeriod

\* The flight task keeps writing, time goes on and interrupts come back.
OutputFairness ==
    /\ WF_outputVars(storeChannel)
    /\ WF_outputVars(latchChannel)
    /\ WF_outputVars(framePeriod)
    /\ WF_outputVars(beginFrame)

OutputSpec == OutputInit /\ [][OutputNext]_outputVars /\ OutputFairness

-----------------------------------------------------------------------------
OutputTypeOK ==
    /\ pendingFrame \in [Channels -> 0 .. MaxFrames]
    /\ frame \in 0 .. MaxFrames /\ stored \in 0 .. Len(StoreOrder)
    /\ due \in 0 .. MaxHeld /\ latched \in 0 .. Len(LatchOrder) - 1
    /\ begun \in BOOLEAN /\ stalled \in BOOLEAN
    /\ sent \in [Channels -> 0 .. MaxFrames] /\ played \in [Channels -> 0 .. MaxFrames]
    /\ fifo \in [Channels -> Seq(0 .. MaxFrames)]
    /\ \A c \in Channels : Len(fifo[c]) <= FifoDepth

\* A frame that is latched while the next one is being stored mixes two frames,
\* neighbours only, and the throttle is of the later one: a throttle cut is
\* never latched after surfaces that belong to it or to a later frame.
ThrottleLeads ==
    latched = 0 =>
        \A c \in Channels \ {"throttle"} :
            sent[c] <= sent["throttle"] /\ sent["throttle"] <= sent[c] + 1

\* The same of the pulses the servos play, whatever the FIFOs dropped.
PulsesStayInStep ==
    \A c \in Channels \ {"throttle"} :
        played[c] <= played["throttle"] /\ played["throttle"] <= played[c] + 1

\* A frame the flight task keeps writing, like the safe one after a disarm, is
\* what every servo plays in the end.
FrameIsPlayed == <>[](\A c \in Channels : played[c] = MaxFrames)

\* docs/External_Review_Findings_2026-07-09.md:77: a safe frame passes at once.
\* Each pulse the servos begin is of the frame latched last.
LatestIsPlayed == [][framePeriod /\ ~stalled' => played' = sent]_outputVars
=============================================================================
