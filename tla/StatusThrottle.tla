--------------------------- MODULE StatusThrottle ---------------------------
(***************************************************************************)
(* RuntimeHealthReporter::sendStatusTextThrottled(): a text that is asked  *)
(* for in every report is sent again only after a while.  The texts sent   *)
(* last are kept in a few slots with the time of sending; the clock wraps. *)
(* A report asks for the preflight result's text and then for the sensor   *)
(* fault's.                                                                *)
(***************************************************************************)
EXTENDS Naturals, FiniteSets

CONSTANTS SlotCount,      \* 8 in the code
          FailureTexts, FaultTexts,
          ThrottleClock,  \* values of millis()
          RepeatTime,     \* REPEAT_MS
          ReportPeriod    \* longest time between two reports, a bound on time

Texts == FailureTexts \cup FaultTexts
NoText == ""

ASSUME ThrottleAssumption ==
    /\ {SlotCount, ThrottleClock, RepeatTime, ReportPeriod} \subseteq Nat \ {0}
    /\ RepeatTime + ReportPeriod < ThrottleClock
    /\ FailureTexts \cap FaultTexts = {}
    /\ NoText \notin Texts

VARIABLES
    throttleMillis,
    statusThrottleSlots,  \* [1..SlotCount -> [text, lastSentMs]]
    \* histories, none of which wraps
    sinceReport,
    waiting,              \* time since a report last sent a text or did not ask for it
    sinceSent,            \* time since a text in a slot was sent
    tooEarly                 \* a text was sent again too soon while it was in a slot

throttleVars == <<throttleMillis, statusThrottleSlots, sinceReport, waiting, sinceSent, tooEarly>>

Free == [text |-> NoText, lastSentMs |-> 0]
Longest == RepeatTime + ReportPeriod

ThrottleInit ==
    /\ throttleMillis = 0
    /\ statusThrottleSlots = [k \in 1..SlotCount |-> Free]
    /\ sinceReport = 0
    /\ waiting = [t \in Texts |-> 0]
    /\ sinceSent = [t \in Texts |-> Longest]
    /\ tooEarly = FALSE

-----------------------------------------------------------------------------
Age(slot) == (throttleMillis + ThrottleClock - slot.lastSentMs) % ThrottleClock

Holding(slots, text) == {k \in DOMAIN slots : slots[k].text = text}

\* Mutant: the times are compared without regard to the wrap.
recentUnwrapped(slot) == throttleMillis < slot.lastSentMs + RepeatTime

recent(slot) == Age(slot) < RepeatTime

sends(slots, text) ==
    text # NoText /\ \A k \in Holding(slots, text) : ~recent(slots[k])

Least(S) == CHOOSE k \in S : \A j \in S : k <= j
Greatest(S) == CHOOSE k \in S : \A j \in S : k >= j

\* The text's own slot, else the first free one, else what the search for the oldest
\* ends at: it passes over every slot whose time is not the very time of the first.
slotFor(slots, text) ==
    IF Holding(slots, text) # {} THEN Least(Holding(slots, text))
    ELSE IF Holding(slots, NoText) # {} THEN Least(Holding(slots, NoText))
    ELSE Greatest({k \in DOMAIN slots : slots[k].lastSentMs = slots[1].lastSentMs})

\* Mutant: a repeated text keeps the time of its first sending.
sendStatusTextThrottledOnce(slots, text) ==
    IF sends(slots, text) /\ Holding(slots, text) = {}
      THEN [slots EXCEPT ![slotFor(slots, text)] = [text |-> text, lastSentMs |-> throttleMillis]]
      ELSE slots

sendStatusTextThrottled(slots, text) ==
    IF sends(slots, text)
      THEN [slots EXCEPT ![slotFor(slots, text)] = [text |-> text, lastSentMs |-> throttleMillis]]
      ELSE slots

reportStatus ==
    \E failure \in FailureTexts \cup {NoText}, fault \in FaultTexts \cup {NoText} :
        LET after == sendStatusTextThrottled(statusThrottleSlots, failure)
            sent == (IF sends(statusThrottleSlots, failure) THEN {failure} ELSE {})
                    \cup (IF sends(after, fault) THEN {fault} ELSE {})
            evicted == {fault} \cap {t \in Texts : Holding(after, t) = {}}
        IN /\ statusThrottleSlots' = sendStatusTextThrottled(after, fault)
           /\ waiting' = [t \in Texts |-> IF t \in {failure, fault} \ sent THEN waiting[t] ELSE 0]
           /\ sinceSent' = [t \in Texts |->
                 IF Holding(statusThrottleSlots', t) = {} THEN Longest
                 ELSE IF t \in sent THEN 0 ELSE sinceSent[t]]
           /\ tooEarly' = (tooEarly \/ \E t \in sent : sinceSent[t] < RepeatTime /\ t \notin evicted)
    /\ sinceReport' = 0
    /\ UNCHANGED throttleMillis

ThrottleTick ==
    /\ sinceReport < ReportPeriod
    /\ throttleMillis' = (throttleMillis + 1) % ThrottleClock
    /\ sinceReport' = sinceReport + 1
    /\ waiting' = [t \in Texts |-> waiting[t] + 1]
    /\ sinceSent' = [t \in Texts |-> IF sinceSent[t] < Longest THEN sinceSent[t] + 1 ELSE Longest]
    /\ UNCHANGED <<statusThrottleSlots, tooEarly>>

ThrottleNext == reportStatus \/ ThrottleTick

-----------------------------------------------------------------------------
ThrottleTypeOK ==
    /\ throttleMillis \in 0..(ThrottleClock - 1)
    /\ statusThrottleSlots \in
          [1..SlotCount -> [text : Texts \cup {NoText}, lastSentMs : 0..(ThrottleClock - 1)]]
    /\ sinceReport \in 0..ReportPeriod
    /\ sinceSent \in [Texts -> 0..Longest]

\* A trouble that persists is told again and again, whatever text takes its slot and
\* wherever the clock wraps, and no text is repeated too soon while it has its slot.
TroubleIsRepeated ==
    /\ \A t \in Texts : waiting[t] <= RepeatTime + 2 * ReportPeriod
    /\ ~tooEarly
=============================================================================
