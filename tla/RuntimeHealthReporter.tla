----------------------- MODULE RuntimeHealthReporter -----------------------
(***************************************************************************)
(* app/RuntimeHealthReporter.cpp: once a second the telemetry task takes   *)
(* the events of the sensor task, then looks at the preflight result, and  *)
(* tells the ground what changed.  A loss of the receiver reaches it on    *)
(* two ways: as an event of FlightManager::updateRc(), and as the first    *)
(* failure of a preflight evaluation that asks the receiver itself.  The   *)
(* report preempts the sensor task anywhere in updateRc() and is not       *)
(* preempted.  The bus itself is SystemEventBus, the notes of overruns are *)
(* TimingMonitor, the texts that repeat are StatusThrottle.                *)
(***************************************************************************)
EXTENDS Naturals, Sequences

CONSTANT EventRoom   \* events the bus holds

ASSUME EventRoomAssumption == EventRoom \in Nat \ {0}

VARIABLES
    receiverOk,       \* isValid() and not isFailsafe()
    rcFailsafe,       \* _rcState.failsafe
    updateRcAt,       \* sensor task: "idle", "received", "changed"
    rcNeeded,         \* the setup requires a receiver
    events,
    rcSignalInvalidLatched,
    batteryWarningLatched,
    told,             \* the last text about the receiver: "none", "lost", "ok"
    \* histories
    rcFirst,          \* the last report's first failure was the receiver
    fresh,            \* the sensor task has not run since the last report
    announced         \* the present loss was accepted by the bus as an event

rcVars == <<receiverOk, rcFailsafe, updateRcAt>>
latchedVars == <<rcSignalInvalidLatched, batteryWarningLatched, told>>
reporterVars == <<rcVars, rcNeeded, events, latchedVars, rcFirst, fresh, announced>>

\* RCPipeline::init() starts in failsafe, and no event says so.
ReporterInit ==
    /\ receiverOk = FALSE /\ rcFailsafe = TRUE /\ updateRcAt = "idle"
    /\ rcNeeded \in BOOLEAN
    /\ events = <<>>
    /\ rcSignalInvalidLatched = FALSE /\ batteryWarningLatched = FALSE
    /\ told = "none"
    /\ rcFirst = FALSE /\ fresh = FALSE /\ announced = FALSE

-----------------------------------------------------------------------------
(* The sensor task: updateRc(). *)

receive ==
    /\ updateRcAt = "idle"
    /\ receiverOk' \in BOOLEAN
    /\ updateRcAt' = "received"
    /\ fresh' = FALSE
    /\ UNCHANGED <<rcFailsafe, rcNeeded, events, latchedVars, rcFirst, announced>>

storeRcState ==
    /\ updateRcAt = "received"
    /\ rcFailsafe' = ~receiverOk
    /\ updateRcAt' = IF rcFailsafe' # rcFailsafe THEN "changed" ELSE "idle"
    /\ announced' = (announced /\ rcFailsafe')
    /\ fresh' = FALSE
    /\ UNCHANGED <<receiverOk, rcNeeded, events, latchedVars, rcFirst>>

hasRoom == Len(events) < EventRoom

publishRcEvent ==
    /\ updateRcAt = "changed"
    /\ updateRcAt' = "idle"
    /\ events' = IF hasRoom THEN Append(events, IF rcFailsafe THEN "RcLost" ELSE "RcRecovered")
                            ELSE events
    /\ announced' = (rcFailsafe /\ hasRoom)
    /\ fresh' = FALSE
    /\ UNCHANGED <<receiverOk, rcFailsafe, rcNeeded, latchedVars, rcFirst>>

\* The sensor task's other events take room, too.
publishOtherEvent ==
    /\ updateRcAt = "idle" /\ hasRoom
    /\ events' = Append(events, "other")
    /\ UNCHANGED <<rcVars, rcNeeded, latchedVars, rcFirst, fresh, announced>>

-----------------------------------------------------------------------------
(* The telemetry task. *)

\* reportSystemEvents(): what one event does to the latch and the last text.
takeEvent(now, event) ==
    CASE event = "RcLost" /\ ~now.latched -> [latched |-> TRUE, told |-> "lost"]
      [] event = "RcRecovered" /\ now.latched -> [latched |-> FALSE, told |-> "ok"]
      [] OTHER -> now

reportSystemEvents(now) ==
    LET after[n \in 0 .. Len(events)] ==
            IF n = 0 THEN now ELSE takeEvent(after[n - 1], events[n])
    IN  after[Len(events)]

\* The preflight result, evaluated just before: "sensor" is asked before the
\* receiver, "later" stands for the checks after it.
firstFailures ==
    {"sensor"} \cup (IF rcNeeded /\ ~receiverOk THEN {"RC"} ELSE {"none", "later"})

\* What the result does to them: a clean one ends an old loss without a text.
judge(now, first) ==
    CASE first = "RC"   -> [latched |-> TRUE, told |-> IF now.latched THEN now.told ELSE "lost"]
      [] first = "none" -> [now EXCEPT !.latched = FALSE]
      [] OTHER          -> now

\* Mutant: the result is looked at before the events.
reportReceiverFirst(now, first) == reportSystemEvents(judge(now, first))

reportReceiver(now, first) == judge(reportSystemEvents(now), first)

\* The battery is warned of once per trouble, by an event; overruns and lost records
\* publish events of their own.
reportHealth ==
    \E battery \in {"none", "good", "bad"}, others \in 0..2 :
        LET warnings == others + (IF battery = "bad" /\ ~batteryWarningLatched THEN 1 ELSE 0)
        IN /\ batteryWarningLatched' = (battery = "bad" \/ (battery = "none" /\ batteryWarningLatched))
           /\ events' = [i \in 1..(IF warnings < EventRoom THEN warnings ELSE EventRoom) |-> "other"]

\* A whole report.
run ==
    /\ \E first \in firstFailures :
          LET now == reportReceiver([latched |-> rcSignalInvalidLatched, told |-> told], first)
          IN /\ rcSignalInvalidLatched' = now.latched
             /\ told' = now.told
             /\ rcFirst' = (first = "RC")
    /\ reportHealth
    /\ fresh' = TRUE
    /\ UNCHANGED <<rcVars, rcNeeded, announced>>

\* A parameter of the telemetry task: the setup needs a receiver or not.
setRcNeeded ==
    /\ rcNeeded' = ~rcNeeded
    /\ fresh' = FALSE
    /\ UNCHANGED <<rcVars, events, latchedVars, rcFirst, announced>>

ReporterNext ==
    \/ receive \/ storeRcState \/ publishRcEvent \/ publishOtherEvent \/ run \/ setRcNeeded

-----------------------------------------------------------------------------
ReporterTypeOK ==
    /\ {receiverOk, rcFailsafe, rcNeeded, rcSignalInvalidLatched, batteryWarningLatched} \subseteq BOOLEAN
    /\ updateRcAt \in {"idle", "received", "changed"}
    /\ events \in Seq({"RcLost", "RcRecovered", "other"}) /\ Len(events) <= EventRoom
    /\ told \in {"none", "lost", "ok"}

\* After a report the ground has last been told of a loss if the receiver is the
\* first reason not to arm, or if the loss that lasts was published, whichever of the
\* two ways was first and wherever the report cut updateRc() in two.
RcNewsIsTrue ==
    /\ rcSignalInvalidLatched => told = "lost"
    /\ fresh => (rcFirst \/ announced => told = "lost")
=============================================================================
