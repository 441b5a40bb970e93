----------------------------- MODULE RCPipeline -----------------------------
(***************************************************************************)
(* The pilot's input: drivers/RX.cpp decides whether the receiver still    *)
(* delivers, core/rc/RCPipeline.cpp chooses between failsafe positions, a  *)
(* MAVLink override and the receiver's channels.                           *)
(*                                                                         *)
(* update() runs in the sensor task.  The telemetry task preempts it       *)
(* between any two of its accesses to set or clear the override and to     *)
(* change the failsafe timeout; each of its calls is one step.  millis()   *)
(* is a clock that wraps, here every ClockSize ticks instead of 2^32 ms,   *)
(* and may advance inside an update.  Of a channel's value only its origin *)
(* is kept.                                                                *)
(***************************************************************************)
EXTENDS Integers, FiniteSetsExt

CONSTANTS
    ClockSize,        \* the clock wraps at this value
    MinTimeout,       \* the shortest frame timeout the driver accepts
    MaxTimeout,       \* the longest
    Timeouts,         \* the timeouts the parameter may ask for
    OverrideTimeout,  \* MAVLINK_RC_OVERRIDE_TIMEOUT_MS
    Period            \* bound: ticks from the end of one update to the end of the next

\* Ages are told apart up to Horizon, from where on every limit is exceeded.
Horizon == Max({MaxTimeout, OverrideTimeout}) + 2 * Period + 1

ASSUME TimeoutAssumption ==
    /\ MinTimeout \in Nat /\ MaxTimeout \in Nat /\ MinTimeout <= MaxTimeout
    /\ Timeouts \subseteq Nat /\ Timeouts # {}
    /\ OverrideTimeout \in Nat
    /\ Period \in Nat \ {0}
ASSUME ClockAssumption == ClockSize \in Nat /\ ClockSize > Horizon

VARIABLES
    now,                \* millis()
    armed,              \* FlightManager::isArmed()
    valid,              \* RXManager::valid
    rxFailsafe,         \* RXManager::_failsafe
    lastValidTime,
    failsafeTimeout,
    overrideActive,
    overrideLast,       \* _overrideLastMs
    pc,                 \* the next step of update(), or "idle"
    nowMs,              \* its local copy of the clock
    source,             \* where the published state comes from
    lag,                \* history: ticks since the last update ended
    silence,            \* history: ticks since the last good frame was read
    signalled,          \* history: the last frame read has the failsafe bit
    overrideAge,        \* history: ticks since the override was last set
    onTime,             \* history: that was between two updates, and not cleared since
    armedFor            \* history: ticks since the vehicle was armed

receiverVars == <<valid, rxFailsafe, lastValidTime, silence, signalled>>
overrideVars == <<overrideActive, overrideLast, overrideAge, onTime>>
updateVars == <<pc, nowMs, source, lag>>
armVars == <<armed, armedFor>>
vars == <<now, receiverVars, failsafeTimeout, overrideVars, updateVars, armVars>>

\* Unsigned subtraction of clock readings.
Since(reading, t) == (t + ClockSize - reading) % ClockSize
Older(age) == Min({age + 1, Horizon})

\* After init(); the timeout is the default one or the saved parameter.
Init ==
    /\ now \in 0 .. ClockSize - 1
    /\ armed = FALSE
    /\ valid = FALSE
    /\ rxFailsafe = FALSE
    /\ lastValidTime = now
    /\ failsafeTimeout \in MinTimeout .. MaxTimeout
    /\ overrideActive = FALSE
    /\ overrideLast = 0
    /\ pc = "idle"
    /\ nowMs = now
    /\ source = "failsafe"
    /\ lag = 0
    /\ silence = Horizon
    /\ signalled = FALSE
    /\ overrideAge = Horizon
    /\ onTime = FALSE
    /\ armedFor = 0

Tick ==
    /\ lag < Period
    /\ now' = (now + 1) % ClockSize
    /\ lag' = lag + 1
    /\ silence' = Older(silence)
    /\ overrideAge' = Older(overrideAge)
    /\ armedFor' = IF armed THEN Older(armedFor) ELSE 0
    /\ UNCHANGED <<armed, valid, rxFailsafe, lastValidTime, signalled, failsafeTimeout,
                   overrideActive, overrideLast, onTime, pc, nowMs, source>>

\* Arming and disarming, the flight manager's business.
setArmed ==
    /\ armed' = ~armed
    /\ armedFor' = 0
    /\ UNCHANGED <<now, receiverVars, failsafeTimeout, overrideVars, updateVars>>

-----------------------------------------------------------------------------
(* The telemetry task.                                                      *)

\* FS_TIMEOUT was written.  Mutant: the value is not constrained.
setFailsafeTimeoutAny ==
    /\ failsafeTimeout' \in Timeouts
    /\ UNCHANGED <<now, receiverVars, overrideVars, updateVars, armVars>>

setFailsafeTimeoutMs ==
    /\ \E timeout \in Timeouts :
           failsafeTimeout' = Max({MinTimeout, Min({timeout, MaxTimeout})})
    /\ UNCHANGED <<now, receiverVars, overrideVars, updateVars, armVars>>

\* RC_CHANNELS_OVERRIDE is rejected while armed.  Mutant: it is accepted.
overrideAllowedArmed == TRUE

overrideAllowed == ~armed

\* Some channel is given.
setOverride ==
    /\ overrideAllowed
    /\ overrideActive' = TRUE
    /\ overrideLast' = now
    /\ overrideAge' = 0
    /\ onTime' = (pc = "idle")
    /\ UNCHANGED <<now, receiverVars, failsafeTimeout, updateVars, armVars>>

\* Every channel is UINT16_MAX.
clearOverride ==
    /\ overrideAllowed
    /\ overrideActive' = FALSE
    /\ onTime' = FALSE
    /\ UNCHANGED <<now, receiverVars, failsafeTimeout, overrideLast, overrideAge,
                   updateVars, armVars>>

-----------------------------------------------------------------------------
(* One update() of the sensor task.                                         *)

beginUpdate ==
    /\ pc = "idle"
    /\ nowMs' = now
    /\ pc' = "receiver"
    /\ UNCHANGED <<now, receiverVars, failsafeTimeout, overrideVars, source, lag, armVars>>

\* RXManager::update() with a frame.  Mutant: its time is not taken.
goodFrameUnstamped ==
    /\ valid' = TRUE
    /\ rxFailsafe' = FALSE
    /\ silence' = 0
    /\ signalled' = FALSE
    /\ UNCHANGED lastValidTime

goodFrame ==
    /\ valid' = TRUE
    /\ rxFailsafe' = FALSE
    /\ lastValidTime' = now
    /\ silence' = 0
    /\ signalled' = FALSE

failsafeFrame ==
    /\ valid' = FALSE
    /\ rxFailsafe' = TRUE
    /\ signalled' = TRUE
    /\ UNCHANGED <<lastValidTime, silence>>

\* RXManager::update() without one.  Mutant: the verdict is recomputed every
\* time instead of kept until a frame arrives.
noFrameRecomputed ==
    /\ rxFailsafe' = (Since(lastValidTime, now) > failsafeTimeout)
    /\ valid' = ~rxFailsafe'
    /\ UNCHANGED <<lastValidTime, silence, signalled>>

noFrame ==
    /\ IF Since(lastValidTime, now) > failsafeTimeout
         THEN rxFailsafe' = TRUE /\ valid' = FALSE
         ELSE UNCHANGED <<rxFailsafe, valid>>
    /\ UNCHANGED <<lastValidTime, silence, signalled>>

updateReceiver ==
    /\ pc = "receiver"
    /\ goodFrame \/ failsafeFrame \/ noFrame
    /\ pc' = "expiry"
    /\ UNCHANGED <<now, failsafeTimeout, overrideVars, nowMs, source, lag, armVars>>

\* Mutants: readings compared as if the clock never wrapped; the limit itself
\* already counts as expired.
expiredNoWrap == overrideActive /\ nowMs - overrideLast > OverrideTimeout
expiredEarly == overrideActive /\ Since(overrideLast, nowMs) >= OverrideTimeout

expired == overrideActive /\ Since(overrideLast, nowMs) > OverrideTimeout

checkExpiry ==
    /\ pc = "expiry"
    /\ pc' = IF expired THEN "clear" ELSE "select"
    /\ UNCHANGED <<now, receiverVars, failsafeTimeout, overrideVars, nowMs, source, lag, armVars>>

\* The telemetry task may have set the override again since the check.
dropOverride ==
    /\ pc = "clear"
    /\ overrideActive' = FALSE
    /\ pc' = "select"
    /\ UNCHANGED <<now, receiverVars, failsafeTimeout, overrideLast, overrideAge, onTime,
                   nowMs, source, lag, armVars>>

\* Mutant: an active override is taken without asking for the receiver.
chosenOverrideFirst ==
    IF overrideActive THEN "override"
    ELSE IF valid /\ ~rxFailsafe THEN "receiver" ELSE "failsafe"

chosen ==
    IF ~valid \/ rxFailsafe THEN "failsafe"
    ELSE IF overrideActive THEN "override" ELSE "receiver"

\* The state is stored and published.  The event published when the link is
\* lost or recovered is SystemEventBus's.
selectSource ==
    /\ pc = "select"
    /\ source' = chosen
    /\ pc' = "idle"
    /\ lag' = 0
    /\ UNCHANGED <<now, receiverVars, failsafeTimeout, overrideVars, nowMs, armVars>>

update == beginUpdate \/ updateReceiver \/ checkExpiry \/ dropOverride \/ selectSource

Next == Tick \/ setArmed \/ setFailsafeTimeoutMs \/ setOverride \/ clearOverride \/ update

Spec == Init /\ [][Next]_vars

-----------------------------------------------------------------------------
\* Every variable keeps its type; RXManager never holds a frame valid and the
\* link in failsafe at once.
TypeOK ==
    /\ {now, lastValidTime, overrideLast, nowMs} \subseteq 0 .. ClockSize - 1
    /\ {armed, valid, rxFailsafe, overrideActive, signalled, onTime} \subseteq BOOLEAN
    /\ ~(valid /\ rxFailsafe)
    /\ failsafeTimeout \in MinTimeout .. MaxTimeout
    /\ pc \in {"idle", "receiver", "expiry", "clear", "select"}
    /\ source \in {"failsafe", "override", "receiver"}
    /\ lag \in 0 .. Period
    /\ {silence, overrideAge, armedFor} \subseteq 0 .. Horizon

\* A receiver that has been silent for longer than the longest timeout, and
\* the two updates that may pass until one has seen it, flies on failsafe
\* positions; it stays so however often the clock wraps during the silence,
\* and an override does not hide it.
LossIsSeen ==
    silence > MaxTimeout + 2 * Period => source = "failsafe"

\* Failsafe positions are published only by an update that had a reason: a
\* failsafe bit in the last frame read, or no good frame for longer than the
\* shortest timeout.
LossIsReal ==
    [][selectSource /\ source' = "failsafe" => signalled \/ silence > MinTimeout]_vars

\* A failsafe bit holds: from the update that reads it until a good frame,
\* nothing but failsafe positions is published.
SignalIsHeld ==
    [][selectSource /\ signalled => source' = "failsafe"]_vars

\* An override nobody renews is gone after its timeout and the two updates
\* that may pass until one has seen it.
OverrideExpires ==
    source = "override" => overrideAge <= OverrideTimeout + 2 * Period

\* An override that was set between two updates, and is neither cleared nor
\* too old, is what an update with a working receiver publishes.
OverrideHolds ==
    [][selectSource /\ onTime /\ overrideAge <= OverrideTimeout /\ source' # "failsafe"
           => source' = "override"]_vars

\* A vehicle that stays armed is flown by its receiver: an override from
\* before arming runs out, and none can be set or renewed.
ArmedFliesOnReceiver ==
    source = "override" => armedFor <= OverrideTimeout + 2 * Period
=============================================================================
