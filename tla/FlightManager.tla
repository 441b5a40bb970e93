--------------------------- MODULE FlightManager ---------------------------
(***************************************************************************)
(* core/flight/FlightManager.cpp with the three tasks that use it:         *)
(*   - the sensor task, which runs its periodic handlers one after another *)
(*     and whose publishState() is taken step by step (pc);                *)
(*   - the telemetry task, above it on the same core: a MAVLink ARM or     *)
(*     DISARM is handled in one step at any point of publishState();       *)
(*   - the flight task on the other core, which only reads _armedShared.   *)
(* Vehicle data is one health bit, the three system faults are one bit,    *)
(* and the pilot's input is a stick position with the receiver's failsafe. *)
(***************************************************************************)
EXTENDS FlightModeController

VARIABLES
    vehicleOk,     \* _vehicleState: sensor and estimator healthy
    rc,            \* _rcState
    systemFault,   \* _timingExceededShared, _batteryCriticalShared, _actuatorFaultShared
    rcRequired,    \* _rcRequiredShared
    preflightOk,   \* _preflightArmAllowedShared
    benchAuth,     \* _benchForceArmAuthorizedShared
    session,       \* _benchForceArmSessionShared
    armedShared,   \* _armedShared
    pc,            \* where the sensor task is in publishState()
    bypass,        \* its benchSession
    failsafe,      \* its failsafe.reasons
    wasArmed,      \* its wasArmed
    seen,          \* the _state its controller update loaded
    nowArmed,      \* the isArmed() it loaded last
    interrupted,   \* a request was handled during the last publishState()
    outputs        \* what the flight task wrote last: "safe" or "driven"

inputVars == <<vehicleOk, rc, systemFault, preflightOk, benchAuth>>
localVars == <<bypass, failsafe, wasArmed, seen, nowArmed>>
vars == <<controllerVars, inputVars, rcRequired, session, armedShared, pc, localVars,
          interrupted, outputs>>

-----------------------------------------------------------------------------
(* FailsafeManager: the reasons it raises, and those a bench session hides. *)

Reasons == {"RcLoss", "VehicleInvalid", "SystemFault"}
\* Mutant: the bench hides every reason.
BenchBypassAll == Reasons

BenchBypass == {"RcLoss", "VehicleInvalid"}

evaluate(dataFailsafe, mask) ==
    {r \in Reasons \ mask :
        \/ r = "RcLoss" /\ rcRequired /\ dataFailsafe
        \/ r = "VehicleInvalid" /\ ~vehicleOk
        \/ r = "SystemFault" /\ systemFault}

\* The failsafe field of the FlightData built from a decision is that decision.
DataFailsafe(decision) == decision # {}

\* The data is built with the empty decision `none`.
evaluateFailsafe(bench) ==
    evaluate(DataFailsafe({}), IF bench THEN BenchBypass ELSE {})

-----------------------------------------------------------------------------
\* failsafeState() holds the sticks low and centred while the receiver is lost.
RcStates == [sticks : Sticks, lost : {FALSE}] \cup [sticks : {"low"}, lost : {TRUE}]

Init ==
    /\ ControllerInit
    /\ vehicleOk = FALSE
    /\ rc = [sticks |-> "low", lost |-> TRUE]
    /\ systemFault = FALSE
    /\ rcRequired \in BOOLEAN
    /\ preflightOk = FALSE
    /\ benchAuth = FALSE
    /\ session = FALSE
    /\ armedShared = FALSE
    /\ pc = "idle"
    /\ bypass = FALSE
    /\ failsafe = {}
    /\ wasArmed = FALSE
    /\ seen = "Standby"
    /\ nowArmed = FALSE
    /\ interrupted = FALSE
    /\ outputs = "safe"

-----------------------------------------------------------------------------
(* The sensor task between two publications.                               *)

updateSensors ==
    /\ pc = "idle"
    /\ vehicleOk' \in BOOLEAN
    /\ UNCHANGED <<controllerVars, rc, systemFault, preflightOk, benchAuth, rcRequired, session,
                   armedShared, pc, localVars, interrupted, outputs>>

updateRc ==
    /\ pc = "idle"
    /\ rc' \in RcStates
    /\ UNCHANGED <<controllerVars, vehicleOk, systemFault, preflightOk, benchAuth, rcRequired,
                   session, armedShared, pc, localVars, interrupted, outputs>>

\* Mutant: a gate that closes leaves the session standing.
updatePreflightArmGateKeep ==
    /\ pc = "idle"
    /\ benchAuth' \in BOOLEAN
    /\ preflightOk' \in BOOLEAN
    /\ UNCHANGED <<controllerVars, vehicleOk, rc, systemFault, rcRequired, session, armedShared,
                   pc, localVars, interrupted, outputs>>

\* A gate that closes ends the bench session.  Its stores are one step: a request
\* between them finds the authority gone and leaves the session to be ended.
updatePreflightArmGate ==
    /\ pc = "idle"
    /\ benchAuth' \in BOOLEAN
    /\ preflightOk' \in BOOLEAN
    /\ session' = (session /\ benchAuth')
    /\ UNCHANGED <<controllerVars, vehicleOk, rc, systemFault, rcRequired, armedShared, pc,
                   localVars, interrupted, outputs>>

Tick ==
    /\ pc = "idle"
    /\ tick
    /\ UNCHANGED <<inputVars, rcRequired, session, armedShared, pc, localVars, interrupted,
                   outputs>>

-----------------------------------------------------------------------------
(* runStatePublish() of main.cpp: the faults, then publishState(), one      *)
(* access to shared state at a time.                                        *)

At(here, there) == pc = here /\ pc' = there

\* runStatePublish hands over the faults first.
setSystemFaults ==
    /\ At("idle", "publish")
    /\ systemFault' \in BOOLEAN
    /\ UNCHANGED <<controllerVars, vehicleOk, rc, preflightOk, benchAuth, rcRequired, session,
                   armedShared, localVars, interrupted, outputs>>

loadSession ==
    /\ At("publish", "evaluate")
    /\ bypass' = (session /\ benchAuth)
    /\ session' = (session /\ benchAuth)
    /\ interrupted' = FALSE
    /\ UNCHANGED <<controllerVars, inputVars, rcRequired, armedShared, failsafe, wasArmed, seen,
                   nowArmed, outputs>>

evaluateState ==
    /\ At("evaluate", "endSession")
    /\ failsafe' = evaluateFailsafe(bypass)
    /\ UNCHANGED <<controllerVars, inputVars, rcRequired, session, armedShared, bypass, wasArmed,
                   seen, nowArmed, interrupted, outputs>>

endSession ==
    /\ At("endSession", "loadArmed")
    /\ session' = (session /\ ~(bypass /\ failsafe # {}))
    /\ UNCHANGED <<controllerVars, inputVars, rcRequired, armedShared, localVars, interrupted,
                   outputs>>

loadArmed ==
    /\ At("loadArmed", "loadState")
    /\ wasArmed' = isArmed
    /\ UNCHANGED <<controllerVars, inputVars, rcRequired, session, armedShared, bypass, failsafe,
                   seen, nowArmed, interrupted, outputs>>

loadState ==
    /\ At("loadState", "update")
    /\ seen' = state
    /\ UNCHANGED <<controllerVars, inputVars, rcRequired, session, armedShared, bypass, failsafe,
                   wasArmed, nowArmed, interrupted, outputs>>

updateControl ==
    /\ At("update", "reload")
    /\ updateController(seen, [failsafe    |-> failsafe # {},
                               preflightOk |-> preflightOk,
                               gestures    |-> rcRequired,
                               sticks      |-> rc.sticks])
    /\ UNCHANGED <<inputVars, rcRequired, session, armedShared, localVars, interrupted, outputs>>

reloadArmed ==
    /\ At("reload", "closeSession")
    /\ nowArmed' = isArmed
    /\ UNCHANGED <<controllerVars, inputVars, rcRequired, session, armedShared, bypass, failsafe,
                   wasArmed, seen, interrupted, outputs>>

closeSession ==
    /\ At("closeSession", "load")
    /\ session' = (session /\ ~(wasArmed /\ ~nowArmed))
    /\ UNCHANGED <<controllerVars, inputVars, rcRequired, armedShared, localVars, interrupted,
                   outputs>>

loadShared ==
    /\ At("load", "store")
    /\ nowArmed' = isArmed
    /\ UNCHANGED <<controllerVars, inputVars, rcRequired, session, armedShared, bypass, failsafe,
                   wasArmed, seen, interrupted, outputs>>

\* Mutant: the flag is stored only when publishState changed the state itself.
storeSharedOnChange ==
    /\ At("store", "idle")
    /\ armedShared' = IF wasArmed # nowArmed THEN nowArmed ELSE armedShared
    /\ UNCHANGED <<controllerVars, inputVars, rcRequired, session, localVars, interrupted, outputs>>

storeShared ==
    /\ At("store", "idle")
    /\ armedShared' = nowArmed
    /\ UNCHANGED <<controllerVars, inputVars, rcRequired, session, localVars, interrupted, outputs>>

publishState ==
    \/ setSystemFaults
    \/ loadSession \/ evaluateState \/ endSession \/ loadArmed \/ loadState
    \/ updateControl \/ reloadArmed \/ closeSession \/ loadShared \/ storeShared

-----------------------------------------------------------------------------
(* The telemetry task: requestArmFromMavlink() and the RC_ENABLED parameter. *)

throttleHigh == rcRequired /\ rc.sticks = "high"

\* Mutant: authority alone is enough for a forced arm.
requestForceArmBlind ==
    IF benchAuth THEN forceArm /\ session' = TRUE
                 ELSE UNCHANGED <<controllerVars, session>>

requestForceArm ==
    IF benchAuth /\ evaluateFailsafe(TRUE) = {}
      THEN forceArm /\ session' = TRUE
      ELSE UNCHANGED <<controllerVars, session>>

\* Mutant: a normal request does not evaluate the failsafe.
requestNormalArmBlind ==
    /\ session' = FALSE
    /\ requestArm(preflightOk, FALSE, throttleHigh)

requestNormalArm ==
    /\ session' = FALSE
    /\ IF evaluateFailsafe(FALSE) = {}
         THEN requestArm(preflightOk, FALSE, throttleHigh)
         ELSE UNCHANGED controllerVars

requestMavlinkDisarm(force) ==
    /\ requestDisarm(force, throttleHigh)
    /\ session' = (session /\ ~DisarmAccepted(force, throttleHigh))

requestArmFromMavlink ==
    /\ \/ requestForceArm
       \/ requestNormalArm
       \/ \E force \in BOOLEAN : requestMavlinkDisarm(force)
    /\ armedShared' = (state' = "ArmedManual")
    /\ interrupted' = (interrupted \/ pc # "idle")
    /\ UNCHANGED <<inputVars, rcRequired, pc, localVars, outputs>>

\* A parameter write is refused while the vehicle reports armed.
setRcRequired ==
    /\ ~armedShared
    /\ rcRequired' = ~rcRequired
    /\ UNCHANGED <<controllerVars, inputVars, session, armedShared, pc, localVars, interrupted,
                   outputs>>

-----------------------------------------------------------------------------
\* One iteration of the flight task.
flightLoop ==
    /\ outputs' = IF armedShared THEN "driven" ELSE "safe"
    /\ UNCHANGED <<controllerVars, inputVars, rcRequired, session, armedShared, pc, localVars,
                   interrupted>>

Next ==
    \/ updateSensors \/ updateRc \/ updatePreflightArmGate \/ Tick
    \/ publishState
    \/ requestArmFromMavlink \/ setRcRequired
    \/ flightLoop

Spec == Init /\ [][Next]_vars

\* The scheduler keeps calling publishState and the flight loop keeps its period.
FairSpec == Spec /\ WF_vars(publishState) /\ WF_vars(flightLoop)

-----------------------------------------------------------------------------
ControllerTypeOK ==
    /\ state \in FlightStates
    /\ armHold \in Holds
    /\ disarmHold \in Holds

TypeOK ==
    /\ ControllerTypeOK
    /\ vehicleOk \in BOOLEAN
    /\ rc \in RcStates
    /\ systemFault \in BOOLEAN
    /\ rcRequired \in BOOLEAN
    /\ preflightOk \in BOOLEAN
    /\ benchAuth \in BOOLEAN
    /\ session \in BOOLEAN
    /\ armedShared \in BOOLEAN
    /\ pc \in {"idle", "publish", "evaluate", "endSession", "loadArmed", "loadState", "update",
               "reload", "closeSession", "load", "store"}
    /\ bypass \in BOOLEAN
    /\ failsafe \in SUBSET Reasons
    /\ wasArmed \in BOOLEAN
    /\ seen \in FlightStates
    /\ nowArmed \in BOOLEAN
    /\ interrupted \in BOOLEAN
    /\ outputs \in {"safe", "driven"}

AfterUpdate == {"reload", "closeSession", "load", "store"}

\* Once publishState has acted on an active failsafe the vehicle is not armed,
\* and no request can arm it again before the inputs change, except a forced
\* arm on the bench against a reason the bench may hide.
FailsafeDisarms ==
    pc \in AfterUpdate /\ failsafe # {} /\ isArmed =>
        benchAuth /\ "SystemFault" \notin failsafe

\* A bench session never outlives the authority it was granted under.
SessionNeedsAuthority == session => benchAuth

\* A publication during which no request arrived leaves the flag the flight
\* task reads equal to the controller's state, however stale it was before.
SharedFlagExact == pc = "idle" /\ ~interrupted => armedShared = isArmed

\* The vehicle becomes armed only with the preflight passed and no failsafe
\* reason present, or under a bench session that hides the reasons present.
ArmingIsAuthorised ==
    [][~isArmed /\ isArmed' =>
         \/ preflightOk /\ evaluateFailsafe(FALSE) = {}
         \/ benchAuth /\ (session' \/ bypass) /\ evaluateFailsafe(TRUE) = {}]_vars

\* A disarm that lasts reaches the actuators, whatever stale value
\* publishState stored over it.
DisarmReachesOutputs == <>[](~isArmed) => <>[](outputs = "safe")

\* A system fault that lasts ends with safe outputs, even against a stream of
\* arm and force-arm requests.
FaultReachesOutputs == <>[]systemFault => <>[](outputs = "safe")

\* What the documentation promises of the receiver: while RC is required and
\* lost, and no bench session hides it, the decision contains RC_LOSS.
RcLossIsRaised ==
    pc = "endSession" /\ rcRequired /\ rc.lost /\ ~bypass => "RcLoss" \in failsafe
=============================================================================
