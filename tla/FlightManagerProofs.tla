------------------------ MODULE FlightManagerProofs ------------------------
(***************************************************************************)
(* FlightManager for every hold time: types, the arming rules, what a bench*)
(* session may do and the flag the flight task reads.                      *)
(***************************************************************************)
EXTENDS FlightManager, TLAPS

Evaluated == {"endSession", "loadArmed", "loadState", "update"} \cup AfterUpdate

\* The reasons publishState works with are still those a request would find:
\* the inputs of the evaluation stand still until it ends.
FailsafeCurrent == pc \in Evaluated => failsafe = evaluateFailsafe(bypass)

\* The failsafe is evaluated with the bypass only under standing authority.
BypassNeedsAuthority == pc \notin {"idle", "publish"} /\ bypass => benchAuth

\* What is about to be stored is the controller's state, unless a request
\* came in since publishState began.
StoreExact == pc = "store" /\ ~interrupted => nowArmed = isArmed

FlightInv ==
    /\ TypeOK
    /\ FailsafeDisarms
    /\ SessionNeedsAuthority
    /\ SharedFlagExact
    /\ FailsafeCurrent
    /\ BypassNeedsAuthority
    /\ StoreExact

-----------------------------------------------------------------------------
\* RC_LOSS is never among the reasons; the others depend on the vehicle's
\* health, the system faults and the bypass alone.
LEMMA Evaluation ==
    ASSUME NEW bench \in BOOLEAN
    PROVE  evaluateFailsafe(bench) =
             {r \in Reasons : \/ r = "VehicleInvalid" /\ ~vehicleOk /\ ~bench
                              \/ r = "SystemFault" /\ systemFault}
  BY DEF evaluateFailsafe, evaluate, DataFailsafe, BenchBypass, Reasons

\* The same reasons are found after a step that leaves those inputs alone.
LEMMA EvaluationStands ==
    ASSUME NEW bench \in BOOLEAN, UNCHANGED <<vehicleOk, systemFault>>
    PROVE  evaluateFailsafe(bench)' = evaluateFailsafe(bench)
  BY DEF evaluateFailsafe, evaluate, DataFailsafe, BenchBypass, Reasons

\* The bypass hides reasons, never a system fault.
LEMMA BypassHides ==
    ASSUME NEW bench \in BOOLEAN
    PROVE  /\ evaluateFailsafe(bench) \in SUBSET Reasons
           /\ evaluateFailsafe(bench) \subseteq evaluateFailsafe(FALSE)
           /\ "SystemFault" \in evaluateFailsafe(bench) => evaluateFailsafe(TRUE) # {}
  <1>1. evaluateFailsafe(bench) \in SUBSET Reasons
    BY Evaluation
  <1>2. evaluateFailsafe(bench) \subseteq evaluateFailsafe(FALSE)
    BY Evaluation
  <1>3. "SystemFault" \in evaluateFailsafe(bench) => "SystemFault" \in evaluateFailsafe(TRUE)
    <2>1. "SystemFault" \in evaluateFailsafe(bench) => systemFault
      BY Evaluation
    <2>2. systemFault => "SystemFault" \in evaluateFailsafe(TRUE)
      BY Evaluation DEF Reasons
    <2> QED
      BY <2>1, <2>2
  <1> QED
    BY <1>1, <1>2, <1>3

\* A booted manager satisfies the invariant.
LEMMA InitInv == Init => FlightInv
  <1> SUFFICES ASSUME Init PROVE FlightInv
    OBVIOUS
  <1>1. TypeOK
    <2>1. ControllerTypeOK
      BY ArmHoldAssumption DEF Init, ControllerInit, ControllerTypeOK, FlightStates, Holds, NotHeld
    <2>2. rc \in RcStates
      BY DEF Init, RcStates
    <2> QED
      BY <2>1, <2>2 DEF Init, TypeOK, FlightStates
  <1>2. FailsafeDisarms /\ SessionNeedsAuthority /\ SharedFlagExact
    BY DEF Init, ControllerInit, FailsafeDisarms, AfterUpdate, isArmed, SessionNeedsAuthority,
       SharedFlagExact
  <1>3. FailsafeCurrent /\ BypassNeedsAuthority /\ StoreExact
    BY DEF Init, FailsafeCurrent, Evaluated, AfterUpdate, BypassNeedsAuthority, StoreExact
  <1> QED
    BY <1>1, <1>2, <1>3 DEF FlightInv

-----------------------------------------------------------------------------
\* Every way the controller moves keeps its types.
LEMMA TransitionTypes ==
    ASSUME NEW s \in FlightStates, transitionTo(s)
    PROVE  ControllerTypeOK'
  BY ArmHoldAssumption DEF transitionTo, ControllerTypeOK, Holds, NotHeld

\* update() of the controller leaves it in one of its states.
LEMMA UpdateTypes ==
    ASSUME ControllerTypeOK, NEW in, updateController(seen, in)
    PROVE  ControllerTypeOK'
  <1> USE ArmHoldAssumption DEF Holds, NotHeld
  <1>0. {"Standby", "PreflightBlocked", "ReadyToArm", "ArmedManual", "Failsafe"} = FlightStates
    BY DEF FlightStates
  <1>1. CASE updateFailsafe
    BY <1>0, <1>1, TransitionTypes DEF updateFailsafe
  <1>2. CASE updateBlocked(seen)
    BY <1>0, <1>2, TransitionTypes DEF updateBlocked, controllerVars, ControllerTypeOK
  <1>3. ASSUME NEW gesture, updateReady(seen, gesture) PROVE ControllerTypeOK'
    BY <1>0, <1>3, TransitionTypes DEF updateReady, Start, ControllerTypeOK
  <1>4. ASSUME NEW gesture, updateArmed(seen, gesture) PROVE ControllerTypeOK'
    BY <1>0, <1>4, TransitionTypes DEF updateArmed, Start, ControllerTypeOK
  <1> QED
    BY <1>1, <1>2, <1>3, <1>4 DEF updateController

\* The requests of the ground station leave the controller in one of its states.
LEMMA RequestTypes ==
    ASSUME ControllerTypeOK,
           NEW ok, NEW fs, NEW high, NEW force,
           requestArm(ok, fs, high) \/ requestDisarm(force, high) \/ forceArm
                                    \/ UNCHANGED controllerVars
    PROVE  ControllerTypeOK'
  <1>0. {"PreflightBlocked", "ReadyToArm", "ArmedManual"} \subseteq FlightStates
    BY DEF FlightStates
  <1>1. CASE UNCHANGED controllerVars
    BY <1>1 DEF controllerVars, ControllerTypeOK
  <1>2. CASE \E s \in FlightStates : transitionTo(s)
    BY <1>2, TransitionTypes
  <1> QED
    BY <1>0, <1>1, <1>2 DEF requestArm, requestDisarm, forceArm

-----------------------------------------------------------------------------
\* While the sensor task is between two publications the invariant only says
\* that a session has its authority and that the flag is exact.
LEMMA BetweenPublications ==
    ASSUME FlightInv, pc = "idle",
           updateSensors \/ updateRc \/ updatePreflightArmGate \/ Tick
    PROVE  FlightInv'
  <1> USE DEF FlightInv
  <1>1. TypeOK'
    <2>1. ControllerTypeOK'
      BY ArmHoldAssumption DEF TypeOK, ControllerTypeOK, updateSensors, updateRc,
         updatePreflightArmGate, Tick, tick, Advance, controllerVars, Holds, NotHeld
    <2>2. UNCHANGED <<armedShared, pc, localVars, interrupted, outputs, rcRequired>>
      BY DEF updateSensors, updateRc, updatePreflightArmGate, Tick
    <2>3. /\ vehicleOk' \in BOOLEAN /\ rc' \in RcStates /\ systemFault' \in BOOLEAN
          /\ preflightOk' \in BOOLEAN /\ benchAuth' \in BOOLEAN /\ session' \in BOOLEAN
      BY DEF TypeOK, updateSensors, updateRc, updatePreflightArmGate, Tick,
         inputVars
    <2> QED
      BY <2>1, <2>2, <2>3 DEF TypeOK, localVars
  <1>2. pc' = "idle" /\ UNCHANGED <<state, armedShared, interrupted>>
    BY DEF updateSensors, updateRc, updatePreflightArmGate, Tick, tick,
       controllerVars
  <1>3. SessionNeedsAuthority'
    BY DEF SessionNeedsAuthority, updateSensors, updateRc, updatePreflightArmGate,
       Tick, inputVars
  <1>4. SharedFlagExact'
    BY <1>2 DEF SharedFlagExact, isArmed
  <1>5. FailsafeDisarms' /\ FailsafeCurrent' /\ BypassNeedsAuthority' /\ StoreExact'
    BY <1>2 DEF FailsafeDisarms, FailsafeCurrent, BypassNeedsAuthority, StoreExact, AfterUpdate,
       Evaluated
  <1> QED
    BY <1>1, <1>3, <1>4, <1>5

-----------------------------------------------------------------------------
(* publishState(): one lemma per step.                                      *)

\* The bench bypass is on or off.
LEMMA BypassBoolean == ASSUME TypeOK PROVE bypass \in BOOLEAN
  BY DEF TypeOK

\* None of these steps moves the controller or an input.
LEMMA Quiet ==
    ASSUME TypeOK, FailsafeCurrent, UNCHANGED <<controllerVars, inputVars, rcRequired>>
    PROVE  /\ ControllerTypeOK'
           /\ isArmed' = isArmed
           /\ \A b \in BOOLEAN : evaluateFailsafe(b)' = evaluateFailsafe(b)
  <1>1. ControllerTypeOK' /\ isArmed' = isArmed
    BY DEF TypeOK, ControllerTypeOK, controllerVars, isArmed
  <1>2. \A b \in BOOLEAN : evaluateFailsafe(b)' = evaluateFailsafe(b)
    BY EvaluationStands DEF inputVars
  <1> QED
    BY <1>1, <1>2

\* The fault mask changes between two passes.
LEMMA SystemFaultsInv == ASSUME FlightInv, setSystemFaults PROVE FlightInv'
  <1> USE DEF FlightInv, setSystemFaults, At
  <1>1. ControllerTypeOK' /\ isArmed' = isArmed
    BY DEF TypeOK, ControllerTypeOK, controllerVars, isArmed
  <1>2. TypeOK'
    BY <1>1 DEF TypeOK, localVars
  <1>3. SessionNeedsAuthority'
    BY DEF SessionNeedsAuthority
  <1>4. FailsafeDisarms' /\ SharedFlagExact' /\ FailsafeCurrent' /\ BypassNeedsAuthority' /\ StoreExact'
    BY DEF FailsafeDisarms, SharedFlagExact, FailsafeCurrent, BypassNeedsAuthority, StoreExact,
       AfterUpdate, Evaluated
  <1> QED
    BY <1>2, <1>3, <1>4

\* A pass begins with the session as it stands.
LEMMA LoadSessionInv == ASSUME FlightInv, loadSession PROVE FlightInv'
  <1> USE DEF FlightInv, loadSession, At
  <1>1. TypeOK'
    BY Quiet DEF TypeOK, inputVars
  <1>2. SessionNeedsAuthority' /\ BypassNeedsAuthority'
    BY DEF SessionNeedsAuthority, BypassNeedsAuthority, inputVars, TypeOK
  <1>3. FailsafeDisarms' /\ SharedFlagExact' /\ FailsafeCurrent' /\ StoreExact'
    BY DEF FailsafeDisarms, SharedFlagExact, FailsafeCurrent, StoreExact, AfterUpdate, Evaluated
  <1> QED
    BY <1>1, <1>2, <1>3

\* evaluateState() decides from what the pass has loaded.
LEMMA EvaluateInv == ASSUME FlightInv, evaluateState PROVE FlightInv'
  <1> USE DEF FlightInv, evaluateState, At
  <1>0. bypass \in BOOLEAN /\ bypass' = bypass
    BY DEF TypeOK
  <1>1. TypeOK'
    <2>1. ControllerTypeOK'
      BY Quiet DEF TypeOK
    <2>2. failsafe' \in SUBSET Reasons
      BY <1>0, BypassHides
    <2> QED
      BY <2>1, <2>2 DEF TypeOK, inputVars
  <1>2. FailsafeCurrent'
    BY <1>0, EvaluationStands DEF FailsafeCurrent, inputVars
  <1>3. SessionNeedsAuthority' /\ BypassNeedsAuthority'
    BY DEF SessionNeedsAuthority, BypassNeedsAuthority, inputVars
  <1>4. FailsafeDisarms' /\ SharedFlagExact' /\ StoreExact'
    BY DEF FailsafeDisarms, SharedFlagExact, StoreExact, AfterUpdate
  <1> QED
    BY <1>1, <1>2, <1>3, <1>4

\* The steps before the update, and the flight task, which change neither the
\* inputs nor the result of the evaluation.
LEMMA BeforeUpdateInv ==
    ASSUME FlightInv, endSession \/ loadArmed \/ loadState
    PROVE  FlightInv'
  <1> USE DEF FlightInv, endSession, loadArmed, loadState, At
  <1>0. /\ bypass \in BOOLEAN /\ bypass' = bypass /\ failsafe' = failsafe
        /\ pc \in {"endSession", "loadArmed", "loadState"}
        /\ pc' \in {"loadArmed", "loadState", "update"}
        /\ UNCHANGED <<controllerVars, inputVars, rcRequired>>
    BY DEF TypeOK, localVars
  <1>1. TypeOK'
    <2>1. ControllerTypeOK'
      BY <1>0, Quiet
    <2>2. isArmed \in BOOLEAN /\ state \in FlightStates
      BY DEF isArmed, TypeOK, ControllerTypeOK
    <2>3. CASE endSession
      BY <2>1, <2>2, <2>3 DEF TypeOK, inputVars, localVars
    <2>4. CASE loadArmed
      BY <2>1, <2>2, <2>4 DEF TypeOK, inputVars, localVars
    <2>5. CASE loadState
      BY <2>1, <2>2, <2>5 DEF TypeOK, inputVars, localVars
    <2> QED
      BY <2>3, <2>4, <2>5
  <1>2. FailsafeCurrent'
    BY <1>0, EvaluationStands DEF FailsafeCurrent, inputVars, Evaluated
  <1>3. SessionNeedsAuthority' /\ BypassNeedsAuthority'
    BY <1>0 DEF SessionNeedsAuthority, BypassNeedsAuthority, inputVars
  <1>4. FailsafeDisarms' /\ SharedFlagExact' /\ StoreExact'
    BY <1>0 DEF FailsafeDisarms, SharedFlagExact, StoreExact, AfterUpdate
  <1> QED
    BY <1>1, <1>2, <1>3, <1>4

\* An active failsafe leaves the controller disarmed.
LEMMA UpdateInv == ASSUME FlightInv, updateControl PROVE FlightInv'
  <1> USE DEF FlightInv, updateControl, At
  <1>0. bypass \in BOOLEAN /\ bypass' = bypass /\ failsafe' = failsafe
    BY DEF TypeOK, localVars
  <1>1. TypeOK'
    <2>1. ControllerTypeOK'
      BY UpdateTypes DEF TypeOK
    <2> QED
      BY <2>1 DEF TypeOK, inputVars, localVars
  <1>2. FailsafeCurrent'
    BY <1>0, EvaluationStands DEF FailsafeCurrent, inputVars, Evaluated
  <1>3. SessionNeedsAuthority' /\ BypassNeedsAuthority'
    BY <1>0 DEF SessionNeedsAuthority, BypassNeedsAuthority, inputVars
  <1>4. FailsafeDisarms'
    BY <1>0 DEF FailsafeDisarms, updateController, updateFailsafe, transitionTo, isArmed
  <1>5. SharedFlagExact' /\ StoreExact'
    BY DEF SharedFlagExact, StoreExact
  <1> QED
    BY <1>1, <1>2, <1>3, <1>4, <1>5

\* The rest of a pass publishes what was decided.
LEMMA AfterUpdateInv ==
    ASSUME FlightInv, reloadArmed \/ closeSession \/ loadShared \/ storeShared
    PROVE  FlightInv'
  <1> USE DEF FlightInv, reloadArmed, closeSession, loadShared, storeShared, At
  <1>0. /\ bypass \in BOOLEAN /\ bypass' = bypass /\ failsafe' = failsafe
        /\ pc \in AfterUpdate /\ pc' \in {"closeSession", "load", "store", "idle"}
        /\ UNCHANGED <<controllerVars, inputVars, rcRequired>>
    BY DEF TypeOK, localVars, AfterUpdate
  <1>1. TypeOK'
    <2>1. ControllerTypeOK'
      BY <1>0, Quiet
    <2>2. isArmed \in BOOLEAN /\ state \in FlightStates
      BY DEF isArmed, TypeOK, ControllerTypeOK
    <2>3. CASE reloadArmed
      BY <2>1, <2>2, <2>3 DEF TypeOK, inputVars, localVars
    <2>4. CASE closeSession
      BY <2>1, <2>2, <2>4 DEF TypeOK, inputVars, localVars
    <2>5. CASE loadShared
      BY <2>1, <2>2, <2>5 DEF TypeOK, inputVars, localVars
    <2>6. CASE storeShared
      BY <2>1, <2>2, <2>6 DEF TypeOK, inputVars, localVars
    <2> QED
      BY <2>3, <2>4, <2>5, <2>6
  <1>2. FailsafeCurrent'
    BY <1>0, EvaluationStands DEF FailsafeCurrent, inputVars, Evaluated
  <1>3. SessionNeedsAuthority' /\ BypassNeedsAuthority'
    BY <1>0 DEF SessionNeedsAuthority, BypassNeedsAuthority, inputVars, AfterUpdate
  <1>4. FailsafeDisarms'
    BY <1>0 DEF FailsafeDisarms, isArmed, controllerVars, inputVars, AfterUpdate
  <1>5. SharedFlagExact' /\ StoreExact'
    BY <1>0 DEF SharedFlagExact, StoreExact, isArmed, controllerVars, localVars
  <1> QED
    BY <1>1, <1>2, <1>3, <1>4, <1>5

-----------------------------------------------------------------------------
(* The telemetry task and the flight task.                                  *)

\* A request over MAVLink comes between two steps of a pass.
LEMMA RequestInv == ASSUME FlightInv, requestArmFromMavlink PROVE FlightInv'
  <1> USE DEF FlightInv
  <1>0. /\ bypass \in BOOLEAN /\ bypass' = bypass /\ failsafe' = failsafe /\ pc' = pc
        /\ UNCHANGED <<inputVars, rcRequired, localVars, outputs>>
        /\ armedShared' = isArmed' /\ interrupted' = (interrupted \/ pc # "idle")
    BY DEF requestArmFromMavlink, TypeOK, localVars, isArmed
  <1>1. TypeOK'
    <2>1. ControllerTypeOK'
      BY RequestTypes DEF requestArmFromMavlink, requestForceArm, requestNormalArm,
         requestMavlinkDisarm, TypeOK
    <2>2. session' \in BOOLEAN
      BY DEF TypeOK, requestArmFromMavlink, requestForceArm, requestNormalArm,
         requestMavlinkDisarm
    <2>3. armedShared' \in BOOLEAN
      BY <1>0 DEF isArmed
    <2> QED
      BY <1>0, <2>1, <2>2, <2>3 DEF TypeOK, inputVars, localVars
  <1>2. FailsafeCurrent'
    BY <1>0, EvaluationStands DEF FailsafeCurrent, inputVars
  <1>3. BypassNeedsAuthority'
    BY <1>0 DEF BypassNeedsAuthority, inputVars
  <1>4. SessionNeedsAuthority'
    <2>1. session' => session \/ benchAuth
      <3>1. CASE requestForceArm
        BY <3>1 DEF requestForceArm
      <3>2. CASE requestNormalArm
        BY <3>2 DEF requestNormalArm
      <3>3. CASE \E force \in BOOLEAN : requestMavlinkDisarm(force)
        BY <3>3 DEF requestMavlinkDisarm
      <3> QED
        BY <3>1, <3>2, <3>3 DEF requestArmFromMavlink
    <2> QED
      BY <1>0, <2>1 DEF SessionNeedsAuthority, inputVars
  <1>5. FailsafeDisarms'
    <2> SUFFICES ASSUME pc \in AfterUpdate, failsafe # {}, isArmed'
                 PROVE  benchAuth /\ "SystemFault" \notin failsafe
      BY <1>0 DEF FailsafeDisarms, inputVars
    <2>1. failsafe = evaluateFailsafe(bypass)
      BY DEF FailsafeCurrent, Evaluated
    <2>2. CASE isArmed
      BY <2>2 DEF FailsafeDisarms
    <2>3. CASE ~isArmed /\ requestForceArm
      BY <1>0, <2>1, <2>3, BypassHides DEF requestForceArm, isArmed, controllerVars
    <2>4. CASE ~isArmed /\ requestNormalArm
      BY <1>0, <2>1, <2>4, BypassHides DEF requestNormalArm, isArmed, controllerVars
    <2>5. CASE ~isArmed /\ \E force \in BOOLEAN : requestMavlinkDisarm(force)
      BY <2>5 DEF requestMavlinkDisarm, requestDisarm, transitionTo, isArmed, controllerVars
    <2> QED
      BY <2>2, <2>3, <2>4, <2>5 DEF requestArmFromMavlink
  <1>6. SharedFlagExact' /\ StoreExact'
    BY <1>0 DEF SharedFlagExact, StoreExact
  <1> QED
    BY <1>1, <1>2, <1>3, <1>4, <1>5, <1>6

\* The steps that leave the manager alone.
LEMMA OtherInv ==
    ASSUME FlightInv, setRcRequired \/ flightLoop \/ UNCHANGED vars
    PROVE  FlightInv'
  <1> USE DEF FlightInv
  <1>0. /\ UNCHANGED <<controllerVars, inputVars, session, armedShared, pc, localVars, interrupted>>
        /\ rcRequired' \in BOOLEAN /\ outputs' \in {"safe", "driven"}
    BY DEF setRcRequired, flightLoop, vars, TypeOK
  <1>1. TypeOK'
    BY <1>0 DEF TypeOK, ControllerTypeOK, controllerVars, inputVars, localVars
  <1>2. bypass \in BOOLEAN /\ FailsafeCurrent'
    BY <1>0, EvaluationStands DEF FailsafeCurrent, inputVars, localVars, TypeOK
  <1>3. /\ SessionNeedsAuthority' /\ BypassNeedsAuthority' /\ FailsafeDisarms'
        /\ SharedFlagExact' /\ StoreExact'
    BY <1>0 DEF SessionNeedsAuthority, BypassNeedsAuthority, FailsafeDisarms, SharedFlagExact,
       StoreExact, isArmed, controllerVars, inputVars, localVars
  <1> QED
    BY <1>1, <1>2, <1>3

-----------------------------------------------------------------------------
\* The invariant holds in every behaviour, for every hold time.
THEOREM FlightInvariant == Spec => []FlightInv
  <1>1. FlightInv /\ [Next]_vars => FlightInv'
    <2> SUFFICES ASSUME FlightInv, [Next]_vars PROVE FlightInv'
      OBVIOUS
    <2>1. CASE updateSensors \/ updateRc \/ updatePreflightArmGate \/ Tick
      <3>1. pc = "idle"
        BY <2>1 DEF updateSensors, updateRc, updatePreflightArmGate, Tick
      <3> QED
        BY <2>1, <3>1, BetweenPublications
    <2>2. CASE publishState
      BY <2>2, SystemFaultsInv, LoadSessionInv, EvaluateInv, BeforeUpdateInv, UpdateInv, AfterUpdateInv
         DEF publishState
    <2>3. CASE requestArmFromMavlink
      BY <2>3, RequestInv
    <2>4. CASE setRcRequired \/ flightLoop \/ UNCHANGED vars
      BY <2>4, OtherInv
    <2> QED
      BY <2>1, <2>2, <2>3, <2>4 DEF Next
  <1> QED
    BY <1>1, InitInv, PTL DEF Spec

\* Every variable keeps its type.
THEOREM TypeCorrect == Spec => []TypeOK
  BY FlightInvariant, PTL DEF FlightInv

\* Once publishState acted on a failsafe, nothing but an authorised forced arm
\* against reasons the bench may hide arms the vehicle before the next pass.
THEOREM FailsafeDisarmsAlways == Spec => []FailsafeDisarms
  BY FlightInvariant, PTL DEF FlightInv

\* A bench session never outlives its authority.
THEOREM SessionIsAuthorised == Spec => []SessionNeedsAuthority
  BY FlightInvariant, PTL DEF FlightInv

\* An undisturbed publication leaves the flight task's flag exact.
THEOREM FlagIsExact == Spec => []SharedFlagExact
  BY FlightInvariant, PTL DEF FlightInv

\* The step form of ArmingIsAuthorised, from the invariant.
LEMMA ArmingStep ==
    ASSUME FlightInv, [Next]_vars, ~isArmed, isArmed'
    PROVE  \/ preflightOk /\ evaluateFailsafe(FALSE) = {}
           \/ benchAuth /\ (session' \/ bypass) /\ evaluateFailsafe(TRUE) = {}
  <1> USE DEF FlightInv
  <1>1. CASE updateControl
    <2>1. failsafe = {} /\ preflightOk
      BY <1>1 DEF updateControl, updateController, updateFailsafe, updateBlocked, updateReady,
         updateArmed, transitionTo, isArmed, controllerVars
    <2>2. evaluateFailsafe(bypass) = {} /\ bypass \in BOOLEAN
      BY <1>1, <2>1 DEF FailsafeCurrent, Evaluated, updateControl, At, TypeOK
    <2>3. CASE bypass
      <3>1. benchAuth /\ bypass = TRUE
        BY <1>1, <2>2, <2>3 DEF BypassNeedsAuthority, updateControl, At
      <3> QED
        BY <2>2, <3>1
    <2>4. CASE ~bypass
      <3>1. bypass = FALSE
        BY <2>2, <2>4
      <3> QED
        BY <2>1, <2>2, <3>1
    <2> QED
      BY <2>3, <2>4
  <1>2. CASE requestForceArm
    BY <1>2 DEF requestForceArm, isArmed, controllerVars
  <1>3. CASE requestNormalArm
    BY <1>3 DEF requestNormalArm, requestArm, ArmAccepted, transitionTo, isArmed, controllerVars
  <1>4. CASE \E force \in BOOLEAN : requestMavlinkDisarm(force)
    BY <1>4 DEF requestMavlinkDisarm, requestDisarm, transitionTo, isArmed, controllerVars
  <1>5. CASE UNCHANGED state
    BY <1>5 DEF isArmed
  <1>6. \/ updateControl \/ requestArmFromMavlink \/ UNCHANGED state
    BY DEF Next, publishState, updateSensors, updateRc, updatePreflightArmGate, setSystemFaults,
       Tick, tick, loadSession, evaluateState, endSession, loadArmed, loadState, reloadArmed,
       closeSession, loadShared, storeShared, setRcRequired, flightLoop, controllerVars, vars
  <1> QED
    BY <1>1, <1>2, <1>3, <1>4, <1>5, <1>6 DEF requestArmFromMavlink

\* Arming needs the preflight and no failsafe reason, or the bench's authority
\* and no system fault: at every step of every behaviour.
THEOREM ArmingAuthorised == Spec => ArmingIsAuthorised
  <1>1. FlightInv /\ [Next]_vars =>
          [~isArmed /\ isArmed' =>
             \/ preflightOk /\ evaluateFailsafe(FALSE) = {}
             \/ benchAuth /\ (session' \/ bypass) /\ evaluateFailsafe(TRUE) = {}]_vars
    BY ArmingStep
  <1> QED
    BY <1>1, FlightInvariant, PTL DEF Spec, ArmingIsAuthorised
=============================================================================
