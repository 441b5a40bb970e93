-------------------------- MODULE PreflightRuntime --------------------------
(***************************************************************************)
(* core/safety/PreflightRuntime.cpp and PreflightHealth.cpp as main.cpp    *)
(* uses them.  One table of checks is filled and read by the sensor task   *)
(* twenty times a second, step by step here, and by the telemetry task     *)
(* above it, for the health report and on request, in one step anywhere in *)
(* between.  What the checks look at changes at any time.  Three checks    *)
(* stand for the ten: "Sensor" for those that are always required and      *)
(* loaded early, "Battery" for those the setup may not require, "Failsafe" *)
(* for the receiver's, asked when the table is filled.                     *)
(***************************************************************************)
EXTENDS Naturals, Sequences

Checks == <<"Sensor", "Battery", "Failsafe">>
CheckIds == {Checks[i] : i \in DOMAIN Checks}

VARIABLES
    world,          \* sensor, link: good; battery: "ok" or "brownout"
    setup,          \* modules required: rc, battery
    table,          \* _checks[c]: required, passed
    configured,     \* _configured
    runtimeCritical,\* PreflightRuntime::_latestBatteryCritical
    critical,       \* main.cpp: latestBatteryCritical
    lastCanArm,     \* main.cpp: lastPreflightResult
    armAllowed,     \* what the flight manager was told
    sensorAt,       \* where the sensor task is in its evaluation
    mine,           \* its battery, sensorOk, batteryRequired, rcRequired
    myCanArm,       \* its result so far
    scanned,        \* checks it has evaluated
    everOk          \* history: what held at some time since its evaluation began

preflightShared == <<table, configured, runtimeCritical, critical, lastCanArm>>
preflightLocal == <<mine, myCanArm, scanned>>
preflightVars == <<world, setup, preflightShared, armAllowed, sensorAt, preflightLocal, everOk>>

-----------------------------------------------------------------------------
\* What the history records: that a check passes or is not required, and that the
\* battery is not critical.
Satisfied(c, w, s) ==
    \/ c = "Sensor" /\ w.sensor
    \/ c = "Battery" /\ (~s.battery \/ w.battery = "ok")
    \/ c = "Failsafe" /\ (~s.rc \/ w.link)
    \/ c = "Calm" /\ ~(s.battery /\ w.battery = "brownout")

OkNow(w, s) == {c \in CheckIds \cup {"Calm"} : Satisfied(c, w, s)}

Worlds == [sensor : BOOLEAN, link : BOOLEAN, battery : {"ok", "brownout"}]
Setups == [rc : BOOLEAN, battery : BOOLEAN]

Nothing == [battery |-> "ok", sensorOk |-> FALSE, batteryRequired |-> FALSE,
            rcRequired |-> FALSE]

\* The flight manager is told nothing before the first evaluation.
PreflightInit ==
    /\ world \in Worlds /\ setup \in Setups
    /\ table = [c \in CheckIds |-> [required |-> TRUE, passed |-> FALSE]]
    /\ configured = {}
    /\ runtimeCritical = FALSE /\ critical = FALSE
    /\ lastCanArm = FALSE /\ armAllowed = FALSE
    /\ sensorAt = "idle"
    /\ mine = Nothing
    /\ myCanArm = FALSE /\ scanned = 0
    /\ everOk = CheckIds \cup {"Calm"}

change ==
    /\ world' \in Worlds
    /\ \E k \in DOMAIN world : \A j \in DOMAIN world \ {k} : world'[j] = world[j]
    /\ everOk' = everOk \cup OkNow(world', setup)
    /\ UNCHANGED <<setup, preflightShared, armAllowed, sensorAt, preflightLocal>>

\* A parameter of the telemetry task; the battery's is taken to stay as it is.
changeSetup ==
    /\ setup' = [setup EXCEPT !.rc = ~setup.rc]
    /\ everOk' = everOk \cup OkNow(world, setup')
    /\ UNCHANGED <<world, preflightShared, armAllowed, sensorAt, preflightLocal>>

-----------------------------------------------------------------------------
(* The table. *)

setCheck(t, c, required, passed) == [t EXCEPT ![c] = [required |-> required, passed |-> passed]]

fails(t, c) == c \in configured /\ t[c].required /\ ~t[c].passed

-----------------------------------------------------------------------------
(* The sensor task: updatePreflightArmGate(). *)

From(here, there) == sensorAt = here /\ sensorAt' = there

\* Mutant: the battery is sampled once only.
beginEvaluationCached ==
    /\ From("idle", "sensors")
    /\ everOk' = OkNow(world, setup)
    /\ UNCHANGED <<world, setup, preflightShared, armAllowed, mine, myCanArm, scanned>>

beginEvaluation ==
    /\ From("idle", "sensors")
    /\ mine' = [mine EXCEPT !.battery = world.battery]
    /\ everOk' = OkNow(world, setup)
    /\ UNCHANGED <<world, setup, preflightShared, armAllowed, myCanArm, scanned>>

loadSensors ==
    /\ From("sensors", "required")
    /\ mine' = [mine EXCEPT !.sensorOk = world.sensor]
    /\ UNCHANGED <<world, setup, preflightShared, armAllowed, myCanArm, scanned, everOk>>

loadRequired ==
    /\ From("required", "reset")
    /\ mine' = [mine EXCEPT !.batteryRequired = setup.battery, !.rcRequired = setup.rc]
    /\ runtimeCritical' = (setup.battery /\ mine.battery = "brownout")
    /\ UNCHANGED <<world, setup, table, configured, critical, lastCanArm, armAllowed, myCanArm,
                   scanned, everOk>>

resetChecks ==
    /\ From("reset", "set")
    /\ table' = [c \in CheckIds |-> [required |-> TRUE, passed |-> FALSE]]
    /\ configured' = {}
    /\ UNCHANGED <<world, setup, runtimeCritical, critical, lastCanArm, armAllowed,
                   preflightLocal, everOk>>

setLoadedChecks ==
    /\ From("set", "setFailsafe")
    /\ table' = setCheck(setCheck(table, "Sensor", TRUE, mine.sensorOk),
                         "Battery", mine.batteryRequired,
                         ~mine.batteryRequired \/ mine.battery = "ok")
    /\ configured' = configured \cup {"Sensor", "Battery"}
    /\ UNCHANGED <<world, setup, runtimeCritical, critical, lastCanArm, armAllowed,
                   preflightLocal, everOk>>

\* Mutant: the scan leaves the first check out.
setFailsafeCheckPast ==
    /\ From("setFailsafe", "scan")
    /\ table' = setCheck(table, "Failsafe", mine.rcRequired, world.link)
    /\ configured' = configured \cup {"Failsafe"}
    /\ myCanArm' = TRUE /\ scanned' = 1
    /\ UNCHANGED <<world, setup, runtimeCritical, critical, lastCanArm, armAllowed, mine, everOk>>

\* The receiver is asked again.
setFailsafeCheck ==
    /\ From("setFailsafe", "scan")
    /\ table' = setCheck(table, "Failsafe", mine.rcRequired, world.link)
    /\ configured' = configured \cup {"Failsafe"}
    /\ myCanArm' = TRUE /\ scanned' = 0
    /\ UNCHANGED <<world, setup, runtimeCritical, critical, lastCanArm, armAllowed, mine, everOk>>

\* PreflightHealth::evaluate(), a check at a time.
scanCheck ==
    /\ sensorAt = "scan"
    /\ scanned' = scanned + 1
    /\ myCanArm' = (myCanArm /\ ~fails(table, Checks[scanned']))
    /\ sensorAt' = IF scanned' = Len(Checks) THEN "copy" ELSE "scan"
    /\ UNCHANGED <<world, setup, preflightShared, armAllowed, mine, everOk>>

copyCritical ==
    /\ From("copy", "store")
    /\ critical' = runtimeCritical
    /\ UNCHANGED <<world, setup, table, configured, runtimeCritical, lastCanArm, armAllowed,
                   preflightLocal, everOk>>

storeResult ==
    /\ From("store", "gate")
    /\ lastCanArm' = myCanArm
    /\ UNCHANGED <<world, setup, table, configured, runtimeCritical, critical, armAllowed,
                   preflightLocal, everOk>>

setArmAllowed ==
    /\ From("gate", "idle")
    /\ armAllowed' = lastCanArm
    /\ mine' = Nothing /\ myCanArm' = FALSE /\ scanned' = 0
    /\ UNCHANGED <<world, setup, preflightShared, everOk>>

-----------------------------------------------------------------------------
\* The telemetry task: evaluatePreflight() as a whole, for a request.
evaluateOnRequest ==
    /\ table' = [c \in CheckIds |->
          CASE c = "Sensor"   -> [required |-> TRUE, passed |-> world.sensor]
            [] c = "Battery"  -> [required |-> setup.battery,
                                  passed |-> ~setup.battery \/ world.battery = "ok"]
            [] OTHER          -> [required |-> setup.rc, passed |-> world.link]]
    /\ configured' = CheckIds
    /\ runtimeCritical' = (setup.battery /\ world.battery = "brownout")
    /\ critical' = runtimeCritical'
    /\ lastCanArm' = \A c \in CheckIds : table'[c].required => table'[c].passed
    /\ UNCHANGED <<world, setup, armAllowed, sensorAt, preflightLocal, everOk>>

PreflightNext ==
    \/ change \/ changeSetup
    \/ beginEvaluation \/ loadSensors \/ loadRequired \/ resetChecks \/ setLoadedChecks
    \/ setFailsafeCheck \/ scanCheck \/ copyCritical \/ storeResult \/ setArmAllowed
    \/ evaluateOnRequest

-----------------------------------------------------------------------------
PreflightTypeOK ==
    /\ world \in Worlds /\ setup \in Setups
    /\ table \in [CheckIds -> [required : BOOLEAN, passed : BOOLEAN]]
    /\ configured \subseteq CheckIds
    /\ {runtimeCritical, critical, lastCanArm, armAllowed, myCanArm} \subseteq BOOLEAN
    /\ sensorAt \in {"idle", "sensors", "required", "reset", "set", "setFailsafe", "scan", "copy",
                     "store", "gate"}
    /\ scanned \in 0..Len(Checks)

\* When the flight manager is told that it may arm, every check passed or was not
\* required at some time since the evaluation began, although the table it read may
\* be a mixture of two evaluations.
ArmGateIsBacked == sensorAt = "idle" /\ armAllowed => CheckIds \subseteq everOk

\* A brownout of a required battery that lasted the whole evaluation is known to be
\* critical after it.
BrownoutIsKnown == sensorAt = "idle" /\ "Calm" \notin everOk => critical
=============================================================================
