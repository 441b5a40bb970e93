----------------------------- MODULE Supervision -----------------------------
(***************************************************************************)
(* What decides whether the vehicle may fly and whether the program still  *)
(* runs, checked in one run: the flight manager, the watchdog's gate, the  *)
(* timing monitor, the preflight checks, the battery monitor, the link to  *)
(* the ground station, the health report and its throttle.  Each takes the *)
(* others' results as free inputs, so they share no state here: a          *)
(* behaviour is one of a single component and the others stay in one       *)
(* initial state.                                                          *)
(***************************************************************************)
EXTENDS FlightManager, WatchdogGate, TimingMonitor, PreflightRuntime, BatteryMonitor,
        MavlinkHandler, RuntimeHealthReporter, StatusThrottle

VARIABLE component

SupervisionInit ==
    /\ component \in {"flight", "watchdog", "timing", "preflight", "battery", "mavlink",
                      "report", "throttle"}
    /\ Init /\ (component # "flight" => rcRequired)
    /\ DogInit /\ (component # "watchdog" => clockFirst)
    /\ TimingInit
    /\ PreflightInit
    /\ component # "preflight" => /\ world = [sensor |-> TRUE, link |-> TRUE, battery |-> "ok"]
                                  /\ setup = [rc |-> TRUE, battery |-> TRUE]
    /\ BatteryInit /\ (component # "battery" => limits = CHOOSE l \in Limits : TRUE)
    /\ MavlinkInit /\ (component # "mavlink" => \A p \in StreamPeriods : streamPeriod <= p)
    /\ ReporterInit /\ (component # "report" => rcNeeded)
    /\ ThrottleInit

SupervisionNext ==
    /\ \/ /\ component = "flight" /\ Next
          /\ UNCHANGED <<dogVars, timingVars, preflightVars, batteryVars, mavVars, reporterVars,
                         throttleVars>>
       \/ /\ component = "watchdog" /\ DogNext
          /\ UNCHANGED <<vars, timingVars, preflightVars, batteryVars, mavVars, reporterVars,
                         throttleVars>>
       \/ /\ component = "timing" /\ TimingNext
          /\ UNCHANGED <<vars, dogVars, preflightVars, batteryVars, mavVars, reporterVars,
                         throttleVars>>
       \/ /\ component = "preflight" /\ PreflightNext
          /\ UNCHANGED <<vars, dogVars, timingVars, batteryVars, mavVars, reporterVars,
                         throttleVars>>
       \/ /\ component = "battery" /\ BatteryNext
          /\ UNCHANGED <<vars, dogVars, timingVars, preflightVars, mavVars, reporterVars,
                         throttleVars>>
       \/ /\ component = "mavlink" /\ MavlinkNext
          /\ UNCHANGED <<vars, dogVars, timingVars, preflightVars, batteryVars, reporterVars,
                         throttleVars>>
       \/ /\ component = "report" /\ ReporterNext
          /\ UNCHANGED <<vars, dogVars, timingVars, preflightVars, batteryVars, mavVars,
                         throttleVars>>
       \/ /\ component = "throttle" /\ ThrottleNext
          /\ UNCHANGED <<vars, dogVars, timingVars, preflightVars, batteryVars, mavVars,
                         reporterVars>>
    /\ UNCHANGED component

SupervisionSpec ==
    /\ SupervisionInit
    /\ [][SupervisionNext]_<<component, vars, dogVars, timingVars, preflightVars, batteryVars, mavVars,
                          reporterVars, throttleVars>>
    /\ WF_vars(component = "flight" /\ publishState)
    /\ WF_vars(component = "flight" /\ flightLoop)

-----------------------------------------------------------------------------
\* A disarm, or a system fault, that lasts ends with safe outputs.
OutputsSettle == DisarmReachesOutputs /\ FaultReachesOutputs

\* The supervisors of the program itself: a stalled vehicle is reset and a healthy one
\* is not, and an overrun is reported before it is forgotten.
SupervisionHolds ==
    /\ DogTypeOK /\ TimingTypeOK
    /\ HealthyIsNotReset /\ StalledIsReset
    /\ OverrunsAreReported

\* What the vehicle is cleared by and what the ground is told: the arm gate and the
\* critical battery follow from checks that were really made, the battery's verdict
\* keeps its debounce and hysteresis but for evaluations that were overtaken, the link
\* keeps its sessions and periods, and a trouble that lasts is told and told again.
ClearanceHolds ==
    /\ PreflightTypeOK /\ BatteryTypeOK /\ MavlinkTypeOK /\ ReporterTypeOK /\ ThrottleTypeOK
    /\ ArmGateIsBacked /\ BrownoutIsKnown
    /\ BatteryVerdicts
    /\ GroundStationIsTracked /\ StreamsKeepTheirPeriod /\ CommandsAreAcknowledged
    /\ RcNewsIsTrue /\ TroubleIsRepeated
=============================================================================
