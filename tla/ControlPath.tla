---------------------------- MODULE ControlPath ----------------------------
(***************************************************************************)
(* What reaches the control surfaces from outside, checked in one run: the *)
(* pilot's positions (RCPipeline) while armed, a servo test                *)
(* (FlightControlTask) while disarmed.  They share no state; a behaviour   *)
(* is one of the pipeline or one of the servo test, and the other stays in *)
(* one initial state.                                                      *)
(***************************************************************************)
EXTENDS RCPipeline, FlightControlTask

VARIABLE component

PathInit ==
    /\ component \in {"pipeline", "test"}
    /\ Init /\ (component = "test" => now = 0 /\ failsafeTimeout = MinTimeout)
    /\ ServoTestInit /\ (component = "pipeline" => testUs = 0)

PathNext ==
    /\ \/ component = "pipeline" /\ Next /\ UNCHANGED servoTestVars
       \/ component = "test" /\ ServoTestNext /\ UNCHANGED vars
    /\ UNCHANGED component

PathSpec == PathInit /\ [][PathNext]_<<component, vars, servoTestVars>>
=============================================================================
