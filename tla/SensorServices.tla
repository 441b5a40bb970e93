--------------------------- MODULE SensorServices ---------------------------
(***************************************************************************)
(* The service commands, the sampling of the IMU they act upon, the        *)
(* auxiliary bus and the estimate made of the samples, checked in one run. *)
(* Each is written against what the others promise (a started calibration  *)
(* ends, the auxiliary bus is served again and again), so they share no    *)
(* state here: a behaviour is one of a single component, and the others    *)
(* stay in one initial state.                                              *)
(***************************************************************************)
EXTENDS ServiceCommandProcessor, SensorManager, SensorAuxBus, SensorPipeline

VARIABLE component

ServicesInit ==
    /\ component \in {"commands", "imu", "aux", "estimate"}
    /\ Init
    /\ SensorInit /\ (component # "imu" => ~dmaFastPath)
    /\ AuxInit /\ (component # "aux" => present = {})
    /\ PipelineInit

ServicesNext ==
    /\ \/ component = "commands" /\ Next /\ UNCHANGED <<sensorVars, auxVars, pipelineVars>>
       \/ component = "imu" /\ SensorNext /\ UNCHANGED <<vars, auxVars, pipelineVars>>
       \/ component = "aux" /\ AuxNext /\ UNCHANGED <<vars, sensorVars, pipelineVars>>
       \/ component = "estimate" /\ updatePipeline /\ UNCHANGED <<vars, sensorVars, auxVars>>
    /\ UNCHANGED component

\* The fairness conditions of the first three.
ServicesSpec ==
    /\ ServicesInit
    /\ [][ServicesNext]_<<component, vars, sensorVars, auxVars, pipelineVars>>
    /\ WF_vars(component = "commands" /\ process)
    /\ SF_sensorVars(component = "imu" /\ updateSensor("sensor"))
    /\ WF_sensorVars(component = "imu" /\ updateSensor("telemetry"))
    /\ WF_sensorVars(component = "imu" /\ endCheck)
    /\ WF_sensorVars(component = "imu" /\ NextPeriod)
    /\ WF_auxVars(component = "aux" /\ beginAuxUpdate)
    /\ WF_auxVars(component = "aux" /\ endAuxUpdate)
    /\ WF_auxVars(component = "aux" /\ endAuxCheck)
    /\ SF_auxVars(component = "aux" /\ auxTick)

\* What holds of the IMU, of the bus and of the estimate in every state.
SensorsHold ==
    /\ SensorTypeOK /\ AuxTypeOK /\ PipelineTypeOK
    /\ ReadUnderWay /\ FastSamplesAreFresh /\ PollingHasTheBus
    /\ EstimateIsUsable

\* What the IMU must come to.
SensorsProgress == FallsBack /\ CalibrationEnds
=============================================================================
