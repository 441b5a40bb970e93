--------------------------- MODULE SensorPipeline ---------------------------
(***************************************************************************)
(* core/sensors/SensorPipeline.cpp with its two estimators of the height:  *)
(* BaroVerticalKalman, which predicts from the acceleration, refuses a     *)
(* barometer too far from its prediction and calls itself invalid when it  *)
(* refuses too often or is too uncertain, and ComplementaryEstimator, which*)
(* follows the barometer and takes over then.  Heights are a few steps;    *)
(* attitude, speed and covariance are left out but for whether the         *)
(* covariance is wide.  All values are finite: the sample's are bounded    *)
(* integers and scaled ones, the filter clamps its own.                    *)
(***************************************************************************)
EXTENDS Naturals

CONSTANTS Ceiling,      \* highest height
          Gate,         \* innovationGateM
          MaxRejects    \* MAX_CONSECUTIVE_REJECTS

ASSUME PipelineAssumption ==
    {Ceiling, Gate, MaxRejects} \subseteq Nat \ {0} /\ Gate < Ceiling

RejectCap == MaxRejects + 1   \* 255 in the code

Heights == 0..Ceiling
Unmeasured == Ceiling + 1
SensorHealths == {"Ok", "WarmingUp", "Stale", "Invalid"}

VARIABLES
    sensorHealth,     \* _state.sensorHealth
    estimated,        \* _state: altitudeM, estimatorHealth, estimatorValid
    kalman,           \* _initialized, _altitudeM, _consecutiveRejects, wide
    fallback,         \* _hasAltitude, _state.altitudeM
    \* histories
    measured,         \* the heights ever measured
    farUpdates        \* measurements off the prediction since one near it

pipelineVars == <<sensorHealth, estimated, kalman, fallback, measured, farUpdates>>

PipelineInit ==
    /\ sensorHealth = "WarmingUp"
    /\ estimated = [altitudeM |-> 0, health |-> "WarmingUp", valid |-> FALSE]
    /\ kalman = [initialized |-> FALSE, altitudeM |-> 0, rejects |-> 0, wide |-> FALSE]
    /\ fallback = [hasAltitude |-> FALSE, altitudeM |-> 0]
    /\ measured = {}
    /\ farUpdates = 0

-----------------------------------------------------------------------------
(* BaroVerticalKalman. *)

Lower(a, b) == IF a < b THEN a ELSE b
Upper(a, b) == IF a < b THEN b ELSE a
Between(a, b) == Lower(a, b)..Upper(a, b)
Apart(a, b) == Upper(a, b) - Lower(a, b)

\* Where a prediction may take it: the height drifts and the uncertainty grows, or
\* neither when no time, or too much, has passed (clampDt).
predictions(k) ==
    LET drifted == {[k EXCEPT !.altitudeM = a] : a \in {h \in Heights : Apart(h, k.altitudeM) <= 1}}
    IN drifted \cup {[p EXCEPT !.wide = TRUE] : p \in drifted}

\* Mutant: a refused measurement starts the count again.
rejectOnce(k) == [k EXCEPT !.rejects = 1]

reject(k) == [k EXCEPT !.rejects = Lower(k.rejects + 1, RejectCap)]

\* An accepted one draws the height towards it; the speed may stay uncertain.
corrections(k, baro) ==
    IF Apart(k.altitudeM, baro) > Gate THEN {reject(k)}
    ELSE LET drawn == {[k EXCEPT !.altitudeM = a, !.rejects = 0] : a \in Between(k.altitudeM, baro)}
         IN drawn \cup {[p EXCEPT !.wide = FALSE] : p \in drawn}

\* copyAttitude(), then updateEstimatorHealth().
kalmanHealth(k, health, baro) ==
    IF k.initialized /\ k.rejects >= MaxRejects THEN "Stale"
    ELSE IF k.initialized /\ k.wide /\ baro # Unmeasured THEN "WarmingUp"
    ELSE health

\* The states an update may leave it in.
kalmanUpdates(k, baro) ==
    IF ~k.initialized
      THEN {IF baro = Unmeasured THEN k ELSE [k EXCEPT !.initialized = TRUE, !.altitudeM = baro]}
      ELSE UNION {IF baro = Unmeasured THEN {p} ELSE corrections(p, baro) : p \in predictions(k)}

-----------------------------------------------------------------------------
(* ComplementaryEstimator. *)

fallbackUpdates(f, baro) ==
    CASE baro = Unmeasured -> {f}
      [] baro # Unmeasured /\ ~f.hasAltitude -> {[hasAltitude |-> TRUE, altitudeM |-> baro]}
      [] OTHER -> {[f EXCEPT !.altitudeM = a] : a \in Between(f.altitudeM, baro)}

-----------------------------------------------------------------------------
\* Mutant: the first estimator's result is taken as it is.
chooseKalman(k, f, kHealth, health) ==
    [altitudeM |-> k.altitudeM, health |-> kHealth, valid |-> kHealth = "Ok"]

\* Which estimate is published; both are invalid when the sensor is not well.
choose(k, f, kHealth, health) ==
    IF kHealth # "Ok" /\ health = "Ok"
      THEN [altitudeM |-> f.altitudeM, health |-> health, valid |-> TRUE]
      ELSE [altitudeM |-> k.altitudeM, health |-> kHealth, valid |-> kHealth = "Ok"]

\* SensorPipeline::update(): the sample's health, and the height of a barometer that
\* has a plausible pressure (BaroAltitudeEstimator).
updatePipeline ==
    \E health \in SensorHealths, baro \in Heights \cup {Unmeasured} :
        /\ sensorHealth' = health
        /\ kalman' \in kalmanUpdates(kalman, baro)
        /\ fallback' \in fallbackUpdates(fallback, baro)
        /\ estimated' = choose(kalman', fallback', kalmanHealth(kalman', health, baro), health)
        /\ measured' = measured \cup ({baro} \ {Unmeasured})
        /\ farUpdates' = IF ~kalman.initialized \/ baro = Unmeasured THEN farUpdates
                         ELSE IF kalman'.rejects = 0 THEN 0
                         ELSE Lower(farUpdates + 1, MaxRejects)

-----------------------------------------------------------------------------
PipelineTypeOK ==
    /\ sensorHealth \in SensorHealths
    /\ estimated \in [altitudeM : Heights, health : SensorHealths, valid : BOOLEAN]
    /\ kalman \in [initialized : BOOLEAN, altitudeM : Heights, rejects : 0..RejectCap,
                   wide : BOOLEAN]
    /\ fallback \in [hasAltitude : BOOLEAN, altitudeM : Heights]

\* Whatever the barometer does, the estimate is invalid only when the sensor is not
\* well: a barometer that jumps, or comes back after a long absence, is no reason for
\* a failsafe.  And when the measurements have been away from the prediction too
\* often, the height that is published is one between heights measured.
EstimateIsUsable ==
    /\ estimated.valid <=> sensorHealth = "Ok"
    /\ estimated.valid => estimated.health = "Ok"
    /\ estimated.valid /\ farUpdates >= MaxRejects =>
           \E low, high \in measured : estimated.altitudeM \in low..high
=============================================================================
