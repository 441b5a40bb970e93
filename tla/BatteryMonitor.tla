--------------------------- MODULE BatteryMonitor ---------------------------
(***************************************************************************)
(* core/safety/BatteryMonitor.cpp: a filtered voltage, a low state that    *)
(* needs two samples to be entered and a brownout that needs one, both     *)
(* left only above a hysteresis.  One monitor is evaluated by the sensor   *)
(* task for the preflight gate, load by load and store by store here, and  *)
(* by the telemetry task above it, for the preflight on request and for    *)
(* the health report, in one step anywhere in between; there a parameter   *)
(* sets it up anew, too, with limits that keep no order.  A value the      *)
(* sensor task has at hand it may use as it is or load again.  Voltages    *)
(* are steps of a coarse scale; the filter moves the filtered voltage some *)
(* way towards the sample.                                                 *)
(***************************************************************************)
EXTENDS Naturals

CONSTANTS Voltages,           \* 0..n
          MinVoltages, MaxVoltages, BrownoutVoltages,   \* values of the parameters
          LowHysteresis, BrownoutHysteresis

ASSUME BatteryAssumption ==
    /\ Voltages \subseteq Nat /\ 0 \in Voltages
    /\ MinVoltages \cup MaxVoltages \cup BrownoutVoltages \subseteq Nat \ {0}
    /\ {LowHysteresis, BrownoutHysteresis} \subseteq Nat

LowDebounceSamples == 2
SampleCap == LowDebounceSamples + 1   \* 255 in the code

VARIABLES
    limits,            \* _minVoltage, _maxVoltage, _brownoutVoltage
    filterInitialized, filteredVoltage,
    lowLatched, brownoutLatched, lowSamples,
    gateAt,            \* where the sensor task is in evaluate()
    reading,           \* what it has at hand: voltage, the filter it moves from,
                       \* lowNow, _lowLatched and _lowSamples
    battery,           \* the status of the last evaluation
    \* histories
    below,             \* readings in a row under the minimum, up to the debounce
    sinking,           \* low or brownout was reported and the voltage has not recovered
    hasty,             \* troubles first reported before two readings in a row under it
    disturbed          \* the sensor task was overtaken in the evaluation under way ("now")
                       \* or in one whose effect may last ("since")

latchVars == <<lowLatched, brownoutLatched, lowSamples>>
filterVars == <<filterInitialized, filteredVoltage>>
verdictVars == <<battery, below, sinking, hasty>>
batteryVars == <<limits, filterVars, latchVars, gateAt, reading, verdictVars, disturbed>>

Limits == [min : MinVoltages, max : MaxVoltages, brownout : BrownoutVoltages]

NoReading == [voltage |-> 0, from |-> {}, lowNow |-> FALSE, latched |-> FALSE, samples |-> 0]

BatteryInit ==
    /\ limits \in Limits
    /\ filterInitialized = FALSE /\ filteredVoltage = 0
    /\ lowLatched = FALSE /\ brownoutLatched = FALSE /\ lowSamples = 0
    /\ gateAt = "idle" /\ reading = NoReading
    /\ battery = "none"
    /\ below = 0 /\ sinking = FALSE /\ hasty = {} /\ disturbed = "no"

-----------------------------------------------------------------------------
(* What evaluate() computes. *)

\* Part of the way from the filtered voltage to the sample, never none of it
\* unless they are equal; the sample itself before the first.
FilteredTowards(from, sample) ==
    IF from \subseteq {sample} THEN {sample}
    ELSE {v \in Voltages : \A f \in from : \/ f < v /\ v <= sample
                                           \/ sample <= v /\ v < f}

filteredFrom == IF filterInitialized THEN {filteredVoltage} ELSE {}

inBrownout(v) ==
    \/ v < limits.brownout
    \/ brownoutLatched /\ v < limits.brownout + BrownoutHysteresis

isLow(v) ==
    \/ v < limits.min
    \/ lowLatched /\ v < limits.min + LowHysteresis

countLow(lowNow, samples) ==
    IF ~lowNow THEN 0 ELSE IF samples < SampleCap THEN samples + 1 ELSE samples

InRange(v) == IF v > limits.max THEN "high" ELSE "healthy"

-----------------------------------------------------------------------------
(* The readings so far, for the properties. *)

Troubles == {"low", "brownout"}

\* After a whole reading that ends in trouble, or that is above the hysteresis, the
\* latches are again what this reading made them.
settles(v, verdict) == verdict \in Troubles \/ v >= limits.min + LowHysteresis

\* A reading, its verdict, and what an evaluation that is not whole leaves behind.
note(v, verdict, disturbance) ==
    /\ battery' = verdict
    /\ below' = IF v >= limits.min THEN 0
                ELSE IF below < LowDebounceSamples THEN below + 1 ELSE below
    /\ sinking' = (verdict \in Troubles \/ (sinking /\ v < limits.min + LowHysteresis))
    /\ disturbed' = IF disturbance # "no" THEN disturbance
                    ELSE IF settles(v, verdict) THEN "no" ELSE disturbed
    /\ hasty' = IF {disturbed, disturbance} = {"no"} /\ verdict \in Troubles
                   /\ ~sinking /\ below' < LowDebounceSamples
                  THEN hasty \cup {verdict} ELSE hasty

-----------------------------------------------------------------------------
(* The sensor task: evaluate() of updatePreflightArmGate(). *)

Moves(here, there) == gateAt = here /\ gateAt' = there

\* It ends with a verdict.
endEvaluation(verdict) ==
    /\ gateAt' = "idle" /\ reading' = NoReading
    /\ note(reading.voltage, verdict, IF disturbed = "now" THEN "since" ELSE "no")

sample ==
    /\ Moves("idle", "sampled")
    /\ \E v \in Voltages : reading' = [reading EXCEPT !.voltage = v]
    /\ UNCHANGED <<limits, filterVars, latchVars, verdictVars, disturbed>>

\* The converter gives no value: no latch changes.
sampleUnavailable ==
    /\ gateAt = "idle"
    /\ battery' = "unavailable"
    /\ UNCHANGED <<limits, filterVars, latchVars, gateAt, reading, below, sinking, hasty, disturbed>>

loadFiltered ==
    /\ Moves("sampled", "loaded")
    /\ reading' = [reading EXCEPT !.from = filteredFrom]
    /\ UNCHANGED <<limits, filterVars, latchVars, verdictVars, disturbed>>

storeFiltered ==
    /\ Moves("loaded", "filtered")
    /\ filteredVoltage' \in FilteredTowards(reading.from, reading.voltage)
    /\ filterInitialized' = (filterInitialized \/ reading.from = {})
    /\ reading' = [reading EXCEPT !.voltage = filteredVoltage', !.from = {}]
    /\ UNCHANGED <<limits, latchVars, verdictVars, disturbed>>

lookBrownout ==
    /\ gateAt = "filtered"
    /\ \E v \in {reading.voltage, filteredVoltage} :
          /\ reading' = [reading EXCEPT !.voltage = v]
          /\ gateAt' = IF inBrownout(v) THEN "inBrownout" ELSE "above"
    /\ UNCHANGED <<limits, filterVars, latchVars, verdictVars, disturbed>>

latchLow ==
    /\ Moves("inBrownout", "latchedLow")
    /\ lowLatched' = TRUE
    /\ UNCHANGED <<limits, filterVars, brownoutLatched, lowSamples, reading, verdictVars, disturbed>>

latchBrownout ==
    /\ gateAt = "latchedLow"
    /\ brownoutLatched' = TRUE
    /\ endEvaluation("brownout")
    /\ UNCHANGED <<limits, filterVars, lowLatched, lowSamples>>

clearBrownout ==
    /\ Moves("above", "look")
    /\ brownoutLatched' = FALSE
    /\ UNCHANGED <<limits, filterVars, lowLatched, lowSamples, reading, verdictVars, disturbed>>

lookLow ==
    /\ Moves("look", "load")
    /\ reading' = [reading EXCEPT !.lowNow = isLow(reading.voltage), !.latched = lowLatched]
    /\ UNCHANGED <<limits, filterVars, latchVars, verdictVars, disturbed>>

loadSamples ==
    /\ Moves("load", "count")
    /\ reading' = [reading EXCEPT !.samples = countLow(reading.lowNow, lowSamples)]
    /\ UNCHANGED <<limits, filterVars, latchVars, verdictVars, disturbed>>

storeSamples ==
    /\ Moves("count", "decide")
    /\ lowSamples' = reading.samples
    /\ UNCHANGED <<limits, filterVars, lowLatched, brownoutLatched, reading, verdictVars, disturbed>>

\* The latch and the count, at hand or loaded again.
staysLow ==
    /\ reading.lowNow
    /\ \E latched \in {reading.latched, lowLatched}, samples \in {reading.samples, lowSamples} :
          latched \/ samples >= LowDebounceSamples

recovers ==
    \/ ~reading.lowNow
    \/ \E latched \in {reading.latched, lowLatched}, samples \in {reading.samples, lowSamples} :
          ~latched /\ samples < LowDebounceSamples

reportLow ==
    /\ gateAt = "decide" /\ staysLow
    /\ lowLatched' = TRUE
    /\ endEvaluation("low")
    /\ UNCHANGED <<limits, filterVars, brownoutLatched, lowSamples>>

clearLow ==
    /\ Moves("decide", "range") /\ recovers
    /\ lowLatched' = FALSE
    /\ UNCHANGED <<limits, filterVars, brownoutLatched, lowSamples, reading, verdictVars, disturbed>>

reportRange ==
    /\ gateAt = "range"
    /\ endEvaluation(InRange(reading.voltage))
    /\ UNCHANGED <<limits, filterVars, latchVars>>

evaluateForGate ==
    \/ sample \/ sampleUnavailable \/ loadFiltered \/ storeFiltered
    \/ lookBrownout \/ latchLow \/ latchBrownout \/ clearBrownout
    \/ lookLow \/ loadSamples \/ storeSamples \/ reportLow \/ clearLow \/ reportRange

-----------------------------------------------------------------------------
(* The telemetry task. *)

\* The sensor task has loaded what changes now, or changed it.
Overtakes == gateAt \notin {"idle", "sampled"}
Disturbance == IF Overtakes THEN "now" ELSE "no"

\* Mutant: a brownout does not count as low.
reportBrownoutAlone(v) ==
    /\ brownoutLatched' = TRUE
    /\ UNCHANGED <<lowLatched, lowSamples>>
    /\ note(v, "brownout", Disturbance)

reportBrownout(v) ==
    /\ lowLatched' = TRUE
    /\ brownoutLatched' = TRUE
    /\ UNCHANGED lowSamples
    /\ note(v, "brownout", Disturbance)

reportVoltage(v) ==
    /\ brownoutLatched' = FALSE
    /\ lowSamples' = countLow(isLow(v), lowSamples)
    /\ lowLatched' = (isLow(v) /\ (lowLatched \/ lowSamples' >= LowDebounceSamples))
    /\ note(v, IF lowLatched' THEN "low" ELSE InRange(v), Disturbance)

evaluateBattery ==
    /\ \E s \in Voltages : \E v \in FilteredTowards(filteredFrom, s) :
          /\ filterInitialized' = TRUE /\ filteredVoltage' = v
          /\ IF inBrownout(v) THEN reportBrownout(v) ELSE reportVoltage(v)
    /\ UNCHANGED <<limits, gateAt, reading>>

evaluateUnavailable ==
    /\ battery' = "unavailable"
    /\ UNCHANGED <<limits, filterVars, latchVars, gateAt, reading, below, sinking, hasty, disturbed>>

\* applyBatteryProfile(): limits of any order, and every latch is forgotten.
setupBattery ==
    /\ limits' \in Limits
    /\ filterInitialized' = FALSE /\ filteredVoltage' = 0
    /\ lowLatched' = FALSE /\ brownoutLatched' = FALSE /\ lowSamples' = 0
    /\ battery' = "none"
    /\ below' = 0 /\ sinking' = FALSE /\ hasty' = {}
    /\ disturbed' = Disturbance
    /\ UNCHANGED <<gateAt, reading>>

BatteryNext == evaluateForGate \/ evaluateBattery \/ evaluateUnavailable \/ setupBattery

BatterySpec == BatteryInit /\ [][BatteryNext]_batteryVars

-----------------------------------------------------------------------------
BatteryTypeOK ==
    /\ limits \in Limits
    /\ filterInitialized \in BOOLEAN /\ filteredVoltage \in Voltages
    /\ lowLatched \in BOOLEAN /\ brownoutLatched \in BOOLEAN /\ sinking \in BOOLEAN
    /\ lowSamples \in 0..SampleCap /\ below \in 0..LowDebounceSamples
    /\ gateAt \in {"idle", "sampled", "loaded", "filtered", "inBrownout", "latchedLow",
                   "above", "look", "load", "count", "decide", "range"}
    /\ reading \in [voltage : Voltages, from : SUBSET Voltages, lowNow : BOOLEAN,
                    latched : BOOLEAN, samples : 0..SampleCap]
    /\ battery \in Troubles \cup {"none", "unavailable", "high", "healthy"}
    /\ hasty \subseteq Troubles /\ disturbed \in {"no", "now", "since"}

\* Unless an evaluation of the sensor task was overtaken, a battery reported low or in
\* brownout is not healthy again before its voltage has recovered by the hysteresis of
\* the low state, whatever way out of the brownout and however many readings fail; two
\* readings in a row under the minimum are always reported, and a single one that
\* follows no trouble is never called low.
BatteryVerdicts ==
    /\ disturbed = "no" /\ (sinking \/ below = LowDebounceSamples) =>
           battery \in Troubles \cup {"unavailable"}
    /\ "low" \notin hasty

\* What V1_0_Remaining_Work.md:219 and :226 say is done, a recovery hysteresis of the
\* low state, said of every evaluation whoever makes it: a battery reported low is not
\* healthy before its voltage has recovered.
LowIsHeld == sinking => battery # "healthy"

\* What the same line and AeroPico_FC_Gelistirici_Kullanma_Kilavuzu.md:306 say of the
\* brownout: it is debounced, not bound to a single measurement.
BrownoutIsDebounced == "brownout" \notin hasty
=============================================================================
