-------------------------- MODULE SupervisionProofs --------------------------
(***************************************************************************)
(* Proofs about Supervision: the watchdog's gate, the timing monitor, the  *)
(* preflight checks, the battery monitor, the link to the ground station,  *)
(* the health report and its throttle.  They share no state, so each has   *)
(* an inductive invariant of its own, and a step of the whole is a step of *)
(* one and leaves the others alone.  The flight manager, the eighth        *)
(* component, has its proofs in FlightManagerProofs.                       *)
(***************************************************************************)
EXTENDS Supervision, FlightManagerProofs, SequenceTheorems, FiniteSetTheorems,
        WellFoundedInduction, TLAPS

-----------------------------------------------------------------------------
(* TimingMonitor. *)

\* What is still to be reported is noted, and the report has not passed it by.
NotesInv ==
    /\ overruns \subseteq budgetExceeded
    /\ report[1] = "check" => \A p \in overruns : p >= report[2]
    /\ report[1] = "request" => overruns = {}

TimingInv == TimingTypeOK /\ NotesInv /\ OverrunsAreReported

-----------------------------------------------------------------------------
(* BatteryMonitor. *)

\* The histories and the latches: a battery that sinks is latched low, and otherwise
\* the samples counted are the readings under the minimum.
LatchesAgree ==
    /\ sinking <=> lowLatched
    /\ ~lowLatched => lowSamples = below /\ below < LowDebounceSamples

\* Where the sensor task has not yet stored a latch or a count.
BeforeStores == {"idle", "sampled", "loaded", "filtered", "inBrownout", "above", "look", "load",
                 "count"}

\* What the sensor task has at hand unless it was overtaken.
AtHand ==
    /\ gateAt = "latchedLow" => lowLatched
    /\ gateAt \in {"load", "count", "decide"} =>
          reading.latched = lowLatched /\ (reading.lowNow <=> isLow(reading.voltage))
    /\ gateAt = "count" => reading.samples = countLow(reading.lowNow, lowSamples)
    /\ gateAt = "decide" => reading.samples = lowSamples
    /\ gateAt \in {"decide", "range"} => (~reading.lowNow => lowSamples = 0)
    /\ gateAt = "range" =>
          ~lowLatched /\ (reading.lowNow => reading.voltage < limits.min + LowHysteresis)

\* How far its stores are ahead of the histories.
Ahead ==
    /\ gateAt \in BeforeStores => LatchesAgree
    /\ gateAt = "decide" =>
          /\ sinking <=> lowLatched
          /\ ~lowLatched =>
                /\ lowSamples = IF reading.voltage < limits.min THEN below + 1 ELSE 0
                /\ below < LowDebounceSamples
    /\ gateAt = "range" =>
          /\ sinking => reading.voltage >= limits.min + LowHysteresis
          /\ IF reading.voltage < limits.min THEN below = 0 /\ lowSamples = 1
                                             ELSE lowSamples = 0

LatchesInv ==
    /\ disturbed # "now" => AtHand
    /\ disturbed = "no" => Ahead

BatteryInv == BatteryTypeOK /\ LatchesInv /\ BatteryVerdicts

-----------------------------------------------------------------------------
(* PreflightRuntime. *)

\* Where the evaluation is: the steps after the one named.
After(step) ==
    CASE step = "sensors"     -> {"required", "reset", "set", "setFailsafe", "scan", "copy",
                                  "store", "gate"}
      [] step = "required"    -> {"reset", "set", "setFailsafe", "scan", "copy", "store", "gate"}
      [] step = "reset"       -> {"set", "setFailsafe", "scan", "copy", "store", "gate"}
      [] step = "set"         -> {"setFailsafe", "scan", "copy", "store", "gate"}
      [] step = "setFailsafe" -> {"scan", "copy", "store", "gate"}
      [] step = "copy"        -> {"store", "gate"}

\* The sensor task's own copies.
MineInv ==
    /\ mine \in [battery : {"ok", "brownout"}, sensorOk : BOOLEAN, batteryRequired : BOOLEAN,
                 rcRequired : BOOLEAN]
    /\ sensorAt = "scan" => scanned < Len(Checks)
    /\ OkNow(world, setup) \subseteq everOk
    /\ sensorAt # "idle" =>
          /\ mine.battery = "ok" => "Battery" \in everOk
          /\ mine.battery # "brownout" => "Calm" \in everOk
    /\ sensorAt \in After("sensors") => (mine.sensorOk => "Sensor" \in everOk)
    /\ sensorAt \in After("required") =>
          /\ ~mine.batteryRequired => "Battery" \in everOk
          /\ ~mine.rcRequired => "Failsafe" \in everOk

\* The shared table, which either task may have filled.
TableInv ==
    /\ sensorAt \in After("reset") =>
          \A c \in configured : ~table[c].required \/ table[c].passed => c \in everOk
    /\ sensorAt \in After("set") => {"Sensor", "Battery"} \subseteq configured
    /\ sensorAt \in After("setFailsafe") => configured = CheckIds

\* What the scan and the steps behind it have concluded.
ResultInv ==
    /\ sensorAt \in After("setFailsafe") /\ myCanArm =>
          \A i \in 1 .. scanned : Checks[i] \in everOk
    /\ sensorAt \in {"copy", "store", "gate"} => scanned = Len(Checks)
    /\ sensorAt = "gate" /\ lastCanArm => CheckIds \subseteq everOk
    /\ sensorAt \in After("required") /\ "Calm" \notin everOk => runtimeCritical
    /\ sensorAt \in After("copy") /\ "Calm" \notin everOk => critical

PreflightInv ==
    PreflightTypeOK /\ MineInv /\ TableInv /\ ResultInv /\ ArmGateIsBacked /\ BrownoutIsKnown

-----------------------------------------------------------------------------
(* MavlinkHandler. *)

\* While a ground station is held for alive its silence is short enough for the
\* clock to tell, and it has its version.
GcsInv ==
    /\ gcsAlive => /\ MillisSince(lastGcsBeat) = gcsSilence
                   /\ gcsSilence <= GcsTimeout + sinceUpdate
                   /\ sentVersion /\ versions = 1
    /\ ~gcsAlive => ~sentVersion /\ versions = 0 /\ gcsSilence > GcsTimeout

\* The stream's age is short enough for the clock to tell.
StreamInv ==
    /\ MillisSince(lastStreamSent) = sinceStream
    /\ ~early
    /\ ~updating => sinceStream < streamPeriod + sinceUpdate
    /\ \E p \in StreamPeriods : sinceStream < p + sinceUpdate

MavlinkInv ==
    /\ MavlinkTypeOK /\ GcsInv /\ StreamInv
    /\ GroundStationIsTracked /\ StreamsKeepTheirPeriod /\ CommandsAreAcknowledged

-----------------------------------------------------------------------------
(* RuntimeHealthReporter. *)

RcEvents == {"RcLost", "RcRecovered"}

\* The last of the receiver's events on the bus is a loss.
LossIsLast ==
    \E i \in DOMAIN events : /\ events[i] = "RcLost"
                             /\ \A j \in i + 1 .. Len(events) : events[j] = "other"

\* A loss that was published is on the bus, or has been told.
NewsInv ==
    announced => /\ rcFailsafe
                 /\ \/ LossIsLast
                    \/ told = "lost" /\ \A j \in DOMAIN events : events[j] = "other"

ReporterInv == ReporterTypeOK /\ NewsInv /\ RcNewsIsTrue
               /\ {rcFirst, fresh, announced} \subseteq BOOLEAN

-----------------------------------------------------------------------------
(* StatusThrottle. *)

\* A text has at most one slot, whose time is true as long as it matters.
SlotsInv ==
    /\ \A t \in Texts : \A j, k \in Holding(statusThrottleSlots, t) : j = k
    /\ \A t \in Texts : \A k \in Holding(statusThrottleSlots, t) :
          sinceSent[t] < Longest => Age(statusThrottleSlots[k]) = sinceSent[t]
    /\ \A t \in Texts : Holding(statusThrottleSlots, t) = {} => sinceSent[t] = Longest

\* A text that waits was sent a short while ago or has lost its slot.
WaitingInv ==
    /\ waiting \in [Texts -> Nat]
    /\ \A t \in Texts :
          \/ waiting[t] <= sinceReport
          \/ \E k \in Holding(statusThrottleSlots, t) :
                /\ Age(statusThrottleSlots[k]) < RepeatTime + sinceReport
                /\ waiting[t] <= Age(statusThrottleSlots[k]) + ReportPeriod
          \/ /\ Holding(statusThrottleSlots, t) = {}
             /\ waiting[t] < RepeatTime + ReportPeriod + sinceReport

ThrottleInv == ThrottleTypeOK /\ tooEarly \in BOOLEAN /\ SlotsInv /\ WaitingInv /\ TroubleIsRepeated

-----------------------------------------------------------------------------
(* WatchdogGate. *)

\* The heartbeat's age is what the clock says; before the first one there is none.
HeartbeatInv ==
    /\ is_running => Elapsed(heartbeat) = silent
    /\ ~is_running => heartbeat = 0 /\ silent <= dogAge
    /\ silent <= StaleAge + DogTimeout + dogAge

\* The value a look has loaded.
LookInv ==
    /\ overtaken => gate = "looking" /\ silent <= dogAge
    /\ gate = "looking" /\ ~overtaken =>
          IF clockFirst THEN /\ Elapsed(loaded) <= dogAge
                             /\ Elapsed(loaded) <= silent
                        ELSE loaded = heartbeat

\* The gate's task: how long ago it was last called is what the clock says.
GateInv ==
    /\ gate = "boot" => /\ excused = 0 /\ dogAge <= BootTime /\ idle = 0
                        /\ micros = GatePeriod + dogAge
    /\ gate \in {"called", "looking"} => Elapsed(lastRunUs) <= dogAge
    /\ gate = "idle" /\ idle <= GatePeriod => Elapsed(lastRunUs) <= DogTimeout + idle

\* As long as everything has been in time since the watchdog was fed, its age is
\* bounded by the looks that failed.
InTimeInv ==
    steady >= dogAge =>
        /\ dogAge >= 1 => silent <= 1
        /\ gate # "boot" =>
              /\ idle <= GatePeriod
              /\ excused = 0 => dogAge <= BootTime + idle
              /\ excused = 1 => dogAge <= BootTime + 2 * GatePeriod - 1 + idle
        /\ gate = "idle" /\ Elapsed(lastRunUs) < GatePeriod =>
              /\ excused = 0 => dogAge <= Elapsed(lastRunUs)
              /\ excused = 1 => dogAge <= BootTime + GatePeriod + Elapsed(lastRunUs)

DogInv ==
    /\ DogTypeOK /\ HeartbeatInv /\ LookInv /\ GateInv /\ InTimeInv
    /\ HealthyIsNotReset /\ StalledIsReset

-----------------------------------------------------------------------------
(* TimingMonitor: an overrun is reported before its note is erased. *)

\* At the start no phase has run over its budget.
LEMMA TimingStarts == TimingInit => TimingInv
  BY PhaseAssumption
     DEF TimingInit, TimingInv, TimingTypeOK, NotesInv, OverrunsAreReported, Phases

\* The phases noted are taken away one by one only after the report that a request
\* for a new window ends, and that report leaves nothing to be reported.
LEMMA TimingStep == ASSUME TimingInv, [TimingNext]_timingVars PROVE TimingInv'
  <1> USE PhaseAssumption DEF TimingInv, TimingTypeOK, NotesInv, OverrunsAreReported, Phases
  <1>1. CASE exchangeRequest
    <2>1. /\ resetRequested' = FALSE /\ UNCHANGED <<budgetExceeded, report, overruns>>
          /\ loop' = IF resetRequested THEN <<"clear", 1>> ELSE <<"end", 1>>
      BY <1>1 DEF exchangeRequest
    <2>2. loop' \in {"clear", "end"} \X Phases /\ (loop'[1] = "clear" => resetRequested)
      BY <2>1
    <2> QED
      BY <2>1, <2>2
  <1>2. CASE resetWindow
    <2>1. /\ loop[1] = "clear" /\ budgetExceeded' = budgetExceeded \ {loop[2]}
          /\ loop' = IF loop[2] < PhaseCount THEN <<"clear", loop[2] + 1>> ELSE <<"end", 1>>
          /\ UNCHANGED <<resetRequested, report, overruns>>
      BY <1>2 DEF resetWindow
    <2>2. loop[2] \in Phases
      BY <2>1
    <2>3. loop' \in {"clear", "end"} \X Phases
      BY <2>1, <2>2
    <2> QED
      BY <2>1, <2>3
  <1>3. CASE endTiming
    <2>1. /\ loop[1] = "end" /\ loop[2] \in Phases
          /\ UNCHANGED <<resetRequested, report>>
          /\ loop' = IF loop[2] < PhaseCount THEN <<"end", loop[2] + 1>> ELSE <<"top", 0>>
      BY <1>3 DEF endTiming
    <2>2. PICK exceeded \in BOOLEAN :
            /\ budgetExceeded' = budgetExceeded \cup (IF exceeded THEN {loop[2]} ELSE {})
            /\ overruns' = overruns \cup (IF exceeded /\ ~Excusable THEN {loop[2]} ELSE {})
      BY <1>3 DEF endTiming
    <2>3. loop' \in ({"clear", "end"} \X Phases) \cup {<<"top", 0>>} /\ loop'[1] # "clear"
      BY <2>1
    <2>4. CASE exceeded /\ ~Excusable
      <3>1. report = <<"idle", 0>> /\ ~resetRequested
        BY <2>4 DEF Excusable
      <3> QED
        BY <2>1, <2>2, <2>3, <2>4, <3>1
    <2>5. CASE ~(exceeded /\ ~Excusable)
      BY <2>1, <2>2, <2>3, <2>5
    <2> QED
      BY <2>4, <2>5
  <1>4. CASE skipPhases
    BY <1>4 DEF skipPhases
  <1>5. CASE startReport
    BY <1>5 DEF startReport
  <1>6. CASE checkBudgets
    <2>1. /\ report[1] = "check" /\ report[2] \in Phases
          /\ UNCHANGED <<budgetExceeded, resetRequested, loop>>
      BY <1>6 DEF checkBudgets
    <2>2. CASE report[2] \in budgetExceeded
      BY <1>6, <2>1, <2>2 DEF checkBudgets
    <2>3. CASE report[2] \notin budgetExceeded
      <3>1. \A p \in overruns : p >= report[2] + 1
        BY <2>1, <2>3
      <3>2. overruns' = overruns
        BY <1>6, <2>3 DEF checkBudgets
      <3>3. CASE report[2] < PhaseCount
        <4>1. report' = <<"check", report[2] + 1>>
          BY <1>6, <2>3, <3>3 DEF checkBudgets
        <4> QED
          BY <2>1, <3>1, <3>2, <3>3, <4>1
      <3>4. CASE ~(report[2] < PhaseCount)
        <4>1. report' = <<"request", 0>>
          BY <1>6, <2>3, <3>4 DEF checkBudgets
        <4>2. overruns = {}
          BY <2>1, <3>1, <3>4
        <4> QED
          BY <2>1, <3>2, <4>1, <4>2
      <3> QED
        BY <3>3, <3>4
    <2> QED
      BY <2>2, <2>3
  <1>7. CASE requestTimingWindowReset
    BY <1>7 DEF requestTimingWindowReset
  <1>8. CASE UNCHANGED timingVars
    BY <1>8 DEF timingVars
  <1> QED
    BY <1>1, <1>2, <1>3, <1>4, <1>5, <1>6, <1>7, <1>8 DEF TimingNext

-----------------------------------------------------------------------------
(* BatteryMonitor: the debounce and the hysteresis of the verdicts. *)

\* Voltages and limits are numbers.
LEMMA BatteryNumbers ==
    ASSUME BatteryTypeOK
    PROVE  /\ limits.min \in Nat /\ limits.max \in Nat /\ limits.brownout \in Nat
           /\ LowHysteresis \in Nat /\ BrownoutHysteresis \in Nat
           /\ reading.voltage \in Voltages /\ reading.samples \in 0 .. SampleCap
           /\ {reading.lowNow, reading.latched} \subseteq BOOLEAN
           /\ \A v \in Voltages : v \in Nat
  BY BatteryAssumption DEF BatteryTypeOK, Limits

\* At the start the histories and the latches are clear.
LEMMA BatteryStarts == BatteryInit => BatteryInv
  <1> SUFFICES ASSUME BatteryInit PROVE BatteryInv
    OBVIOUS
  <1> USE DEF BatteryInit
  <1>1. 0 \in 0 .. SampleCap /\ 0 \in 0 .. LowDebounceSamples /\ 0 \in Voltages
    BY BatteryAssumption DEF SampleCap, LowDebounceSamples
  <1>2. BatteryTypeOK
    BY <1>1 DEF BatteryTypeOK, NoReading
  <1>3. LatchesInv
    BY DEF LatchesInv, AtHand, Ahead, LatchesAgree, LowDebounceSamples
  <1>4. BatteryVerdicts
    BY DEF BatteryVerdicts, LowDebounceSamples
  <1> QED
    BY <1>2, <1>3, <1>4 DEF BatteryInv

\* A filtered voltage is one of the scale.
LEMMA FilterStays ==
    ASSUME NEW from \in SUBSET Voltages, NEW s \in Voltages, NEW v \in FilteredTowards(from, s)
    PROVE  v \in Voltages
  BY DEF FilteredTowards

\* What a reading counts to.
LEMMA Counting ==
    ASSUME NEW low \in BOOLEAN, NEW samples \in 0 .. SampleCap
    PROVE  /\ countLow(low, samples) \in 0 .. SampleCap
           /\ ~low => countLow(low, samples) = 0
           /\ low /\ samples < LowDebounceSamples => countLow(low, samples) = samples + 1
           /\ low /\ samples >= LowDebounceSamples => countLow(low, samples) >= LowDebounceSamples
  BY DEF countLow, SampleCap, LowDebounceSamples

\* What a noted reading leaves of the histories.
LEMMA Noted ==
    ASSUME BatteryTypeOK, NEW v \in Voltages, NEW verdict \in Troubles \cup {"high", "healthy"},
           NEW disturbance \in {"no", "now", "since"}, note(v, verdict, disturbance)
    PROVE  /\ battery' = verdict
           /\ below' \in 0 .. LowDebounceSamples
           /\ below' = IF v >= limits.min THEN 0
                       ELSE IF below < LowDebounceSamples THEN below + 1 ELSE below
           /\ sinking' \in BOOLEAN
           /\ sinking' <=> (verdict \in Troubles \/ (sinking /\ v < limits.min + LowHysteresis))
           /\ disturbed' = IF disturbance # "no" THEN disturbance
                           ELSE IF settles(v, verdict) THEN "no" ELSE disturbed
           /\ disturbed' \in {"no", "now", "since"}
           /\ hasty' \subseteq Troubles
           /\ "low" \in hasty' /\ "low" \notin hasty =>
                 /\ disturbed = "no" /\ disturbance = "no" /\ verdict = "low"
                 /\ ~sinking /\ below' < LowDebounceSamples
  <1>1. below' \in 0 .. LowDebounceSamples
    <2>1. below \in 0 .. 2
      BY DEF BatteryTypeOK, LowDebounceSamples
    <2>2. below' = IF v >= limits.min THEN 0 ELSE IF below < 2 THEN below + 1 ELSE below
      BY DEF note, LowDebounceSamples
    <2> QED
      BY <2>1, <2>2 DEF LowDebounceSamples
  <1>2. disturbed' = IF disturbance # "no" THEN disturbance
                     ELSE IF settles(v, verdict) THEN "no" ELSE disturbed
    BY DEF note
  <1>3. sinking' = (verdict \in Troubles \/ (sinking /\ v < limits.min + LowHysteresis))
    BY DEF note
  <1>4. hasty' = hasty \/ /\ hasty' = hasty \cup {verdict}
                          /\ disturbed = "no" /\ disturbance = "no" /\ verdict \in Troubles
                          /\ ~sinking /\ below' < LowDebounceSamples
    BY DEF note
  <1> QED
    BY <1>1, <1>2, <1>3, <1>4 DEF note, BatteryTypeOK

\* Until it stores a latch, the sensor task reads and changes the filter only.
LEMMA ReadingStep ==
    ASSUME BatteryInv, \/ sample \/ sampleUnavailable \/ loadFiltered \/ storeFiltered
                       \/ lookBrownout \/ lookLow \/ loadSamples
    PROVE  BatteryInv'
  <1> USE DEF BatteryInv, Moves
  <1>1. /\ UNCHANGED <<limits, lowLatched, brownoutLatched, lowSamples, below, sinking, hasty, disturbed>>
        /\ battery' = battery \/ battery' = "unavailable"
        /\ gateAt' \in BeforeStores /\ gateAt \in BeforeStores
    BY DEF sample, sampleUnavailable, loadFiltered, storeFiltered, lookBrownout, lookLow, loadSamples,
           latchVars, verdictVars, BeforeStores, BatteryTypeOK
  <1>2. /\ filteredVoltage' \in Voltages /\ filterInitialized' \in BOOLEAN
        /\ reading' \in [voltage : Voltages, from : SUBSET Voltages, lowNow : BOOLEAN,
                         latched : BOOLEAN, samples : 0..SampleCap]
    <2>1. CASE sample \/ sampleUnavailable
      BY <2>1 DEF sample, sampleUnavailable, BatteryTypeOK, filterVars
    <2>2. CASE loadFiltered
      BY <2>2 DEF loadFiltered, BatteryTypeOK, filterVars, filteredFrom
    <2>3. CASE storeFiltered
      <3>1. filteredVoltage' \in Voltages
        BY <2>3, FilterStays DEF storeFiltered, BatteryTypeOK
      <3> QED
        BY <2>3, <3>1 DEF storeFiltered, BatteryTypeOK
    <2>4. CASE lookBrownout
      BY <2>4 DEF lookBrownout, BatteryTypeOK, filterVars
    <2>5. CASE lookLow
      <3>1. isLow(reading.voltage) \in BOOLEAN /\ lowLatched \in BOOLEAN
        BY DEF isLow, BatteryTypeOK
      <3> QED
        BY <2>5, <3>1 DEF lookLow, BatteryTypeOK, filterVars
    <2>6. CASE loadSamples
      <3>1. countLow(reading.lowNow, lowSamples) \in 0 .. SampleCap
        BY Counting DEF BatteryTypeOK
      <3> QED
        BY <2>6, <3>1 DEF loadSamples, BatteryTypeOK, filterVars
    <2> QED
      BY <2>1, <2>2, <2>3, <2>4, <2>5, <2>6
  <1>3. BatteryTypeOK'
    BY <1>1, <1>2 DEF BatteryTypeOK, BeforeStores
  <1>4. AtHand' \/ disturbed = "now"
    <2>1. CASE lookLow
      <3>1. /\ gateAt' = "load" /\ reading'.voltage = reading.voltage
            /\ reading'.lowNow = isLow(reading.voltage) /\ reading'.latched = lowLatched
        BY <2>1 DEF lookLow, BatteryTypeOK
      <3>2. isLow(reading.voltage)' = isLow(reading.voltage)
        BY <1>1, <3>1 DEF isLow
      <3> QED
        BY <1>1, <3>1, <3>2 DEF AtHand
    <2>2. CASE loadSamples
      <3>1. /\ gateAt = "load" /\ gateAt' = "count" /\ reading'.voltage = reading.voltage
            /\ reading'.lowNow = reading.lowNow /\ reading'.latched = reading.latched
            /\ reading'.samples = countLow(reading.lowNow, lowSamples)
        BY <2>2 DEF loadSamples, BatteryTypeOK
      <3>2. isLow(reading.voltage)' = isLow(reading.voltage)
        BY <1>1, <3>1 DEF isLow
      <3>3. countLow(reading.lowNow, lowSamples)' = countLow(reading.lowNow, lowSamples)
        BY <1>1, <3>1 DEF countLow
      <3> QED
        BY <1>1, <3>1, <3>2, <3>3 DEF AtHand, LatchesInv
    <2>3. CASE ~(lookLow \/ loadSamples)
      <3>1. gateAt' \in {"idle", "sampled", "loaded", "filtered", "inBrownout", "above"}
        BY <2>3 DEF sample, sampleUnavailable, loadFiltered, storeFiltered, lookBrownout
      <3> QED
        BY <3>1 DEF AtHand
    <2> QED
      BY <2>1, <2>2, <2>3
  <1>5. LatchesInv'
    BY <1>1, <1>4 DEF LatchesInv, Ahead, LatchesAgree, BeforeStores
  <1>6. BatteryVerdicts'
    BY <1>1 DEF BatteryVerdicts
  <1> QED
    BY <1>3, <1>5, <1>6

\* A store between the looks and the verdict.
LEMMA StoringStep ==
    ASSUME BatteryInv, latchLow \/ clearBrownout \/ storeSamples \/ clearLow
    PROVE  BatteryInv'
  <1> USE DEF BatteryInv, Moves
  <1>1. /\ UNCHANGED <<limits, filterInitialized, filteredVoltage, reading, battery, below, sinking,
                       hasty, disturbed>>
        /\ gateAt' \in {"latchedLow", "look", "decide", "range"}
    BY DEF latchLow, clearBrownout, storeSamples, clearLow, filterVars, verdictVars
  <1>2. lowLatched' \in BOOLEAN /\ brownoutLatched' \in BOOLEAN /\ lowSamples' \in 0 .. SampleCap
    BY DEF latchLow, clearBrownout, storeSamples, clearLow, BatteryTypeOK
  <1>3. BatteryTypeOK'
    BY <1>1, <1>2 DEF BatteryTypeOK
  <1>4. BatteryVerdicts'
    BY <1>1 DEF BatteryVerdicts
  <1>5. LatchesInv'
    <2>1. CASE latchLow
      BY <1>1, <2>1 DEF latchLow, LatchesInv, AtHand, Ahead, BeforeStores
    <2>2. CASE clearBrownout
      BY <1>1, <2>2 DEF clearBrownout, LatchesInv, AtHand, Ahead, BeforeStores, LatchesAgree
    <2>3. CASE storeSamples
      <3>1. /\ gateAt = "count" /\ gateAt' = "decide" /\ lowSamples' = reading.samples
            /\ lowLatched' = lowLatched /\ limits' = limits /\ reading' = reading
        BY <1>1, <2>3 DEF storeSamples
      <3>2. isLow(reading.voltage)' <=> isLow(reading.voltage)
        BY <3>1 DEF isLow
      <3>3. reading.lowNow \in BOOLEAN /\ lowSamples \in 0 .. SampleCap
        BY BatteryNumbers DEF BatteryTypeOK
      <3>4. disturbed # "now" =>
              /\ reading.latched = lowLatched /\ (reading.lowNow <=> isLow(reading.voltage))
              /\ reading.samples = countLow(reading.lowNow, lowSamples)
        BY <3>1 DEF LatchesInv, AtHand
      <3>5. disturbed # "now" => AtHand'
        BY <3>1, <3>2, <3>3, <3>4, Counting DEF LatchesInv, AtHand
      <3>6. disturbed = "no" => Ahead'
        <4> SUFFICES ASSUME disturbed = "no" PROVE Ahead'
          OBVIOUS
        <4>1. LatchesAgree
          BY <3>1 DEF LatchesInv, Ahead, BeforeStores
        <4>2. ASSUME ~lowLatched
              PROVE  /\ below < LowDebounceSamples
                     /\ lowSamples' = IF reading.voltage < limits.min THEN below + 1 ELSE 0
          <5>1. isLow(reading.voltage) <=> reading.voltage < limits.min
            BY <4>2 DEF isLow
          <5>2. lowSamples = below /\ below < LowDebounceSamples
            BY <4>1, <4>2 DEF LatchesAgree
          <5> QED
            BY <3>1, <3>3, <3>4, <5>1, <5>2, Counting
        <4> QED
          BY <1>1, <3>1, <4>1, <4>2 DEF Ahead, BeforeStores, LatchesAgree
      <3> QED
        BY <1>1, <3>5, <3>6 DEF LatchesInv
    <2>4. CASE clearLow
      <3>1. /\ gateAt = "decide" /\ gateAt' = "range" /\ lowLatched' = FALSE
            /\ lowSamples' = lowSamples /\ limits' = limits /\ reading' = reading /\ recovers
        BY <1>1, <2>4 DEF clearLow
      <3>2. /\ reading.voltage \in Nat /\ limits.min \in Nat /\ LowHysteresis \in Nat
            /\ lowSamples \in Nat /\ below \in Nat /\ LowDebounceSamples = 2
        BY BatteryNumbers DEF BatteryTypeOK, SampleCap, LowDebounceSamples
      <3>3. disturbed # "now" =>
              /\ reading.latched = lowLatched /\ (reading.lowNow <=> isLow(reading.voltage))
              /\ reading.samples = lowSamples /\ (~reading.lowNow => lowSamples = 0)
        BY <3>1 DEF LatchesInv, AtHand
      <3>4. disturbed # "now" => ~reading.lowNow \/ (~lowLatched /\ lowSamples < LowDebounceSamples)
        BY <3>1, <3>3 DEF recovers
      <3>5. disturbed # "now" => AtHand'
        <4>1. reading.lowNow /\ disturbed # "now" => reading.voltage < limits.min + LowHysteresis
          BY <3>2, <3>3 DEF isLow
        <4> QED
          BY <3>1, <3>3, <4>1 DEF AtHand
      <3>6. disturbed = "no" => Ahead'
        <4> SUFFICES ASSUME disturbed = "no" PROVE Ahead'
          OBVIOUS
        <4>1. /\ sinking <=> lowLatched
              /\ ~lowLatched => /\ lowSamples = IF reading.voltage < limits.min THEN below + 1 ELSE 0
                                /\ below < LowDebounceSamples
          BY <3>1 DEF LatchesInv, Ahead
        <4>2. CASE lowLatched
          BY <1>1, <3>1, <3>2, <3>3, <3>4, <4>2 DEF Ahead, BeforeStores, isLow
        <4>3. CASE ~lowLatched
          BY <1>1, <3>1, <3>2, <3>3, <3>4, <4>1, <4>3 DEF Ahead, BeforeStores, isLow
        <4> QED
          BY <4>2, <4>3
      <3> QED
        BY <1>1, <3>5, <3>6 DEF LatchesInv
    <2> QED
      BY <2>1, <2>2, <2>3, <2>4
  <1> QED
    BY <1>3, <1>4, <1>5

\* The end of an evaluation of the sensor task: the histories catch up.
LEMMA EndingStep ==
    ASSUME BatteryInv, latchBrownout \/ reportLow \/ reportRange
    PROVE  BatteryInv'
  <1> USE DEF BatteryInv
  <1>1. PICK verdict \in Troubles \cup {"high", "healthy"} :
          /\ endEvaluation(verdict)
          /\ verdict \in Troubles <=> ~reportRange
          /\ verdict = "low" <=> reportLow
    <2>1. CASE latchBrownout
      BY <2>1 DEF latchBrownout, reportLow, reportRange, Troubles
    <2>2. CASE reportLow
      BY <2>2 DEF reportLow, reportRange, Troubles
    <2>3. CASE reportRange
      <3>1. InRange(reading.voltage) \in {"high", "healthy"}
        BY DEF InRange
      <3> QED
        BY <2>3, <3>1 DEF reportLow, reportRange, Troubles
    <2> QED
      BY <2>1, <2>2, <2>3
  <1>2. /\ gateAt' = "idle" /\ reading' = NoReading
        /\ note(reading.voltage, verdict, IF disturbed = "now" THEN "since" ELSE "no")
    BY <1>1 DEF endEvaluation
  <1>3. /\ UNCHANGED <<limits, filterInitialized, filteredVoltage, lowSamples>>
        /\ lowLatched' = (lowLatched \/ reportLow) /\ brownoutLatched' \in BOOLEAN
    BY DEF latchBrownout, reportLow, reportRange, filterVars, latchVars, BatteryTypeOK
  <1>4. reading.voltage \in Voltages
    BY BatteryNumbers
  <1> DEFINE v == reading.voltage
             dist == IF disturbed = "now" THEN "since" ELSE "no"
  <1>5. /\ v \in Nat /\ limits.min \in Nat /\ LowHysteresis \in Nat /\ lowSamples \in Nat
        /\ below \in Nat /\ LowDebounceSamples = 2 /\ dist \in {"no", "now", "since"}
    BY BatteryNumbers DEF BatteryTypeOK, SampleCap, LowDebounceSamples
  <1>6. /\ battery' = verdict /\ below' \in 0 .. LowDebounceSamples /\ sinking' \in BOOLEAN
        /\ below' = IF v >= limits.min THEN 0
                    ELSE IF below < LowDebounceSamples THEN below + 1 ELSE below
        /\ sinking' <=> (verdict \in Troubles \/ (sinking /\ v < limits.min + LowHysteresis))
        /\ disturbed' = IF dist # "no" THEN dist
                        ELSE IF settles(v, verdict) THEN "no" ELSE disturbed
        /\ disturbed' \in {"no", "now", "since"} /\ hasty' \subseteq Troubles
        /\ "low" \in hasty' /\ "low" \notin hasty =>
              /\ disturbed = "no" /\ dist = "no" /\ verdict = "low"
              /\ ~sinking /\ below' < LowDebounceSamples
    BY <1>2, <1>4, <1>5, Noted
  <1> HIDE DEF v, dist
  <1>7. BatteryTypeOK'
    <2>1. 0 \in Voltages /\ 0 \in 0 .. SampleCap
      BY BatteryAssumption DEF SampleCap, LowDebounceSamples
    <2>2. NoReading \in [voltage : Voltages, from : SUBSET Voltages, lowNow : BOOLEAN,
                         latched : BOOLEAN, samples : 0..SampleCap]
      BY <2>1 DEF NoReading
    <2>3. lowLatched' \in BOOLEAN
      BY <1>3 DEF BatteryTypeOK
    <2> QED
      BY <1>1, <1>2, <1>3, <1>6, <2>2, <2>3 DEF BatteryTypeOK
  <1>8. disturbed' = "no" => disturbed # "now" /\ (settles(v, verdict) \/ disturbed = "no")
    BY <1>6 DEF dist
  <1>9. disturbed # "now" /\ verdict \in Troubles => lowLatched'
    BY <1>1, <1>3 DEF latchBrownout, LatchesInv, AtHand
  <1>10. verdict \notin Troubles => gateAt = "range" /\ lowLatched' = lowLatched
    BY <1>1, <1>3 DEF reportRange, latchVars
  <1>11. verdict \notin Troubles /\ disturbed' = "no" =>
            ~lowLatched' /\ ~sinking' /\ lowSamples = below' /\ below' < LowDebounceSamples
    <2> SUFFICES ASSUME verdict \notin Troubles, disturbed' = "no"
                 PROVE  ~lowLatched' /\ ~sinking' /\ lowSamples = below' /\ below' < LowDebounceSamples
      OBVIOUS
    <2>1. /\ ~lowLatched /\ (reading.lowNow => v < limits.min + LowHysteresis)
          /\ ~reading.lowNow => lowSamples = 0
      BY <1>8, <1>10 DEF LatchesInv, AtHand, v
    <2>2. CASE settles(v, verdict)
      <3>1. v >= limits.min + LowHysteresis
        BY <2>2 DEF settles
      <3>2. ~(v < limits.min + LowHysteresis) /\ v >= limits.min
        BY ONLY <1>5, <3>1
      <3> QED
        BY <1>5, <1>6, <1>10, <2>1, <3>2
    <2>3. CASE disturbed = "no"
      <3>1. /\ sinking => v >= limits.min + LowHysteresis
            /\ IF v < limits.min THEN below = 0 /\ lowSamples = 1 ELSE lowSamples = 0
        BY <1>10, <2>3 DEF LatchesInv, Ahead, v
      <3> QED
        BY <1>5, <1>6, <1>10, <2>1, <3>1
    <2> QED
      BY <1>8, <2>2, <2>3
  <1>12. LatchesInv'
    <2>1. AtHand'
      BY <1>2 DEF AtHand
    <2>2. disturbed' = "no" => LatchesAgree'
      <3>1. CASE verdict \in Troubles
        BY <1>6, <1>8, <1>9, <3>1 DEF LatchesAgree
      <3>2. CASE verdict \notin Troubles
        BY <1>3, <1>11, <3>2 DEF LatchesAgree
      <3> QED
        BY <3>1, <3>2
    <2> QED
      BY <1>2, <2>1, <2>2 DEF LatchesInv, Ahead
  <1>13. BatteryVerdicts'
    <2>1. disturbed' = "no" /\ (sinking' \/ below' = LowDebounceSamples) => battery' \in Troubles
      BY <1>5, <1>6, <1>11
    <2>2. ~("low" \in hasty')
      <3> SUFFICES ASSUME "low" \in hasty' PROVE FALSE
        OBVIOUS
      <3>1. disturbed = "no" /\ verdict = "low" /\ ~sinking /\ below' < LowDebounceSamples
        BY <1>6 DEF BatteryVerdicts
      <3>2. gateAt = "decide" /\ staysLow
        BY <1>1, <3>1 DEF reportLow
      <3>3. /\ reading.latched = lowLatched /\ reading.samples = lowSamples
            /\ sinking <=> lowLatched
            /\ ~lowLatched => lowSamples = IF v < limits.min THEN below + 1 ELSE 0
        BY <3>1, <3>2 DEF LatchesInv, AtHand, Ahead, v
      <3>4. lowSamples >= LowDebounceSamples /\ ~lowLatched
        BY <3>1, <3>2, <3>3 DEF staysLow
      <3> QED
        BY <1>5, <1>6, <3>1, <3>3, <3>4
    <2> QED
      BY <2>1, <2>2 DEF BatteryVerdicts
  <1> QED
    BY <1>7, <1>12, <1>13

\* An evaluation of the telemetry task.
LEMMA TelemetryStep == ASSUME BatteryInv, evaluateBattery PROVE BatteryInv'
  <1> USE DEF BatteryInv
  <1>1. PICK v \in Voltages :
          /\ filterInitialized' = TRUE /\ filteredVoltage' = v
          /\ IF inBrownout(v) THEN reportBrownout(v) ELSE reportVoltage(v)
    BY FilterStays DEF evaluateBattery, filteredFrom, BatteryTypeOK
  <1>2. UNCHANGED <<limits, gateAt, reading>>
    BY DEF evaluateBattery
  <1>3. /\ v \in Nat /\ limits.min \in Nat /\ LowHysteresis \in Nat /\ lowSamples \in 0 .. SampleCap
        /\ lowSamples \in Nat /\ below \in Nat /\ LowDebounceSamples = 2
        /\ Disturbance \in {"no", "now", "since"} /\ isLow(v) \in BOOLEAN /\ lowLatched \in BOOLEAN
    BY BatteryNumbers DEF BatteryTypeOK, SampleCap, LowDebounceSamples, Disturbance, isLow
  <1>4. PICK verdict \in Troubles \cup {"high", "healthy"} :
          /\ note(v, verdict, Disturbance)
          /\ lowLatched' \in BOOLEAN /\ brownoutLatched' \in BOOLEAN /\ lowSamples' \in 0 .. SampleCap
          /\ lowLatched' <=> verdict \in Troubles
          /\ verdict # "brownout" =>
                /\ lowSamples' = countLow(isLow(v), lowSamples)
                /\ lowLatched' <=> isLow(v) /\ (lowLatched \/ lowSamples' >= LowDebounceSamples)
    <2>1. CASE inBrownout(v)
      <3>1. reportBrownout(v)
        BY <1>1, <2>1
      <3> QED
        BY <1>3, <3>1 DEF reportBrownout, Troubles
    <2>2. CASE ~inBrownout(v)
      <3>1. reportVoltage(v)
        BY <1>1, <2>2
      <3>2. InRange(v) \in {"high", "healthy"}
        BY DEF InRange
      <3>3. lowSamples' \in 0 .. SampleCap
        BY <1>3, <3>1, Counting DEF reportVoltage
      <3>4. CASE lowLatched'
        BY <1>3, <3>1, <3>3, <3>4 DEF reportVoltage, Troubles
      <3>5. CASE ~lowLatched'
        BY <1>3, <3>1, <3>2, <3>3, <3>5 DEF reportVoltage, Troubles
      <3> QED
        BY <3>4, <3>5
    <2> QED
      BY <2>1, <2>2
  <1>5. /\ battery' = verdict /\ below' \in 0 .. LowDebounceSamples /\ sinking' \in BOOLEAN
        /\ below' = IF v >= limits.min THEN 0
                    ELSE IF below < LowDebounceSamples THEN below + 1 ELSE below
        /\ sinking' <=> (verdict \in Troubles \/ (sinking /\ v < limits.min + LowHysteresis))
        /\ disturbed' = IF Disturbance # "no" THEN Disturbance
                        ELSE IF settles(v, verdict) THEN "no" ELSE disturbed
        /\ disturbed' \in {"no", "now", "since"} /\ hasty' \subseteq Troubles
        /\ "low" \in hasty' /\ "low" \notin hasty =>
              /\ disturbed = "no" /\ Disturbance = "no" /\ verdict = "low"
              /\ ~sinking /\ below' < LowDebounceSamples
    BY <1>3, <1>4, Noted
  <1>6. BatteryTypeOK'
    BY <1>1, <1>2, <1>4, <1>5 DEF BatteryTypeOK
  <1>7. CASE Overtakes
    <2>1. disturbed' = "now"
      BY <1>5, <1>7 DEF Disturbance
    <2>2. "low" \notin hasty'
      BY <1>5, <1>7 DEF Disturbance, BatteryVerdicts
    <2> QED
      BY <1>6, <2>1, <2>2 DEF LatchesInv, BatteryVerdicts
  <1>8. CASE ~Overtakes
    <2>1. gateAt' \in {"idle", "sampled"} /\ gateAt \in BeforeStores /\ Disturbance = "no"
      BY <1>2, <1>8 DEF Overtakes, BeforeStores, Disturbance
    <2>2. AtHand'
      BY <2>1 DEF AtHand
    <2>3. disturbed = "no" => LatchesAgree
      BY <2>1 DEF LatchesInv, Ahead
    <2>4. disturbed' = "no" /\ verdict \notin Troubles =>
            ~sinking' /\ lowSamples' = below' /\ below' < LowDebounceSamples
      <3> SUFFICES ASSUME disturbed' = "no", verdict \notin Troubles
                   PROVE  ~sinking' /\ lowSamples' = below' /\ below' < LowDebounceSamples
        OBVIOUS
      <3>1. /\ lowSamples' = countLow(isLow(v), lowSamples)
            /\ ~(isLow(v) /\ (lowLatched \/ lowSamples' >= LowDebounceSamples))
        BY <1>4 DEF Troubles
      <3>2. CASE v >= limits.min + LowHysteresis
        <4>1. ~isLow(v) /\ v >= limits.min /\ ~(v < limits.min + LowHysteresis)
          BY <1>3, <3>2 DEF isLow
        <4> QED
          BY <1>3, <1>5, <3>1, <4>1, Counting
      <3>3. CASE disturbed = "no"
        <4>1. LatchesAgree
          BY <2>3, <3>3
        <4>2. CASE isLow(v)
          <5>1. ~lowLatched /\ lowSamples' < LowDebounceSamples
            <6>1. lowSamples' \in Nat
              BY <1>4 DEF SampleCap, LowDebounceSamples
            <6>2. ~lowLatched /\ ~(lowSamples' >= LowDebounceSamples)
              BY <3>1, <4>2
            <6> QED
              BY <1>3, <6>1, <6>2
          <5>2. v < limits.min /\ lowSamples = below /\ below < LowDebounceSamples /\ ~sinking
            BY <4>1, <4>2, <5>1 DEF isLow, LatchesAgree
          <5>3. lowSamples' = lowSamples + 1
            BY <1>3, <3>1, <4>2, <5>2, Counting
          <5> QED
            BY <1>3, <1>5, <5>1, <5>2, <5>3
        <4>3. CASE ~isLow(v)
          <5>1. lowSamples' = 0
            BY <1>3, <3>1, <4>3, Counting
          <5>2. v >= limits.min /\ (sinking => ~(v < limits.min + LowHysteresis))
            BY <1>3, <4>1, <4>3 DEF isLow, LatchesAgree
          <5> QED
            BY <1>3, <1>5, <5>1, <5>2
        <4> QED
          BY <4>2, <4>3
      <3> QED
        BY <1>5, <2>1, <3>2, <3>3 DEF settles
    <2>5. LatchesInv'
      <3>1. disturbed' = "no" => LatchesAgree'
        BY <1>4, <1>5, <2>4 DEF LatchesAgree
      <3> QED
        BY <2>1, <2>2, <3>1 DEF LatchesInv, Ahead
    <2>6. BatteryVerdicts'
      <3>1. disturbed' = "no" /\ (sinking' \/ below' = LowDebounceSamples) => battery' \in Troubles
        BY <1>3, <1>5, <2>4
      <3>2. ~("low" \in hasty')
        <4> SUFFICES ASSUME "low" \in hasty' PROVE FALSE
          OBVIOUS
        <4>1. disturbed = "no" /\ verdict = "low" /\ ~sinking /\ below' < LowDebounceSamples
          BY <1>5 DEF BatteryVerdicts
        <4>2. ~lowLatched /\ lowSamples = below /\ below < LowDebounceSamples
          BY <2>3, <4>1 DEF LatchesAgree
        <4>3. isLow(v) /\ lowSamples' >= LowDebounceSamples
          BY <1>4, <4>1, <4>2 DEF Troubles
        <4>4. v < limits.min /\ lowSamples' = lowSamples + 1
          BY <1>3, <1>4, <4>1, <4>2, <4>3, Counting DEF isLow
        <4> QED
          BY <1>3, <1>5, <4>1, <4>2, <4>3, <4>4
      <3> QED
        BY <3>1, <3>2 DEF BatteryVerdicts
    <2> QED
      BY <1>6, <2>5, <2>6
  <1> QED
    BY <1>7, <1>8

\* Sampling, looking, storing, reporting, and what the telemetry task does in between.
LEMMA BatteryStep == ASSUME BatteryInv, [BatteryNext]_batteryVars PROVE BatteryInv'
  <1>1. CASE evaluateForGate
    BY <1>1, ReadingStep, StoringStep, EndingStep DEF evaluateForGate
  <1>2. CASE evaluateBattery
    BY <1>2, TelemetryStep
  <1>3. CASE evaluateUnavailable
    BY <1>3 DEF evaluateUnavailable, filterVars, latchVars, BatteryInv, BatteryTypeOK, LatchesInv,
                AtHand, Ahead, LatchesAgree, BatteryVerdicts, isLow, countLow
  <1>4. CASE setupBattery
    <2>1. 0 \in Voltages /\ 0 \in 0 .. SampleCap /\ 0 \in 0 .. LowDebounceSamples
      BY BatteryAssumption DEF SampleCap, LowDebounceSamples
    <2>2. Disturbance \in {"no", "now"}
      BY DEF Disturbance
    <2>3. BatteryTypeOK'
      BY <1>4, <2>1, <2>2 DEF setupBattery, BatteryInv, BatteryTypeOK
    <2>4. BatteryVerdicts'
      BY <1>4 DEF setupBattery, BatteryVerdicts, LowDebounceSamples
    <2>5. CASE Overtakes
      BY <1>4, <2>3, <2>4, <2>5 DEF setupBattery, Disturbance, BatteryInv, LatchesInv
    <2>6. CASE ~Overtakes
      <3>1. gateAt' \in {"idle", "sampled"}
        BY <1>4, <2>6 DEF setupBattery, Overtakes
      <3>2. AtHand' /\ Ahead'
        BY <1>4, <3>1 DEF setupBattery, AtHand, Ahead, LatchesAgree, LowDebounceSamples
      <3> QED
        BY <2>3, <2>4, <3>2 DEF BatteryInv, LatchesInv
    <2> QED
      BY <2>5, <2>6
  <1>5. CASE UNCHANGED batteryVars
    BY <1>5 DEF batteryVars, filterVars, latchVars, verdictVars, BatteryInv, BatteryTypeOK, LatchesInv,
                AtHand, Ahead, LatchesAgree, BatteryVerdicts, isLow, countLow
  <1> QED
    BY <1>1, <1>2, <1>3, <1>4, <1>5 DEF BatteryNext

-----------------------------------------------------------------------------
(* PreflightRuntime: the arm gate and the critical battery are backed by checks. *)

\* What each step of the evaluation is told apart by.
LEMMA Steps ==
    /\ After("sensors") = {"required", "reset", "set", "setFailsafe", "scan", "copy", "store", "gate"}
    /\ After("required") = {"reset", "set", "setFailsafe", "scan", "copy", "store", "gate"}
    /\ After("reset") = {"set", "setFailsafe", "scan", "copy", "store", "gate"}
    /\ After("set") = {"setFailsafe", "scan", "copy", "store", "gate"}
    /\ After("setFailsafe") = {"scan", "copy", "store", "gate"}
    /\ After("copy") = {"store", "gate"}
  BY DEF After

\* What the checks are called, and that the scan goes through all of them.
LEMMA CheckNames ==
    /\ CheckIds = {"Sensor", "Battery", "Failsafe"} /\ Len(Checks) = 3
    /\ Checks[1] = "Sensor" /\ Checks[2] = "Battery" /\ Checks[3] = "Failsafe"
  <1>1. /\ Len(Checks) = 3 /\ DOMAIN Checks = 1 .. 3
        /\ Checks[1] = "Sensor" /\ Checks[2] = "Battery" /\ Checks[3] = "Failsafe"
    BY DEF Checks
  <1>2. DOMAIN Checks = {1, 2, 3}
    BY <1>1
  <1> QED
    BY <1>1, <1>2 DEF CheckIds

\* What holds now has its place in the history.
LEMMA OkNowMeans ==
    ASSUME NEW w \in Worlds, NEW s \in Setups
    PROVE  /\ w.sensor <=> "Sensor" \in OkNow(w, s)
           /\ ~s.battery \/ w.battery = "ok" <=> "Battery" \in OkNow(w, s)
           /\ ~s.rc \/ w.link <=> "Failsafe" \in OkNow(w, s)
           /\ ~(s.battery /\ w.battery = "brownout") <=> "Calm" \in OkNow(w, s)
           /\ OkNow(w, s) \subseteq CheckIds \cup {"Calm"}
  BY CheckNames DEF OkNow, Satisfied

\* At the start nothing has been evaluated and nothing is cleared.
LEMMA PreflightStarts == PreflightInit => PreflightInv
  <1> SUFFICES ASSUME PreflightInit PROVE PreflightInv
    OBVIOUS
  <1> USE Steps, CheckNames DEF PreflightInit
  <1>1. PreflightTypeOK
    <2>1. scanned \in 0 .. Len(Checks)
      BY ONLY PreflightInit, CheckNames
    <2>2. table \in [CheckIds -> [required : BOOLEAN, passed : BOOLEAN]]
      OBVIOUS
    <2>3. {runtimeCritical, critical, lastCanArm, armAllowed, myCanArm} \subseteq BOOLEAN
      OBVIOUS
    <2> QED
      BY <2>1, <2>2, <2>3 DEF PreflightTypeOK
  <1>2. MineInv
    BY OkNowMeans DEF MineInv, Nothing
  <1>3. TableInv /\ ResultInv
    BY DEF TableInv, ResultInv
  <1>4. ArmGateIsBacked /\ BrownoutIsKnown
    BY DEF ArmGateIsBacked, BrownoutIsKnown
  <1> QED
    BY <1>1, <1>2, <1>3, <1>4 DEF PreflightInv

\* Each step of the evaluation hands on only what a check of that evaluation, or a
\* whole evaluation of the telemetry task in between, has really found.
LEMMA PreflightStep == ASSUME PreflightInv, [PreflightNext]_preflightVars PROVE PreflightInv'
  <1> USE Steps, CheckNames DEF PreflightInv, From
  <1> USE DEF preflightShared, preflightLocal
  <1>0. /\ PreflightTypeOK /\ MineInv /\ TableInv /\ ResultInv /\ ArmGateIsBacked /\ BrownoutIsKnown
        /\ world \in Worlds /\ setup \in Setups
    BY DEF PreflightTypeOK
  <1>1. CASE change
    <2>1. /\ world' \in Worlds /\ everOk' = everOk \cup OkNow(world', setup)
          /\ UNCHANGED <<setup, preflightShared, armAllowed, sensorAt, preflightLocal>>
      BY <1>1 DEF change
    <2>2. PreflightTypeOK'
      BY <2>1 DEF PreflightTypeOK
    <2>3. MineInv'
      BY <2>1 DEF MineInv
    <2>4. TableInv' /\ ResultInv'
      BY <2>1 DEF TableInv, ResultInv
    <2>5. ArmGateIsBacked' /\ BrownoutIsKnown'
      BY <2>1 DEF ArmGateIsBacked, BrownoutIsKnown
    <2> QED
      BY <2>2, <2>3, <2>4, <2>5
  <1>2. CASE changeSetup
    <2>1. /\ setup' \in Setups /\ everOk' = everOk \cup OkNow(world, setup')
          /\ UNCHANGED <<world, preflightShared, armAllowed, sensorAt, preflightLocal>>
      BY <1>0, <1>2 DEF changeSetup, Setups
    <2>2. PreflightTypeOK'
      BY <2>1 DEF PreflightTypeOK
    <2>3. MineInv'
      BY <2>1 DEF MineInv
    <2>4. TableInv' /\ ResultInv'
      BY <2>1 DEF TableInv, ResultInv
    <2>5. ArmGateIsBacked' /\ BrownoutIsKnown'
      BY <2>1 DEF ArmGateIsBacked, BrownoutIsKnown
    <2> QED
      BY <2>2, <2>3, <2>4, <2>5
  <1>3. CASE beginEvaluation
    <2>1. /\ sensorAt' = "sensors" /\ mine' = [mine EXCEPT !.battery = world.battery]
          /\ everOk' = OkNow(world, setup)
          /\ UNCHANGED <<world, setup, preflightShared, armAllowed, myCanArm, scanned>>
      BY <1>3 DEF beginEvaluation
    <2>2. PreflightTypeOK'
      BY <2>1 DEF PreflightTypeOK
    <2>3. MineInv'
      BY <1>0, <2>1, OkNowMeans DEF MineInv, Worlds
    <2>4. TableInv' /\ ResultInv'
      BY <2>1 DEF TableInv, ResultInv
    <2>5. ArmGateIsBacked' /\ BrownoutIsKnown'
      BY <2>1 DEF ArmGateIsBacked, BrownoutIsKnown
    <2> QED
      BY <2>2, <2>3, <2>4, <2>5
  <1>4. CASE loadSensors
    <2>1. /\ sensorAt = "sensors" /\ sensorAt' = "required"
          /\ mine' = [mine EXCEPT !.sensorOk = world.sensor]
          /\ UNCHANGED <<world, setup, preflightShared, armAllowed, myCanArm, scanned, everOk>>
      BY <1>4 DEF loadSensors
    <2>2. PreflightTypeOK'
      BY <2>1 DEF PreflightTypeOK
    <2>3. MineInv'
      BY <1>0, <2>1, OkNowMeans DEF MineInv, Worlds
    <2>4. TableInv' /\ ResultInv'
      BY <2>1 DEF TableInv, ResultInv
    <2>5. ArmGateIsBacked' /\ BrownoutIsKnown'
      BY <2>1 DEF ArmGateIsBacked, BrownoutIsKnown
    <2> QED
      BY <2>2, <2>3, <2>4, <2>5
  <1>5. CASE loadRequired
    <2>1. /\ sensorAt = "required" /\ sensorAt' = "reset"
          /\ mine' = [mine EXCEPT !.batteryRequired = setup.battery, !.rcRequired = setup.rc]
          /\ runtimeCritical' = (setup.battery /\ mine.battery = "brownout")
          /\ UNCHANGED <<world, setup, table, configured, critical, lastCanArm, armAllowed,
                         myCanArm, scanned, everOk>>
      BY <1>5 DEF loadRequired
    <2>2. PreflightTypeOK'
      BY <2>1 DEF PreflightTypeOK
    <2>3. MineInv'
      BY <1>0, <2>1, OkNowMeans DEF MineInv, Setups
    <2>4. "Calm" \notin everOk => runtimeCritical'
      BY <1>0, <2>1, OkNowMeans DEF MineInv
    <2>5. TableInv' /\ ResultInv'
      BY <2>1, <2>4 DEF TableInv, ResultInv
    <2>6. ArmGateIsBacked' /\ BrownoutIsKnown'
      BY <2>1 DEF ArmGateIsBacked, BrownoutIsKnown
    <2> QED
      BY <2>2, <2>3, <2>5, <2>6
  <1>6. CASE resetChecks
    <2>1. /\ sensorAt = "reset" /\ sensorAt' = "set" /\ configured' = {}
          /\ table' = [c \in CheckIds |-> [required |-> TRUE, passed |-> FALSE]]
          /\ UNCHANGED <<world, setup, runtimeCritical, critical, lastCanArm, armAllowed,
                         preflightLocal, everOk>>
      BY <1>6 DEF resetChecks
    <2>2. PreflightTypeOK'
      BY <2>1 DEF PreflightTypeOK
    <2>3. MineInv'
      BY <2>1 DEF MineInv
    <2>4. TableInv' /\ ResultInv'
      BY <2>1 DEF TableInv, ResultInv
    <2>5. ArmGateIsBacked' /\ BrownoutIsKnown'
      BY <2>1 DEF ArmGateIsBacked, BrownoutIsKnown
    <2> QED
      BY <2>2, <2>3, <2>4, <2>5
  <1>7. CASE setLoadedChecks
    <2>1. /\ sensorAt = "set" /\ sensorAt' = "setFailsafe"
          /\ configured' = configured \cup {"Sensor", "Battery"}
          /\ UNCHANGED <<world, setup, runtimeCritical, critical, lastCanArm, armAllowed,
                         preflightLocal, everOk>>
      BY <1>7 DEF setLoadedChecks
    <2>2. /\ mine.sensorOk \in BOOLEAN /\ mine.batteryRequired \in BOOLEAN
          /\ mine.battery \in {"ok", "brownout"}
          /\ table \in [CheckIds -> [required : BOOLEAN, passed : BOOLEAN]]
      BY <1>0 DEF MineInv, PreflightTypeOK
    <2>3. /\ table' \in [CheckIds -> [required : BOOLEAN, passed : BOOLEAN]]
          /\ table'["Sensor"] = [required |-> TRUE, passed |-> mine.sensorOk]
          /\ table'["Battery"] = [required |-> mine.batteryRequired,
                                  passed |-> ~mine.batteryRequired \/ mine.battery = "ok"]
          /\ table'["Failsafe"] = table["Failsafe"]
      BY <1>7, <2>2 DEF setLoadedChecks, setCheck
    <2>4. PreflightTypeOK'
      BY <2>1, <2>3 DEF PreflightTypeOK
    <2>5. MineInv'
      BY <2>1 DEF MineInv
    <2>6. ASSUME NEW c \in configured', ~table'[c].required \/ table'[c].passed PROVE c \in everOk
      <3>1. CASE c = "Sensor"
        BY <1>0, <2>1, <2>3, <2>6, <3>1 DEF MineInv
      <3>2. CASE c = "Battery"
        BY <1>0, <2>1, <2>2, <2>3, <2>6, <3>2 DEF MineInv
      <3>3. CASE c = "Failsafe"
        BY <1>0, <2>1, <2>3, <2>6, <3>3 DEF TableInv
      <3>4. c \in CheckIds
        BY <1>0, <2>1 DEF PreflightTypeOK
      <3> QED
        BY <3>1, <3>2, <3>3, <3>4
    <2>7. TableInv'
      BY <2>1, <2>6 DEF TableInv
    <2>8. ResultInv'
      BY <2>1 DEF ResultInv
    <2>9. ArmGateIsBacked' /\ BrownoutIsKnown'
      BY <2>1 DEF ArmGateIsBacked, BrownoutIsKnown
    <2> QED
      BY <2>4, <2>5, <2>7, <2>8, <2>9
  <1>8. CASE setFailsafeCheck
    <2>1. /\ sensorAt = "setFailsafe" /\ sensorAt' = "scan"
          /\ table' = [table EXCEPT !["Failsafe"] = [required |-> mine.rcRequired,
                                                     passed |-> world.link]]
          /\ configured' = configured \cup {"Failsafe"}
          /\ myCanArm' = TRUE /\ scanned' = 0
          /\ UNCHANGED <<world, setup, runtimeCritical, critical, lastCanArm, armAllowed, mine,
                         everOk>>
      BY <1>8 DEF setFailsafeCheck, setCheck
    <2>2. /\ mine.rcRequired \in BOOLEAN /\ world.link \in BOOLEAN
          /\ table \in [CheckIds -> [required : BOOLEAN, passed : BOOLEAN]]
      BY <1>0 DEF MineInv, PreflightTypeOK, Worlds
    <2>3. /\ table' \in [CheckIds -> [required : BOOLEAN, passed : BOOLEAN]]
          /\ table'["Failsafe"] = [required |-> mine.rcRequired, passed |-> world.link]
          /\ \A c \in {"Sensor", "Battery"} : table'[c] = table[c]
      BY <2>1, <2>2
    <2>4. PreflightTypeOK'
      BY <2>1, <2>3 DEF PreflightTypeOK
    <2>5. MineInv'
      BY <2>1 DEF MineInv
    <2>6. ASSUME NEW c \in configured', ~table'[c].required \/ table'[c].passed PROVE c \in everOk
      <3>1. CASE c = "Failsafe"
        BY <1>0, <2>1, <2>2, <2>3, <2>6, <3>1, OkNowMeans DEF MineInv
      <3>2. CASE c \in {"Sensor", "Battery"}
        BY <1>0, <2>1, <2>3, <2>6, <3>2 DEF TableInv
      <3>3. c \in CheckIds
        BY <1>0, <2>1 DEF PreflightTypeOK
      <3> QED
        BY <3>1, <3>2, <3>3
    <2>7. configured' = CheckIds
      <3>1. {"Sensor", "Battery"} \subseteq configured /\ configured \subseteq CheckIds
        BY <1>0, <2>1 DEF TableInv, PreflightTypeOK
      <3> QED
        BY <2>1, <3>1
    <2>8. TableInv'
      BY <2>1, <2>6, <2>7 DEF TableInv
    <2>9. ResultInv'
      BY <2>1 DEF ResultInv
    <2>10. ArmGateIsBacked' /\ BrownoutIsKnown'
      BY <2>1 DEF ArmGateIsBacked, BrownoutIsKnown
    <2> QED
      BY <2>4, <2>5, <2>8, <2>9, <2>10
  <1>9. CASE scanCheck
    <2>1. /\ sensorAt = "scan" /\ scanned' = scanned + 1
          /\ myCanArm' = (myCanArm /\ ~fails(table, Checks[scanned + 1]))
          /\ sensorAt' = IF scanned + 1 = 3 THEN "copy" ELSE "scan"
          /\ UNCHANGED <<world, setup, preflightShared, armAllowed, mine, everOk>>
      BY <1>9 DEF scanCheck
    <2>2. scanned \in 0 .. 2
      BY <1>0, <2>1 DEF MineInv, PreflightTypeOK
    <2>3. PreflightTypeOK'
      <3>1. scanned' \in 0 .. Len(Checks)
        BY <2>1, <2>2
      <3> QED
        BY <2>1, <3>1 DEF PreflightTypeOK
    <2>4. MineInv'
      <3>1. sensorAt' = "scan" => scanned' < Len(Checks)
        BY <2>1, <2>2
      <3> QED
        BY <2>1, <3>1 DEF MineInv
    <2>5. TableInv'
      BY <2>1 DEF TableInv
    <2>6. ASSUME myCanArm', NEW i \in 1 .. scanned' PROVE Checks[i] \in everOk
      <3>1. myCanArm /\ ~fails(table, Checks[scanned + 1])
        BY <2>1, <2>6
      <3>2. CASE i = scanned + 1
        <4>1. Checks[i] \in configured /\ configured = CheckIds
          BY <1>0, <2>1, <2>2, <3>2 DEF TableInv
        <4>2. ~table[Checks[i]].required \/ table[Checks[i]].passed
          BY <3>1, <3>2, <4>1 DEF fails
        <4> QED
          BY <1>0, <2>1, <4>1, <4>2 DEF TableInv
      <3>3. CASE i # scanned + 1
        <4>1. i \in 1 .. scanned
          BY <2>1, <2>2, <3>3
        <4> QED
          BY <1>0, <2>1, <3>1, <4>1 DEF ResultInv
      <3> QED
        BY <3>2, <3>3
    <2>7. ResultInv'
      <3>1. sensorAt' = "copy" => scanned' = Len(Checks)
        BY <2>1, <2>2
      <3> QED
        BY <2>1, <2>6, <3>1 DEF ResultInv
    <2>8. ArmGateIsBacked' /\ BrownoutIsKnown'
      BY <2>1 DEF ArmGateIsBacked, BrownoutIsKnown
    <2> QED
      BY <2>3, <2>4, <2>5, <2>7, <2>8
  <1>10. CASE copyCritical
    <2>1. /\ sensorAt = "copy" /\ sensorAt' = "store" /\ critical' = runtimeCritical
          /\ UNCHANGED <<world, setup, table, configured, runtimeCritical, lastCanArm, armAllowed,
                         preflightLocal, everOk>>
      BY <1>10 DEF copyCritical
    <2>2. PreflightTypeOK' /\ MineInv'
      BY <2>1 DEF PreflightTypeOK, MineInv
    <2>3. TableInv' /\ ResultInv'
      BY <2>1 DEF TableInv, ResultInv
    <2>4. ArmGateIsBacked' /\ BrownoutIsKnown'
      BY <2>1 DEF ArmGateIsBacked, BrownoutIsKnown
    <2> QED
      BY <2>2, <2>3, <2>4
  <1>11. CASE storeResult
    <2>1. /\ sensorAt = "store" /\ sensorAt' = "gate" /\ lastCanArm' = myCanArm
          /\ UNCHANGED <<world, setup, table, configured, runtimeCritical, critical, armAllowed,
                         preflightLocal, everOk>>
      BY <1>11 DEF storeResult
    <2>2. PreflightTypeOK' /\ MineInv'
      BY <2>1 DEF PreflightTypeOK, MineInv
    <2>3. myCanArm => CheckIds \subseteq everOk
      <3>1. myCanArm => \A i \in 1 .. 3 : Checks[i] \in everOk
        BY <1>0, <2>1 DEF ResultInv
      <3> QED
        BY <3>1
    <2>4. TableInv' /\ ResultInv'
      BY <2>1, <2>3 DEF TableInv, ResultInv
    <2>5. ArmGateIsBacked' /\ BrownoutIsKnown'
      BY <2>1 DEF ArmGateIsBacked, BrownoutIsKnown
    <2> QED
      BY <2>2, <2>4, <2>5
  <1>12. CASE setArmAllowed
    <2>1. /\ sensorAt = "gate" /\ sensorAt' = "idle" /\ armAllowed' = lastCanArm
          /\ mine' = Nothing /\ myCanArm' = FALSE /\ scanned' = 0
          /\ UNCHANGED <<world, setup, preflightShared, everOk>>
      BY <1>12 DEF setArmAllowed
    <2>2. PreflightTypeOK'
      <3>1. scanned' \in 0 .. Len(Checks)
        BY ONLY <2>1, CheckNames
      <3>2. armAllowed' \in BOOLEAN /\ myCanArm' \in BOOLEAN
        BY <1>0, <2>1 DEF PreflightTypeOK
      <3> QED
        BY <2>1, <3>1, <3>2 DEF PreflightTypeOK
    <2>3. MineInv'
      BY <2>1 DEF MineInv, Nothing
    <2>4. TableInv' /\ ResultInv'
      BY <2>1 DEF TableInv, ResultInv
    <2>5. ArmGateIsBacked' /\ BrownoutIsKnown'
      BY <1>0, <2>1 DEF ArmGateIsBacked, BrownoutIsKnown, ResultInv
    <2> QED
      BY <2>2, <2>3, <2>4, <2>5
  <1>13. CASE evaluateOnRequest
    <2>1. /\ configured' = CheckIds
          /\ runtimeCritical' = (setup.battery /\ world.battery = "brownout")
          /\ critical' = runtimeCritical'
          /\ lastCanArm' = \A c \in CheckIds : table'[c].required => table'[c].passed
          /\ UNCHANGED <<world, setup, armAllowed, sensorAt, preflightLocal, everOk>>
      BY <1>13 DEF evaluateOnRequest
    <2>2. /\ world.sensor \in BOOLEAN /\ world.link \in BOOLEAN /\ setup.battery \in BOOLEAN
          /\ setup.rc \in BOOLEAN
      BY <1>0 DEF Worlds, Setups
    <2>3. /\ table'["Sensor"] = [required |-> TRUE, passed |-> world.sensor]
          /\ table'["Battery"] = [required |-> setup.battery,
                                  passed |-> ~setup.battery \/ world.battery = "ok"]
          /\ table'["Failsafe"] = [required |-> setup.rc, passed |-> world.link]
      BY <1>13 DEF evaluateOnRequest
    <2>4. table' \in [CheckIds -> [required : BOOLEAN, passed : BOOLEAN]]
      <3>1. table' = [c \in CheckIds |-> table'[c]]
        BY <1>13 DEF evaluateOnRequest
      <3>2. (~setup.battery \/ world.battery = "ok") \in BOOLEAN
        OBVIOUS
      <3>3. \A c \in {"Sensor", "Battery", "Failsafe"} :
               table'[c] \in [required : BOOLEAN, passed : BOOLEAN]
        <4>1. table'["Sensor"] \in [required : BOOLEAN, passed : BOOLEAN]
          BY ONLY <2>2, <2>3
        <4>2. table'["Battery"] \in [required : BOOLEAN, passed : BOOLEAN]
          BY ONLY <2>2, <2>3, <3>2
        <4>3. table'["Failsafe"] \in [required : BOOLEAN, passed : BOOLEAN]
          BY ONLY <2>2, <2>3
        <4> QED
          BY ONLY <4>1, <4>2, <4>3
      <3> QED
        BY <3>1, <3>3
    <2>5. \A c \in CheckIds : ~table'[c].required \/ table'[c].passed => c \in everOk
      <3>1. /\ world.sensor => "Sensor" \in everOk
            /\ ~setup.battery \/ world.battery = "ok" => "Battery" \in everOk
            /\ ~setup.rc \/ world.link => "Failsafe" \in everOk
        BY <1>0, OkNowMeans DEF MineInv
      <3>2. ~table'["Sensor"].required \/ table'["Sensor"].passed => "Sensor" \in everOk
        BY ONLY <2>3, <3>1
      <3>3. ~table'["Battery"].required \/ table'["Battery"].passed => "Battery" \in everOk
        <4>1. /\ table'["Battery"].required = setup.battery
              /\ table'["Battery"].passed = (~setup.battery \/ world.battery = "ok")
          BY ONLY <2>3
        <4> QED
          BY ONLY <3>1, <4>1, Zenon
      <3>4. ~table'["Failsafe"].required \/ table'["Failsafe"].passed => "Failsafe" \in everOk
        BY ONLY <2>3, <3>1
      <3> QED
        BY <3>2, <3>3, <3>4
    <2>6. lastCanArm' \in BOOLEAN /\ (lastCanArm' => CheckIds \subseteq everOk)
      BY <2>1, <2>4, <2>5
    <2>7. "Calm" \notin everOk => runtimeCritical' /\ critical'
      BY <1>0, <2>1, OkNowMeans DEF MineInv
    <2>8. PreflightTypeOK'
      BY <2>1, <2>2, <2>4, <2>6 DEF PreflightTypeOK
    <2>9. MineInv'
      BY <2>1 DEF MineInv
    <2>10. TableInv' /\ ResultInv'
      BY <2>1, <2>5, <2>6, <2>7 DEF TableInv, ResultInv
    <2>11. ArmGateIsBacked' /\ BrownoutIsKnown'
      BY <2>1, <2>7 DEF ArmGateIsBacked, BrownoutIsKnown
    <2> QED
      BY <2>8, <2>9, <2>10, <2>11
  <1>14. CASE UNCHANGED preflightVars
    <2>1. PreflightTypeOK' /\ MineInv'
      BY <1>14 DEF preflightVars, PreflightTypeOK, MineInv
    <2>2. TableInv' /\ ResultInv' /\ ArmGateIsBacked' /\ BrownoutIsKnown'
      BY <1>14 DEF preflightVars, TableInv, ResultInv, ArmGateIsBacked, BrownoutIsKnown
    <2> QED
      BY <2>1, <2>2
  <1> QED
    BY <1>1, <1>2, <1>3, <1>4, <1>5, <1>6, <1>7, <1>8, <1>9, <1>10, <1>11, <1>12, <1>13, <1>14
       DEF PreflightNext

-----------------------------------------------------------------------------
(* A clock that wraps. *)

\* The clock's next value, and how much later than `t` the clock's value `now` is.
Since(size, now, t) == (now + size - t) % size
Later(size, now) == (now + 1) % size

\* A time since is what it seems for as long as it is shorter than a turn of the clock.
LEMMA Turns ==
    ASSUME NEW size \in Nat \ {0}, NEW now \in 0 .. size - 1, NEW t \in 0 .. size - 1
    PROVE  /\ Since(size, now, t) = IF t <= now THEN now - t ELSE now + size - t
           /\ Since(size, now, t) \in 0 .. size - 1
           /\ Later(size, now) = IF now + 1 = size THEN 0 ELSE now + 1
           /\ Later(size, now) \in 0 .. size - 1
           /\ Since(size, Later(size, now), t) =
                 IF Since(size, now, t) + 1 = size THEN 0 ELSE Since(size, now, t) + 1
  <1> DEFINE at(x) == x % size
  <1>1. /\ \A x \in 0 .. size - 1 : at(x) = x
        /\ \A x \in size .. 2 * size - 1 : at(x) = x - size
    OBVIOUS
  <1>2. /\ \A n \in 0 .. size - 1 : Since(size, n, t) = at(n + size - t)
        /\ Later(size, now) = at(now + 1)
    BY DEF Since, Later
  <1> HIDE DEF at
  <1>3. \A n \in 0 .. size - 1 : Since(size, n, t) = IF t <= n THEN n - t ELSE n + size - t
    <2> SUFFICES ASSUME NEW n \in 0 .. size - 1
                 PROVE  Since(size, n, t) = IF t <= n THEN n - t ELSE n + size - t
      OBVIOUS
    <2>1. Since(size, n, t) = at(n + size - t)
      BY <1>2
    <2>2. CASE t <= n
      <3>1. n + size - t \in size .. 2 * size - 1
        BY <2>2
      <3> QED
        BY <1>1, <2>1, <2>2, <3>1
    <2>3. CASE ~(t <= n)
      <3>1. n + size - t \in 0 .. size - 1
        BY <2>3
      <3> QED
        BY <1>1, <2>1, <2>3, <3>1
    <2> QED
      BY <2>2, <2>3
  <1>4. Later(size, now) = IF now + 1 = size THEN 0 ELSE now + 1
    <2>1. CASE now + 1 = size
      BY <1>1, <1>2, <2>1
    <2>2. CASE now + 1 # size
      BY <1>1, <1>2, <2>2
    <2> QED
      BY <2>1, <2>2
  <1>5. Later(size, now) \in 0 .. size - 1
    BY <1>4
  <1>6. /\ Since(size, now, t) = IF t <= now THEN now - t ELSE now + size - t
        /\ Since(size, Later(size, now), t) =
              IF t <= Later(size, now) THEN Later(size, now) - t ELSE Later(size, now) + size - t
    BY <1>3, <1>5
  <1> QED
    BY <1>4, <1>5, <1>6

-----------------------------------------------------------------------------
(* MavlinkHandler: sessions, periods and answers. *)

\* What the link's clock says of the times it keeps.
LEMMA MavlinkClock ==
    ASSUME MavlinkTypeOK
    PROVE  /\ millis \in 0 .. MillisSize - 1 /\ MillisSize \in Nat \ {0}
           /\ \A t \in 0 .. MillisSize - 1 :
                 /\ MillisSince(t) = Since(MillisSize, millis, t)
                 /\ MillisSince(t) \in 0 .. MillisSize - 1
           /\ MillisSince(millis) = 0
  <1>1. millis \in 0 .. MillisSize - 1 /\ MillisSize \in Nat \ {0}
    BY MavlinkAssumption DEF MavlinkTypeOK
  <1>2. \A t \in 0 .. MillisSize - 1 : MillisSince(t) = Since(MillisSize, millis, t)
    BY DEF MillisSince, Since
  <1>3. \A t \in 0 .. MillisSize - 1 :
           /\ Since(MillisSize, millis, t) \in 0 .. MillisSize - 1
           /\ Since(MillisSize, millis, t) = IF t <= millis THEN millis - t ELSE millis + MillisSize - t
    BY ONLY <1>1, Turns
  <1>4. Since(MillisSize, millis, millis) = 0
    <2>1. millis \in Nat /\ millis <= millis /\ millis - millis = 0
      BY ONLY <1>1
    <2> QED
      BY ONLY <1>1, <1>3, <2>1
  <1> QED
    BY <1>1, <1>2, <1>3, <1>4

\* How many acknowledgements an answer holds.
LEMMA AnswersAcknowledge ==
    ASSUME NEW kind \in Commands, NEW reason \in BOOLEAN
    PROVE  Cardinality({i \in DOMAIN answer(kind, reason) : answer(kind, reason)[i] = "ack"}) = 1
  <1> DEFINE a == answer(kind, reason)
  <1>1. a \in {<<"version", "text", "ack">>, <<"ack">> \o <<"text">>, <<"ack">> \o <<>>, <<"ack">>}
    BY DEF answer
  <1>2. <<"ack">> \o <<"text">> = <<"ack", "text">> /\ <<"ack">> \o <<>> = <<"ack">>
    <2>1. <<"ack">> \in Seq({"ack", "text"}) /\ <<"text">> \in Seq({"ack", "text"})
      OBVIOUS
    <2>2. <<"ack">> \o <<>> = <<"ack">>
      BY <2>1, ConcatEmptySeq
    <2>3. /\ <<"ack">> \o <<"text">> \in Seq({"ack", "text"})
          /\ Len(<<"ack">> \o <<"text">>) = 2
          /\ (<<"ack">> \o <<"text">>)[1] = "ack" /\ (<<"ack">> \o <<"text">>)[2] = "text"
      BY <2>1, ConcatProperties
    <2>4. <<"ack", "text">> \in Seq({"ack", "text"}) /\ Len(<<"ack", "text">>) = 2
      OBVIOUS
    <2>5. \A i \in 1 .. 2 : (<<"ack">> \o <<"text">>)[i] = <<"ack", "text">>[i]
      BY <2>3
    <2> QED
      BY <2>2, <2>3, <2>4, <2>5, SeqEqual
  <1>3. CASE a = <<"version", "text", "ack">>
    <2>1. {i \in DOMAIN a : a[i] = "ack"} = {3}
      BY <1>3
    <2> QED
      BY <2>1, FS_Singleton
  <1>4. CASE a = <<"ack", "text">>
    <2>1. {i \in DOMAIN a : a[i] = "ack"} = {1}
      BY <1>4
    <2> QED
      BY <2>1, FS_Singleton
  <1>5. CASE a = <<"ack">>
    <2>1. {i \in DOMAIN a : a[i] = "ack"} = {1}
      BY <1>5
    <2> QED
      BY <2>1, FS_Singleton
  <1> QED
    BY <1>1, <1>2, <1>3, <1>4, <1>5

\* At the start there is no ground station, and the stream's period is one it may have.
LEMMA MavlinkStarts == MavlinkInit => MavlinkInv
  <1> SUFFICES ASSUME MavlinkInit PROVE MavlinkInv
    OBVIOUS
  <1>1. /\ MillisSize \in Nat /\ GcsTimeout \in Nat /\ UpdatePeriod \in Nat
        /\ MillisSize > 0 /\ UpdatePeriod > 0
        /\ StreamPeriods \subseteq Nat \ {0} /\ streamPeriod \in StreamPeriods
        /\ NoMessage.kind = "none"
    BY MavlinkAssumption DEF MavlinkInit, NoMessage
  <1>2. /\ millis = 0 /\ lastGcsBeat = 0 /\ lastStreamSent = 0 /\ sinceUpdate = 0
        /\ gcsSilence = MillisSize + GcsTimeout /\ sinceStream = 0 /\ versions = 0
        /\ Saturated = MillisSize + GcsTimeout
    BY DEF MavlinkInit, Saturated
  <1>3. ~updating /\ ~gcsAlive /\ ~sentVersion /\ ~early /\ asked = NoMessage
        /\ {updating, gcsAlive, sentVersion, early} \subseteq BOOLEAN
    BY DEF MavlinkInit
  <1>4. MavlinkTypeOK
    <2>1. /\ {millis, lastGcsBeat, lastStreamSent} \subseteq 0..(MillisSize - 1)
          /\ sinceUpdate \in 0..UpdatePeriod /\ {gcsSilence, sinceStream} \subseteq 0..Saturated
          /\ versions \in 0..2
      BY <1>1, <1>2
    <2> QED
      BY <1>1, <1>3, <2>1 DEF MavlinkTypeOK
  <1>5. GcsInv
    BY <1>1, <1>2, <1>3 DEF GcsInv
  <1>6. StreamInv
    <2>1. MillisSince(lastStreamSent) = 0
      BY <1>2, <1>4, MavlinkClock
    <2>2. sinceStream < streamPeriod + sinceUpdate
      BY <1>1, <1>2
    <2> QED
      BY <1>1, <1>2, <1>3, <2>1, <2>2 DEF StreamInv
  <1>7. GroundStationIsTracked /\ CommandsAreAcknowledged
    BY <1>1, <1>2, <1>3 DEF GroundStationIsTracked, CommandsAreAcknowledged
  <1>8. StreamsKeepTheirPeriod
    BY <1>1, <1>2, <1>3 DEF StreamsKeepTheirPeriod
  <1> QED
    BY <1>4, <1>5, <1>6, <1>7, <1>8 DEF MavlinkInv

\* The two invariants give the properties of the ground station and of the stream.
LEMMA MavlinkParts ==
    ASSUME MavlinkTypeOK, GcsInv, StreamInv
    PROVE  GroundStationIsTracked /\ StreamsKeepTheirPeriod
  <1>1. /\ GcsTimeout \in Nat /\ UpdatePeriod \in Nat /\ gcsSilence \in Nat /\ sinceUpdate \in Nat
        /\ sinceUpdate <= UpdatePeriod /\ sinceStream \in Nat /\ streamPeriod \in Nat
    BY MavlinkAssumption DEF MavlinkTypeOK, Saturated
  <1>2. gcsAlive => gcsSilence <= GcsTimeout + sinceUpdate /\ versions = 1
    BY DEF GcsInv
  <1>3. ~gcsAlive => gcsSilence > GcsTimeout
    BY DEF GcsInv
  <1>4. GroundStationIsTracked
    <2>1. gcsSilence <= GcsTimeout => gcsAlive
      BY <1>1, <1>3
    <2>2. gcsAlive => gcsSilence <= GcsTimeout + UpdatePeriod
      BY <1>1, <1>2
    <2> QED
      BY <1>2, <2>1, <2>2 DEF GroundStationIsTracked
  <1>5. StreamsKeepTheirPeriod
    <2>1. ~updating => sinceStream < streamPeriod + UpdatePeriod
      BY <1>1 DEF StreamInv
    <2> QED
      BY <2>1 DEF StreamInv, StreamsKeepTheirPeriod
  <1> QED
    BY <1>4, <1>5

\* The rest of an update looks at both ages before they can wrap.
LEMMA EndUpdateStep ==
    ASSUME MavlinkInv, endUpdate
    PROVE  MavlinkTypeOK' /\ GcsInv' /\ StreamInv'
  <1>1. MavlinkTypeOK /\ GcsInv /\ StreamInv
    BY DEF MavlinkInv
  <1>2. /\ updating /\ updating' = FALSE /\ checkGcs
        /\ asked' = NoMessage /\ sinceUpdate' = 0
        /\ UNCHANGED <<millis, lastGcsBeat, streamPeriod, gcsSilence>>
        /\ IF streamDue
             THEN lastStreamSent' = millis /\ sinceStream' = 0
                  /\ early' = (early \/ sinceStream < streamPeriod)
             ELSE UNCHANGED <<lastStreamSent, sinceStream, early>>
    BY DEF endUpdate
  <1>3. /\ {millis, lastGcsBeat, lastStreamSent} \subseteq 0..(MillisSize - 1)
        /\ {gcsAlive, sentVersion, early} \subseteq BOOLEAN
        /\ streamPeriod \in StreamPeriods /\ streamPeriod \in Nat \ {0}
        /\ {gcsSilence, sinceStream} \subseteq 0..Saturated /\ versions \in 0..2
        /\ GcsTimeout \in Nat /\ UpdatePeriod \in Nat /\ Saturated \in Nat /\ gcsSilence \in Nat
        /\ sinceStream \in Nat
    BY <1>1, MavlinkAssumption DEF MavlinkTypeOK, Saturated
  <1>4. \A t \in 0 .. MillisSize - 1 : MillisSince(t)' = MillisSince(t)
    BY <1>2 DEF MillisSince
  <1>5. /\ {gcsAlive', sentVersion'} \subseteq BOOLEAN /\ versions' \in 0..2
        /\ GcsInv'
    <2>1. CASE gcsAlive /\ MillisSince(lastGcsBeat) > GcsTimeout
      <3>1. gcsAlive' = FALSE /\ sentVersion' = FALSE /\ versions' = 0
        BY <1>2, <2>1 DEF checkGcs
      <3>2. gcsSilence > GcsTimeout
        BY <1>1, <2>1 DEF GcsInv
      <3>3. versions' \in 0 .. 2
        BY <3>1
      <3>4. GcsInv'
        BY <1>2, <3>1, <3>2 DEF GcsInv
      <3> QED
        BY <3>1, <3>3, <3>4
    <2>2. CASE ~(gcsAlive /\ MillisSince(lastGcsBeat) > GcsTimeout)
      <3>1. UNCHANGED <<gcsAlive, sentVersion, versions>>
        BY <1>2, <2>2 DEF checkGcs
      <3>2. gcsAlive => gcsSilence <= GcsTimeout + sinceUpdate'
        <4>1. gcsAlive => MillisSince(lastGcsBeat) = gcsSilence /\ ~(gcsSilence > GcsTimeout)
          BY <1>1, <2>2 DEF GcsInv
        <4> QED
          BY <1>2, <1>3, <4>1
      <3>3. MillisSince(lastGcsBeat)' = MillisSince(lastGcsBeat)
        BY <1>2 DEF MillisSince
      <3>4. GcsInv'
        BY <1>1, <1>2, <3>1, <3>2, <3>3 DEF GcsInv
      <3> QED
        BY <1>3, <3>1, <3>4
    <2> QED
      BY <2>1, <2>2
  <1>6. /\ {early'} \subseteq BOOLEAN /\ lastStreamSent' \in 0..(MillisSize - 1)
        /\ sinceStream' \in 0..Saturated /\ StreamInv'
    <2>1. MillisSince(lastStreamSent) = sinceStream /\ ~early
      BY <1>1 DEF StreamInv
    <2>2. CASE streamDue
      <3>1. ~(sinceStream < streamPeriod)
        BY <1>3, <2>1, <2>2 DEF streamDue
      <3>2. lastStreamSent' = millis /\ sinceStream' = 0 /\ early' = FALSE
        BY <1>2, <2>1, <2>2, <3>1
      <3>3. MillisSince(lastStreamSent)' = 0
        <4>1. MillisSince(lastStreamSent)' = MillisSince(millis)
          BY <1>2, <3>2 DEF MillisSince
        <4> QED
          BY <1>1, <4>1, MavlinkClock
      <3>4. sinceStream' < streamPeriod' + sinceUpdate' /\ streamPeriod' \in StreamPeriods
        BY <1>2, <1>3, <3>2
      <3>5. StreamInv'
        BY <3>2, <3>3, <3>4 DEF StreamInv
      <3>6. sinceStream' \in 0 .. Saturated /\ lastStreamSent' \in 0..(MillisSize - 1)
        BY <1>3, <3>2
      <3> QED
        BY <3>2, <3>5, <3>6
    <2>3. CASE ~streamDue
      <3>1. sinceStream < streamPeriod
        BY <1>3, <2>1, <2>3 DEF streamDue
      <3>2. UNCHANGED <<lastStreamSent, sinceStream, early>>
        BY <1>2, <2>3
      <3>3. sinceStream' < streamPeriod' + sinceUpdate' /\ streamPeriod' \in StreamPeriods
        BY <1>2, <1>3, <3>1, <3>2
      <3>4. MillisSince(lastStreamSent)' = sinceStream'
        BY <1>2, <2>1, <3>2 DEF MillisSince
      <3>5. StreamInv'
        BY <2>1, <3>2, <3>3, <3>4 DEF StreamInv
      <3> QED
        BY <1>3, <3>2, <3>5
    <2> QED
      BY <2>2, <2>3
  <1>7. MavlinkTypeOK'
    <2>1. sinceUpdate' \in 0 .. UpdatePeriod
      BY <1>2, <1>3
    <2> QED
      BY <1>2, <1>3, <1>5, <1>6, <2>1 DEF MavlinkTypeOK
  <1> QED
    BY <1>5, <1>6, <1>7

\* Time goes on only until the next update is due.
LEMMA MavlinkTickStep ==
    ASSUME MavlinkInv, MavlinkTick
    PROVE  MavlinkTypeOK' /\ GcsInv' /\ StreamInv'
  <1>1. MavlinkTypeOK /\ GcsInv /\ StreamInv
    BY DEF MavlinkInv
  <1>2. /\ sinceUpdate < UpdatePeriod /\ millis' = Later(MillisSize, millis)
        /\ sinceUpdate' = sinceUpdate + 1
        /\ gcsSilence' = OneMore(gcsSilence) /\ sinceStream' = OneMore(sinceStream)
        /\ UNCHANGED <<updating, linkVars, streamVars, answerVars, versions, early>>
    BY DEF MavlinkTick, Later
  <1>3. /\ millis \in 0..(MillisSize - 1) /\ lastGcsBeat \in 0..(MillisSize - 1)
        /\ lastStreamSent \in 0..(MillisSize - 1)
        /\ sinceUpdate \in Nat /\ UpdatePeriod \in Nat /\ GcsTimeout \in Nat /\ MillisSize \in Nat \ {0}
        /\ gcsSilence \in 0..Saturated /\ sinceStream \in 0..Saturated
        /\ Saturated = MillisSize + GcsTimeout
        /\ GcsTimeout + UpdatePeriod < MillisSize
        /\ \A p \in StreamPeriods : p \in Nat /\ p + UpdatePeriod < MillisSize
        /\ streamPeriod \in StreamPeriods
    BY <1>1, MavlinkAssumption DEF MavlinkTypeOK, Saturated
  <1>4. /\ OneMore(gcsSilence) = IF gcsSilence < Saturated THEN gcsSilence + 1 ELSE gcsSilence
        /\ OneMore(sinceStream) = IF sinceStream < Saturated THEN sinceStream + 1 ELSE sinceStream
    BY DEF OneMore
  <1>5. \A t \in 0 .. MillisSize - 1 :
           Since(MillisSize, millis', t) = IF MillisSince(t) + 1 = MillisSize THEN 0 ELSE MillisSince(t) + 1
    <2> TAKE t \in 0 .. MillisSize - 1
    <2>1. MillisSince(t) = Since(MillisSize, millis, t)
      BY <1>1, MavlinkClock
    <2>2. Since(MillisSize, Later(MillisSize, millis), t) =
            IF Since(MillisSize, millis, t) + 1 = MillisSize THEN 0 ELSE Since(MillisSize, millis, t) + 1
      BY ONLY <1>3, Turns
    <2> QED
      BY ONLY <1>2, <2>1, <2>2
  <1>6. /\ MillisSince(lastGcsBeat)' = Since(MillisSize, millis', lastGcsBeat)
        /\ MillisSince(lastStreamSent)' = Since(MillisSize, millis', lastStreamSent)
    BY <1>2 DEF MillisSince, Since, linkVars, streamVars
  <1>7. GcsInv'
    <2>1. CASE gcsAlive
      <3>1. /\ MillisSince(lastGcsBeat) = gcsSilence /\ gcsSilence <= GcsTimeout + sinceUpdate
            /\ sentVersion /\ versions = 1
        BY <1>1, <2>1 DEF GcsInv
      <3>2. gcsSilence + 1 < MillisSize /\ gcsSilence < Saturated
        BY <1>2, <1>3, <3>1
      <3>3. gcsSilence' = gcsSilence + 1 /\ MillisSince(lastGcsBeat)' = gcsSilence + 1
        BY <1>2, <1>3, <1>4, <1>5, <1>6, <3>1, <3>2
      <3>4. gcsSilence' <= GcsTimeout + sinceUpdate'
        BY <1>2, <1>3, <3>1, <3>3
      <3> QED
        BY <1>2, <2>1, <3>1, <3>3, <3>4 DEF GcsInv, linkVars
    <2>2. CASE ~gcsAlive
      <3>1. ~sentVersion /\ versions = 0 /\ gcsSilence > GcsTimeout
        BY <1>1, <2>2 DEF GcsInv
      <3>2. gcsSilence' > GcsTimeout
        BY <1>2, <1>3, <1>4, <3>1
      <3> QED
        BY <1>2, <2>2, <3>1, <3>2 DEF GcsInv, linkVars
    <2> QED
      BY <2>1, <2>2
  <1>8. StreamInv'
    <2>1. PICK p \in StreamPeriods : sinceStream < p + sinceUpdate
      BY <1>1 DEF StreamInv
    <2>2. MillisSince(lastStreamSent) = sinceStream /\ ~early
      BY <1>1 DEF StreamInv
    <2>3. sinceStream + 1 < MillisSize /\ sinceStream < Saturated
      BY <1>2, <1>3, <2>1
    <2>4. sinceStream' = sinceStream + 1 /\ MillisSince(lastStreamSent)' = sinceStream + 1
      BY <1>2, <1>3, <1>4, <1>5, <1>6, <2>2, <2>3
    <2>5. sinceStream' < p + sinceUpdate'
      BY <1>2, <1>3, <2>1, <2>4
    <2>6. ~updating => sinceStream' < streamPeriod + sinceUpdate'
      <3>1. ~updating => sinceStream < streamPeriod + sinceUpdate
        BY <1>1 DEF StreamInv
      <3> QED
        BY <1>2, <1>3, <2>4, <3>1
    <2> QED
      BY <1>2, <2>2, <2>4, <2>5, <2>6 DEF StreamInv, streamVars
  <1>9. MavlinkTypeOK'
    <2>1. millis' \in 0..(MillisSize - 1)
      BY <1>2, <1>3, Turns
    <2>2. sinceUpdate' \in 0 .. UpdatePeriod /\ gcsSilence' \in 0 .. Saturated
          /\ sinceStream' \in 0 .. Saturated
      BY ONLY <1>2, <1>3, <1>4
    <2> QED
      BY <1>1, <1>2, <2>1, <2>2 DEF MavlinkTypeOK, linkVars, streamVars, answerVars
  <1> QED
    BY <1>7, <1>8, <1>9

\* A session begins with a heartbeat and ends with the timeout; a command has its
\* answer at once.
LEMMA MavlinkStep == ASSUME MavlinkInv, [MavlinkNext]_mavVars PROVE MavlinkInv'
  <1> USE DEF linkVars, streamVars, answerVars, mavHistory
  <1>0. MavlinkTypeOK /\ GcsInv /\ StreamInv /\ CommandsAreAcknowledged
    BY DEF MavlinkInv
  <1>1. MavlinkTypeOK' /\ GcsInv' /\ StreamInv' /\ CommandsAreAcknowledged'
    <2>1. CASE beginUpdate
      <3>1. /\ ~updating /\ updating' = TRUE
            /\ UNCHANGED <<millis, linkVars, streamVars, answerVars, mavHistory>>
        BY <2>1 DEF beginUpdate
      <3>2. StreamInv'
        BY <1>0, <3>1 DEF StreamInv, MillisSince
      <3>3. MavlinkTypeOK' /\ GcsInv'
        BY <1>0, <3>1 DEF MavlinkTypeOK, GcsInv, MillisSince
      <3> QED
        BY <1>0, <3>1, <3>2, <3>3 DEF CommandsAreAcknowledged
    <2>2. CASE handleHeartbeat
      <3>1. /\ lastGcsBeat' = millis /\ gcsAlive' = TRUE /\ sentVersion' = TRUE
            /\ asked' = NoMessage /\ gcsSilence' = 0
            /\ versions' = IF sentVersion \/ versions = 2 THEN versions ELSE versions + 1
            /\ UNCHANGED <<millis, updating, streamVars, sinceUpdate, sinceStream, early>>
        BY <2>2 DEF handleHeartbeat
      <3>2. versions' = 1
        BY <1>0, <3>1 DEF GcsInv
      <3>3. MillisSince(lastGcsBeat)' = 0
        <4>1. MillisSince(lastGcsBeat)' = MillisSince(millis)
          BY <3>1 DEF MillisSince
        <4> QED
          BY <1>0, <4>1, MavlinkClock
      <3>4. /\ GcsTimeout \in Nat /\ sinceUpdate \in Nat /\ Saturated \in Nat
            /\ millis \in 0..(MillisSize - 1)
        BY <1>0, MavlinkAssumption DEF MavlinkTypeOK, Saturated
      <3>5. GcsInv'
        <4>1. gcsSilence' <= GcsTimeout + sinceUpdate'
          BY <3>1, <3>4
        <4> QED
          BY <3>1, <3>2, <3>3, <4>1 DEF GcsInv
      <3>6. StreamInv'
        BY <1>0, <3>1 DEF StreamInv, MillisSince
      <3>7. MavlinkTypeOK'
        <4>1. gcsSilence' \in 0 .. Saturated /\ versions' \in 0 .. 2
          BY <3>1, <3>2, <3>4
        <4> QED
          BY <1>0, <3>1, <3>4, <4>1 DEF MavlinkTypeOK
      <3> QED
        BY <3>1, <3>5, <3>6, <3>7 DEF CommandsAreAcknowledged
    <2>3. CASE handleCommandLong
      <3>1. UNCHANGED <<millis, updating, linkVars, streamVars, mavHistory>>
        BY <2>3 DEF handleCommandLong
      <3>2. PICK kind \in Commands, ours \in BOOLEAN, reason \in BOOLEAN :
              /\ asked' = [kind |-> kind, ours |-> ours]
              /\ replies' = IF ours THEN answer(kind, reason) ELSE <<>>
        BY <2>3 DEF handleCommandLong
      <3>3. MavlinkTypeOK'
        BY <1>0, <3>1, <3>2 DEF MavlinkTypeOK
      <3>4. GcsInv' /\ StreamInv'
        BY <1>0, <3>1 DEF GcsInv, StreamInv, MillisSince
      <3>5. CASE ours
        <4>1. replies' = answer(kind, reason) /\ asked'.ours
          BY <3>2, <3>5
        <4> QED
          BY <3>3, <3>4, <4>1, AnswersAcknowledge DEF CommandsAreAcknowledged
      <3>6. CASE ~ours
        <4>1. replies' = <<>> /\ ~asked'.ours
          BY <3>2, <3>6
        <4>2. {i \in DOMAIN replies' : replies'[i] = "ack"} = {}
          BY <4>1
        <4> QED
          BY <3>3, <3>4, <4>1, <4>2, FS_EmptySet DEF CommandsAreAcknowledged
      <3> QED
        BY <3>5, <3>6
    <2>4. CASE setStreamRates
      <3>1. /\ updating /\ streamPeriod' \in StreamPeriods /\ asked' = NoMessage
            /\ UNCHANGED <<millis, updating, linkVars, lastStreamSent, mavHistory>>
        BY <2>4 DEF setStreamRates
      <3>2. MavlinkTypeOK' /\ GcsInv'
        BY <1>0, <3>1 DEF MavlinkTypeOK, GcsInv, MillisSince
      <3>3. StreamInv'
        BY <1>0, <3>1 DEF StreamInv, MillisSince
      <3> QED
        BY <3>1, <3>2, <3>3 DEF CommandsAreAcknowledged
    <2>5. CASE endUpdate
      <3>1. asked' = NoMessage
        BY <2>5 DEF endUpdate
      <3> QED
        BY <2>5, <3>1, EndUpdateStep DEF CommandsAreAcknowledged
    <2>6. CASE MavlinkTick
      <3>1. CommandsAreAcknowledged'
        BY <1>0, <2>6 DEF MavlinkTick, CommandsAreAcknowledged
      <3> QED
        BY <2>6, <3>1, MavlinkTickStep
    <2>7. CASE UNCHANGED mavVars
      <3>1. MavlinkTypeOK' /\ GcsInv'
        BY <1>0, <2>7 DEF mavVars, MavlinkTypeOK, GcsInv, MillisSince
      <3>2. StreamInv' /\ CommandsAreAcknowledged'
        BY <1>0, <2>7 DEF mavVars, StreamInv, MillisSince, CommandsAreAcknowledged
      <3> QED
        BY <3>1, <3>2
    <2> QED
      BY <2>1, <2>2, <2>3, <2>4, <2>5, <2>6, <2>7 DEF MavlinkNext
  <1>2. (MavlinkTypeOK /\ GcsInv /\ StreamInv => GroundStationIsTracked /\ StreamsKeepTheirPeriod)'
    <2>1. MavlinkTypeOK /\ GcsInv /\ StreamInv => GroundStationIsTracked /\ StreamsKeepTheirPeriod
      BY MavlinkParts
    <2> QED
      BY MavlinkParts, PTL
  <1> QED
    BY <1>1, <1>2 DEF MavlinkInv

-----------------------------------------------------------------------------
(* RuntimeHealthReporter: what the ground was last told of the receiver. *)

\* A set that holds 0 and with each number the next one holds them all.
LEMMA CountingUp ==
    ASSUME NEW n \in Nat, NEW P, 0 \in P, \A k \in 0 .. n - 1 : k \in P => k + 1 \in P
    PROVE  \A k \in 0 .. n : k \in P
  <1> DEFINE T == {k \in 0 .. n : k \notin P}
  <1> SUFFICES ASSUME T # {} PROVE FALSE
    OBVIOUS
  <1>1. \E x \in T : \A y \in T : ~ (<<y, x>> \in OpToRel(<, Nat))
    <2>1. T \subseteq Nat
      OBVIOUS
    <2> HIDE DEF T
    <2> QED
      BY <2>1, WFMin, NatLessThanWellFounded
  <1>2. \A x, y \in Nat : y < x => <<y, x>> \in OpToRel(<, Nat)
    BY DEF OpToRel
  <1>3. \A x \in T : x \in Nat
    OBVIOUS
  <1>4. \E x \in T : \A y \in T : ~(y < x)
    <2> HIDE DEF T
    <2> QED
      BY ONLY <1>1, <1>2, <1>3, Zenon
  <1>5. PICK x \in T : \A y \in T : ~(y < x)
    BY <1>4
  <1>6. x \in 0 .. n /\ x # 0 /\ x \notin P
    BY <1>5
  <1>7. x - 1 \in 0 .. n - 1 /\ x - 1 < x /\ (x - 1) + 1 = x /\ x - 1 \in 0 .. n
    BY ONLY <1>6, n \in Nat
  <1>8. x - 1 \in P
    BY <1>5, <1>7
  <1> QED
    BY <1>6, <1>7, <1>8

\* The loop over the events: what holds after each of them follows from what held
\* before it.
LEMMA EventsInOrder ==
    ASSUME NEW now, Len(events) \in Nat
    PROVE  \E after : /\ after[0] = now
                      /\ \A n \in 1 .. Len(events) : after[n] = takeEvent(after[n - 1], events[n])
                      /\ reportSystemEvents(now) = after[Len(events)]
  <1> DEFINE L == Len(events)
  <1> DEFINE take(old, n) == takeEvent(old, events[n])
  <1> DEFINE unfold(g, n) == [k \in 0 .. n |-> IF k = 0 THEN now ELSE take(g[k - 1], k)]
  <1>1. \A n \in 0 .. L : n \in {k \in 0 .. L : \E g : g = unfold(g, k)}
    <2> DEFINE P == {k \in 0 .. L : \E g : g = unfold(g, k)}
    <2>1. 0 \in P
      <3> DEFINE g == [k \in 0 .. 0 |-> now]
      <3>1. g = unfold(g, 0)
        <4> HIDE DEF take
        <4> QED
          OBVIOUS
      <3>2. \E f : f = unfold(f, 0)
        <4> HIDE DEF unfold, g
        <4> QED
          BY <3>1
      <3>3. 0 \in 0 .. L
        OBVIOUS
      <3> HIDE DEF unfold
      <3> QED
        BY <3>2, <3>3
    <2>2. ASSUME NEW n \in 0 .. L - 1, n \in P PROVE n + 1 \in P
      <3>1. PICK g : g = unfold(g, n)
        BY <2>2
      <3> DEFINE h == [k \in 0 .. n + 1 |-> IF k = n + 1 THEN take(g[n], n + 1) ELSE g[k]]
      <3>2. \A k \in 0 .. n : g[k] = IF k = 0 THEN now ELSE take(g[k - 1], k)
        <4> HIDE DEF take
        <4> QED
          BY <3>1
      <3>3. \A k \in 0 .. n + 1 : h[k] = IF k = 0 THEN now ELSE take(h[k - 1], k)
        <4> SUFFICES ASSUME NEW k \in 0 .. n + 1
                     PROVE  h[k] = IF k = 0 THEN now ELSE take(h[k - 1], k)
          OBVIOUS
        <4> HIDE DEF take
        <4>1. CASE k = n + 1
          BY <4>1
        <4>2. CASE k \in 0 .. n
          BY <3>2, <4>2
        <4> QED
          BY <4>1, <4>2
      <3>4. h = unfold(h, n + 1)
        <4> HIDE DEF take
        <4> QED
          BY <3>3
      <3>5. \E f : f = unfold(f, n + 1)
        <4> HIDE DEF unfold, h
        <4> QED
          BY <3>4
      <3>6. n + 1 \in 0 .. L
        OBVIOUS
      <3> HIDE DEF unfold
      <3> QED
        BY <3>5, <3>6
    <2> HIDE DEF P
    <2> QED
      BY <2>1, <2>2, CountingUp DEF P
  <1>2. \E g : g = unfold(g, L)
    BY <1>1
  <1> DEFINE c == CHOOSE g : g = unfold(g, L)
  <1>3. c = unfold(c, L)
    <2> HIDE DEF unfold
    <2> QED
      BY <1>2
  <1>4. reportSystemEvents(now) = c[Len(events)]
    BY DEF reportSystemEvents
  <1> HIDE DEF c
  <1>5. c[0] = now /\ \A n \in 1 .. Len(events) : c[n] = take(c[n - 1], n)
    <2> HIDE DEF take
    <2> QED
      BY <1>3
  <1> QED
    BY <1>4, <1>5

\* What the report knows of the receiver: a loss that is latched has been told.
News == [latched : BOOLEAN, told : {"none", "lost", "ok"}]
Sound(now) == now \in News /\ (now.latched => now.told = "lost")

\* What telling one event does to what was told last.
LEMMA OneEvent ==
    ASSUME NEW now, Sound(now), NEW event \in RcEvents \cup {"other"}
    PROVE  /\ Sound(takeEvent(now, event))
           /\ event = "RcLost" => takeEvent(now, event).latched
           /\ event = "other" => takeEvent(now, event) = now
  BY DEF Sound, News, RcEvents, takeEvent

\* A loss that was announced has been told once the events are taken.
LEMMA AllEvents ==
    ASSUME NEW now, Sound(now), events \in Seq(RcEvents \cup {"other"})
    PROVE  /\ Sound(reportSystemEvents(now))
           /\ LossIsLast => reportSystemEvents(now).told = "lost"
           /\ (\A j \in DOMAIN events : events[j] = "other") => reportSystemEvents(now) = now
  <1>1. /\ Len(events) \in Nat /\ DOMAIN events = 1 .. Len(events)
        /\ \A n \in 1 .. Len(events) : events[n] \in RcEvents \cup {"other"}
    BY LenProperties
  <1>2. PICK after : /\ after[0] = now
                     /\ \A n \in 1 .. Len(events) : after[n] = takeEvent(after[n - 1], events[n])
                     /\ reportSystemEvents(now) = after[Len(events)]
    BY <1>1, EventsInOrder
  <1>3. \A k \in 0 .. Len(events) - 1 :
           /\ k + 1 \in 1 .. Len(events)
           /\ events[k + 1] \in RcEvents \cup {"other"}
           /\ after[k + 1] = takeEvent(after[k], events[k + 1])
    <2> TAKE k \in 0 .. Len(events) - 1
    <2>1. k + 1 \in 1 .. Len(events) /\ (k + 1) - 1 = k
      BY <1>1
    <2> QED
      BY <1>1, <1>2, <2>1
  <1>4. \A k \in 0 .. Len(events) : Sound(after[k])
    <2> DEFINE P == {k \in 0 .. Len(events) : Sound(after[k])}
    <2>1. 0 \in P
      BY <1>1, <1>2
    <2>2. ASSUME NEW k \in 0 .. Len(events) - 1, k \in P PROVE k + 1 \in P
      <3>1. Sound(after[k + 1])
        BY <1>3, <2>2, OneEvent
      <3> QED
        BY <1>1, <3>1
    <2>3. \A k \in 0 .. Len(events) : k \in P
      <3> HIDE DEF P
      <3> QED
        BY <1>1, <2>1, <2>2, CountingUp
    <2> QED
      BY <2>3
  <1>5. ASSUME LossIsLast PROVE reportSystemEvents(now).told = "lost"
    <2>1. PICK i \in 1 .. Len(events) : /\ events[i] = "RcLost"
                                        /\ \A j \in i + 1 .. Len(events) : events[j] = "other"
      BY <1>1, <1>5 DEF LossIsLast
    <2> DEFINE P == {k \in 0 .. Len(events) : k >= i => after[k].latched}
    <2>2. 0 \in P
      BY <1>1, <2>1
    <2>3. ASSUME NEW k \in 0 .. Len(events) - 1, k \in P PROVE k + 1 \in P
      <3>1. Sound(after[k])
        BY <1>1, <1>4
      <3>2. CASE k + 1 < i
        BY <1>1, <2>1, <3>2
      <3>3. CASE k + 1 = i
        <4>1. takeEvent(after[k], events[k + 1]).latched
          BY <1>3, <2>1, <3>1, <3>3, OneEvent
        <4> QED
          BY <1>1, <1>3, <4>1
      <3>4. CASE k + 1 > i
        <4>1. k + 1 \in i + 1 .. Len(events) /\ k >= i
          BY <1>1, <2>1, <3>4
        <4>2. after[k].latched
          BY <2>3, <4>1
        <4>3. takeEvent(after[k], events[k + 1]) = after[k]
          BY <1>3, <2>1, <3>1, <4>1, OneEvent
        <4> QED
          BY <1>1, <1>3, <4>2, <4>3
      <3> QED
        BY <1>1, <2>1, <3>2, <3>3, <3>4
    <2>4. \A k \in 0 .. Len(events) : k \in P
      <3> HIDE DEF P
      <3> QED
        BY <1>1, <2>2, <2>3, CountingUp
    <2>5. after[Len(events)].latched /\ Sound(after[Len(events)])
      BY <1>1, <1>4, <2>1, <2>4
    <2> QED
      BY <1>2, <2>5 DEF Sound
  <1>6. ASSUME \A j \in DOMAIN events : events[j] = "other" PROVE reportSystemEvents(now) = now
    <2> DEFINE P == {k \in 0 .. Len(events) : after[k] = now}
    <2>1. 0 \in P
      BY <1>1, <1>2
    <2>2. ASSUME NEW k \in 0 .. Len(events) - 1, k \in P PROVE k + 1 \in P
      <3>1. events[k + 1] = "other" /\ Sound(after[k]) /\ after[k] = now
        BY <1>1, <1>3, <1>6, <2>2
      <3>2. after[k + 1] = now
        BY <1>3, <3>1, OneEvent
      <3> QED
        BY <1>1, <3>2
    <2>3. \A k \in 0 .. Len(events) : k \in P
      <3> HIDE DEF P
      <3> QED
        BY <1>1, <2>1, <2>2, CountingUp
    <2> QED
      BY <1>1, <1>2, <2>3
  <1>7. Sound(reportSystemEvents(now))
    BY <1>1, <1>2, <1>4
  <1> QED
    BY <1>5, <1>6, <1>7

\* At the start nothing is announced and the bus is empty.
LEMMA ReporterStarts == ReporterInit => ReporterInv
  <1> SUFFICES ASSUME ReporterInit PROVE ReporterInv
    OBVIOUS
  <1>1. ReporterTypeOK
    <2>1. events \in Seq({"RcLost", "RcRecovered", "other"}) /\ Len(events) <= EventRoom
      BY EventRoomAssumption DEF ReporterInit
    <2> QED
      BY <2>1 DEF ReporterInit, ReporterTypeOK
  <1>2. NewsInv /\ RcNewsIsTrue
    BY DEF ReporterInit, NewsInv, RcNewsIsTrue
  <1> QED
    BY <1>1, <1>2 DEF ReporterInit, ReporterInv

\* A whole report: the events first, then the preflight result, which keeps a loss
\* that has been told.
LEMMA RunStep == ASSUME ReporterInv, run PROVE ReporterInv'
  <1>1. ReporterTypeOK /\ NewsInv /\ RcNewsIsTrue /\ {rcFirst, fresh, announced} \subseteq BOOLEAN
    BY DEF ReporterInv
  <1> DEFINE old == [latched |-> rcSignalInvalidLatched, told |-> told]
  <1> DEFINE taken == reportSystemEvents(old)
  <1>2. PICK first \in {"sensor", "RC", "none", "later"} :
          /\ rcSignalInvalidLatched' = judge(taken, first).latched
          /\ told' = judge(taken, first).told
          /\ rcFirst' = (first = "RC")
    BY DEF run, firstFailures, reportReceiver
  <1>3. fresh' = TRUE /\ UNCHANGED <<receiverOk, rcFailsafe, updateRcAt, rcNeeded, announced>>
    BY DEF run, rcVars
  <1>4. Sound(old) /\ events \in Seq(RcEvents \cup {"other"})
    <2>1. RcEvents \cup {"other"} = {"RcLost", "RcRecovered", "other"}
      BY DEF RcEvents
    <2>2. events \in Seq({"RcLost", "RcRecovered", "other"})
      BY <1>1 DEF ReporterTypeOK
    <2>3. Sound(old)
      BY <1>1 DEF ReporterTypeOK, RcNewsIsTrue, Sound, News
    <2> QED
      BY <2>1, <2>2, <2>3
  <1>5. /\ Sound(taken)
        /\ LossIsLast => taken.told = "lost"
        /\ (\A j \in DOMAIN events : events[j] = "other") => taken = old
    BY <1>4, AllEvents
  <1>6. announced => rcFailsafe /\ taken.told = "lost"
    BY <1>1, <1>5 DEF NewsInv
  <1> HIDE DEF taken
  <1>7. /\ Sound(judge(taken, first))
        /\ first = "RC" => judge(taken, first).told = "lost"
        /\ taken.told = "lost" => judge(taken, first).told = "lost"
    BY <1>5 DEF judge, Sound, News
  <1>8. /\ rcSignalInvalidLatched' \in BOOLEAN /\ told' \in {"none", "lost", "ok"}
        /\ rcSignalInvalidLatched' => told' = "lost"
        /\ rcFirst' => told' = "lost"
        /\ announced => told' = "lost"
    BY <1>2, <1>6, <1>7 DEF Sound, News
  <1>9. /\ batteryWarningLatched' \in BOOLEAN
        /\ \E n \in 0 .. EventRoom : events' = [i \in 1 .. n |-> "other"]
    <2>1. PICK b \in {"none", "good", "bad"}, others \in 0..2 :
            LET warnings == others + (IF b = "bad" /\ ~batteryWarningLatched THEN 1 ELSE 0)
            IN /\ batteryWarningLatched' = (b = "bad" \/ (b = "none" /\ batteryWarningLatched))
               /\ events' = [i \in 1..(IF warnings < EventRoom THEN warnings ELSE EventRoom) |-> "other"]
      BY DEF run, reportHealth
    <2> DEFINE warnings == others + (IF b = "bad" /\ ~batteryWarningLatched THEN 1 ELSE 0)
    <2> DEFINE n == IF warnings < EventRoom THEN warnings ELSE EventRoom
    <2>2. n \in 0 .. EventRoom
      BY EventRoomAssumption
    <2>3. events' = [i \in 1 .. n |-> "other"]
      BY <2>1
    <2>4. batteryWarningLatched' \in BOOLEAN
      BY <2>1
    <2> HIDE DEF n
    <2> QED
      BY <2>2, <2>3, <2>4
  <1>10. PICK n \in 0 .. EventRoom : events' = [i \in 1 .. n |-> "other"]
    BY <1>9
  <1>11. /\ events' \in Seq({"RcLost", "RcRecovered", "other"}) /\ Len(events') <= EventRoom
         /\ \A j \in DOMAIN events' : events'[j] = "other"
    <2>1. n \in Nat /\ n <= EventRoom
      BY EventRoomAssumption
    <2>2. events' \in [1 .. n -> {"RcLost", "RcRecovered", "other"}]
      BY <1>10
    <2>3. events' \in Seq({"RcLost", "RcRecovered", "other"}) /\ Len(events') = n
      BY <2>1, <2>2
    <2> QED
      BY <1>10, <2>1, <2>3
  <1>12. ReporterTypeOK'
    BY <1>1, <1>3, <1>8, <1>9, <1>11 DEF ReporterTypeOK
  <1>13. NewsInv'
    BY <1>3, <1>6, <1>8, <1>11 DEF NewsInv
  <1>14. RcNewsIsTrue'
    BY <1>3, <1>8 DEF RcNewsIsTrue
  <1> QED
    BY <1>1, <1>2, <1>3, <1>12, <1>13, <1>14 DEF ReporterInv

\* An event goes behind those on the bus; only the bus decides whether a loss counts
\* as announced.
LEMMA ReporterStep == ASSUME ReporterInv, [ReporterNext]_reporterVars PROVE ReporterInv'
  <1> USE DEF rcVars, latchedVars
  <1>0. /\ ReporterTypeOK /\ NewsInv /\ RcNewsIsTrue /\ {rcFirst, fresh, announced} \subseteq BOOLEAN
        /\ events \in Seq({"RcLost", "RcRecovered", "other"}) /\ Len(events) <= EventRoom
        /\ Len(events) \in Nat /\ DOMAIN events = 1 .. Len(events) /\ EventRoom \in Nat
    <2>1. ReporterTypeOK /\ NewsInv /\ RcNewsIsTrue /\ {rcFirst, fresh, announced} \subseteq BOOLEAN
      BY DEF ReporterInv
    <2>2. events \in Seq({"RcLost", "RcRecovered", "other"}) /\ Len(events) <= EventRoom
      BY <2>1 DEF ReporterTypeOK
    <2> QED
      BY <2>1, <2>2, LenProperties, EventRoomAssumption
  <1>1. CASE receive
    BY <1>0, <1>1 DEF receive, ReporterInv, ReporterTypeOK, NewsInv, LossIsLast, RcNewsIsTrue
  <1>2. CASE storeRcState
    <2>1. /\ rcFailsafe' = ~receiverOk /\ announced' = (announced /\ rcFailsafe') /\ fresh' = FALSE
          /\ updateRcAt' = IF rcFailsafe' # rcFailsafe THEN "changed" ELSE "idle"
          /\ UNCHANGED <<receiverOk, rcNeeded, events, latchedVars, rcFirst>>
      BY <1>2 DEF storeRcState
    <2>2. ReporterTypeOK'
      BY <1>0, <2>1 DEF ReporterTypeOK
    <2>3. NewsInv' /\ RcNewsIsTrue'
      BY <1>0, <2>1 DEF NewsInv, LossIsLast, RcNewsIsTrue
    <2> QED
      BY <1>0, <2>1, <2>2, <2>3 DEF ReporterInv
  <1>3. CASE publishRcEvent
    <2> DEFINE e == IF rcFailsafe THEN "RcLost" ELSE "RcRecovered"
    <2>1. /\ updateRcAt' = "idle" /\ fresh' = FALSE
          /\ events' = IF hasRoom THEN Append(events, e) ELSE events
          /\ announced' = (rcFailsafe /\ hasRoom)
          /\ UNCHANGED <<receiverOk, rcFailsafe, rcNeeded, latchedVars, rcFirst>>
      BY <1>3 DEF publishRcEvent
    <2>2. CASE hasRoom
      <3>1. /\ events' \in Seq({"RcLost", "RcRecovered", "other"})
            /\ Len(events') = Len(events) + 1 /\ events'[Len(events) + 1] = e
        BY <1>0, <2>1, <2>2, AppendProperties
      <3>2. Len(events') <= EventRoom
        BY <1>0, <2>2, <3>1 DEF hasRoom
      <3>3. ReporterTypeOK'
        BY <1>0, <2>1, <3>1, <3>2 DEF ReporterTypeOK
      <3>4. announced' => LossIsLast'
        <4>1. /\ DOMAIN events' = 1 .. Len(events) + 1
              /\ Len(events) + 1 \in 1 .. Len(events) + 1
              /\ (Len(events) + 1) + 1 .. Len(events') = {}
          BY <1>0, <3>1, LenProperties
        <4> QED
          BY <2>1, <3>1, <4>1 DEF LossIsLast
      <3>5. announced' \in BOOLEAN /\ (announced' => rcFailsafe')
        BY <2>1
      <3>6. NewsInv' /\ RcNewsIsTrue'
        BY <1>0, <2>1, <3>4, <3>5 DEF NewsInv, RcNewsIsTrue
      <3> QED
        BY <1>0, <2>1, <3>3, <3>5, <3>6 DEF ReporterInv
    <2>3. CASE ~hasRoom
      <3>1. announced' = FALSE /\ events' = events
        BY <2>1, <2>3
      <3>2. ReporterTypeOK'
        BY <1>0, <2>1, <3>1 DEF ReporterTypeOK
      <3>3. NewsInv' /\ RcNewsIsTrue'
        BY <1>0, <2>1, <3>1 DEF NewsInv, RcNewsIsTrue
      <3> QED
        BY <1>0, <2>1, <3>1, <3>2, <3>3 DEF ReporterInv
    <2> QED
      BY <2>2, <2>3
  <1>4. CASE publishOtherEvent
    <2>1. /\ hasRoom /\ events' = Append(events, "other")
          /\ UNCHANGED <<rcVars, rcNeeded, latchedVars, rcFirst, fresh, announced>>
      BY <1>4 DEF publishOtherEvent
    <2>2. /\ events' \in Seq({"RcLost", "RcRecovered", "other"})
          /\ Len(events') = Len(events) + 1 /\ events'[Len(events) + 1] = "other"
          /\ \A i \in 1 .. Len(events) : events'[i] = events[i]
      BY <1>0, <2>1, AppendProperties
    <2>3. /\ DOMAIN events' = 1 .. Len(events') /\ Len(events') <= EventRoom
          /\ \A i \in 1 .. Len(events') : i \in 1 .. Len(events) \/ i = Len(events) + 1
          /\ \A i \in 1 .. Len(events) : i \in 1 .. Len(events')
      BY <1>0, <2>1, <2>2, LenProperties DEF hasRoom
    <2>4. ReporterTypeOK'
      BY <1>0, <2>1, <2>2, <2>3 DEF ReporterTypeOK
    <2>5. LossIsLast => LossIsLast'
      <3> SUFFICES ASSUME LossIsLast PROVE LossIsLast'
        OBVIOUS
      <3>1. PICK i \in 1 .. Len(events) : /\ events[i] = "RcLost"
                                          /\ \A j \in i + 1 .. Len(events) : events[j] = "other"
        BY <1>0 DEF LossIsLast
      <3>2. ASSUME NEW j \in i + 1 .. Len(events') PROVE events'[j] = "other"
        <4>1. (j \in i + 1 .. Len(events) /\ j \in 1 .. Len(events)) \/ j = Len(events) + 1
          BY <1>0, <2>2, <3>1
        <4> QED
          BY <2>2, <3>1, <4>1
      <3> QED
        BY <2>2, <2>3, <3>1, <3>2 DEF LossIsLast
    <2>6. (\A j \in DOMAIN events : events[j] = "other") => \A j \in DOMAIN events' : events'[j] = "other"
      BY <1>0, <2>2, <2>3
    <2>7. NewsInv' /\ RcNewsIsTrue'
      BY <1>0, <2>1, <2>5, <2>6 DEF NewsInv, RcNewsIsTrue
    <2> QED
      BY <1>0, <2>1, <2>4, <2>7 DEF ReporterInv
  <1>5. CASE run
    BY <1>5, RunStep
  <1>6. CASE setRcNeeded
    BY <1>0, <1>6 DEF setRcNeeded, ReporterInv, ReporterTypeOK, NewsInv, LossIsLast, RcNewsIsTrue
  <1>7. CASE UNCHANGED reporterVars
    <2>1. ReporterTypeOK'
      BY <1>0, <1>7 DEF reporterVars, ReporterTypeOK
    <2>2. NewsInv' /\ RcNewsIsTrue'
      BY <1>0, <1>7 DEF reporterVars, NewsInv, LossIsLast, RcNewsIsTrue
    <2> QED
      BY <1>0, <1>7, <2>1, <2>2 DEF reporterVars, ReporterInv
  <1> QED
    BY <1>1, <1>2, <1>3, <1>4, <1>5, <1>6, <1>7 DEF ReporterNext

-----------------------------------------------------------------------------
(* StatusThrottle: a trouble that lasts is told again, and not too soon. *)

SlotTable == [1..SlotCount -> [text : Texts \cup {NoText}, lastSentMs : 0..(ThrottleClock - 1)]]

\* No text has two slots.
OneSlotEach(slots) == \A t \in Texts : \A j, k \in Holding(slots, t) : j = k

\* What is assumed of the throttle's times and texts.
LEMMA ThrottleNumbers ==
    /\ SlotCount \in Nat /\ ThrottleClock \in Nat \ {0} /\ RepeatTime \in Nat /\ RepeatTime > 0
    /\ ReportPeriod \in Nat /\ ReportPeriod > 0
    /\ Longest = RepeatTime + ReportPeriod /\ Longest < ThrottleClock
    /\ FailureTexts \cap FaultTexts = {} /\ NoText \notin Texts
  BY ThrottleAssumption DEF Longest

\* The throttle's clock turns as any clock does.
LEMMA ThrottleTurns ==
    ASSUME NEW now \in 0 .. ThrottleClock - 1
    PROVE  \A t \in 0 .. ThrottleClock - 1 :
              /\ Since(ThrottleClock, now, t) = IF t <= now THEN now - t ELSE now + ThrottleClock - t
              /\ Since(ThrottleClock, now, t) \in 0 .. ThrottleClock - 1
              /\ Later(ThrottleClock, now) \in 0 .. ThrottleClock - 1
              /\ Since(ThrottleClock, Later(ThrottleClock, now), t) =
                    IF Since(ThrottleClock, now, t) + 1 = ThrottleClock THEN 0
                    ELSE Since(ThrottleClock, now, t) + 1
  <1>1. ThrottleClock \in Nat \ {0} /\ now \in 0 .. ThrottleClock - 1
    BY ThrottleNumbers
  <1> QED
    BY ONLY <1>1, Turns

\* A slot's age is the time since it was written, as the clock shows it.
LEMMA Ages ==
    ASSUME throttleMillis \in 0 .. ThrottleClock - 1
    PROVE  \A slot : slot.lastSentMs \in 0 .. ThrottleClock - 1 =>
              /\ Age(slot) = Since(ThrottleClock, throttleMillis, slot.lastSentMs)
              /\ Age(slot) \in 0 .. ThrottleClock - 1
              /\ slot.lastSentMs = throttleMillis => Age(slot) = 0
  <1> TAKE slot
  <1> HAVE slot.lastSentMs \in 0 .. ThrottleClock - 1
  <1>1. Age(slot) = Since(ThrottleClock, throttleMillis, slot.lastSentMs)
    BY DEF Age, Since
  <1>2. /\ Since(ThrottleClock, throttleMillis, slot.lastSentMs) \in 0 .. ThrottleClock - 1
        /\ Since(ThrottleClock, throttleMillis, slot.lastSentMs) =
              IF slot.lastSentMs <= throttleMillis THEN throttleMillis - slot.lastSentMs
                                                   ELSE throttleMillis + ThrottleClock - slot.lastSentMs
    BY ThrottleTurns
  <1>3. slot.lastSentMs = throttleMillis => Age(slot) = 0
    BY ThrottleNumbers, <1>1, <1>2
  <1> QED
    BY <1>1, <1>2, <1>3

\* Sending one text writes its own slot, or at most one other, and no other text gains
\* a slot by it.
LEMMA OneSending ==
    ASSUME NEW slots \in SlotTable, OneSlotEach(slots), NEW text \in Texts \cup {NoText},
           throttleMillis \in 0 .. ThrottleClock - 1
    PROVE  LET put == sendStatusTextThrottled(slots, text)
           IN  /\ put \in SlotTable /\ OneSlotEach(put)
               /\ ~sends(slots, text) => put = slots
               /\ sends(slots, text) =>
                    /\ text \in Texts
                    /\ \A k \in Holding(put, text) : put[k].lastSentMs = throttleMillis
               /\ \A t \in Texts \ {text} : \A k \in Holding(put, t) :
                     k \in Holding(slots, t) /\ put[k] = slots[k]
  <1> DEFINE put == sendStatusTextThrottled(slots, text)
  <1> DEFINE new == [text |-> text, lastSentMs |-> throttleMillis]
  <1>1. CASE ~sends(slots, text)
    <2>1. put = slots
      BY <1>1 DEF sendStatusTextThrottled
    <2> QED
      BY <1>1, <2>1
  <1>2. CASE sends(slots, text)
    <2>1. text \in Texts
      BY <1>2 DEF sends
    <2> DEFINE p == slotFor(slots, text)
    <2>2. put = [slots EXCEPT ![p] = new]
      BY <1>2 DEF sendStatusTextThrottled
    <2> HIDE DEF put
    <2>3. Holding(slots, text) \subseteq {p}
      <3>1. CASE Holding(slots, text) = {}
        BY <3>1
      <3>2. CASE Holding(slots, text) # {}
        <4>1. PICK k0 : k0 \in Holding(slots, text)
          BY <3>2
        <4>2. Holding(slots, text) = {k0} /\ k0 \in 1 .. SlotCount
          BY <2>1, <4>1 DEF OneSlotEach, Holding, SlotTable
        <4>3. k0 \in {k0} /\ \A j \in {k0} : k0 <= j
          BY <4>2, ThrottleNumbers
        <4>4. Least({k0}) = k0
          BY <4>3 DEF Least
        <4> QED
          BY <3>2, <4>2, <4>4 DEF slotFor
      <3> QED
        BY <3>1, <3>2
    <2> HIDE DEF p
    <2>4. /\ put \in SlotTable /\ DOMAIN put = DOMAIN slots
          /\ \A k \in DOMAIN slots : put[k] = IF k = p THEN new ELSE slots[k]
      <3>1. DOMAIN slots = 1 .. SlotCount
        BY DEF SlotTable
      <3>2. new \in [text : Texts \cup {NoText}, lastSentMs : 0 .. ThrottleClock - 1]
        OBVIOUS
      <3> HIDE DEF new
      <3> QED
        BY <2>2, <3>1, <3>2 DEF SlotTable
    <2>5. Holding(put, text) \subseteq {p}
      BY <2>3, <2>4 DEF Holding
    <2>6. \A k \in Holding(put, text) : put[k].lastSentMs = throttleMillis
      BY <2>4, <2>5 DEF Holding
    <2>7. ASSUME NEW t \in Texts \ {text}, NEW k \in Holding(put, t)
          PROVE  k \in Holding(slots, t) /\ put[k] = slots[k]
      BY <2>4, <2>7 DEF Holding
    <2>8. OneSlotEach(put)
      BY <2>5, <2>7 DEF OneSlotEach
    <2> QED
      BY <1>2, <2>1, <2>4, <2>6, <2>7, <2>8 DEF put
  <1> QED
    BY <1>1, <1>2

\* At the start every slot is free and no text waits.
LEMMA ThrottleStarts == ThrottleInit => ThrottleInv
  <1> SUFFICES ASSUME ThrottleInit PROVE ThrottleInv
    OBVIOUS
  <1> USE ThrottleNumbers DEF ThrottleInit
  <1>1. Longest \in 0 .. Longest /\ 0 \in 0 .. ReportPeriod /\ 0 \in 0 .. ThrottleClock - 1
    OBVIOUS
  <1>2. ThrottleTypeOK /\ tooEarly \in BOOLEAN
    BY <1>1 DEF ThrottleTypeOK, Free
  <1>3. \A t \in Texts : Holding(statusThrottleSlots, t) = {}
    BY DEF Holding, Free
  <1>4. SlotsInv
    BY <1>3 DEF SlotsInv
  <1>5. \A t \in Texts : waiting[t] = 0 /\ waiting[t] <= sinceReport
    OBVIOUS
  <1>6. WaitingInv
    BY <1>5 DEF WaitingInv
  <1>7. \A t \in Texts : waiting[t] <= RepeatTime + 2 * ReportPeriod
    BY <1>5
  <1>8. TroubleIsRepeated
    BY <1>7 DEF TroubleIsRepeated
  <1> QED
    BY <1>2, <1>4, <1>6, <1>8 DEF ThrottleInv

\* Whichever way a text waits, it does not wait for long.
LEMMA WaitingEnds ==
    ASSUME ThrottleTypeOK, WaitingInv, ~tooEarly
    PROVE  TroubleIsRepeated
  <1>1. ASSUME NEW t \in Texts PROVE waiting[t] <= RepeatTime + 2 * ReportPeriod
    <2>1. /\ sinceReport \in 0 .. ReportPeriod /\ waiting[t] \in Nat
          /\ throttleMillis \in 0 .. ThrottleClock - 1 /\ statusThrottleSlots \in SlotTable
      BY <1>1 DEF ThrottleTypeOK, WaitingInv, SlotTable
    <2>2. CASE waiting[t] <= sinceReport
      BY <2>1, <2>2, ThrottleNumbers
    <2>3. ASSUME NEW k \in Holding(statusThrottleSlots, t),
                 Age(statusThrottleSlots[k]) < RepeatTime + sinceReport,
                 waiting[t] <= Age(statusThrottleSlots[k]) + ReportPeriod
          PROVE  waiting[t] <= RepeatTime + 2 * ReportPeriod
      <3>1. statusThrottleSlots[k].lastSentMs \in 0 .. ThrottleClock - 1
        BY <2>1 DEF SlotTable, Holding
      <3>2. Age(statusThrottleSlots[k]) \in Nat
        BY <2>1, <3>1, Ages, ThrottleNumbers
      <3> QED
        BY <2>1, <2>3, <3>2, ThrottleNumbers
    <2>4. CASE waiting[t] < RepeatTime + ReportPeriod + sinceReport
      BY <2>1, <2>4, ThrottleNumbers
    <2> QED
      BY <2>2, <2>3, <2>4 DEF WaitingInv
  <1> QED
    BY <1>1 DEF TroubleIsRepeated

\* A text of the report that is not sent was sent a short while ago; it keeps its slot
\* or loses it to the report's other text.
LEMMA ReportStep ==
    ASSUME ThrottleInv, reportStatus
    PROVE  ThrottleTypeOK' /\ SlotsInv' /\ WaitingInv' /\ ~tooEarly'
  <1> DEFINE slots == statusThrottleSlots
  <1>1. /\ throttleMillis \in 0 .. ThrottleClock - 1 /\ slots \in SlotTable
        /\ sinceReport \in 0 .. ReportPeriod /\ sinceSent \in [Texts -> 0 .. Longest]
        /\ waiting \in [Texts -> Nat] /\ ~tooEarly /\ OneSlotEach(slots)
        /\ SlotsInv /\ WaitingInv
    BY DEF ThrottleInv, ThrottleTypeOK, SlotTable, WaitingInv, TroubleIsRepeated, SlotsInv, OneSlotEach
  <1>2. PICK failure \in FailureTexts \cup {NoText}, fault \in FaultTexts \cup {NoText} :
          LET after == sendStatusTextThrottled(statusThrottleSlots, failure)
              sent == (IF sends(statusThrottleSlots, failure) THEN {failure} ELSE {})
                      \cup (IF sends(after, fault) THEN {fault} ELSE {})
              evicted == {fault} \cap {t \in Texts : Holding(after, t) = {}}
          IN /\ statusThrottleSlots' = sendStatusTextThrottled(after, fault)
             /\ waiting' = [t \in Texts |-> IF t \in {failure, fault} \ sent THEN waiting[t] ELSE 0]
             /\ sinceSent' = [t \in Texts |->
                   IF Holding(statusThrottleSlots', t) = {} THEN Longest
                   ELSE IF t \in sent THEN 0 ELSE sinceSent[t]]
             /\ tooEarly' = (tooEarly \/ \E t \in sent : sinceSent[t] < RepeatTime /\ t \notin evicted)
    BY DEF reportStatus
  <1>3. sinceReport' = 0 /\ throttleMillis' = throttleMillis
    BY DEF reportStatus
  <1> DEFINE after == sendStatusTextThrottled(slots, failure)
  <1> DEFINE final == sendStatusTextThrottled(after, fault)
  <1> DEFINE first == sends(slots, failure)
  <1> DEFINE second == sends(after, fault)
  <1> DEFINE sent == (IF first THEN {failure} ELSE {}) \cup (IF second THEN {fault} ELSE {})
  <1>4. /\ after \in SlotTable /\ OneSlotEach(after)
        /\ ~first => after = slots
        /\ first => failure \in Texts /\ \A k \in Holding(after, failure) : after[k].lastSentMs = throttleMillis
        /\ \A t \in Texts \ {failure} : \A k \in Holding(after, t) :
              k \in Holding(slots, t) /\ after[k] = slots[k]
    <2>1. failure \in Texts \cup {NoText}
      BY DEF Texts
    <2> QED
      BY <1>1, <2>1, OneSending
  <1>5. /\ final \in SlotTable /\ OneSlotEach(final)
        /\ ~second => final = after
        /\ second => fault \in Texts /\ \A k \in Holding(final, fault) : final[k].lastSentMs = throttleMillis
        /\ \A t \in Texts \ {fault} : \A k \in Holding(final, t) :
              k \in Holding(after, t) /\ final[k] = after[k]
    <2>1. fault \in Texts \cup {NoText}
      BY DEF Texts
    <2> HIDE DEF after
    <2> QED
      BY <1>1, <1>4, <2>1, OneSending
  <1>6. /\ statusThrottleSlots' = final
        /\ waiting' = [t \in Texts |-> IF t \in {failure, fault} \ sent THEN waiting[t] ELSE 0]
        /\ sinceSent' = [t \in Texts |-> IF Holding(final, t) = {} THEN Longest
                                         ELSE IF t \in sent THEN 0 ELSE sinceSent[t]]
    BY <1>2
  <1>7. tooEarly' = (tooEarly \/ \E t \in sent : /\ sinceSent[t] < RepeatTime
                                                 /\ t \notin {fault} \cap {u \in Texts : Holding(after, u) = {}})
    BY <1>2
  <1>8. /\ first => \A k \in Holding(slots, failure) : ~(Age(slots[k]) < RepeatTime)
        /\ second => \A k \in Holding(after, fault) : ~(Age(after[k]) < RepeatTime)
        /\ ~first /\ failure \in Texts => \E k \in Holding(slots, failure) : Age(slots[k]) < RepeatTime
        /\ ~second /\ fault \in Texts => \E k \in Holding(after, fault) : Age(after[k]) < RepeatTime
    BY ThrottleNumbers DEF sends, recent
  <1>9. failure # fault \/ failure \notin Texts
    BY ThrottleNumbers DEF Texts
  <1>10. \A k, t : Age(slots[k])' = Age(final[k])
    BY <1>3, <1>6 DEF Age
  <1> HIDE DEF after, final, first, second
  <1>11. ASSUME NEW t \in Texts, t \notin sent
         PROVE  \A k \in Holding(final, t) : k \in Holding(slots, t) /\ final[k] = slots[k]
    <2>1. \A k \in Holding(final, t) : k \in Holding(after, t) /\ final[k] = after[k]
      BY <1>5, <1>11
    <2>2. \A k \in Holding(after, t) : k \in Holding(slots, t) /\ after[k] = slots[k]
      BY <1>4, <1>11
    <2> QED
      BY <2>1, <2>2
  <1>12. ASSUME NEW t \in Texts, t \in sent
         PROVE  \A k \in Holding(final, t) : Age(final[k]) = 0
    <2>1. \A k \in Holding(final, t) : final[k].lastSentMs = throttleMillis
      <3>1. CASE t = fault /\ second
        BY <1>5, <3>1
      <3>2. CASE t = failure /\ first
        <4>1. t # fault
          BY <1>9, <3>2
        <4> QED
          BY <1>4, <1>5, <3>2, <4>1
      <3> QED
        BY <1>12, <3>1, <3>2
    <2> QED
      BY <1>1, <2>1, Ages
  <1>13. ThrottleTypeOK'
    <2>1. sinceSent' \in [Texts -> 0 .. Longest]
      <3>1. Longest \in 0 .. Longest /\ 0 \in 0 .. Longest
        BY ThrottleNumbers
      <3> QED
        BY <1>1, <1>6, <3>1
    <2>2. sinceReport' \in 0 .. ReportPeriod
      BY <1>3, ThrottleNumbers
    <2> QED
      BY <1>1, <1>3, <1>5, <1>6, <2>1, <2>2 DEF ThrottleTypeOK, SlotTable
  <1>14. SlotsInv'
    <2>1. \A t \in Texts : \A j, k \in Holding(final, t) : j = k
      BY <1>5 DEF OneSlotEach
    <2>2. ASSUME NEW t \in Texts, NEW k \in Holding(final, t), sinceSent'[t] < Longest
          PROVE  Age(final[k]) = sinceSent'[t]
      <3>1. CASE t \in sent
        BY <1>6, <1>12, <2>2, <3>1
      <3>2. CASE t \notin sent
        <4>1. k \in Holding(slots, t) /\ final[k] = slots[k] /\ sinceSent'[t] = sinceSent[t]
          BY <1>6, <1>11, <2>2, <3>2
        <4> QED
          BY <1>1, <2>2, <4>1 DEF SlotsInv
      <3> QED
        BY <3>1, <3>2
    <2>3. \A t \in Texts : Holding(final, t) = {} => sinceSent'[t] = Longest
      BY <1>6
    <2>4. \A t \in Texts : \A k \in Holding(final, t) : Age(statusThrottleSlots[k])' = Age(final[k])
      BY <1>10
    <2>5. \A t \in Texts : Holding(statusThrottleSlots, t)' = Holding(final, t)
      BY <1>6 DEF Holding
    <2> QED
      BY <2>1, <2>2, <2>3, <2>4, <2>5 DEF SlotsInv
  <1>15. ~tooEarly'
    <2> SUFFICES ASSUME NEW t \in sent, sinceSent[t] < RepeatTime,
                        t \notin {fault} \cap {u \in Texts : Holding(after, u) = {}}
                 PROVE  FALSE
      BY <1>1, <1>7
    <2>1. t \in Texts
      BY <1>4, <1>5
    <2>2. /\ sinceSent[t] \in Nat /\ sinceSent[t] < Longest /\ sinceSent[t] # Longest
      BY <1>1, <2>1, ThrottleNumbers
    <2>3. /\ Holding(slots, t) # {}
          /\ \A k \in Holding(slots, t) : Age(slots[k]) < RepeatTime
      BY <1>1, <2>1, <2>2 DEF SlotsInv
    <2>4. CASE t = failure /\ first
      BY <1>8, <2>3, <2>4
    <2>5. CASE t = fault /\ second
      <3>1. PICK k : k \in Holding(after, t)
        BY <2>1, <2>5
      <3>2. t # failure
        BY <1>9, <2>1, <2>5
      <3>3. k \in Holding(slots, t) /\ after[k] = slots[k]
        BY <1>4, <2>1, <3>1, <3>2
      <3> QED
        BY <1>8, <2>3, <2>5, <3>1, <3>3
    <2> QED
      BY <2>4, <2>5
  <1>16. WaitingInv'
    <2>1. waiting' \in [Texts -> Nat]
      BY <1>1, <1>6
    <2>2. \A t \in Texts : Holding(statusThrottleSlots, t)' = Holding(final, t)
      BY <1>6 DEF Holding
    <2>3. ASSUME NEW t \in Texts
          PROVE  \/ waiting'[t] = 0
                 \/ \E k \in Holding(final, t) : /\ Age(final[k]) < RepeatTime
                                                 /\ waiting'[t] <= Age(final[k]) + ReportPeriod
                 \/ Holding(final, t) = {} /\ waiting'[t] < RepeatTime + ReportPeriod
      <3>1. CASE t \notin {failure, fault} \ sent
        BY <1>6, <3>1
      <3>2. CASE t \in {failure, fault} \ sent
        <4>1. waiting'[t] = waiting[t] /\ waiting[t] \in Nat
          BY <1>1, <1>6, <3>2
        <4>2. PICK k0 \in Holding(slots, t) : Age(slots[k0]) < RepeatTime
          <5>1. CASE t = failure
            <6>1. ~first
              BY <3>2, <5>1
            <6> QED
              BY <1>8, <5>1, <6>1
          <5>2. CASE t = fault /\ t # failure
            <6>1. ~second
              BY <3>2, <5>2
            <6>2. PICK k \in Holding(after, t) : Age(after[k]) < RepeatTime
              BY <1>8, <5>2, <6>1
            <6> QED
              BY <1>4, <5>2, <6>2
          <5> QED
            BY <3>2, <5>1, <5>2
        <4>3. Age(slots[k0]) \in Nat
          <5>1. slots[k0].lastSentMs \in 0 .. ThrottleClock - 1
            BY <1>1, <4>2 DEF SlotTable, Holding
          <5> QED
            BY <1>1, <5>1, Ages, ThrottleNumbers
        <4>4. waiting[t] <= Age(slots[k0]) + ReportPeriod
          <5>1. CASE waiting[t] <= sinceReport
            BY <1>1, <4>1, <4>3, <5>1, ThrottleNumbers
          <5>2. ASSUME NEW k \in Holding(slots, t), waiting[t] <= Age(slots[k]) + ReportPeriod
                PROVE  waiting[t] <= Age(slots[k0]) + ReportPeriod
            <6>1. k = k0
              BY <1>1, <4>2, <5>2 DEF OneSlotEach
            <6> QED
              BY <5>2, <6>1
          <5> QED
            BY <1>1, <4>2, <5>1, <5>2 DEF WaitingInv
        <4>5. CASE k0 \in Holding(final, t)
          <5>1. final[k0] = slots[k0]
            BY <1>11, <3>2, <4>5
          <5> QED
            BY <4>1, <4>2, <4>4, <4>5, <5>1
        <4>6. CASE k0 \notin Holding(final, t)
          <5>1. Holding(final, t) = {}
            BY <1>1, <1>11, <3>2, <4>2, <4>6 DEF OneSlotEach
          <5>2. waiting[t] < RepeatTime + ReportPeriod
            BY <4>1, <4>2, <4>3, <4>4, ThrottleNumbers
          <5> QED
            BY <4>1, <5>1, <5>2
        <4> QED
          BY <4>5, <4>6
      <3> QED
        BY <3>1, <3>2
    <2>4. ASSUME NEW t \in Texts
          PROVE  \/ waiting'[t] <= sinceReport'
                 \/ \E k \in Holding(final, t) :
                       /\ Age(final[k]) < RepeatTime + sinceReport'
                       /\ waiting'[t] <= Age(final[k]) + ReportPeriod
                 \/ /\ Holding(final, t) = {}
                    /\ waiting'[t] < RepeatTime + ReportPeriod + sinceReport'
      <3>1. /\ RepeatTime + sinceReport' = RepeatTime
            /\ RepeatTime + ReportPeriod + sinceReport' = RepeatTime + ReportPeriod
            /\ waiting'[t] = 0 => waiting'[t] <= sinceReport'
        BY <1>3, ThrottleNumbers
      <3> QED
        BY <2>3, <3>1
    <2>5. \A t \in Texts : \A k \in Holding(final, t) : Age(statusThrottleSlots[k])' = Age(final[k])
      BY <1>10
    <2> QED
      BY <2>1, <2>2, <2>4, <2>5 DEF WaitingInv
  <1> QED
    BY <1>13, <1>14, <1>15, <1>16

\* Time goes on only until the next report, and no age that matters wraps by then.
LEMMA ThrottleTickStep ==
    ASSUME ThrottleInv, ThrottleTick
    PROVE  ThrottleTypeOK' /\ SlotsInv' /\ WaitingInv' /\ ~tooEarly'
  <1> DEFINE slots == statusThrottleSlots
  <1>1. /\ throttleMillis \in 0 .. ThrottleClock - 1 /\ slots \in SlotTable
        /\ sinceReport \in Nat /\ sinceSent \in [Texts -> 0 .. Longest]
        /\ waiting \in [Texts -> Nat] /\ ~tooEarly /\ SlotsInv /\ WaitingInv
    BY ThrottleNumbers DEF ThrottleInv, ThrottleTypeOK, SlotTable, WaitingInv, TroubleIsRepeated
  <1>2. /\ sinceReport < ReportPeriod /\ throttleMillis' = Later(ThrottleClock, throttleMillis)
        /\ sinceReport' = sinceReport + 1
        /\ waiting' = [t \in Texts |-> waiting[t] + 1]
        /\ sinceSent' = [t \in Texts |-> IF sinceSent[t] < Longest THEN sinceSent[t] + 1 ELSE Longest]
        /\ statusThrottleSlots' = statusThrottleSlots /\ tooEarly' = tooEarly
    BY DEF ThrottleTick, Later
  <1>3. ASSUME NEW t \in Texts, NEW k \in Holding(slots, t)
        PROVE  /\ Age(slots[k]) \in 0 .. ThrottleClock - 1
               /\ Age(slots[k]) + 1 < ThrottleClock => Age(slots[k])' = Age(slots[k]) + 1
    <2>1. slots[k].lastSentMs \in 0 .. ThrottleClock - 1
      BY <1>1, <1>3 DEF SlotTable, Holding
    <2>2. /\ Age(slots[k]) = Since(ThrottleClock, throttleMillis, slots[k].lastSentMs)
          /\ Age(slots[k]) \in 0 .. ThrottleClock - 1
      BY <1>1, <2>1, Ages
    <2>3. Age(slots[k])' = Since(ThrottleClock, throttleMillis', slots[k].lastSentMs)
      BY <1>2 DEF Age, Since
    <2>4. Since(ThrottleClock, Later(ThrottleClock, throttleMillis), slots[k].lastSentMs) =
             IF Since(ThrottleClock, throttleMillis, slots[k].lastSentMs) + 1 = ThrottleClock THEN 0
             ELSE Since(ThrottleClock, throttleMillis, slots[k].lastSentMs) + 1
      BY <1>1, <2>1, ThrottleTurns
    <2> QED
      BY <1>2, <2>2, <2>3, <2>4, ThrottleNumbers
  <1>4. \A t \in Texts : Holding(statusThrottleSlots, t)' = Holding(slots, t)
    BY <1>2 DEF Holding
  <1>5. ThrottleTypeOK'
    <2>1. throttleMillis' \in 0 .. ThrottleClock - 1
      BY <1>1, <1>2, ThrottleNumbers, Turns
    <2>2. sinceReport' \in 0 .. ReportPeriod
      BY <1>1, <1>2, ThrottleNumbers
    <2>3. sinceSent' \in [Texts -> 0 .. Longest]
      <3>1. \A n \in 0 .. Longest : (IF n < Longest THEN n + 1 ELSE Longest) \in 0 .. Longest
        BY ThrottleNumbers
      <3> QED
        BY <1>1, <1>2, <3>1
    <2> QED
      BY <1>1, <1>2, <2>1, <2>2, <2>3 DEF ThrottleTypeOK, SlotTable
  <1>6. SlotsInv'
    <2>1. ASSUME NEW t \in Texts, NEW k \in Holding(slots, t), sinceSent'[t] < Longest
          PROVE  Age(statusThrottleSlots[k])' = sinceSent'[t]
      <3>1. sinceSent[t] \in 0 .. Longest
        BY <1>1, <2>1
      <3>2. sinceSent[t] + 1 < Longest /\ sinceSent'[t] = sinceSent[t] + 1
        BY <1>2, <2>1, <3>1, ThrottleNumbers
      <3>3. Age(slots[k]) = sinceSent[t]
        BY <1>1, <2>1, <3>1, <3>2, ThrottleNumbers DEF SlotsInv
      <3>4. Age(slots[k]) + 1 < ThrottleClock
        BY <3>1, <3>2, <3>3, ThrottleNumbers
      <3> QED
        BY <1>3, <2>1, <3>2, <3>3, <3>4
    <2>2. ASSUME NEW t \in Texts, Holding(slots, t) = {} PROVE sinceSent'[t] = Longest
      <3>1. sinceSent[t] = Longest
        BY <1>1, <2>2 DEF SlotsInv
      <3> QED
        BY <1>2, <2>2, <3>1, ThrottleNumbers
    <2>3. \A t \in Texts : \A j, k \in Holding(slots, t) : j = k
      BY <1>1 DEF SlotsInv
    <2> QED
      BY <1>4, <2>1, <2>2, <2>3 DEF SlotsInv
  <1>7. WaitingInv'
    <2>1. waiting' \in [Texts -> Nat]
      BY <1>1, <1>2
    <2>2. ASSUME NEW t \in Texts
          PROVE  \/ waiting'[t] <= sinceReport'
                 \/ \E k \in Holding(slots, t) :
                       /\ Age(statusThrottleSlots[k])' < RepeatTime + sinceReport'
                       /\ waiting'[t] <= Age(statusThrottleSlots[k])' + ReportPeriod
                 \/ /\ Holding(slots, t) = {}
                    /\ waiting'[t] < RepeatTime + ReportPeriod + sinceReport'
      <3>1. waiting[t] \in Nat /\ waiting'[t] = waiting[t] + 1
        BY <1>1, <1>2, <2>2
      <3>2. CASE waiting[t] <= sinceReport
        BY <1>1, <1>2, <3>1, <3>2
      <3>3. ASSUME NEW k \in Holding(slots, t), Age(slots[k]) < RepeatTime + sinceReport,
                   waiting[t] <= Age(slots[k]) + ReportPeriod
            PROVE  /\ Age(statusThrottleSlots[k])' < RepeatTime + sinceReport'
                   /\ waiting'[t] <= Age(statusThrottleSlots[k])' + ReportPeriod
        <4>1. Age(slots[k]) \in Nat
          BY <1>3, <2>2, <3>3, ThrottleNumbers
        <4>2. Age(slots[k]) + 1 < ThrottleClock
          BY <1>1, <1>2, <3>3, <4>1, ThrottleNumbers
        <4>3. Age(slots[k])' = Age(slots[k]) + 1
          BY <1>3, <2>2, <3>3, <4>2
        <4> QED
          BY <1>1, <1>2, <3>1, <3>3, <4>1, <4>3, ThrottleNumbers
      <3>4. CASE Holding(slots, t) = {} /\ waiting[t] < RepeatTime + ReportPeriod + sinceReport
        BY <1>1, <1>2, <3>1, <3>4, ThrottleNumbers
      <3>5. \/ waiting[t] <= sinceReport
            \/ \E k \in Holding(slots, t) : /\ Age(slots[k]) < RepeatTime + sinceReport
                                            /\ waiting[t] <= Age(slots[k]) + ReportPeriod
            \/ Holding(slots, t) = {} /\ waiting[t] < RepeatTime + ReportPeriod + sinceReport
        BY <1>1 DEF WaitingInv
      <3> QED
        BY <3>2, <3>3, <3>4, <3>5
    <2> QED
      BY <1>4, <2>1, <2>2 DEF WaitingInv
  <1> QED
    BY <1>1, <1>2, <1>5, <1>6, <1>7

\* Every step keeps the throttle's invariant.
LEMMA ThrottleStep == ASSUME ThrottleInv, [ThrottleNext]_throttleVars PROVE ThrottleInv'
  <1>1. ThrottleTypeOK' /\ SlotsInv' /\ WaitingInv' /\ ~tooEarly' /\ tooEarly' \in BOOLEAN
    <2>1. CASE reportStatus
      BY <2>1, ReportStep DEF reportStatus
    <2>2. CASE ThrottleTick
      BY <2>2, ThrottleTickStep DEF ThrottleTick, ThrottleInv
    <2>3. CASE UNCHANGED throttleVars
      <3>1. ThrottleTypeOK /\ SlotsInv /\ WaitingInv /\ ~tooEarly /\ tooEarly \in BOOLEAN
        BY DEF ThrottleInv, TroubleIsRepeated
      <3>2. ThrottleTypeOK' /\ ~tooEarly' /\ tooEarly' \in BOOLEAN
        BY <2>3, <3>1 DEF throttleVars, ThrottleTypeOK
      <3>3. SlotsInv' /\ WaitingInv'
        BY <2>3, <3>1 DEF throttleVars, SlotsInv, WaitingInv, Holding, Age
      <3> QED
        BY <3>2, <3>3
    <2> QED
      BY <2>1, <2>2, <2>3 DEF ThrottleNext
  <1>2. (ThrottleTypeOK /\ WaitingInv /\ ~tooEarly => TroubleIsRepeated)'
    <2>1. ThrottleTypeOK /\ WaitingInv /\ ~tooEarly => TroubleIsRepeated
      BY WaitingEnds
    <2> QED
      BY WaitingEnds, PTL
  <1> QED
    BY <1>1, <1>2 DEF ThrottleInv

-----------------------------------------------------------------------------
(* WatchdogGate: a stalled vehicle is reset and a healthy one is not. *)

\* What is assumed of the times.
LEMMA DogNumbers ==
    /\ DogClockSize \in Nat \ {0} /\ GatePeriod \in Nat /\ StaleAge \in Nat /\ DogTimeout \in Nat
    /\ BootTime \in Nat /\ Worst \in Nat /\ GatePeriod >= 1
    /\ StaleAge > GatePeriod /\ GatePeriod <= BootTime
    /\ BootTime + 3 * GatePeriod < DogTimeout
    /\ StaleAge + 2 * DogTimeout < DogClockSize
    /\ StaleAge + 2 * DogTimeout < Worst
  BY WatchdogAssumption

\* The watchdog's clock turns as any clock does.
LEMMA DogTurns ==
    ASSUME NEW now \in 0 .. DogClockSize - 1
    PROVE  /\ Later(DogClockSize, now) = IF now + 1 = DogClockSize THEN 0 ELSE now + 1
           /\ Later(DogClockSize, now) \in 0 .. DogClockSize - 1
           /\ \A t \in 0 .. DogClockSize - 1 :
                 /\ Since(DogClockSize, now, t) = IF t <= now THEN now - t ELSE now + DogClockSize - t
                 /\ Since(DogClockSize, now, t) \in 0 .. DogClockSize - 1
                 /\ Since(DogClockSize, Later(DogClockSize, now), t) =
                       IF Since(DogClockSize, now, t) + 1 = DogClockSize THEN 0
                       ELSE Since(DogClockSize, now, t) + 1
  <1>1. DogClockSize \in Nat \ {0} /\ now \in 0 .. DogClockSize - 1
    BY DogNumbers
  <1>2. 0 \in 0 .. DogClockSize - 1
    BY <1>1
  <1> QED
    BY ONLY <1>1, <1>2, Turns

\* What the clock says of now itself and of the time 0, and of two times of which the
\* one is the older.
LEMMA DogTimes ==
    ASSUME NEW now \in 0 .. DogClockSize - 1
    PROVE  /\ Since(DogClockSize, now, now) = 0
           /\ Since(DogClockSize, now, 0) = now
           /\ \A t, u \in 0 .. DogClockSize - 1 :
                 Since(DogClockSize, now, t) <= Since(DogClockSize, now, u) =>
                    Since(DogClockSize, t, u) = Since(DogClockSize, now, u) - Since(DogClockSize, now, t)
  <1>1. DogClockSize \in Nat \ {0} /\ now \in 0 .. DogClockSize - 1 /\ 0 \in 0 .. DogClockSize - 1
    BY DogNumbers
  <1>2. \A n, t \in 0 .. DogClockSize - 1 :
           Since(DogClockSize, n, t) = IF t <= n THEN n - t ELSE n + DogClockSize - t
    BY DogTurns
  <1>3. Since(DogClockSize, now, now) = 0 /\ Since(DogClockSize, now, 0) = now
    BY ONLY <1>1, <1>2
  <1>4. ASSUME NEW t \in 0 .. DogClockSize - 1, NEW u \in 0 .. DogClockSize - 1,
               Since(DogClockSize, now, t) <= Since(DogClockSize, now, u)
        PROVE  Since(DogClockSize, t, u) = Since(DogClockSize, now, u) - Since(DogClockSize, now, t)
    BY ONLY <1>1, <1>2, <1>4
  <1> QED
    BY <1>3, <1>4

\* What the types say, and the clock as the proofs use it.
LEMMA DogClock ==
    ASSUME DogTypeOK
    PROVE  /\ micros \in 0 .. DogClockSize - 1 /\ heartbeat \in 0 .. DogClockSize - 1
           /\ lastRunUs \in 0 .. DogClockSize - 1 /\ loaded \in 0 .. DogClockSize - 1
           /\ 0 \in 0 .. DogClockSize - 1
           /\ dogAge \in Nat /\ dogAge <= DogTimeout /\ silent \in Nat /\ silent <= Worst
           /\ idle \in Nat /\ idle <= GatePeriod + 1 /\ steady \in Nat /\ steady <= Worst
           /\ excused \in {0, 1, 2}
           /\ \A t : Elapsed(t) = Since(DogClockSize, micros, t)
           /\ \A t \in 0 .. DogClockSize - 1 : Elapsed(t) \in Nat
           /\ Elapsed(micros) = 0 /\ Elapsed(0) = micros
  <1>1. /\ micros \in 0 .. DogClockSize - 1 /\ heartbeat \in 0 .. DogClockSize - 1
        /\ lastRunUs \in 0 .. DogClockSize - 1 /\ loaded \in 0 .. DogClockSize - 1
    BY DEF DogTypeOK
  <1>2. \A t : Elapsed(t) = Since(DogClockSize, micros, t)
    BY DEF Elapsed, Since
  <1>3. /\ \A t \in 0 .. DogClockSize - 1 : Since(DogClockSize, micros, t) \in 0 .. DogClockSize - 1
        /\ Since(DogClockSize, micros, micros) = 0 /\ Since(DogClockSize, micros, 0) = micros
    BY <1>1, DogTurns, DogTimes
  <1>4. \A n \in 0 .. DogClockSize - 1 : n \in Nat
    BY DogNumbers
  <1>5. /\ 0 \in 0 .. DogClockSize - 1
        /\ dogAge \in Nat /\ dogAge <= DogTimeout /\ silent \in Nat /\ silent <= Worst
        /\ idle \in Nat /\ idle <= GatePeriod + 1 /\ steady \in Nat /\ steady <= Worst
        /\ excused \in {0, 1, 2}
    BY DogNumbers DEF DogTypeOK
  <1> QED
    BY <1>1, <1>2, <1>3, <1>4, <1>5

\* The vehicle starts with every time at its start.
LEMMA DogStarts == DogInit => DogInv
  <1> SUFFICES ASSUME DogInit PROVE DogInv
    OBVIOUS
  <1>1. /\ gate = "boot" /\ micros = GatePeriod /\ heartbeat = 0 /\ is_running = FALSE
        /\ lastRunUs = 0 /\ loaded = 0 /\ dogAge = 0 /\ silent = 0 /\ idle = 0 /\ steady = Worst
        /\ excused = 0 /\ overtaken = FALSE /\ clockFirst \in BOOLEAN
    BY DEF DogInit
  <1>2. /\ {GatePeriod, 0} \subseteq 0 .. DogClockSize - 1 /\ 0 \in 0 .. DogTimeout
        /\ {0, Worst} \subseteq 0 .. Worst /\ 0 \in 0 .. (GatePeriod + 1) /\ 0 \in 0 .. 2
        /\ 0 <= StaleAge + DogTimeout + 0 /\ 0 <= BootTime /\ GatePeriod = GatePeriod + 0
        /\ ~(0 >= 1) /\ 0 # DogTimeout /\ 0 <= 0 /\ 0 <= StaleAge + 2 * DogTimeout
    BY DogNumbers
  <1>3. DogTypeOK
    BY <1>1, <1>2, Zenon DEF DogTypeOK
  <1>4. HeartbeatInv
    BY <1>1, <1>2, Zenon DEF HeartbeatInv
  <1>5. LookInv
    BY <1>1 DEF LookInv
  <1>6. GateInv
    BY <1>1, <1>2 DEF GateInv
  <1>7. InTimeInv
    BY <1>1, <1>2 DEF InTimeInv
  <1>8. HealthyIsNotReset /\ StalledIsReset
    BY <1>1, <1>2 DEF HealthyIsNotReset, StalledIsReset
  <1> QED
    BY <1>3, <1>4, <1>5, <1>6, <1>7, <1>8 DEF DogInv

\* The bounds of the ages give the two properties.
LEMMA DogParts ==
    ASSUME DogTypeOK, HeartbeatInv, GateInv, InTimeInv
    PROVE  HealthyIsNotReset /\ StalledIsReset
  <1>1. StalledIsReset
    <2>1. silent <= StaleAge + DogTimeout + dogAge
      BY DEF HeartbeatInv
    <2> QED
      BY <2>1, DogNumbers, DogClock DEF StalledIsReset
  <1>2. HealthyIsNotReset
    <2> SUFFICES ASSUME dogAge = DogTimeout, steady >= DogTimeout, excused # 2
                 PROVE  FALSE
      BY DogNumbers, DogClock DEF HealthyIsNotReset
    <2>1. steady >= dogAge
      OBVIOUS
    <2>2. CASE gate = "boot"
      <3>1. dogAge <= BootTime
        BY <2>2 DEF GateInv
      <3> QED
        BY <3>1, DogNumbers
    <2>3. CASE gate # "boot"
      <3>1. /\ idle <= GatePeriod
            /\ excused = 0 => dogAge <= BootTime + idle
            /\ excused = 1 => dogAge <= BootTime + 2 * GatePeriod - 1 + idle
        BY <2>1, <2>3 DEF InTimeInv
      <3>2. excused \in {0, 1} /\ idle \in Nat
        BY DogClock
      <3> QED
        BY <3>1, <3>2, DogNumbers
    <2> QED
      BY <2>2, <2>3
  <1> QED
    BY <1>1, <1>2

\* A heartbeat ends the silence, and overtakes the look that is under way.
LEMMA BeatStep ==
    ASSUME DogInv, beat
    PROVE  DogTypeOK' /\ HeartbeatInv' /\ LookInv' /\ GateInv' /\ InTimeInv'
  <1>1. DogTypeOK /\ HeartbeatInv /\ LookInv /\ GateInv /\ InTimeInv
    BY DEF DogInv
  <1>2. /\ is_running' = TRUE /\ heartbeat' = micros /\ silent' = 0 /\ overtaken' = (gate = "looking")
        /\ clockFirst' = clockFirst /\ gate' = gate /\ lastRunUs' = lastRunUs /\ loaded' = loaded
        /\ dogAge' = dogAge /\ micros' = micros /\ idle' = idle /\ steady' = steady /\ excused' = excused
    BY DEF beat, gateVars
  <1>3. /\ 0 \in 0 .. Worst /\ 0 <= dogAge /\ 0 <= StaleAge + DogTimeout + dogAge /\ 0 <= 1
    BY <1>1, DogNumbers, DogClock
  <1>4. \A t : Elapsed(t)' = Elapsed(t)
    BY <1>2 DEF Elapsed
  <1>5. DogTypeOK'
    BY <1>1, <1>2, <1>3, Zenon DEF DogTypeOK
  <1>6. HeartbeatInv'
    <2>1. Elapsed(heartbeat)' = 0
      <3>1. Elapsed(heartbeat)' = Elapsed(micros)
        BY <1>2 DEF Elapsed
      <3> QED
        BY <1>1, <3>1, DogClock
    <2> QED
      BY <1>2, <1>3, <2>1 DEF HeartbeatInv
  <1>7. LookInv'
    BY <1>2, <1>3 DEF LookInv
  <1>8. GateInv'
    BY <1>1, <1>2 DEF GateInv, Elapsed
  <1>9. InTimeInv'
    BY <1>1, <1>2, <1>3 DEF InTimeInv, Elapsed
  <1> QED
    BY <1>5, <1>6, <1>7, <1>8, <1>9

\* The sensor task starts its scheduler, comes to the gate, or passes it by.
LEMMA GateSteps ==
    ASSUME DogInv, startScheduler \/ schedulerTick \/ passBy
    PROVE  DogTypeOK' /\ HeartbeatInv' /\ LookInv' /\ GateInv' /\ InTimeInv'
  <1>1. DogTypeOK /\ HeartbeatInv /\ LookInv /\ GateInv /\ InTimeInv
    BY DEF DogInv
  <1>2. /\ loaded' = loaded /\ dogAge' = dogAge /\ clockFirst' = clockFirst /\ micros' = micros
        /\ heartbeat' = heartbeat /\ is_running' = is_running /\ silent' = silent
        /\ steady' = steady /\ excused' = excused /\ overtaken' = overtaken
        /\ gate # "looking" /\ gate' # "looking"
    BY DEF startScheduler, schedulerTick, passBy, gateVars, dogHistory
  <1>3. HeartbeatInv'
    BY <1>1, <1>2 DEF HeartbeatInv, Elapsed
  <1>4. LookInv'
    BY <1>1, <1>2 DEF LookInv
  <1>5. ASSUME startScheduler PROVE DogTypeOK' /\ GateInv' /\ InTimeInv'
    <2>1. gate = "boot" /\ gate' = "idle" /\ lastRunUs' = 0 /\ idle' = idle
      BY <1>5 DEF startScheduler, dogHistory
    <2>2. DogTypeOK'
      BY <1>1, <1>2, <2>1, DogClock DEF DogTypeOK
    <2>3. excused = 0 /\ dogAge <= BootTime /\ idle = 0 /\ micros = GatePeriod + dogAge
      BY <1>1, <2>1 DEF GateInv
    <2>4. Elapsed(lastRunUs)' = GatePeriod + dogAge
      <3>1. Elapsed(lastRunUs)' = Elapsed(0)
        BY <1>2, <2>1 DEF Elapsed
      <3> QED
        BY <1>1, <2>3, <3>1, DogClock
    <2>5. /\ GatePeriod + dogAge <= DogTimeout + 0 /\ ~(GatePeriod + dogAge < GatePeriod)
          /\ 0 <= GatePeriod /\ dogAge <= BootTime + 0 /\ 0 # 1
      BY <1>1, <2>3, DogNumbers, DogClock
    <2>6. GateInv'
      BY <1>2, <2>1, <2>3, <2>4, <2>5 DEF GateInv
    <2>7. steady >= dogAge /\ dogAge >= 1 => silent <= 1
      BY <1>1 DEF InTimeInv
    <2>8. InTimeInv'
      BY <1>2, <2>1, <2>3, <2>4, <2>5, <2>7 DEF InTimeInv
    <2> QED
      BY <2>2, <2>6, <2>8
  <1>6. ASSUME schedulerTick PROVE DogTypeOK' /\ GateInv' /\ InTimeInv'
    <2>1. gate = "idle" /\ gate' = "called" /\ lastRunUs' = micros /\ idle' = idle
      BY <1>6 DEF schedulerTick, dogHistory
    <2>2. DogTypeOK'
      BY <1>1, <1>2, <2>1, DogClock DEF DogTypeOK
    <2>3. Elapsed(lastRunUs)' = 0
      <3>1. Elapsed(lastRunUs)' = Elapsed(micros)
        BY <1>2, <2>1 DEF Elapsed
      <3> QED
        BY <1>1, <3>1, DogClock
    <2>4. 0 <= dogAge
      BY <1>1, DogClock
    <2>5. GateInv'
      BY <1>2, <2>1, <2>3, <2>4 DEF GateInv
    <2>6. InTimeInv'
      BY <1>1, <1>2, <2>1 DEF InTimeInv
    <2> QED
      BY <2>2, <2>5, <2>6
  <1>7. ASSUME passBy PROVE DogTypeOK' /\ GateInv' /\ InTimeInv'
    <2>1. gate = "idle" /\ gate' = "idle" /\ lastRunUs' = lastRunUs /\ idle' = 0 /\ ~due
      BY <1>7 DEF passBy, gateVars
    <2>2. 0 \in 0 .. (GatePeriod + 1) /\ 0 <= GatePeriod
      BY DogNumbers
    <2>3. DogTypeOK'
      BY <1>1, <1>2, <2>1, <2>2 DEF DogTypeOK
    <2>4. /\ Elapsed(lastRunUs)' = Elapsed(lastRunUs) /\ Elapsed(lastRunUs) \in Nat
          /\ Elapsed(lastRunUs) < GatePeriod
      <3>1. Elapsed(lastRunUs)' = Elapsed(lastRunUs)
        BY <1>2, <2>1 DEF Elapsed
      <3>2. Elapsed(lastRunUs) \in Nat
        BY <1>1, DogClock
      <3>3. ~(Elapsed(lastRunUs) >= GatePeriod)
        BY <2>1 DEF due
      <3> QED
        BY <3>1, <3>2, <3>3, DogNumbers
    <2>5. Elapsed(lastRunUs) <= DogTimeout + 0
      BY <2>4, DogNumbers
    <2>6. GateInv'
      BY <1>2, <2>1, <2>4, <2>5 DEF GateInv
    <2>7. InTimeInv'
      <3> SUFFICES ASSUME steady >= dogAge
                   PROVE  /\ dogAge >= 1 => silent <= 1
                          /\ excused = 0 => dogAge <= BootTime + 0
                          /\ excused = 1 => dogAge <= BootTime + 2 * GatePeriod - 1 + 0
                          /\ excused = 0 => dogAge <= Elapsed(lastRunUs)
                          /\ excused = 1 => dogAge <= BootTime + GatePeriod + Elapsed(lastRunUs)
        BY <1>2, <2>1, <2>2, <2>4 DEF InTimeInv
      <3>1. /\ dogAge >= 1 => silent <= 1
            /\ excused = 0 => dogAge <= Elapsed(lastRunUs)
            /\ excused = 1 => dogAge <= BootTime + GatePeriod + Elapsed(lastRunUs)
        BY <1>1, <2>1, <2>4 DEF InTimeInv
      <3> QED
        BY <1>1, <2>4, <3>1, DogNumbers, DogClock
    <2> QED
      BY <2>3, <2>6, <2>7
  <1> QED
    BY <1>3, <1>4, <1>5, <1>6, <1>7

\* The look's first load: the clock, which is not old, or the heartbeat.
LEMMA StartLookStep ==
    ASSUME DogInv, startLook
    PROVE  DogTypeOK' /\ HeartbeatInv' /\ LookInv' /\ GateInv' /\ InTimeInv'
  <1>1. DogTypeOK /\ HeartbeatInv /\ LookInv /\ GateInv /\ InTimeInv
    BY DEF DogInv
  <1>2. /\ gate = "called" /\ gate' = "looking" /\ overtaken' = FALSE
        /\ loaded' = IF clockFirst THEN micros ELSE heartbeat
        /\ clockFirst' = clockFirst /\ lastRunUs' = lastRunUs /\ dogAge' = dogAge /\ micros' = micros
        /\ heartbeat' = heartbeat /\ is_running' = is_running /\ silent' = silent /\ idle' = idle
        /\ steady' = steady /\ excused' = excused
    BY DEF startLook
  <1>3. DogTypeOK'
    BY <1>1, <1>2 DEF DogTypeOK
  <1>4. HeartbeatInv'
    BY <1>1, <1>2 DEF HeartbeatInv, Elapsed
  <1>5. LookInv'
    <2>1. ASSUME clockFirst PROVE Elapsed(loaded)' <= dogAge /\ Elapsed(loaded)' <= silent
      <3>1. Elapsed(loaded)' = Elapsed(micros)
        BY <1>2, <2>1 DEF Elapsed
      <3> QED
        BY <1>1, <3>1, DogClock
    <2> QED
      BY <1>2, <2>1 DEF LookInv
  <1>6. GateInv'
    BY <1>1, <1>2 DEF GateInv, Elapsed
  <1>7. InTimeInv'
    BY <1>1, <1>2 DEF InTimeInv, Elapsed
  <1> QED
    BY <1>3, <1>4, <1>5, <1>6, <1>7

\* What a look that is not overtaken sees: the silence, or less by what has passed since
\* its first load.
LEMMA LookSees ==
    ASSUME DogInv, gate = "looking", ~overtaken, is_running
    PROVE  LET nowUs == IF clockFirst THEN loaded ELSE micros
               beatUs == IF clockFirst THEN heartbeat ELSE loaded
               gapUs == (nowUs + DogClockSize - beatUs) % DogClockSize
           IN  beatUs = heartbeat /\ gapUs \in Nat /\ gapUs <= silent /\ silent <= gapUs + dogAge
  <1>1. DogTypeOK /\ HeartbeatInv /\ LookInv
    BY DEF DogInv
  <1>2. Elapsed(heartbeat) = silent /\ dogAge \in Nat /\ silent \in Nat
    BY <1>1, DogClock DEF HeartbeatInv
  <1>3. CASE clockFirst
    <2>1. Elapsed(loaded) <= dogAge /\ Elapsed(loaded) <= silent
      BY <1>1, <1>3 DEF LookInv
    <2>2. /\ Elapsed(loaded) = Since(DogClockSize, micros, loaded) /\ Elapsed(loaded) \in Nat
          /\ Elapsed(heartbeat) = Since(DogClockSize, micros, heartbeat)
          /\ micros \in 0 .. DogClockSize - 1 /\ loaded \in 0 .. DogClockSize - 1
          /\ heartbeat \in 0 .. DogClockSize - 1
      BY <1>1, DogClock
    <2>3. Since(DogClockSize, loaded, heartbeat) = silent - Elapsed(loaded)
      BY <1>2, <2>1, <2>2, DogTimes
    <2>4. (loaded + DogClockSize - heartbeat) % DogClockSize = silent - Elapsed(loaded)
      BY <2>3 DEF Since
    <2>5. /\ silent - Elapsed(loaded) \in Nat /\ silent - Elapsed(loaded) <= silent
          /\ silent <= (silent - Elapsed(loaded)) + dogAge
      BY <1>2, <2>1, <2>2
    <2> QED
      BY <1>3, <2>4, <2>5
  <1>4. CASE ~clockFirst
    <2>1. loaded = heartbeat
      BY <1>1, <1>4 DEF LookInv
    <2>2. (micros + DogClockSize - heartbeat) % DogClockSize = silent
      BY <1>2 DEF Elapsed
    <2>3. silent <= silent /\ silent <= silent + dogAge
      BY <1>2
    <2> QED
      BY <1>2, <1>4, <2>1, <2>2, <2>3
  <1> QED
    BY <1>3, <1>4

\* A look feeds only when the silence is short, and one that fails although everything
\* has been in time was overtaken or met the heartbeat 0.
LEMMA EndLookStep ==
    ASSUME DogInv, endLook
    PROVE  DogTypeOK' /\ HeartbeatInv' /\ LookInv' /\ GateInv' /\ InTimeInv'
  <1> DEFINE nowUs == IF clockFirst THEN loaded ELSE micros
  <1> DEFINE beatUs == IF clockFirst THEN heartbeat ELSE loaded
  <1> DEFINE gapUs == (nowUs + DogClockSize - beatUs) % DogClockSize
  <1> DEFINE feeds == shouldFeed(nowUs, beatUs)
  <1> DEFINE excuse == overtaken \/ beatUs = 0
  <1>1. DogTypeOK /\ HeartbeatInv /\ LookInv /\ GateInv /\ InTimeInv
    BY DEF DogInv
  <1>2. /\ gate = "looking" /\ gate' = "idle" /\ loaded' = 0 /\ idle' = 0 /\ overtaken' = FALSE
        /\ clockFirst' = clockFirst /\ micros' = micros /\ heartbeat' = heartbeat
        /\ is_running' = is_running /\ lastRunUs' = lastRunUs /\ silent' = silent /\ steady' = steady
    BY DEF endLook
  <1>3. /\ feeds => dogAge' = 0 /\ excused' = 0
        /\ ~feeds => dogAge' = dogAge /\ excused' = Upto(excused + (IF excuse THEN 1 ELSE 0), 2)
    BY DEF endLook
  <1>4. feeds <=> is_running /\ beatUs # 0 /\ gapUs < StaleAge
    BY DEF shouldFeed
  <1>5. ~overtaken /\ is_running =>
           beatUs = heartbeat /\ gapUs \in Nat /\ gapUs <= silent /\ silent <= gapUs + dogAge
    BY <1>2, LookSees
  <1>6. ~overtaken /\ ~is_running => beatUs = 0
    BY <1>1, <1>2 DEF HeartbeatInv, LookInv
  <1> HIDE DEF feeds, gapUs, beatUs, nowUs
  <1>7. /\ dogAge \in Nat /\ dogAge <= DogTimeout /\ silent \in Nat /\ idle \in Nat
        /\ excused \in {0, 1, 2} /\ 0 \in 0 .. DogClockSize - 1 /\ 0 \in 0 .. (GatePeriod + 1)
        /\ 0 \in 0 .. DogTimeout /\ 0 <= GatePeriod /\ 0 <= BootTime /\ 0 # 1
        /\ Elapsed(lastRunUs) \in Nat /\ steady \in Nat
    BY <1>1, DogClock, DogNumbers
  <1>8. Elapsed(lastRunUs)' = Elapsed(lastRunUs) /\ Elapsed(lastRunUs) <= dogAge
    <2>1. Elapsed(lastRunUs)' = Elapsed(lastRunUs)
      BY <1>2 DEF Elapsed
    <2> QED
      BY <1>1, <1>2, <2>1 DEF GateInv
  <1>9. dogAge' \in 0 .. DogTimeout /\ excused' \in 0 .. 2
    <2>1. CASE feeds
      BY <1>3, <2>1, DogNumbers
    <2>2. CASE ~feeds
      <3>1. Upto(excused + (IF excuse THEN 1 ELSE 0), 2) \in 0 .. 2
        BY <1>7 DEF Upto
      <3> QED
        BY <1>1, <1>3, <2>2, <3>1 DEF DogTypeOK
    <2> QED
      BY <2>1, <2>2
  <1>10. DogTypeOK'
    BY <1>1, <1>2, <1>7, <1>9 DEF DogTypeOK
  <1>11. HeartbeatInv'
    <2>1. Elapsed(heartbeat)' = Elapsed(heartbeat)
      BY <1>2 DEF Elapsed
    <2>2. CASE feeds
      <3>1. is_running /\ dogAge' = 0
        BY <1>3, <1>4, <2>2
      <3>2. silent <= StaleAge + DogTimeout + 0
        <4>1. CASE overtaken
          <5>1. silent <= dogAge
            BY <1>1, <4>1 DEF LookInv
          <5> QED
            BY <1>7, <5>1, DogNumbers
        <4>2. CASE ~overtaken
          <5>1. gapUs < StaleAge /\ gapUs \in Nat /\ silent <= gapUs + dogAge
            BY <1>4, <1>5, <2>2, <3>1, <4>2
          <5> QED
            BY <1>7, <5>1, DogNumbers
        <4> QED
          BY <4>1, <4>2
      <3> QED
        BY <1>1, <1>2, <2>1, <3>1, <3>2 DEF HeartbeatInv
    <2>3. CASE ~feeds
      BY <1>1, <1>2, <1>3, <2>1, <2>3 DEF HeartbeatInv
    <2> QED
      BY <2>2, <2>3
  <1>12. LookInv'
    BY <1>2 DEF LookInv
  <1>13. GateInv'
    <2>1. Elapsed(lastRunUs) <= DogTimeout + 0
      BY <1>7, <1>8, DogNumbers
    <2> QED
      BY <1>2, <1>8, <2>1 DEF GateInv
  <1>14. InTimeInv'
    <2>1. CASE feeds
      <3>1. /\ ~(0 >= 1) /\ 0 <= BootTime + 0 /\ 0 <= Elapsed(lastRunUs)
            /\ dogAge' = 0 /\ excused' = 0 /\ 0 # 1 /\ 0 <= GatePeriod
        BY <1>3, <1>7, <2>1, DogNumbers
      <3> QED
        BY ONLY <1>2, <1>8, <3>1 DEF InTimeInv
    <2>2. CASE ~feeds
      <3>1. dogAge' = dogAge /\ excused' = Upto(excused + (IF excuse THEN 1 ELSE 0), 2)
        BY <1>3, <2>2
      <3> SUFFICES ASSUME steady >= dogAge
                   PROVE  /\ dogAge >= 1 => silent <= 1
                          /\ excused' = 0 => dogAge <= BootTime + 0 /\ dogAge <= Elapsed(lastRunUs)
                          /\ excused' = 1 => /\ dogAge <= BootTime + 2 * GatePeriod - 1 + 0
                                             /\ dogAge <= BootTime + GatePeriod + Elapsed(lastRunUs)
        BY <1>2, <1>7, <1>8, <3>1 DEF InTimeInv
      <3>2. /\ dogAge >= 1 => silent <= 1
            /\ idle <= GatePeriod
            /\ excused = 0 => dogAge <= BootTime + idle
        BY <1>1, <1>2 DEF InTimeInv
      <3>3. ~excuse => dogAge = 0
        <4> SUFFICES ASSUME ~overtaken, beatUs # 0 PROVE dogAge = 0
          OBVIOUS
        <4>1. is_running
          BY <1>6
        <4>2. ~(gapUs < StaleAge) /\ gapUs \in Nat /\ gapUs <= silent
          BY <1>4, <1>5, <2>2, <4>1
        <4>3. ~(silent <= 1)
          BY <1>7, <4>2, DogNumbers
        <4> QED
          BY <1>7, <3>2, <4>3
      <3>4. CASE excuse
        <4>1. excused' = Upto(excused + 1, 2)
          BY <3>1, <3>4
        <4>2. excused' # 0 /\ (excused' = 1 => excused = 0)
          BY <1>7, <4>1 DEF Upto
        <4> QED
          BY <1>7, <3>2, <4>2, DogNumbers
      <3>5. CASE ~excuse
        BY <1>7, <3>2, <3>3, <3>5, DogNumbers
      <3> QED
        BY <3>4, <3>5
    <2> QED
      BY <2>1, <2>2
  <1> QED
    BY <1>10, <1>11, <1>12, <1>13, <1>14

\* A unit of time: no time that is compared comes round, and none is counted away.
LEMMA DogTickStep ==
    ASSUME DogInv, DogTick
    PROVE  DogTypeOK' /\ HeartbeatInv' /\ LookInv' /\ GateInv' /\ InTimeInv'
  <1>1. DogTypeOK /\ HeartbeatInv /\ LookInv /\ GateInv /\ InTimeInv
    BY DEF DogInv
  <1>2. /\ dogAge < DogTimeout /\ (gate = "boot" => dogAge < BootTime)
        /\ micros' = Later(DogClockSize, micros) /\ dogAge' = dogAge + 1
        /\ silent' = Upto(silent + 1, Worst)
        /\ idle' = IF gate = "boot" THEN 0 ELSE Upto(idle + 1, GatePeriod + 1)
        /\ steady' = IF inTime THEN Upto(steady + 1, Worst) ELSE 0
        /\ clockFirst' = clockFirst /\ gate' = gate /\ heartbeat' = heartbeat
        /\ is_running' = is_running /\ lastRunUs' = lastRunUs /\ loaded' = loaded
        /\ excused' = excused /\ overtaken' = overtaken
    BY DEF DogTick, Later
  <1>3. /\ micros \in 0 .. DogClockSize - 1 /\ heartbeat \in 0 .. DogClockSize - 1
        /\ lastRunUs \in 0 .. DogClockSize - 1 /\ loaded \in 0 .. DogClockSize - 1
        /\ dogAge \in Nat /\ silent \in Nat /\ idle \in Nat /\ idle <= GatePeriod + 1
        /\ steady \in Nat /\ steady <= Worst /\ excused \in {0, 1, 2}
        /\ \A t \in 0 .. DogClockSize - 1 : Elapsed(t) \in Nat
    BY <1>1, DogClock
  <1>4. silent' = silent + 1 /\ silent + 1 < DogClockSize /\ silent + 1 <= Worst
    <2>1. silent <= StaleAge + DogTimeout + dogAge
      BY <1>1 DEF HeartbeatInv
    <2>2. silent + 1 < Worst /\ silent + 1 < DogClockSize
      BY <1>2, <1>3, <2>1, DogNumbers
    <2> QED
      BY <1>2, <1>3, <2>2, DogNumbers DEF Upto
  <1>5. ASSUME NEW t \in 0 .. DogClockSize - 1, Elapsed(t) + 1 < DogClockSize
        PROVE  Since(DogClockSize, micros', t) = Elapsed(t) + 1
    <2>1. Elapsed(t) = Since(DogClockSize, micros, t) /\ Elapsed(t) \in Nat
      BY <1>1, <1>3, DogClock
    <2>2. Since(DogClockSize, Later(DogClockSize, micros), t) =
             IF Since(DogClockSize, micros, t) + 1 = DogClockSize THEN 0
             ELSE Since(DogClockSize, micros, t) + 1
      BY <1>3, DogTurns
    <2>3. Since(DogClockSize, micros, t) + 1 # DogClockSize
      BY <1>5, <2>1, DogNumbers
    <2> QED
      BY <1>2, <2>1, <2>2, <2>3
  <1>6. /\ Elapsed(heartbeat)' = Since(DogClockSize, micros', heartbeat)
        /\ Elapsed(loaded)' = Since(DogClockSize, micros', loaded)
        /\ Elapsed(lastRunUs)' = Since(DogClockSize, micros', lastRunUs)
    BY <1>2 DEF Elapsed, Since
  <1>7. /\ idle' <= GatePeriod + 1 /\ idle' \in Nat
        /\ gate # "boot" /\ idle' <= GatePeriod => idle' = idle + 1 /\ idle < GatePeriod
        /\ gate = "boot" => idle' = 0
    <2>1. /\ Upto(idle + 1, GatePeriod + 1) \in Nat
          /\ Upto(idle + 1, GatePeriod + 1) <= GatePeriod + 1
          /\ Upto(idle + 1, GatePeriod + 1) <= GatePeriod =>
                Upto(idle + 1, GatePeriod + 1) = idle + 1 /\ idle < GatePeriod
      BY <1>3, DogNumbers DEF Upto
    <2>2. 0 \in Nat /\ 0 <= GatePeriod + 1
      BY DogNumbers
    <2> QED
      BY <1>2, <2>1, <2>2
  <1>8. /\ steady' \in 0 .. Worst
        /\ steady' >= dogAge + 1 => steady >= dogAge /\ inTime
    <2>1. /\ Upto(steady + 1, Worst) \in 0 .. Worst /\ 0 \in 0 .. Worst /\ ~(0 >= dogAge + 1)
          /\ Upto(steady + 1, Worst) >= dogAge + 1 => steady >= dogAge
      BY <1>2, <1>3, DogNumbers DEF Upto
    <2> QED
      BY <1>2, <2>1
  <1>9. DogTypeOK'
    <2>1. micros' \in 0 .. DogClockSize - 1
      BY <1>2, <1>3, DogTurns
    <2>2. dogAge' \in 0 .. DogTimeout /\ silent' \in 0 .. Worst /\ idle' \in 0 .. (GatePeriod + 1)
      BY <1>2, <1>3, <1>4, <1>7, DogNumbers
    <2> QED
      BY <1>1, <1>2, <1>8, <2>1, <2>2 DEF DogTypeOK
  <1>10. HeartbeatInv'
    <2>1. silent + 1 <= StaleAge + DogTimeout + (dogAge + 1)
      BY <1>1, <1>3, DogNumbers DEF HeartbeatInv
    <2>2. ASSUME is_running PROVE Elapsed(heartbeat)' = silent + 1
      <3>1. Elapsed(heartbeat) = silent
        BY <1>1, <2>2 DEF HeartbeatInv
      <3> QED
        BY <1>3, <1>4, <1>5, <1>6, <3>1
    <2>3. ASSUME ~is_running PROVE heartbeat = 0 /\ silent + 1 <= dogAge + 1
      <3>1. heartbeat = 0 /\ silent <= dogAge
        BY <1>1, <2>3 DEF HeartbeatInv
      <3> QED
        BY <1>3, <3>1
    <2> QED
      BY <1>2, <1>4, <2>1, <2>2, <2>3 DEF HeartbeatInv
  <1>11. LookInv'
    <2>1. ASSUME overtaken PROVE gate = "looking" /\ silent + 1 <= dogAge + 1
      <3>1. gate = "looking" /\ silent <= dogAge
        BY <1>1, <2>1 DEF LookInv
      <3> QED
        BY <1>3, <3>1
    <2>2. ASSUME gate = "looking", ~overtaken, clockFirst
          PROVE  Elapsed(loaded)' <= dogAge + 1 /\ Elapsed(loaded)' <= silent + 1
      <3>1. Elapsed(loaded) <= dogAge /\ Elapsed(loaded) <= silent /\ Elapsed(loaded) \in Nat
        BY <1>1, <1>3, <2>2 DEF LookInv
      <3>2. Elapsed(loaded) + 1 < DogClockSize
        BY <1>3, <1>4, <3>1, DogNumbers
      <3>3. Elapsed(loaded)' = Elapsed(loaded) + 1
        BY <1>3, <1>5, <1>6, <3>2
      <3> QED
        BY <1>3, <3>1, <3>3
    <2>3. gate = "looking" /\ ~overtaken /\ ~clockFirst => loaded = heartbeat
      BY <1>1 DEF LookInv
    <2> QED
      BY <1>2, <1>4, <2>1, <2>2, <2>3 DEF LookInv
  <1>12. gate \in {"called", "looking"} => Elapsed(lastRunUs)' <= dogAge + 1
    <2> SUFFICES ASSUME gate \in {"called", "looking"} PROVE Elapsed(lastRunUs)' <= dogAge + 1
      OBVIOUS
    <2>1. Elapsed(lastRunUs) <= dogAge /\ Elapsed(lastRunUs) \in Nat
      BY <1>1, <1>3 DEF GateInv
    <2>2. Elapsed(lastRunUs) + 1 < DogClockSize
      BY <1>2, <1>3, <2>1, DogNumbers
    <2>3. Elapsed(lastRunUs)' = Elapsed(lastRunUs) + 1
      BY <1>3, <1>5, <1>6, <2>2
    <2> QED
      BY <1>3, <2>1, <2>3
  <1>13. gate = "idle" /\ idle' <= GatePeriod =>
            /\ Elapsed(lastRunUs)' = Elapsed(lastRunUs) + 1
            /\ Elapsed(lastRunUs)' <= DogTimeout + idle'
    <2> SUFFICES ASSUME gate = "idle", idle' <= GatePeriod
                 PROVE  /\ Elapsed(lastRunUs)' = Elapsed(lastRunUs) + 1
                        /\ Elapsed(lastRunUs)' <= DogTimeout + idle'
      OBVIOUS
    <2>1. idle' = idle + 1 /\ idle < GatePeriod /\ idle <= GatePeriod
      BY <1>3, <1>7, DogNumbers
    <2>2. Elapsed(lastRunUs) <= DogTimeout + idle /\ Elapsed(lastRunUs) \in Nat
      BY <1>1, <1>3, <2>1 DEF GateInv
    <2>3. Elapsed(lastRunUs) + 1 < DogClockSize
      BY <1>3, <2>1, <2>2, DogNumbers
    <2>4. Elapsed(lastRunUs)' = Elapsed(lastRunUs) + 1
      BY <1>3, <1>5, <1>6, <2>3
    <2> QED
      BY <1>3, <2>1, <2>2, <2>4, DogNumbers
  <1>14. GateInv'
    <2>1. gate = "boot" => /\ excused = 0 /\ dogAge + 1 <= BootTime /\ idle' = 0
                           /\ micros' = GatePeriod + (dogAge + 1)
      <3> SUFFICES ASSUME gate = "boot"
                   PROVE  /\ excused = 0 /\ dogAge + 1 <= BootTime /\ idle' = 0
                          /\ micros' = GatePeriod + (dogAge + 1)
        OBVIOUS
      <3>1. excused = 0 /\ micros = GatePeriod + dogAge /\ dogAge < BootTime
        BY <1>1, <1>2 DEF GateInv
      <3>2. Later(DogClockSize, micros) = IF micros + 1 = DogClockSize THEN 0 ELSE micros + 1
        BY <1>3, DogTurns
      <3>3. micros + 1 < DogClockSize
        BY <1>3, <3>1, DogNumbers
      <3> QED
        BY <1>2, <1>3, <1>7, <3>1, <3>2, <3>3, DogNumbers
    <2> QED
      BY <1>2, <1>12, <1>13, <2>1 DEF GateInv
  <1>15. InTimeInv'
    <2> SUFFICES ASSUME steady' >= dogAge'
                 PROVE  /\ silent' <= 1
                        /\ gate # "boot" =>
                              /\ idle' <= GatePeriod
                              /\ excused = 0 => dogAge + 1 <= BootTime + idle'
                              /\ excused = 1 => dogAge + 1 <= BootTime + 2 * GatePeriod - 1 + idle'
                        /\ gate = "idle" /\ Elapsed(lastRunUs)' < GatePeriod =>
                              /\ excused = 0 => dogAge + 1 <= Elapsed(lastRunUs)'
                              /\ excused = 1 => dogAge + 1 <= BootTime + GatePeriod + Elapsed(lastRunUs)'
      BY <1>2 DEF InTimeInv
    <2>1. steady >= dogAge /\ silent' <= 1 /\ (gate = "boot" \/ idle' <= GatePeriod)
      BY <1>2, <1>8 DEF inTime
    <2>2. gate # "boot" =>
              /\ idle' <= GatePeriod
              /\ excused = 0 => dogAge + 1 <= BootTime + idle'
              /\ excused = 1 => dogAge + 1 <= BootTime + 2 * GatePeriod - 1 + idle'
      <3> SUFFICES ASSUME gate # "boot"
                   PROVE  /\ idle' <= GatePeriod
                          /\ excused = 0 => dogAge + 1 <= BootTime + idle'
                          /\ excused = 1 => dogAge + 1 <= BootTime + 2 * GatePeriod - 1 + idle'
        OBVIOUS
      <3>1. idle' <= GatePeriod /\ idle' = idle + 1
        BY <1>7, <2>1
      <3>2. /\ excused = 0 => dogAge <= BootTime + idle
            /\ excused = 1 => dogAge <= BootTime + 2 * GatePeriod - 1 + idle
        BY <1>1, <2>1 DEF InTimeInv
      <3> QED
        BY <1>3, <3>1, <3>2, DogNumbers
    <2>3. ASSUME gate = "idle", Elapsed(lastRunUs)' < GatePeriod
          PROVE  /\ excused = 0 => dogAge + 1 <= Elapsed(lastRunUs)'
                 /\ excused = 1 => dogAge + 1 <= BootTime + GatePeriod + Elapsed(lastRunUs)'
      <3>1. Elapsed(lastRunUs)' = Elapsed(lastRunUs) + 1 /\ Elapsed(lastRunUs) \in Nat
        BY <1>3, <1>13, <2>1, <2>3
      <3>2. Elapsed(lastRunUs) < GatePeriod
        BY <2>3, <3>1, DogNumbers
      <3>3. /\ excused = 0 => dogAge <= Elapsed(lastRunUs)
            /\ excused = 1 => dogAge <= BootTime + GatePeriod + Elapsed(lastRunUs)
        BY <1>1, <2>1, <2>3, <3>2 DEF InTimeInv
      <3> QED
        BY <1>3, <3>1, <3>3, DogNumbers
    <2> QED
      BY <2>1, <2>2, <2>3
  <1> QED
    BY <1>9, <1>10, <1>11, <1>14, <1>15

\* A reset brings the watchdog's state back to where it starts.
LEMMA ResetStep == ASSUME DogInv, watchdogReset PROVE DogInv'
  <1>1. DogInit'
    BY DEF watchdogReset, DogInit, DogInv, DogTypeOK
  <1>2. (DogInit => DogInv)'
    BY DogStarts, PTL
  <1> QED
    BY <1>1, <1>2

\* Every step keeps the watchdog's invariant.
LEMMA DogStep == ASSUME DogInv, [DogNext]_dogVars PROVE DogInv'
  <1>1. (DogTypeOK /\ HeartbeatInv /\ GateInv /\ InTimeInv => HealthyIsNotReset /\ StalledIsReset)'
    <2>1. DogTypeOK /\ HeartbeatInv /\ GateInv /\ InTimeInv => HealthyIsNotReset /\ StalledIsReset
      BY DogParts
    <2> QED
      BY DogParts, PTL
  <1>2. CASE watchdogReset
    BY <1>2, ResetStep
  <1>3. CASE beat \/ startScheduler \/ schedulerTick \/ passBy \/ startLook \/ endLook \/ DogTick
    <2>1. DogTypeOK' /\ HeartbeatInv' /\ LookInv' /\ GateInv' /\ InTimeInv'
      BY <1>3, BeatStep, GateSteps, StartLookStep, EndLookStep, DogTickStep
    <2> QED
      BY <1>1, <2>1 DEF DogInv
  <1>4. CASE UNCHANGED dogVars
    BY <1>4 DEF DogInv, dogVars, gateVars, dogHistory, DogTypeOK, HeartbeatInv, LookInv, GateInv,
                InTimeInv, HealthyIsNotReset, StalledIsReset, Elapsed
  <1> QED
    BY <1>2, <1>3, <1>4 DEF DogNext

-----------------------------------------------------------------------------
(* Supervision as a whole: a step is one of a single component. *)

supervisionVars == <<component, vars, dogVars, timingVars, preflightVars, batteryVars, mavVars,
                     reporterVars, throttleVars>>

\* A step of the whole is a step or a stutter of each component.
LEMMA SupervisionParts ==
    [SupervisionNext]_supervisionVars =>
      /\ [DogNext]_dogVars /\ [TimingNext]_timingVars /\ [PreflightNext]_preflightVars
      /\ [BatteryNext]_batteryVars /\ [MavlinkNext]_mavVars /\ [ReporterNext]_reporterVars
      /\ [ThrottleNext]_throttleVars
  BY DEF SupervisionNext, supervisionVars

\* A vehicle whose flight loop stands still is reset and one that has been in time is
\* not, and an overrun is reported before it is forgotten, for every clock and period
\* that keep the assumed order.
THEOREM ProgramIsSupervised == SupervisionSpec => []SupervisionHolds
  <1> DEFINE Inv == DogInv /\ TimingInv
  <1>1. SupervisionInit => Inv
    BY DogStarts, TimingStarts DEF SupervisionInit
  <1>2. Inv /\ [SupervisionNext]_supervisionVars => Inv'
    BY SupervisionParts, DogStep, TimingStep
  <1>3. Inv => SupervisionHolds
    BY DEF SupervisionHolds, DogInv, TimingInv
  <1> QED
    BY <1>1, <1>2, <1>3, PTL DEF SupervisionSpec, supervisionVars

\* Arming and a critical battery follow from checks that were made; the battery's
\* verdict keeps its debounce and hysteresis wherever the sensor task's evaluation is
\* cut in two, but from one that was overtaken up to the next reading in trouble or
\* recovered; the link keeps its sessions, periods and answers; and a trouble that lasts
\* is told and told again: for all limits of the voltage, in any order, and every
\* timeout, period and number of slots.
THEOREM VehicleIsCleared == SupervisionSpec => []ClearanceHolds
  <1> DEFINE Inv == PreflightInv /\ BatteryInv /\ MavlinkInv /\ ReporterInv /\ ThrottleInv
  <1>1. SupervisionInit => Inv
    BY PreflightStarts, BatteryStarts, MavlinkStarts, ReporterStarts, ThrottleStarts
       DEF SupervisionInit
  <1>2. Inv /\ [SupervisionNext]_supervisionVars => Inv'
    BY SupervisionParts, PreflightStep, BatteryStep, MavlinkStep, ReporterStep, ThrottleStep
  <1>3. Inv => ClearanceHolds
    BY DEF ClearanceHolds, PreflightInv, BatteryInv, MavlinkInv, ReporterInv, ThrottleInv
  <1> QED
    BY <1>1, <1>2, <1>3, PTL DEF SupervisionSpec, supervisionVars

\* A behaviour of the whole is one of the flight manager.
THEOREM SupervisionKeepsFlight == SupervisionSpec => Spec
  <1>1. SupervisionInit => Init
    BY DEF SupervisionInit
  <1>2. [SupervisionNext]_supervisionVars => [Next]_vars
    BY DEF SupervisionNext, supervisionVars
  <1> QED
    BY <1>1, <1>2, PTL DEF SupervisionSpec, supervisionVars, Spec

\* So a failsafe disarms, a bench session needs its authority, the shared flag is exact and arming
\* is authorised beside the other supervisors too.
THEOREM FlightIsGuarded ==
    SupervisionSpec => /\ []TypeOK /\ []FailsafeDisarms /\ []SessionNeedsAuthority /\ []SharedFlagExact
                       /\ ArmingIsAuthorised
  BY SupervisionKeepsFlight, TypeCorrect, FailsafeDisarmsAlways, SessionIsAuthorised, FlagIsExact,
     ArmingAuthorised, PTL
=============================================================================
