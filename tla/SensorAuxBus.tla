---------------------------- MODULE SensorAuxBus ----------------------------
(***************************************************************************)
(* drivers/sensors/SensorAuxBus.cpp and its use in drivers/Sensors.cpp:    *)
(* magnetometer and barometer take turns on the bus, the barometer in four *)
(* transactions with a conversion to wait for; a device that keeps failing *)
(* is dropped and only a scan by the telemetry task's sensor check finds   *)
(* it again.  The check preempts the sensor task during a transaction.     *)
(* A device's profile is there exactly while the device is, so one flag    *)
(* stands for both; sample values and fault codes are left out.            *)
(***************************************************************************)
EXTENDS Naturals

CONSTANTS
    AuxMicrosSize,      \* where micros() wraps
    ConversionTime,     \* temperatureWaitUs, pressureWaitUs
    AuxFailLimit,       \* AUX_LIVENESS_FAIL_LIMIT
    MaxAuxGap,          \* bound: clock ticks between two services
    MaxAuxChecks        \* bound: number of sensor checks

ASSUME AuxAssumption ==
    /\ {AuxMicrosSize, ConversionTime, AuxFailLimit, MaxAuxGap, MaxAuxChecks} \subseteq Nat
    /\ AuxFailLimit > 0
    /\ 2 * (ConversionTime + MaxAuxGap) < AuxMicrosSize

VARIABLES
    auxUs, gap,             \* micros(), and ticks since the sensor task was last here
    present,                \* the devices that answer
    auxHas,                 \* _hasMag, _hasBaro of the bus
    auxFails,               \* _magFailCount, _baroFailCount
    hasDevice,              \* the manager's copies of them
    bmpState, bmpWaitUntil, magTurn,
    reading,                \* the transaction the sensor task is in
    auxChecking, auxChecks

auxClockVars == <<auxUs, gap>>
auxCheckVars == <<auxChecking, auxChecks>>
auxVars ==
    <<auxClockVars, present, auxHas, auxFails, hasDevice, bmpState, bmpWaitUntil, magTurn, reading,
      auxCheckVars>>

Devices == {"mag", "baro"}

AuxInit ==
    /\ auxUs = 0 /\ gap = 0
    /\ present \in SUBSET Devices
    /\ auxHas = [d \in Devices |-> d \in present]
    /\ auxFails = [d \in Devices |-> 0]
    /\ hasDevice = auxHas
    /\ bmpState = "idle" /\ bmpWaitUntil = 0 /\ magTurn = TRUE
    /\ reading = "none"
    /\ auxChecking = FALSE /\ auxChecks = 0

-----------------------------------------------------------------------------
\* (int32_t)(micros() - _bmpWaitUntilUs) < 0
Converting == (auxUs + AuxMicrosSize - bmpWaitUntil) % AuxMicrosSize >= AuxMicrosSize \div 2

\* The transaction update() comes to.
transaction ==
    IF auxHas["mag"] /\ magTurn /\ bmpState = "idle" THEN "mag"
    ELSE IF ~auxHas["baro"] THEN "nobaro"
    ELSE CASE bmpState = "idle"       -> "commandTemp"
           [] bmpState = "temp read"  -> "commandPressure"
           [] OTHER -> IF Converting THEN "wait"
                       ELSE IF bmpState = "temp pending" THEN "readTemp" ELSE "readPressure"

\* A register access: the device acknowledges it or not.
answers(d) == d \in present

readOk(d) == auxFails' = [auxFails EXCEPT ![d] = 0] /\ UNCHANGED auxHas

\* Mutant: the count of failures wraps at its limit and nothing is dropped.
readFailNever(d) ==
    /\ auxFails' = [auxFails EXCEPT ![d] = (@ + 1) % AuxFailLimit]
    /\ UNCHANGED auxHas

\* noteMagReadFail(), noteBaroReadFail()
readFail(d) ==
    LET dropped == auxFails[d] + 1 >= AuxFailLimit IN
    /\ auxFails' = [auxFails EXCEPT ![d] = IF dropped THEN 0 ELSE @ + 1]
    /\ auxHas' = IF dropped THEN [auxHas EXCEPT ![d] = FALSE] ELSE auxHas

\* readMag(); the profile may be gone.
readMag ==
    /\ IF auxHas["mag"] /\ answers("mag") THEN readOk("mag") ELSE readFail("mag")
    /\ magTurn' = FALSE
    /\ UNCHANGED <<bmpState, bmpWaitUntil>>

\* noteBaroReadFail(); a dropped barometer leaves no conversion behind.
baroFails(state) ==
    /\ readFail("baro")
    /\ bmpState' = IF auxHas'["baro"] THEN state ELSE "idle"
    /\ UNCHANGED bmpWaitUntil

\* readBaro(): only a complete measurement clears the failures.
readBaro(t) ==
    /\ magTurn' = (t # "nobaro" \/ auxHas["mag"] \/ magTurn)
    /\ CASE t = "nobaro" \/ t = "wait" -> UNCHANGED <<auxFails, auxHas, bmpState, bmpWaitUntil>>
         [] ~answers("baro") /\ t \in {"commandTemp", "readTemp", "commandPressure",
                                            "readPressure"} -> baroFails(bmpState)
         [] OTHER ->
            \/ /\ t \in {"commandTemp", "commandPressure"}
               /\ bmpWaitUntil' = (auxUs + ConversionTime) % AuxMicrosSize
               /\ bmpState' = IF t = "commandTemp" THEN "temp pending" ELSE "pressure pending"
               /\ UNCHANGED <<auxFails, auxHas>>
            \/ /\ t = "readTemp"
               /\ bmpState' = "temp read"
               /\ UNCHANGED <<auxFails, auxHas, bmpWaitUntil>>
            \/ /\ t = "readPressure"
               /\ bmpState' = "idle"
               /\ readOk("baro")
               /\ UNCHANGED bmpWaitUntil
            \/ t = "readPressure" /\ baroFails("idle")     \* applyRawPressure() refuses it

\* SensorAuxBus::update() from its transaction on, and the manager's copies
finishUpdate(t) ==
    /\ IF t = "mag" THEN readMag ELSE readBaro(t)
    /\ hasDevice' = auxHas'

-----------------------------------------------------------------------------
beginAuxUpdate ==
    /\ reading = "none"
    /\ reading' = transaction
    /\ gap' = 0
    /\ UNCHANGED <<auxUs, present, auxHas, auxFails, hasDevice, bmpState, bmpWaitUntil, magTurn,
                   auxCheckVars>>

endAuxUpdate ==
    /\ reading # "none"
    /\ finishUpdate(reading)
    /\ reading' = "none"
    /\ UNCHANGED <<auxClockVars, present, auxCheckVars>>

\* The telemetry task's update() is not preempted.
updateInCheck ==
    /\ auxChecking
    /\ finishUpdate(transaction)
    /\ UNCHANGED <<auxClockVars, present, reading, auxCheckVars>>

\* The sensor check begins; a scan soon after the last one is skipped.
skipScan ==
    /\ ~auxChecking /\ auxChecks < MaxAuxChecks
    /\ auxChecking' = TRUE
    /\ auxChecks' = auxChecks + 1
    /\ UNCHANGED <<auxClockVars, present, auxHas, auxFails, hasDevice, bmpState, bmpWaitUntil,
                   magTurn, reading>>

\* initMag(), initBaro(): identified and configured
initDevice(d) == answers(d)

\* scanI2cBus(): abortPending(), retryBaro() and retryMag().
scanDevices ==
    LET found == {d \in Devices : ~hasDevice[d] /\ ~auxHas[d] /\ initDevice(d)} IN
    /\ ~auxChecking /\ auxChecks < MaxAuxChecks
    /\ bmpState' = "idle"
    /\ auxHas' = [d \in Devices |-> auxHas[d] \/ d \in found]
    /\ auxFails' = [d \in Devices |-> IF d \in found THEN 0 ELSE auxFails[d]]
    /\ hasDevice' =
         [d \in Devices |-> hasDevice[d] \/ (d \in present /\ auxHas'[d])]
    /\ auxChecking' = TRUE
    /\ auxChecks' = auxChecks + 1
    /\ UNCHANGED <<auxClockVars, present, bmpWaitUntil, magTurn, reading>>

endAuxCheck ==
    /\ auxChecking
    /\ auxChecking' = FALSE
    /\ UNCHANGED <<auxClockVars, present, auxHas, auxFails, hasDevice, bmpState, bmpWaitUntil,
                   magTurn, reading, auxChecks>>

\* A device comes or goes.
plug(d) ==
    /\ present' = IF d \in present THEN present \ {d} ELSE present \cup {d}
    /\ UNCHANGED <<auxClockVars, auxHas, auxFails, hasDevice, bmpState, bmpWaitUntil, magTurn,
                   reading, auxCheckVars>>

auxTick ==
    /\ gap < MaxAuxGap
    /\ auxUs' = (auxUs + 1) % AuxMicrosSize
    /\ gap' = gap + 1
    /\ UNCHANGED <<present, auxHas, auxFails, hasDevice, bmpState, bmpWaitUntil, magTurn, reading,
                   auxCheckVars>>

AuxNext ==
    \/ beginAuxUpdate \/ endAuxUpdate \/ updateInCheck \/ skipScan \/ scanDevices \/ endAuxCheck \/ auxTick
    \/ \E d \in Devices : plug(d)

\* update() keeps being called and keeps serving the auxiliary bus.
AuxFairness ==
    /\ WF_auxVars(beginAuxUpdate)
    /\ WF_auxVars(endAuxUpdate)
    /\ WF_auxVars(endAuxCheck)
    /\ SF_auxVars(auxTick)

AuxSpec == AuxInit /\ [][AuxNext]_auxVars /\ AuxFairness

-----------------------------------------------------------------------------
AuxTypeOK ==
    /\ auxUs \in 0 .. AuxMicrosSize - 1 /\ gap \in 0 .. MaxAuxGap
    /\ present \subseteq Devices
    /\ auxHas \in [Devices -> BOOLEAN] /\ hasDevice \in [Devices -> BOOLEAN]
    /\ auxFails \in [Devices -> 0 .. AuxFailLimit - 1]
    /\ bmpState \in {"idle", "temp pending", "temp read", "pressure pending"}
    /\ bmpWaitUntil \in 0 .. AuxMicrosSize - 1 /\ magTurn \in BOOLEAN
    /\ reading \in {"none", "mag", "nobaro", "wait", "commandTemp", "readTemp", "commandPressure",
                    "readPressure"}
    /\ auxChecking \in BOOLEAN /\ auxChecks \in 0 .. MaxAuxChecks

\* A preempted transaction that succeeded after the check dropped the barometer
\* leaves its conversion behind, and the magnetometer waits for it.
Orphaned == ~auxHas["baro"] /\ bmpState # "idle"

\* A device that stays away is dropped in the end, so that the preflight checks
\* do not count on it: the barometer always, the magnetometer unless it waits
\* behind an orphaned conversion.
AuxLossIsSeen ==
    /\ <>[]("baro" \notin present) => <>[](~hasDevice["baro"])
    /\ <>[]("mag" \notin present /\ ~Orphaned) => <>[](~hasDevice["mag"])

\* A magnetometer that answers is read again and again, unless it
\* waits behind an orphaned conversion, and a barometer completes measurements.
AuxDevicesAreServed ==
    /\ <>[](auxHas["mag"] /\ "mag" \in present /\ ~Orphaned) => []<>(reading = "mag")
    /\ <>[](auxHas["baro"] /\ "baro" \in present) => []<>(reading = "readPressure")
\* What the bus must come to.
AuxProgress == AuxLossIsSeen /\ AuxDevicesAreServed
=============================================================================
