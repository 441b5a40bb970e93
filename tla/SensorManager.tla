--------------------------- MODULE SensorManager ---------------------------
(***************************************************************************)
(* drivers/Sensors.cpp: the sampling of the IMU, by DMA with a fallback to *)
(* polling.  update() is executed by the sensor task every 5 ms and, while *)
(* a sensor check runs, by the telemetry task that preempts it; the check  *)
(* first scans the bus, which aborts and restarts the transfer.            *)
(* One unit of the clock is a period of the sensor task.  Sample values,   *)
(* and the auxiliary sensors update() serves in passing (SensorAuxBus),    *)
(* are left out.                                                           *)
(***************************************************************************)
EXTENDS Naturals, FiniteSets

CONSTANTS
    MicrosSize,     \* where micros() wraps
    DmaTimeout,     \* I2C_DMA_TIMEOUT_US
    StaleTimeout,   \* SENSOR_STALE_TIMEOUT_US
    FallbackLimit,  \* MPU_DMA_TIMEOUT_FALLBACK_LIMIT
    RetryMax,       \* MPU_POLL_RETRY_MAX_US, in steps of MPU_POLL_RETRY_STEP_US
    CalSamples,     \* BOOT_CAL_SAMPLES
    ScanTime,       \* bound: how long a scan holds the processor
    MaxScans        \* bound: number of sensor checks

ASSUME MicrosAssumption == MicrosSize \in Nat \ {0} /\ MicrosSize % 2 = 0
ASSUME TimeoutAssumption ==
    {DmaTimeout, StaleTimeout, FallbackLimit, RetryMax, CalSamples} \subseteq Nat \ {0}
\* However the scans put a transfer off, micros() does not come round meanwhile.
ASSUME ScanAssumption ==
    /\ {ScanTime, MaxScans} \subseteq Nat
    /\ MaxScans * (DmaTimeout + 1 + ScanTime) + DmaTimeout + 1 < MicrosSize

VARIABLES
    us,                     \* micros()
    nowUs,                  \* per task: the micros() it goes by
    served,                 \* tasks that have called update() in this unit
    dmaFastPath, mpuActive, mpuStart,
    busDma,                 \* dma_cr of the bus
    crossed,                \* history: a read began between the two stores of a fall-back
    transfer,               \* the receiving channel is "busy" or "done"
    mpuDmaTimeouts, pollingFailures, retryNotBefore,
    buf, writeIdx,          \* the two buffers and the published one
    age,                    \* true age of each buffer's sample, up to MaxAge
    calState, calSamples,
    place, target,          \* per task: place in update(), its writeIdx
    checking, scans         \* the telemetry task is in refreshForDiagnostics()

busVars == <<busDma, crossed>>
dmaVars == <<mpuActive, mpuStart, busVars, transfer>>
pollVars == <<pollingFailures, retryNotBefore>>
bufferVars == <<buf, age>>
calVars == <<calState, calSamples>>
checkVars == <<checking, scans>>
sensorVars ==
    <<us, nowUs, served, dmaFastPath, dmaVars, mpuDmaTimeouts, pollVars, bufferVars, writeIdx,
      calVars, place, target, checkVars>>

Tasks == {"sensor", "telemetry"}
MaxAge == StaleTimeout + 1
NoSample == [valid |-> FALSE, stamp |-> 0]     \* its stamp is not looked at

\* (uint32_t)(us - start)
Elapsed(start) == (us + MicrosSize - start) % MicrosSize
\* (int32_t)(us - deadline) < 0
Ahead(deadline) == (us + MicrosSize - deadline) % MicrosSize >= MicrosSize \div 2

runs(t) == t = "telemetry" \/ place["telemetry"] = "rest"

SensorInit ==
    /\ us = 0 /\ nowUs = [t \in Tasks |-> 0] /\ served = {}
    /\ dmaFastPath \in BOOLEAN
    /\ mpuActive = dmaFastPath /\ mpuStart = 0
    /\ busDma = dmaFastPath /\ crossed = FALSE /\ transfer = "busy"
    /\ mpuDmaTimeouts = 0 /\ pollingFailures = 0 /\ retryNotBefore = 0
    /\ buf = [i \in {0, 1} |-> NoSample]
    /\ age = [i \in {0, 1} |-> 0]
    /\ writeIdx = 0
    /\ calState = "idle" /\ calSamples = 0
    /\ place = [t \in Tasks |-> "rest"] /\ target = [t \in Tasks |-> 0]
    /\ checking = FALSE /\ scans = 0

-----------------------------------------------------------------------------
(* What update() is built from                                              *)

enter(t) ==
    /\ runs(t) /\ place[t] = "rest" /\ t \notin served
    /\ t = "telemetry" => checking
    /\ served' = served \cup {t}

goTo(t, p) == place' = [place EXCEPT ![t] = p]

fill(t, sample) ==
    /\ target' = [target EXCEPT ![t] = 1 - writeIdx]
    /\ buf' = [buf EXCEPT ![1 - writeIdx] = sample]
    /\ age' = [age EXCEPT ![1 - writeIdx] = 0]

takeTime(t) == nowUs' = [nowUs EXCEPT ![t] = us]

\* SensorDmaBus::startMpuRead(); it asks nothing of the fast path.
startRead(start) ==
    /\ mpuActive' = TRUE /\ mpuStart' = start
    /\ busDma' = TRUE /\ crossed' = (place["sensor"] = "falling")
    /\ transfer' = "busy"

\* Mutant: the last sample is not counted.
observeFrameLate ==
    IF calState # "collecting" THEN UNCHANGED calVars
    ELSE IF calSamples + 1 = CalSamples THEN calSamples' = 0 /\ UNCHANGED calState
    ELSE calSamples' = calSamples + 1 /\ UNCHANGED calState

\* _observeCalibrationRawFrame() and _finishAsyncImuCalibration(); every
\* observed frame is a valid sample, so the half that is asked for is there.
observeFrame ==
    IF calState # "collecting" THEN UNCHANGED calVars
    ELSE IF calSamples + 1 >= CalSamples THEN calState' = "complete" /\ calSamples' = 0
    ELSE calSamples' = calSamples + 1 /\ UNCHANGED calState

ready == mpuActive /\ transfer = "done"
\* mpuTimedOut(), by the time the task took before it: of a transfer that was
\* restarted meanwhile the difference wraps.
timedOut(t) == mpuActive /\ (nowUs[t] + MicrosSize - mpuStart) % MicrosSize > DmaTimeout

-----------------------------------------------------------------------------
(* update()                                                                 *)

\* A polling device that failed is left alone for a while.
pollHeldBack(t) ==
    /\ enter(t) /\ ~dmaFastPath
    /\ Ahead(retryNotBefore)
    /\ UNCHANGED <<us, nowUs, dmaFastPath, dmaVars, mpuDmaTimeouts, pollVars, bufferVars, writeIdx,
                   calVars, place, target, checkVars>>

pollFails(t) ==
    /\ enter(t) /\ ~dmaFastPath /\ ~Ahead(retryNotBefore)
    /\ pollingFailures' = IF pollingFailures < RetryMax THEN pollingFailures + 1 ELSE RetryMax
    /\ retryNotBefore' = (us + pollingFailures') % MicrosSize
    /\ UNCHANGED <<us, nowUs, dmaFastPath, dmaVars, mpuDmaTimeouts, bufferVars, writeIdx, calVars, place,
                   target, checkVars>>

pollFrame(t) ==
    /\ enter(t) /\ ~dmaFastPath /\ ~Ahead(retryNotBefore)
    /\ pollingFailures' = 0 /\ retryNotBefore' = 0
    /\ fill(t, [valid |-> TRUE, stamp |-> us])
    /\ observeFrame
    /\ goTo(t, "polled")
    /\ UNCHANGED <<us, nowUs, dmaFastPath, dmaVars, mpuDmaTimeouts, writeIdx, checkVars>>

\* _mpu_dma_ready(); a transfer that is not done is judged by the time of now.
look(t) ==
    /\ enter(t) /\ dmaFastPath
    /\ IF ready THEN goTo(t, "ready") /\ UNCHANGED nowUs
                ELSE goTo(t, "waiting") /\ takeTime(t)
    /\ UNCHANGED <<us, dmaFastPath, dmaVars, mpuDmaTimeouts, pollVars, bufferVars, writeIdx, calVars,
                   target, checkVars>>

nothingYet(t) ==
    /\ runs(t) /\ place[t] = "waiting" /\ ~timedOut(t)
    /\ goTo(t, "rest")
    /\ UNCHANGED <<us, nowUs, served, dmaFastPath, dmaVars, mpuDmaTimeouts, pollVars, bufferVars, writeIdx,
                   calVars, target, checkVars>>

\* Mutant: the sample of before the timeout stays valid.
dmaExpiresValid(t) ==
    /\ runs(t) /\ place[t] = "waiting" /\ timedOut(t)
    /\ mpuActive' = FALSE
    /\ mpuDmaTimeouts' = mpuDmaTimeouts + 1
    /\ fill(t, buf[writeIdx])
    /\ goTo(t, "expired")
    /\ UNCHANGED <<us, nowUs, served, dmaFastPath, mpuStart, busVars, transfer, pollVars, writeIdx, calVars,
                   checkVars>>

\* abortMpu(); an invalid sample is published in place of the one that timed out.
dmaExpires(t) ==
    /\ runs(t) /\ place[t] = "waiting" /\ timedOut(t)
    /\ mpuActive' = FALSE
    /\ mpuDmaTimeouts' = mpuDmaTimeouts + 1
    /\ fill(t, NoSample)
    /\ goTo(t, "expired")
    /\ UNCHANGED <<us, nowUs, served, dmaFastPath, mpuStart, busVars, transfer, pollVars, writeIdx, calVars,
                   checkVars>>

\* parseRawSample() and finishMpu(), which ends whatever transfer there is.
dmaFrame(t) ==
    /\ runs(t) /\ place[t] = "ready"
    /\ mpuActive' = FALSE
    /\ mpuDmaTimeouts' = 0
    /\ fill(t, [valid |-> TRUE, stamp |-> us])
    /\ observeFrame
    /\ goTo(t, "framed")
    /\ UNCHANGED <<us, nowUs, served, dmaFastPath, mpuStart, busVars, transfer, pollVars, writeIdx, checkVars>>

publish(t) ==
    /\ runs(t) /\ place[t] \in {"polled", "framed", "expired"}
    /\ writeIdx' = target[t]
    /\ goTo(t, CASE place[t] = "polled"  -> "rest"
                 [] place[t] = "framed"  -> "next"
                 [] place[t] = "expired" -> "retry")
    /\ UNCHANGED <<us, nowUs, served, dmaFastPath, dmaVars, mpuDmaTimeouts, pollVars, bufferVars,
                   calVars, target, checkVars>>

atLimit == mpuDmaTimeouts >= FallbackLimit

\* The two stores of the fall-back; a check that comes in between still takes
\* the fast path.
disableDma(t) ==
    /\ runs(t) /\ place[t] = "retry" /\ atLimit
    /\ busDma' = FALSE /\ crossed' = FALSE
    /\ goTo(t, "falling")
    /\ UNCHANGED <<us, nowUs, served, dmaFastPath, mpuActive, mpuStart, transfer, mpuDmaTimeouts, pollVars,
                   bufferVars, writeIdx, calVars, target, checkVars>>

fallBack(t) ==
    /\ runs(t) /\ place[t] = "falling"
    /\ dmaFastPath' = FALSE
    /\ goTo(t, "rest")
    /\ UNCHANGED <<us, nowUs, served, dmaVars, mpuDmaTimeouts, pollVars, bufferVars, writeIdx, calVars, target,
                   checkVars>>

\* _mpu_start_dma_read(), the last call of update(): the fast path is looked at
\* and the time taken, and then the transfer is started.
startNext(t) ==
    /\ runs(t)
    /\ place[t] = "next" \/ (place[t] = "retry" /\ ~atLimit)
    /\ IF dmaFastPath THEN goTo(t, "start") /\ takeTime(t)
                      ELSE goTo(t, "rest") /\ UNCHANGED nowUs
    /\ UNCHANGED <<us, served, dmaFastPath, dmaVars, mpuDmaTimeouts, pollVars, bufferVars, writeIdx, calVars,
                   target, checkVars>>

startMpuRead(t) ==
    /\ runs(t) /\ place[t] = "start"
    /\ startRead(nowUs[t])
    /\ goTo(t, "rest")
    /\ UNCHANGED <<us, nowUs, served, dmaFastPath, mpuDmaTimeouts, pollVars, bufferVars, writeIdx, calVars,
                   target, checkVars>>

updateSensor(t) ==
    \/ pollHeldBack(t) \/ pollFails(t) \/ pollFrame(t)
    \/ look(t) \/ nothingYet(t) \/ dmaExpires(t) \/ dmaFrame(t)
    \/ publish(t) \/ disableDma(t) \/ fallBack(t) \/ startNext(t) \/ startMpuRead(t)

-----------------------------------------------------------------------------
(* The sensor check of the telemetry task                                   *)

Older(d) == [i \in {0, 1} |-> IF age[i] + d > MaxAge THEN MaxAge ELSE age[i] + d]

restart(start) ==
    IF dmaFastPath THEN startRead(start)
    ELSE busDma' = FALSE /\ crossed' = FALSE /\ UNCHANGED <<mpuActive, mpuStart, transfer>>

scanI2cBus(d) ==
    /\ place["telemetry"] = "rest" /\ ~checking /\ scans < MaxScans
    /\ us' = (us + d) % MicrosSize
    /\ age' = Older(d)
    /\ restart(us')
    /\ checking' = TRUE
    /\ scans' = scans + 1
    /\ UNCHANGED <<nowUs, served, dmaFastPath, mpuDmaTimeouts, pollVars, buf, writeIdx, calVars,
                   place, target>>

\* A scan soon after the last one, the boot's included, is skipped.
skipI2cScan ==
    /\ place["telemetry"] = "rest" /\ ~checking /\ scans < MaxScans
    /\ checking' = TRUE
    /\ scans' = scans + 1
    /\ UNCHANGED <<us, nowUs, served, dmaFastPath, dmaVars, mpuDmaTimeouts, pollVars, bufferVars, writeIdx,
                   calVars, place, target>>

\* refreshForDiagnostics() returns: a valid sample is there or time is up.
endCheck ==
    /\ checking /\ place["telemetry"] = "rest"
    /\ checking' = FALSE
    /\ UNCHANGED <<us, nowUs, served, dmaFastPath, dmaVars, mpuDmaTimeouts, pollVars, bufferVars, writeIdx,
                   calVars, place, target, scans>>

-----------------------------------------------------------------------------
\* Both are called by the sensor task between two updates.
beginImuCalibration ==
    /\ runs("sensor") /\ place["sensor"] = "rest"
    /\ calState # "collecting"
    /\ calState' = "collecting" /\ calSamples' = 0
    /\ UNCHANGED <<us, nowUs, served, dmaFastPath, dmaVars, mpuDmaTimeouts, pollVars, bufferVars, writeIdx,
                   place, target, checkVars>>

takeImuCalibrationResult ==
    /\ runs("sensor") /\ place["sensor"] = "rest"
    /\ calState = "complete"
    /\ calState' = "idle"
    /\ UNCHANGED <<us, nowUs, served, dmaFastPath, dmaVars, mpuDmaTimeouts, pollVars, bufferVars, writeIdx,
                   calSamples, place, target, checkVars>>

\* The DMA controller; a device that does not answer never completes.
completeTransfer ==
    /\ transfer = "busy" /\ mpuActive /\ busDma
    /\ transfer' = "done"
    /\ UNCHANGED <<us, nowUs, served, dmaFastPath, mpuActive, mpuStart, busVars, mpuDmaTimeouts, pollVars,
                   bufferVars, writeIdx, calVars, place, target, checkVars>>

\* The sensor task keeps its period.  What nothing reads again is forgotten here:
\* the buffer that is not published, the start of a transfer that is over, or
\* that polling left behind, and the times the tasks went by.
NextPeriod ==
    /\ "sensor" \in served /\ \A t \in Tasks : place[t] = "rest"
    /\ us' = (us + 1) % MicrosSize
    /\ buf' = [buf EXCEPT ![1 - writeIdx] = NoSample]
    /\ age' = [Older(1) EXCEPT ![1 - writeIdx] = 0]
    /\ mpuStart' = IF mpuActive /\ dmaFastPath THEN mpuStart ELSE 0
    /\ target' = [t \in Tasks |-> 0] /\ nowUs' = [t \in Tasks |-> 0]
    /\ served' = {}
    /\ UNCHANGED <<dmaFastPath, mpuActive, busVars, transfer, mpuDmaTimeouts, pollVars, writeIdx,
                   calVars, place, checkVars>>

SensorNext ==
    \/ \E t \in Tasks : updateSensor(t)
    \/ \E d \in 0 .. ScanTime : scanI2cBus(d)
    \/ skipI2cScan \/ endCheck \/ beginImuCalibration \/ takeImuCalibrationResult \/ completeTransfer \/ NextPeriod

\* Both tasks are scheduled, a check ends and time goes on; nothing is assumed
\* of the device.
SensorFairness ==
    /\ SF_sensorVars(updateSensor("sensor"))
    /\ WF_sensorVars(updateSensor("telemetry"))
    /\ WF_sensorVars(endCheck)
    /\ WF_sensorVars(NextPeriod)

SensorSpec == SensorInit /\ [][SensorNext]_sensorVars /\ SensorFairness

-----------------------------------------------------------------------------
SensorTypeOK ==
    /\ us \in 0 .. MicrosSize - 1 /\ nowUs \in [Tasks -> 0 .. MicrosSize - 1] /\ served \subseteq Tasks
    /\ dmaFastPath \in BOOLEAN /\ mpuActive \in BOOLEAN /\ busDma \in BOOLEAN /\ crossed \in BOOLEAN
    /\ checking \in BOOLEAN
    /\ mpuStart \in 0 .. MicrosSize - 1 /\ retryNotBefore \in 0 .. MicrosSize - 1
    /\ transfer \in {"busy", "done"}
    /\ mpuDmaTimeouts \in Nat /\ pollingFailures \in 0 .. RetryMax
    /\ buf \in [{0, 1} -> [valid : BOOLEAN, stamp : 0 .. MicrosSize - 1]]
    /\ age \in [{0, 1} -> 0 .. MaxAge]
    /\ writeIdx \in {0, 1} /\ target \in [Tasks -> {0, 1}]
    /\ calState \in {"idle", "collecting", "complete"} /\ calSamples \in 0 .. CalSamples - 1
    /\ place \in [Tasks -> {"rest", "polled", "ready", "waiting", "framed", "expired", "next", "retry",
                         "falling", "start"}]
    /\ scans \in 0 .. MaxScans

\* getLatest() calls the published sample Ok.
Ok == buf[writeIdx].valid /\ Elapsed(buf[writeIdx].stamp) <= StaleTimeout

\* The fast path cannot come to a standstill unnoticed: between two updates a
\* transfer is always under way, which will complete or time out, wherever a
\* sensor check aborted the previous one.
ReadUnderWay == (\A t \in Tasks : place[t] = "rest") /\ dmaFastPath => mpuActive /\ busDma

\* On the fast path a sample that getLatest() calls Ok really is young: a
\* silent device is published as invalid before the clock could come round.
FastSamplesAreFresh == dmaFastPath /\ Ok => age[writeIdx] <= StaleTimeout

\* In polling mode the bus is left in DMA mode only where a sensor check started
\* a read between the two stores of the sensor task's fall-back; nobody waits
\* for that read, and the next check's scan gives the bus back.
PollingHasTheBus == ~dmaFastPath /\ busDma => crossed

\* A device whose transfers never complete again is polled in the end, however
\* the sensor checks abort and restart them.
FallsBack == <>[](transfer = "busy") => <>[]~dmaFastPath

\* As long as frames keep coming a calibration ends.
CalibrationEnds ==
    []<>(place["sensor"] \in {"framed", "polled"}) => []<>(calState # "collecting")

\* docs/V1_0_Remaining_Work.md:145: the raw I2C fallback works.  A device that
\* answered its last poll is read again by the next update.
PollingIsNotHeldBack == ~dmaFastPath /\ pollingFailures = 0 => ~Ahead(retryNotBefore)
=============================================================================
