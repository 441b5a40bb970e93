---------------------------- MODULE WatchdogGate ----------------------------
(***************************************************************************)
(* The hardware watchdog and the gate that feeds it                        *)
(* (core/safety/WatchdogGate.cpp, main.cpp): the flight loop on one core   *)
(* writes the time into a heartbeat, a task of the sensor task's scheduler *)
(* (core/scheduling/Scheduler.cpp) on the other looks at its age and feeds *)
(* the watchdog or does not.  The clock wraps; 0 stands for no heartbeat.  *)
(* Either core may stop for any time, also between the two loads of one    *)
(* look, whose order C++ leaves to the compiler.                           *)
(***************************************************************************)
EXTENDS Naturals

CONSTANTS DogClockSize,   \* values of micros()
          GatePeriod,     \* the gate's period in the scheduler
          StaleAge,       \* CORE1_STALE_THRESHOLD_US
          DogTimeout,     \* WATCHDOG_TIMEOUT_MS
          BootTime,       \* longest boot of the sensor task
          Worst           \* bound of the histories

ASSUME WatchdogAssumption ==
    /\ {DogClockSize, GatePeriod, StaleAge, DogTimeout, BootTime, Worst} \subseteq Nat \ {0}
    /\ StaleAge > GatePeriod
    /\ GatePeriod <= BootTime
    /\ BootTime + 3 * GatePeriod < DogTimeout
    /\ StaleAge + 2 * DogTimeout < DogClockSize
    /\ StaleAge + 2 * DogTimeout < Worst

VARIABLES
    clockFirst,    \* the build loads micros() before the heartbeat
    gate,          \* sensor task: "boot", "idle", "called", or "looking" (one value loaded)
    micros,
    heartbeat,     \* core1HeartbeatUs
    is_running,
    lastRunUs,     \* of the gate's task
    loaded,        \* the value the gate has loaded first
    dogAge,        \* time since watchdog_enable or watchdog_update
    \* histories, none of which wraps
    silent,        \* time since the last heartbeat
    idle,          \* time since the scheduler last came to the gate's end (or since boot)
    steady,        \* time since a heartbeat or the gate was last late
    excused,       \* looks since the last feed that a heartbeat overtook or that met 0
    overtaken      \* a heartbeat was written between the present look's loads

gateVars == <<gate, lastRunUs, loaded, dogAge>>
dogHistory == <<silent, idle, steady, excused, overtaken>>
dogVars == <<clockFirst, gateVars, micros, heartbeat, is_running, dogHistory>>

Elapsed(t) == (micros + DogClockSize - t) % DogClockSize
Upto(n, limit) == IF n < limit THEN n ELSE limit

-----------------------------------------------------------------------------
\* setup() enables the watchdog just before the tasks start.
DogInit ==
    /\ clockFirst \in BOOLEAN
    /\ gate = "boot" /\ micros = GatePeriod /\ heartbeat = 0 /\ is_running = FALSE
    /\ lastRunUs = 0 /\ loaded = 0 /\ dogAge = 0
    /\ silent = 0 /\ idle = 0 /\ steady = Worst /\ excused = 0 /\ overtaken = FALSE

-----------------------------------------------------------------------------
(* The flight loop, free to be late. *)

\* FlightControlTask::init() and every iteration of run(); a heartbeat that
\* repeats the last one's time changes nothing.
beat ==
    /\ is_running' = TRUE
    /\ heartbeat' = micros
    /\ silent' = 0
    /\ overtaken' = (gate = "looking")
    /\ UNCHANGED <<clockFirst, gateVars, micros, idle, steady, excused>>

-----------------------------------------------------------------------------
(* The sensor task. *)

\* runDeferredSensorBoot() is over: the scheduler is reset and the gate added to it.
startScheduler ==
    /\ gate = "boot"
    /\ gate' = "idle"
    /\ lastRunUs' = 0
    /\ UNCHANGED <<clockFirst, loaded, dogAge, micros, heartbeat, is_running, dogHistory>>

\* Mutant: times are compared without regard to the wrap.
dueUnwrapped == micros >= lastRunUs + GatePeriod

due == Elapsed(lastRunUs) >= GatePeriod

\* Scheduler::tick() reads the clock and runs the tasks that are due, the gate last.
schedulerTick ==
    /\ gate = "idle" /\ due
    /\ gate' = "called"
    /\ lastRunUs' = micros
    /\ UNCHANGED <<clockFirst, loaded, dogAge, micros, heartbeat, is_running, dogHistory>>

\* The gate evaluates the first of its two arguments.
startLook ==
    /\ gate = "called"
    /\ gate' = "looking"
    /\ loaded' = IF clockFirst THEN micros ELSE heartbeat
    /\ overtaken' = FALSE
    /\ UNCHANGED <<clockFirst, lastRunUs, dogAge, micros, heartbeat, is_running, silent, idle, steady, excused>>

\* The gate is not due: the scheduler is done for now.
passBy ==
    /\ gate = "idle" /\ ~due
    /\ idle' = 0
    /\ UNCHANGED <<clockFirst, gateVars, micros, heartbeat, is_running, silent, steady, excused, overtaken>>

\* Mutant: a heartbeat of any age will do.
shouldFeedAlive(nowUs, beatUs) == is_running /\ beatUs # 0

shouldFeed(nowUs, beatUs) ==
    /\ is_running
    /\ beatUs # 0
    /\ (nowUs + DogClockSize - beatUs) % DogClockSize < StaleAge

endLook ==
    /\ gate = "looking"
    /\ gate' = "idle"
    /\ LET nowUs == IF clockFirst THEN loaded ELSE micros
           beatUs == IF clockFirst THEN heartbeat ELSE loaded
       IN IF shouldFeed(nowUs, beatUs)
            THEN dogAge' = 0 /\ excused' = 0
            ELSE /\ UNCHANGED dogAge
                 /\ excused' = Upto(excused + (IF overtaken \/ beatUs = 0 THEN 1 ELSE 0), 2)
    /\ loaded' = 0
    /\ idle' = 0
    /\ overtaken' = FALSE
    /\ UNCHANGED <<clockFirst, micros, heartbeat, is_running, lastRunUs, silent, steady>>

-----------------------------------------------------------------------------
(* Time, and the watchdog itself. *)

\* A heartbeat in every unit, the scheduler at the gate once a period.
inTime == silent' <= 1 /\ (gate = "boot" \/ idle' <= GatePeriod)

DogTick ==
    /\ dogAge < DogTimeout
    /\ gate = "boot" => dogAge < BootTime
    /\ micros' = (micros + 1) % DogClockSize
    /\ dogAge' = dogAge + 1
    /\ silent' = Upto(silent + 1, Worst)
    /\ idle' = IF gate = "boot" THEN 0 ELSE Upto(idle + 1, GatePeriod + 1)
    /\ steady' = IF inTime THEN Upto(steady + 1, Worst) ELSE 0
    /\ UNCHANGED <<clockFirst, gate, heartbeat, is_running, lastRunUs, loaded, excused, overtaken>>

\* A reset starts everything anew, the clock too.
watchdogReset ==
    /\ dogAge = DogTimeout
    /\ gate' = "boot" /\ micros' = GatePeriod /\ heartbeat' = 0 /\ is_running' = FALSE
    /\ lastRunUs' = 0 /\ loaded' = 0 /\ dogAge' = 0
    /\ silent' = 0 /\ idle' = 0 /\ steady' = Worst /\ excused' = 0 /\ overtaken' = FALSE
    /\ UNCHANGED clockFirst

DogNext == beat \/ startScheduler \/ passBy \/ schedulerTick \/ startLook \/ endLook \/ DogTick \/ watchdogReset

-----------------------------------------------------------------------------
DogTypeOK ==
    /\ clockFirst \in BOOLEAN /\ is_running \in BOOLEAN /\ overtaken \in BOOLEAN
    /\ gate \in {"boot", "idle", "called", "looking"}
    /\ {micros, heartbeat, lastRunUs, loaded} \subseteq 0..(DogClockSize - 1)
    /\ dogAge \in 0..DogTimeout
    /\ silent \in 0..Worst /\ idle \in 0..(GatePeriod + 1)
    /\ steady \in 0..Worst /\ excused \in 0..2

\* A vehicle whose flight loop and gate have been in time for a whole timeout,
\* boot included, is not reset, wherever the clock wraps and although one look may
\* meet the heartbeat 0 or be overtaken by a heartbeat.
HealthyIsNotReset == dogAge = DogTimeout => steady < DogTimeout \/ excused = 2

\* A flight loop that stands still is reset, also when the gate is stopped in the
\* middle of a look, and never taken for alive because the clock came round.
StalledIsReset == silent <= StaleAge + 2 * DogTimeout
=============================================================================
