# AeroPico-FC: TLA+ models, checks and proofs

AeroPico-FC is the firmware of a fixed-wing flight controller on an RP2350: two
cores, FreeRTOS, a sensor and safety loop on core 0, the actuators on core 1, a
ground station over MAVLink. This directory models the parts of it in which
concurrency, ordering, a loss of power or a wrapping counter decide whether the
program is right. The control laws, filters and parsers are left to unit tests.

Paths below are relative to `src/src/` unless they start with `docs/`, `test/`,
`tools/` or `website/` (which are below `src/`).

## 1. The system

### Tasks

`app/AppTasks.cpp` creates three tasks, and everything in the models about who
may interrupt whom comes from there:

| task | core | priority | what it runs |
|---|---|---|---|
| sensor (`taskSensor`, `main.cpp`) | 0 | low | a `Scheduler` of periodic handlers, one after another: sensors, RC, preflight gate, `publishState`, service commands, calibration frames |
| telemetry (`taskTelemetry`) | 0 | high | MAVLink input and output, parameters, the health report; preempts the sensor task between any two of its steps and completes a call before the sensor task runs on |
| flight (`taskFlight`) | 1 | high | `FlightControlTask::run`: reads the published state and writes the servos, truly in parallel with core 0 |

A call made by the telemetry task is therefore one atomic step as seen by the
sensor task; a call made by the sensor task has to be taken apart at each access
to shared state, wherever both tasks enter the same object (event bus, battery monitor, preflight
table, sensor manager, mailbox, the UART's queue); between the cores every access is a step of its own.

### Components

State, operations, interactions and what makes each component correct. The
status of each is in `PROJECT.json`; section 3 says how the modelled ones are
modelled.

| component | state it keeps | operations and partners | what is hard | what it must guarantee |
|---|---|---|---|---|
| Seqlock topics (`core/data`) | sequence, published, value | `publish` (sensor task), `read` (flight task on the other core, telemetry task above the writer) | word-wise copy during a write; a reader that keeps the writer from running | no torn read, every read returns, reads never go back |
| Flight mode controller (`core/control`) | flight state, two hold timers | `update` every publication; arm, force-arm and disarm requests | a request changes the state in the middle of `update` | see flight manager |
| Flight manager (`core/flight`) | shared flags: armed, bench session, authority, faults | `publishState` (sensor), `requestArmFromMavlink` (telemetry), `isArmed` (all) | requests between load and store of the armed state; a session that outlives its authority | a failsafe disarms, arming is authorised, a disarm reaches the servos |
| Failsafe manager (`core/safety`) | none | `evaluate` over data, policy and bench mask | which input each reason is read from | each enabled cause becomes a reason |
| System event bus (`core/events`) | ring, head, tail, drop count | `publish` (sensor, telemetry), `consume` (telemetry) | two producers on a ring for one: one overtakes the other; capacity; index wrap | nothing accepted is lost, every refusal is counted, and an overtaken publication does no lasting harm |
| Service commands (`app`) | request slot, completion slot, calibration state | `submit`/`takeCompletion` (telemetry), `claim`/`complete` (sensor) | overwritten completions; a calibration that ends seconds after the armed check | each request answered once, in order; no flash write while armed |
| Flight control task (`core/control`) | servo test: surface, pulse, deadline; pending gains and mixer settings behind a sequence counter | `requestServoTest` (sensor), `set...` (telemetry), `run` (flight) | variables read across cores while they are stored; a wrapping clock | the requested test, on time, and only it; settings applied whole, and applied |
| Calibration and parameter storage (`storage`) | two flash sectors | `load`, `save` | loss of power inside a save; failed programming | the old or the new value, never neither |
| Parameter manager (`telemetry`) | values, dirty flag, list position, a save's attempt | set, save, request list, update (telemetry); module setup refresh (sensor) | a delay inside a save lets the other task run; restarts from old blobs; a wrapping clock | applied, stored and reported agree with what is set |
| Module setup, pins (`core/safety`, `main.cpp`, `drivers/Output.cpp`) | pins named by parameters, pins assigned at the start | changes by parameter, a start, the preflight's check | named pins and pins in use differ until the restart; two places check them differently | servos have pins of their own |
| RC pipeline, receiver (`core/rc`, `drivers`) | last frame, override, expiry | `update` (sensor), `setOverride` (telemetry) | a copy of the clock older than a new override; expiry and silence across a wrap | a loss is seen and only a loss, an override holds and expires, armed flight returns to the receiver |
| Scheduler, watchdog gate (`core/scheduling`, `core/safety`) | last run, heartbeat, hardware watchdog | `kickWatchdogIfHealthy` (sensor), heartbeat (flight) | unordered loads from two cores on a wrapping clock | a stalled vehicle is reset, a healthy one is not |
| Timing monitor (`core/scheduling`) | per-phase notes, reset request | `mark`, `endIteration` (flight), report (telemetry) | notes cleared on the other core | an overrun is reported before it is forgotten |
| Preflight (`core/safety`) | table of checks, critical flag | `update` (sensor), `evaluate` for reports and commands (telemetry) | one object entered from two tasks in the middle of an evaluation | the arm gate is backed by checks really made, a brownout is known |
| Battery monitor (`core/safety`) | filter, debounce, two latches, three limits | `evaluate` (sensor for the gate; telemetry for commands and reports), `init` by parameter (telemetry) | one object entered from two tasks; two hysteresis bands; limits in no order | low and brownout end only above their hysteresis |
| Sensor manager, auxiliary bus (`drivers`) | transfer, two buffers, retry times, health counters, calibration | `update` (sensor), the sensor check (telemetry), the DMA | a transfer that never ends, a check that aborts it or comes into the fall-back, staleness, wrapping times | samples are fresh, polling takes over, calibrations end, absent devices are dropped and present ones served |
| Sensor pipeline (`core/sensors`) | two estimators of the height | `update` every IMU sample | refusals, uncertainty and fallback interact | the barometer alone never makes the estimate invalid |
| PWM output (`drivers`) | four channel values, four FIFOs | flight task, timer interrupt, PIO | four stores and one latch; interrupts off for several periods | one pulse set is of neighbouring frames, channels stay in step, a frame is played |
| Blackbox, PIO UART (`telemetry`, `drivers`) | ring of records, partial record, transmit queue | telemetry task, the sensor task's boot texts, card, UART interrupt | overflow, partial writes, packets between records, two writers of one head | losses counted, records whole on the card, bytes in order on the wire |
| USB output (`utils`) | byte ring, try-lock | sensor and telemetry tasks, host | a lock that is never waited for; packets larger than the room | packets whole and in order, refusals counted |
| MAVLink handler and transport (`telemetry`) | heartbeat and stream times | `update` (telemetry); dispatch to the requests above | a wrapping clock; messages and time-outs in one update | link state true, streams on time, each command acknowledged once |
| Runtime health reporter (`app`) | latches, throttle slots | once a second (telemetry) | the same loss reported by two ways; a small table of repeated texts | what the ground was told last is true; a trouble is told again |
| Attitude fusion, mixer, PID, navigation | numbers | sensor and flight task | floating-point arithmetic | not modelled: no concurrency, covered by unit tests |
| GPS (`drivers`) | last fix | `update`, which nothing calls | | not modelled |
| HAL, device drivers, logging | registers, bytes | everyone | pure I/O | not modelled |
| Configurator, website | JavaScript on the host | MAVLink | another program | not modelled |

The hazards of this code, each at its line, with the properties that catch it,
are listed in `PROJECT.json` under `hazards`; section 4 (*Not modelled*) names those
the models do not reach.

## 2. Modules

| module | role | EXTENDS / INSTANCE |
|---|---|---|
| `AtomicTopic` | abstract: a register with atomic publish and read | |
| `SeqlockTopic` | `core/data/SeqlockTopic.h` word by word | INSTANCE `AtomicTopic` |
| `SeqlockTopicProofs` | theorems about it | EXTENDS `SeqlockTopic` |
| `EventQueue` | abstract: a bounded queue that counts refusals, and what an overtaken Put may do to it | |
| `SystemEventBus` | the ring of `core/events` | INSTANCE `EventQueue` |
| `ControlSettings` | pending gains and mixer settings of `FlightControlTask` | |
| `ServoOutput` | `drivers/Output.cpp`: channels, latch, FIFOs, PIO | |
| `Blackbox` | `telemetry/Blackbox.cpp` with the transmit queue of `drivers/PioUart.cpp` | |
| `UsbCdcTx` | `utils/UsbCdcTx.cpp` | |
| `Exchange` | the six buffers above in one run | EXTENDS all six |
| `ExchangeProofs` | theorems about the six | EXTENDS `Exchange`, `SeqlockTopicProofs` |
| `FlightModeController` | the flight state machine as operators over its variables | |
| `FlightManager` | `publishState`, requests, failsafe, flight loop | EXTENDS `FlightModeController` |
| `FlightManagerProofs` | theorems about it | EXTENDS `FlightManager` |
| `WatchdogGate` | gate, heartbeat, watchdog; the scheduler's due entry | |
| `TimingMonitor` | notes of overruns, report, reset across the cores | |
| `PreflightRuntime` | the table of checks and its two users | |
| `BatteryMonitor` | filter, debounce, hysteresis | |
| `MavlinkHandler` | link, streams, acknowledgements | |
| `RuntimeHealthReporter` | the receiver's loss on its two ways to the ground | |
| `StatusThrottle` | the throttle of repeated texts | |
| `Supervision` | the flight manager and the seven above in one run | EXTENDS all eight |
| `SupervisionProofs` | theorems about the eight | EXTENDS `Supervision`, `FlightManagerProofs` |
| `ServiceCommandMailbox` | the two slots, as operators | |
| `ServiceCommandProcessor` | `process`, the telemetry side, calibrations | EXTENDS `ServiceCommandMailbox` |
| `SensorManager` | `drivers/Sensors.cpp`: DMA, polling, calibration, the sensor check | |
| `SensorAuxBus` | magnetometer and barometer on the shared bus | |
| `SensorPipeline` | which height estimate is published | |
| `SensorServices` | the four above in one run | EXTENDS all four |
| `SensorServicesProofs` | theorems about the four | EXTENDS `SensorServices` |
| `RCPipeline` | receiver and override, `drivers/RX.cpp` with `core/rc` | |
| `FlightControlTask` | the servo test across the two cores | |
| `ControlPath` | receiver and servo test in one run | EXTENDS both |
| `RCPipelineProofs` | theorems about both | EXTENDS `ControlPath` |
| `DurableRegister` | abstract: a value that survives a loss of power | |
| `FlashJournal` | `storage/CalibrationStorage.cpp` | INSTANCE `DurableRegister` |
| `FlashJournalProofs` | theorems about it | EXTENDS `FlashJournal` |
| `ParamManager` | `telemetry/ParamManager.cpp` over a durable register | |
| `ModuleSetup` | the pins named, checked and used | |
| `Storage` | journal, parameters and pins in one run | EXTENDS all three |
| `StorageProofs` | theorems about the three | EXTENDS `Storage`, `FlashJournalProofs` |

`Exchange`, `Supervision`, `SensorServices`, `ControlPath` and `Storage` are *sums*.
Their components do not share variables: each is written against what its
neighbours promise, with every result of a neighbour as a free input (any
request at any time, any answer of a device, any verdict of a check). A behaviour
of a sum is therefore one of a single component, chosen by the variable
`component` (or `buffer`), while the others stay in one fixed initial state. A
sum checks all its components at the cost of the sum of their states; it says
nothing about two of them together beyond what the free inputs already cover.
Where two parts do share state, they are in one module (the receiver and the
override, the journal and its crash, the sensor task and the check that preempts
it, the blackbox and the UART with both its writers).

The instances are small enough to be given in the `.cfg` files directly, and the
sums take the place of `MC` modules. Definitions whose comment starts with `Mutant:` are
wrong variants of the definition that follows them; nothing uses them except the
`mutants` list of `PROJECT.json`, which pairs each one with the property it must
break.

## 3. How the models correspond to the code

**SeqlockTopic.** `publish()` is `BeginPublish` (sequence to odd), one
`StoreWord` per word in any order, `EndPublish` (sequence to even), and once
`SetPublished`. `read()` is `StartRead`, then per attempt `SkipOdd`, or
`LoadBefore`, `CopyWord`s and `LoadAfter`; `GiveUp` after `MAX_READ_ATTEMPTS`.
A word's content is the number of the publication that wrote it, which is all
that tearing can be told by. `WriterRuns` is the preemption rule: while a reader
that runs above the writer on its core is inside `read()`, the writer does not
move. The memory is sequentially consistent in the model; the code's fences
order the accesses on the hardware. The 32-bit sequence is not wrapped: it could
only repeat within one read after 2^32 increments.

**FlightModeController, FlightManager.** A publication is eleven steps, one per
access to something another task may change: take over the system faults, load the session and its authority,
evaluate the failsafe, end the session, load `wasArmed`, load the controller's
state, update the controller *on the state loaded*, load `isArmed`, close the
session, load `isArmed` again, store the shared flag. Arming requests from
MAVLink are single actions that may come between any two of them; the flight loop
reads the shared flag at any time. Sensor and estimator health is one bit, timing,
battery and actuator faults another; sticks are the four positions the guards can
tell apart; the RC state with the receiver's failsafe always has the sticks low
and centred, as `failsafeState()` makes it. A hold timer counts ticks up to
`ArmHold`, where the code's comparison becomes true and stays true.

**SystemEventBus.** The sensor task's `publish()` is load head, check, write
slot, store head; a publish or consume of the telemetry task is one step, and may come
between any two of them. When it publishes there, the publication under way is *overtaken*:
it stores a stale head. From then on the properties promise less, until `consume` finds
the ring empty with no publication under way (`foundEmpty`), which the code does not notice
and needs not: its indices are equal again. `issued`, `accepted`, `consumed`, `overtaken` and
`uncounted` are histories.

**ServiceCommandMailbox, ServiceCommandProcessor.** `process()` is a step per
access to the mailbox and to the armed flag: the result of a calibration, its
save, then the claim in four steps (mark, copy, clear, release), the armed check,
the command, and `complete()` in three (head, reason, flag). Whether a sensor is
there, a calibration valid or a flash write successful is a free choice at the
point where the code asks.

**FlightControlTask.** Three stores on core 0, three loads on core 1, and a clock
that wraps. Time passes between iterations and between requests only: both take
microseconds, while a tick stands for a noticeable part of a servo test.

**RCPipeline.** One `update()` is `beginUpdate` (copy the clock),
`updateReceiver` (a good frame, one with the failsafe bit, or none),
`checkExpiry`, `dropOverride` if it said so, and `selectSource`, which also stores
and publishes the state. `setOverride`, `clearOverride` and
`setFailsafeTimeoutMs` of the telemetry task come between any two of them, and so
do ticks of the clock. Overrides need a disarmed vehicle (`main.cpp` leaves
override enabled and not allowed while armed); so does clearing one. Of a state
only its origin is kept, not its channels. The histories `silence`,
`overrideAge` and `armedFor` count ticks without wrapping, up to `Horizon`, so that
a property can speak of times the wrapping clock no longer tells.

**FlashJournal.** `save()` is `begin` (load, next generation, sector), then up to
three rounds of `erase`, `program`, `verify`; `refuse` and `keep` are its early
returns. `program` may leave nothing valid. `crash` may come at any point; after
it only the flash is left. A sector holds a whole blob or nothing valid: the
checksum tells them apart, and the model takes it to be perfect. `load()` is the
newest blob of the journal and of the previous firmware's area, or else the
legacy value. Generations are bounded in the runs and not wrapped: a sector is
worn out long before 2^32 saves.

**ParamManager.** A message of the ground station is one step, and so is a turn of
the send queue; a save is one step per attempt (`writeAttempt`) with the delay between
attempts as a state of its own, in which the sensor task runs. `Reset` may come anywhere
and `loadPersistent` finds what the register holds, also a blob of an older layout
or with values out of range. A set applies the parameter's group (`applied`), answers with
the value kept (`reported`) and marks `dirty`. The sensor task's `refreshModuleSetup` reads
its parameters one by one into `snapshot` before it applies them. One or two parameters
stand for a group. The list's send time is on the wrapping clock.

**ModuleSetup.** The parameters name pins (`named`), `restart` assigns them (`boot`) with
the start's own checks and those of `configurePins`, and `evaluatePins` is the
preflight's view. Any parameters may be stored, so every restart leads to an
initial state. The first and the last servo stand for the four.

**ControlSettings.** Both kinds, gains and mixer settings, each with its counter; word by
word, the words carrying their publication's number. The flight task looks at one kind
after the other and leaves a record whose counter is odd, unchanged since the
last time, or moved during the copy. As in `SeqlockTopic` memory is sequentially
consistent and the counter does not wrap.

**ServoOutput.** `beginFrame` and `storeChannel` are the flight task's, `latchChannel`
the timer interrupt's, `framePeriod` the end of a period: the PIO takes one pulse of each FIFO and
the timer is due. While interrupts are off (`MaxHeld` periods at most) calls
are owed and made up afterwards. A pulse is the number of its frame.

**Blackbox.** The telemetry task makes a record, writes a packet or drains the queue,
one call after the other; the UART's interrupt takes a byte between any two steps. A
byte knows what it belongs to and how many follow. The card may take all of a record,
a part, or nothing. While it boots the sensor task writes texts into the transmit queue; its
`write()` is four steps per byte (next head and room, slot, byte, head), between any two of
which a whole call of the telemetry task fits. `uartMixed` is a history: a byte was queued
while such a text held a head it had looked at, and no write has since begun with the queue
empty.

**UsbCdcTx.** Both tasks' calls are taken apart at lock, copy, head, count and
unlock, and interleave at every step. The host attaches, detaches, and takes as much
as it likes.

**WatchdogGate.** The heartbeat is the flight loop's clock value, 0 meaning none. The gate
is due (`Scheduler`), is called, loads clock and heartbeat in the order
`clockFirst` says (C++ leaves it open; both orders are initial states), and feeds
the watchdog or not. Either core may stop for any time at any point, also
between the two loads. `steady`, `silent`, `idle` and `excused` are histories.

**TimingMonitor.** The flight task notes one phase after the other, skipping some as
its early returns do, and clears the notes at its next iteration if a reset was
requested; the report checks the notes one by one and then requests it. A phase is
its number.

**PreflightRuntime.** The sensor task's evaluation is a step per access to the
shared table and its flags; telemetry's (`evaluateOnRequest`, also the health report's)
is one step anywhere in between. Three checks stand for the ten: one always required,
one the setup may not require, and the receiver's, which is asked when the table is
filled. `everOk` collects what was true at some time since the evaluation began.

**BatteryMonitor.** The sensor task's `evaluate()` is a step per load and store of the
monitor's filter and latches; what it has read before it may use as read or read again, as the
compiler pleases. Telemetry's evaluation, a failed one and `init()` by a parameter are one step
each, anywhere in between. Voltages are a coarse scale; the filter may end anywhere between
the old value and the sample; the three limits are parameters and keep no order. `below`,
`sinking`, `hasty` and `disturbed` are histories; the last says that an evaluation of the sensor
task was overtaken and that no reading since has settled the latches.

**MavlinkHandler.** `update` takes the messages that arrived, one step each,
then evaluates the link and sends what is due. One stream stands for the three
with a configurable rate.

**RuntimeHealthReporter, StatusThrottle.** `updateRc` of the sensor task is three
steps (receive, store, publish the event); the report is one, in any of the gaps.
The throttle is a report that asks for up to two texts out of a set larger
than its slots, on a wrapping clock.

**SensorManager.** One unit of the clock is the sensor task's 5 ms period. An `update`
is the look at the transfer and the clock, the decision (held back, poll failed or done, nothing
yet, timeout, frame), then `publish`, then the two stores of the fallback (`disableDma`,
`fallBack`) or the next transfer, whose time is taken before it starts; the telemetry task's
sensor check comes between any two of them: it scans, which takes time and restarts the transfer,
and then calls `update` itself. `crossed` is a history: a transfer was started between the two
stores of a fallback. A transfer may never complete. Calibrations count samples.

**SensorAuxBus.** A transaction of the sensor task begins and ends in two steps, and
the check may come in between with a scan and updates of its own. Devices come and go
(`plug`); a dropped one is found again by a scan only (`scanDevices`). The barometer's
measurement is the code's four transactions with two waits on the wrapping clock, and a
complete one may still be refused.

**SensorPipeline.** Heights are a few steps; one `updatePipeline` takes any sample.
The prediction may drift by a step, an accepted measurement draws the height towards it,
and whether the covariance is wide is kept as one bit. The counter of refused
measurements stops at 255 in the code and just above its limit here, where only the
comparison is left. All values are finite: the sample's are bounded integers, scaled.

## 4. What is checked

All runs pass except those named *violation*, each of which shows that the code
does not do what a document or a test says.

| run | properties | what it shows |
|---|---|---|
| `Exchange` | `NoTornSnapshot`, `NothingIsLost`, `NothingIsMixed`, `ReadTerminates`, `RecordsAreWhole`, `EverythingArrives`, `ImplementsAtomicTopic`, `ImplementsQueue` | the six buffers between tasks, cores, interrupts and host: the topic is an atomic register, the event ring a bounded queue but for the time from an overtaken publication to the next time it is empty; refusals are counted, what is taken stays whole, in order, and arrives, log records but for the time from a boot text that another write came into to the next time the transmit queue is empty |
| `Supervision` | `FailsafeDisarms`, `SessionNeedsAuthority`, `SharedFlagExact`, `SupervisionHolds`, `ClearanceHolds`, `ArmingIsAuthorised`, `OutputsSettle` | arming is safe under every interleaving of requests with a publication; the watchdog tells a stalled vehicle from a healthy one; what clears the vehicle and what the ground is told follows from checks really made |
| `SensorServices` | `RequestsInOrder`, `OneOutcomePerStart`, `SensorsHold`, `RequestsAnswered`, `SensorsProgress`, `AuxProgress` | requests are served once, in order, and answered; sampling never stands still or shows an old sample as new, with a check entering from another task; the barometer alone never makes the estimate invalid |
| `ControlPath` | `LossIsSeen`, `LossIsReal`, `SignalIsHeld`, `OverrideExpires`, `OverrideHolds`, `ArmedFliesOnReceiver`, `TestIsWhole`, `TestEndsOnTime` | with overrides set and cleared inside `update()` and a wrapping clock: a lost receiver is seen and nothing else is taken for a loss, overrides hold and expire, armed flight returns to the receiver; a servo test is the one requested and ends on time |
| `Storage` | `SettingsHold`, `StorageProgress`, `ImplementsRegister`, `ArmedWritesAreRetries` | a save is atomic under a loss of power and failed writes, and ends; applied, stored and reported parameters agree; servos have pins of their own |
| `FlightManagerRcLoss` | `RcLossIsRaised` (*violation*) | see findings |
| `SystemEventBusTwoProducers` | `NoSilentLoss` (*violation*) | see findings |
| `ServiceCommandProcessorReports` | `ReportsArePosts` (*violation*) | see findings |
| `ServiceCommandProcessorArmed` | `SavesOnlyDisarmed` (*violation*) | see findings |
| `FlightControlTaskStale` | `TestIsShort` (*violation*) | see findings |
| `SensorManagerPolling` | `PollingIsNotHeldBack` (*violation*) | see findings |
| `ServoOutputLatest` | `LatestIsPlayed` (*violation*) | see findings |

Every passing run checks the type invariants of its components as well. The
properties of the sums are conjunctions, each part defined and explained in its
component's module:

- `NothingIsLost`: `AcceptedIsDelivered` and `PublishedIsAccounted` (events), `LossIsCounted`
  and `BytesAreServed` (log), `RefusalsAreCounted` and `BytesInOrder` (USB).
- `NothingIsMixed`: `SettingsAreWhole`, `ThrottleLeads` and `PulsesStayInStep` (servos),
  `PreemptingReadIsStable` (topic).
- `EverythingArrives`: `EventsArrive`, `SettingsArrive`, `FrameIsPlayed`, `LogDrains`, `UsbDrains`.
- `SupervisionHolds`: `HealthyIsNotReset`, `StalledIsReset`, `OverrunsAreReported`.
- `ClearanceHolds`: `ArmGateIsBacked`, `BrownoutIsKnown`, `BatteryVerdicts`,
  `GroundStationIsTracked`, `StreamsKeepTheirPeriod`, `CommandsAreAcknowledged`,
  `RcNewsIsTrue`, `TroubleIsRepeated`.
- `OutputsSettle`: `DisarmReachesOutputs`, `FaultReachesOutputs`.
- `SensorsHold`: `ReadUnderWay`, `FastSamplesAreFresh`, `PollingHasTheBus`, `EstimateIsUsable`.
- `SensorsProgress`: `FallsBack`, `CalibrationEnds`. `AuxProgress`: `AuxLossIsSeen`,
  `AuxDevicesAreServed`.
- `SettingsHold`: `AppliedIsCurrent`, `CleanMeansStored`, `GroundStationInSync`,
  `ListOnTime`, `PinsAreTheirOwn`.
- `StorageProgress`: `SaveEnds`, `SetupCatchesUp`.

### Bounds, and why they are enough

`Exchange`
- topic: two words (a tear needs two), one reader on each core, three attempts,
  sequence up to 5: three publications, so a copy may span a whole publication
  and the halves of two others. The code's limit on attempts is larger; only
  that there is one matters, and the theorems hold for any.
- events: `Capacity` 4 (three usable slots) and six events: the ring fills,
  refuses and wraps, and publications overtake one another before, at and after each of these.
- settings: two words, two publications of each kind: a copy can be overtaken by a
  whole one.
- servos: FIFOs of two, interrupts off for up to three periods, two changes of
  frame: more calls owed than a FIFO holds, an old and a new frame in it
  (`ServoOutputLatest`: the hardware's FIFOs of four and five periods).
- log: two slots, records of two bytes, a packet of three and a text of one, a transmit queue with
  room for two, three records: ring and queue overflow, the packet is cut, a text meets
  a record at each of its steps, and records are left in part. The theorem holds for any sizes. USB: room for three bytes, packets of one, two and
  four (one never fits), three of them from two tasks.

`Supervision`
- flight manager: no counter but the hold timer, `ArmHold` 2: a gesture that has
  just begun, one that is held, one that is complete.
- watchdog: a look per unit, a stale age of 2, a timeout of 6, a start of at most 2 and
  a clock of 16; `Worst` 15 is where the histories stop, above `StaleAge + 2 * DogTimeout`,
  which is below a turn of the clock as in the code. The clock may wrap within any of them.
- timing: four phases. Battery: six voltages; a minimum of 2 or 4, a maximum of 4, a brownout
  limit of 3, hysteresis of 1 and 2: the brownout limit below the minimum and above it, the minimum
  equal to the maximum and apart from it, voltages between and beyond them, and a change of the
  minimum under way.
- link: a clock of 7, a timeout of 3, stream periods 1 and 2, updates at most 2 apart.
  Reports: room for three events, so that the receiver's is refused in some behaviours.
- throttle: two slots for three texts, a clock of 6 with a repeat time of 3: a text
  loses its slot, and the clock wraps between two sendings.

`SensorServices`
- commands: two requests of any kind, enough for a second request to be
  submitted at every step of the first and for a calibration to end while
  another command is served.
- IMU: a clock of 6 periods, timeouts of 1 and 2, fallback after 2 failures, calibrations of two
  samples, one check whose scan may take a period: everything happens across the wrap.
- auxiliary bus: conversion time 1, dropped after 2 failures, at most one period
  missed, one check.
- estimate: heights 0..3, a gate of 1, three refusals: measurements inside, at and
  outside the gate and a fallback that has to travel.

`ControlPath`
- receiver: timeouts of 1 and 2 ticks, an override timeout of 2, up to 2 ticks from the end of
  one update to the end of the next, and a clock of 8 ticks, the smallest the
  assumptions allow: the clock wraps within every timeout and several times
  within a silence. Requested timeouts lie below, within and above the range the
  driver accepts. The theorems hold for any values the assumptions allow.
- servo test: a clock of 9 ticks (10 in `FlightControlTaskStale`), tests of at most
  2, so that the clock wraps within a test, between two tests and after one; two
  surfaces and two pulses, so that a mixture of two tests is visible.

`Storage`
- journal: two values, three attempts as in the code, five generations: each
  sector is reused, and a previous area may hold any of them.
- parameters: one of the kind applied at once and one of the module setup, two values,
  three attempts, a clock of 4, each half of which has a time before and after. A refresh
  of one setup parameter can be stale but not mixed; the theorems are about any table of
  parameters, so the invariants hold with mixed readings too, and that the setup catches
  up was checked for two setup parameters apart from the run (`GroupOf` `<<"setup",
  "setup">>`, two attempts, a clock of 2, 469,786 states), which is beyond the run's time
  together with the rest.
- pins: named among six and buses among five that include every pin the code treats
  differently (defaults, the receiver's, the standard and the moved bus), one
  change after the start.

`MaxSequence`, `MaxEvents`, `MaxSettings`, `MaxFrames`, `MaxRecords`, `MaxPackets`, `MaxTexts`,
`MaxUsbPackets`, `MaxRequests`, `MaxScans`, `MaxAuxChecks`, `MaxGeneration` and
`SetupChanges` are bounds on counters; each is a guard of the one action that would
exceed it. `Period`, `UpdatePeriod`, `ReportPeriod`, `MaxAuxGap` and `MaxHeld` bound time
instead: they are guards of the clock's steps and stand for the scheduler calling
its handlers in time, or for the longest time interrupts are off.

### Fairness, and why the code justifies it

Each condition of a sum is that of one component, `WF(component = "x" /\ A)`, so it
asks nothing of the others.

- `InRead(r)`: a task inside `read()` goes on. The telemetry task has the
  highest priority on its core and the flight task on its own.
- `publishState`, `flightLoop`, `process`, `applySettings`, `beginFrame`,
  `storeChannel`: the sensor task's scheduler calls its handlers in every round and
  the flight loop keeps its period; the telemetry task sleeps between its rounds,
  so the task below it runs. No fairness is given to requests, sensors or time.
- `drainEvents`, `drain`, `storeSetting`, `CallGoesOn` and the ends of calls that have
  begun: the telemetry task's round is periodic, and a task that runs goes on.
- strong fairness of `textGoesOn`: the telemetry task waits between two rounds, and a text of the
  sensor task goes on then.
- `latchChannel`, `framePeriod`, `txIrq /\ serviceTx`: interrupts and the PIO are
  hardware; held off for a bounded time only.
- strong fairness of `beginService` and of the host taking bytes (`ServiceTakes`)
  in `UsbCdcTx`: the try-lock is found free again and again, since it is held for
  a few instructions; a host that stays attached reads.
- strong fairness of `updateSensor("sensor")` and of `auxTick`, weak of `NextPeriod`,
  `endCheck`, `beginAuxUpdate` and the like: the sensor task is preempted by a
  check again and again but not for ever, and time goes on. `beginAuxUpdate` is fair only while the
  IMU is available: `update()` returns before it serves the auxiliary bus otherwise
  (`drivers/Sensors.cpp:551`). `AuxProgress` is about a vehicle whose IMU was found.
- `erase \/ program \/ verify`, `writeAttempt \/ afterDelay`: a save that has begun is
  executed unless power is lost; `SaveEnds` holds through crashes because a crash
  ends a save too.
- strong fairness of `refreshModuleSetup`: the sensor task's refresh completes again
  and again, between the calls of the telemetry task.

### Findings

Each is a run that must fail; `PROJECT.json` quotes the statement it contradicts.

1. **A lost receiver never becomes a failsafe reason** (`FlightManagerRcLoss`).
   `evaluateFailsafe()` builds its data from an empty decision, and the failsafe
   field of that data is that decision's; the RC state's own bit is not read.
   The receiver's loss only centres the sticks.
2. **Two producers on a one-producer ring** (`SystemEventBusTwoProducers`). The
   telemetry task publishes too; preempting the sensor task's `publish()` it
   uses the same slot, and an accepted event disappears without being counted.
3. **Completions are overwritten** (`ServiceCommandProcessorReports`).
   `complete()` does not look whether the last completion was taken; one call of
   `process()` may complete twice.
4. **A calibration is saved while armed** (`ServiceCommandProcessorArmed`). The
   armed check is made when a request is served, the save happens seconds later.
5. **A servo test comes back** (`FlightControlTaskStale`). The deadline is never
   cleared, and the wrapping comparison holds again half a turn of the clock
   (35.8 minutes) after it.
6. **The polling fallback does not poll for half of every clock turn**
   (`SensorManagerPolling`). A retry time of 0, which means "now", is compared
   with the wrapping clock as signed difference and lies in the future from
   minute 35.8 to minute 71.6.
7. **Servo pulses lag behind for good** (`ServoOutputLatest`). The repeating timer
   makes up for the calls missed while interrupts were off; the surplus stays in the
   FIFOs, and the newest pulses are the ones that do not fit. That a timer with
   negative period counts from start to start is a property of the vendor's SDK
   and the one external assumption of this finding.

Four more disagreements have a property that says what the document says, next to the one
that remains true of the code. The runs above leave them out, since they fail on them: added to the
configuration of the run named, TLC refutes each within seconds.

- `RecordsAreNeverTorn` (`Blackbox`, run `Exchange`; `RecordsAreWhole` remains true). The sensor
  task's boot texts (`main.cpp:485-491`) and the telemetry task's records go through one transmit
  queue; `PioUart::write()` computes, uses and stores the head in steps (`drivers/PioUart.cpp:62-68`), and a
  record queued in between is cut off or written over, uncounted. `docs/Risk_Matrix.md:9` calls
  the loss of the log's frame synchronisation closed, because the blackbox writes only
  when a whole frame fits.
- `LowIsHeld` (`BatteryMonitor`, run `Supervision`; `BatteryVerdicts` remains true). The gate's evaluation in
  the sensor task (`main.cpp:378`) is overtaken by one of the telemetry task; its remaining stores
  (`core/safety/BatteryMonitor.cpp:55-56`, `:66-73`) undo or miss the other one's latch, and a battery just
  reported low is called healthy. `docs/V1_0_Remaining_Work.md:219-220` counts debounce, recovery hysteresis
  and the brownout's latch among what is done.
- `BrownoutIsDebounced` (`BatteryMonitor`, run `Supervision`). A brownout is reported by its first reading
  (`core/safety/BatteryMonitor.cpp:52-57`); only the low state counts samples, and the first reading of all
  even passes the filter as it is. `docs/AeroPico_FC_Gelistirici_Kullanma_Kilavuzu.md:306` says that the decision
  must not be bound to one momentary measurement and that `BatteryMonitor` debounces it.
- `ArmedIsNotWritten` (`ParamManager`, run `Storage`; `ArmedWritesAreRetries` remains true). The armed flag is
  asked for once (`telemetry/ParamManager.cpp:173`); in the 5 ms between two attempts of a save
  (`storage/ParamStorage.cpp:194`) the sensor task may arm, and the next attempt writes all the same.
  `docs/V1_0_Remaining_Work.md:18` says that saves are strictly refused while armed, `:24` that the flash is
  not touched.

### Observations

No findings, because nothing in the repository says otherwise; the properties
are stated so that they hold with them.

- `update()` compares its copy of the clock with a deadline that may have been
  stamped after it, and drops an override that is not yet a millisecond old
  (`core/rc/RCPipeline.cpp:38`). `OverrideHolds` speaks of overrides set between two
  updates; the ground station's next message repairs the others.
- An overrun noted after the report checked its phase and before the flight
  task clears the notes is erased unreported (`OverrunsAreReported` excepts it).
- A look of the gate that loads the clock first and is then overtaken by a heartbeat
  finds an age just below a whole turn of the clock and does not feed; so does one that
  meets the heartbeat 0. `HealthyIsNotReset` allows for one such look between two
  feeds. The order of the two loads is fixed per build.
- The watchdog's `BootTime` is an assumption: a first start calibrates 256 samples
  of at least 2 ms each and writes flash before anybody feeds the 2000 ms watchdog.
- Between the two stores of the fall-back to polling (`drivers/Sensors.cpp:614`, `:616`) a sensor check
  may start a transfer by DMA; the bus then stays in DMA mode while the device is polled, until the
  next check's scan. `PollingHasTheBus` excepts it.
- `update()` takes the time before it asks whether the transfer timed out (`drivers/Sensors.cpp:596`);
  a check that restarts the transfer in between makes the difference wrap, and the new
  transfer is aborted as timed out. It costs one sample and one of the failures before the fall-back.
- `LossIsCounted` speaks of records taken out of the log's queue. A record accepted by the
  transmit queue is taken out; that its bytes then reach the wire whole is `RecordsAreWhole`.
- A brownout limit above the minimum is accepted (`telemetry/ParamManager.h:223-224`): then the battery is
  in brownout before it is low. `BatteryVerdicts` holds for limits of any order.
- The battery's debounce of two samples is shared by all callers of the monitor, so two
  calls in quick succession satisfy it.
- A preflight that passes clears the reporter's RC latch without a text: the last
  text on the ground may still be the loss although the receiver is back.
- The throttle's search for the oldest slot takes an unsigned difference above zero
  for older and so replaces the first slot or one of equal time. Texts of sensor failures
  contain an age, so each is new to the throttle.
- A parameter list requested in the upper half of the clock waits for the wrap
  before its first entry (`ListOnTime`).
- After a long absence of the barometer the Kalman estimate may refuse it for the
  rest of the flight; the fallback then serves. One bad conversion is seen by several
  pipeline updates, so three refusals can come from one measurement, and the
  fallback follows it.
- With the I2C bus moved off its standard pins a servo named on the standard ones
  passes the module setup, but `Output::configurePins` keeps the defaults silently.
  A bus on pins 0 and 1 passes although pin 1 is the receiver's; the buzzer's
  pin of the start is not remembered; a servo may be named on the battery's pin.
  `PinsAreTheirOwn` speaks of the servos.
- `gpsManager.update()` has no caller, so a setup that requires GPS never passes.

### Not modelled, and why

- Attitude fusion, mixer, PID, navigation, the running medians and unit
  conversions: floating-point arithmetic without concurrency. TLC has no reals, and integers
  would check another program.
- HAL, device backends, logging: register access and text, without state to
  interleave. Configurator and website are other programs.
- Framing and signing of MAVLink are the library's.
- Reordering of memory accesses. The compiler and the Cortex-M33 keep the order of
  the volatile and atomic accesses used; the models are sequentially consistent.
- Mixtures of plain data whose parts no modelled property tells apart: override
  channels and mapping in one RC update (`core/rc/RCPipeline.cpp:48`, `:59`), the buffer a
  sensor check fills under the sensor task's hands (`drivers/Sensors.cpp:627`), and the
  time stamp of a frame under a latch (`drivers/Output.cpp:118`), which only a statistic
  uses. The fallback to a plain copy when a topic's read gives up
  (`core/flight/FlightManager.cpp:202`) mixes nothing: a read gives up only during a
  publication, and what is published was complete before it.

## 5. What is proved

TLAPS checks the theorems for every value of the constants that satisfies the
named assumptions (`...Assumption`), which TLC also evaluates in the runs. Every
invariant and every action property of the passing runs, and each refinement, is the
statement of a theorem; so is every part of those that are conjunctions.

**SeqlockTopicProofs** (any non-empty set of words, any readers, any number of
attempts and publications). The inductive invariant `SeqlockInv` adds to the
types: outside a publication `value` is uniform and carries the sequence's stamp,
during one the words still to be stored carry the old stamp and the others the
new one; a reader that is copying loaded an even sequence, and *as long as the
sequence has not moved since* the words it has copied carry that stamp. The
last conjunct is what the code's second load tests, and without it no step of the
copy tells anything about the result. From it: `TypeCorrect`, `NeverTorn`,
`NeverBack`, `PreemptingStable`, and `Refinement` to `AtomicTopic`.

**FlightManagerProofs** (any hold time). `FlightInv` is `TypeOK`,
`FailsafeDisarms`, `SessionNeedsAuthority` and `SharedFlagExact` with three parts
that make them inductive: `FailsafeCurrent` (the reasons `publishState` holds are
those of the present inputs, since nothing but requests runs in between),
`BypassNeedsAuthority` (the bypass it loaded is still covered), and `StoreExact`
(the armed state it loaded is current unless a request came). From it the three
invariants and the action property `ArmingAuthorised`.

**RCPipelineProofs, the receiver** (any timeouts, period and clock size above
`Horizon`). The invariant `RCInv` ties each wrapping difference to the history that does
not wrap: while a frame or an override is in force its age *is* the difference
(`ReceiverInv`, `OverrideInv`), because the expiry check stops it from getting
as old as a turn of the clock. `lag`, the time since the last update, is what makes
the limits inductive: right after a check an age is at most the timeout plus
`lag`, before the next one a `Period` more. `CopyInv` covers the copy of the clock:
ages do not exceed the way over the copy (`SinceTriangle`). `SourceInv`, `HoldInv`
and `ArmInv` carry this to what is published.

**RCPipelineProofs, the servo test** (any clock longer than four tests, any surfaces and
pulses). `ServoTestInv` says what a request has stored so far (`StoredInv`); that an
iteration which has loaded half a test saw the deadline ahead, while a request that
found no test running keeps it behind until its last store, so the two exclude each
other (`RunningInv`); and that below half a turn of the clock the deadline tells
the age of the test (`DeadlineInv`). `TestsAreWhole` needs the first two, `TestsEndOnTime` the
last, and beyond half a turn it is false (finding 5).

**FlashJournalProofs** (any values, attempts, generations). `JournalInv` is
`TypeOK`, `SectorsInv` (a blob lies in the sector its generation names and is
newer than the previous firmware's) and `SavingInv` (the blobs that a running
save does not touch include the one a restart would load, exactly one generation
older; whatever is in the sector to be erased is older still or the new blob).
`SavingInv` is needed because `erase` destroys a sector: it says that this is
never the newest. From it: `TypeCorrect`, and `Refinement`: every step, a crash
included, is a step of `DurableRegister` or a stutter.

**ExchangeProofs** (any capacities, words, packet lengths, tasks and bounds). An inductive
invariant per buffer:
- events, `BusInv`: during a `publish()` of the sensor task the head is the one it loaded
  and the slot is filled before it is exposed (`OwnPublication`). That is false once the
  other task publishes in between (finding 2), so each part says `~overtaken =>`: nothing is
  assumed of the two tasks, and the theorems are about every interleaving. That the
  invariant comes back where the ring is found empty is part of `NothingLost` and `BusKeepsEvents`,
  and the abstract queue of `BusIsAQueue` allows an overtaken Put to change what waits
  (`Disturb`) up to the same moment (`Recover`). That it does come is liveness (`EventsArrive`).
  What a ring with two indices holds (an empty one, one more, one less) is stated once,
  of any ring, and used for events and for the transmit queue.
- settings, `SettingsInv`: a counter is odd exactly during the publication of its kind, and
  a copy whose counter has not moved consists of words of that publication.
- servos, `OutputInv`: what a latch has taken lies within one frame of the throttle and is
  of one frame unless a frame was begun meanwhile; the FIFOs are equally long up to the latch
  under way, and neighbours in them were latched together. With this
  `PulsesStayInStep` survives the refusal of a full FIFO.
- log, `BlackboxInv`: the bytes on the wire, queued and about to be queued follow each other
  (`StreamInv`), which needs that the room `drain` saw cannot shrink under it (`DrainInv`),
  because the interrupt only takes; and no byte on its way is of a later record than those that
  wait (`OrderInv`). Both are claimed while `~uartMixed`; `TextInv` ties what the sensor task's
  text has looked up to the queue, so that its three stores add one byte as long as nobody
  came in between. `RecordsGoOut` is an action property from it, with the fact that nothing
  mixes before the first text.
- USB, `UsbInv`: the holder of the try-lock is alone (`LockInv`), and the ring, the count and
  the head agree up to the one packet being stored (`RingInv`), so that the bytes line up
  at every step (`BytesLineUp`) and not only while the lock is free.

**SupervisionProofs** (any periods and timeouts in the assumed order, any voltages, limits, texts and
numbers of commands):
- `DogInv`: the gate's two loads, in either order, are tied to the heartbeat's true age
  (`HeartbeatInv`, `LookInv`), the scheduler's due entry to the time since the gate was called
  (`GateInv`), and `InTimeInv` counts: while everything is in time, the watchdog's age is at
  most `BootTime` plus two periods for the one look that may fail. `StalledIsReset` and
  `HealthyIsNotReset` are its two sides.
- `TimingInv`: what is still to be reported is noted and not yet passed by the report.
- `PreflightInv`: for each step of the evaluation, what it may rely on: the entries of the
  shared table, whichever task filled them, say no more than was true at some time since the
  evaluation began (`TableInv`), and the result says no more than the entries
  scanned (`ResultInv`).
- `BatteryInv`: unless the evaluation under way was overtaken, what the sensor task has at hand is
  what the monitor holds (`AtHand`); unless one was and nothing has settled it since, the latches
  and the count agree with the histories, or are ahead of them by the stores already made
  (`Ahead`). With `disturbed = "no"` the verdict keeps debounce and hysteresis.
- `MavlinkInv`, `ThrottleInv`: a wrapping difference is the true age as long as somebody
  relies on it; a text that waits was sent a short while ago or has lost its slot (`WaitingInv`).
- `ReporterInv`: a loss that was published is the last of the receiver's events on the bus,
  or has been told.

**SensorServicesProofs** (any number of requests, any timeouts, retries and sizes of
calibration, any heights and gate):
- `CommandsInv`: the request slot belongs to one side at a time and what it holds is exactly
  what was accepted and not yet claimed (`SlotInv`); started calibrations equal those ended,
  those whose end is about to be posted and the one running (`CalibrationInv`).
- `ImuInv`: on the fast path a transfer is under way unless a task has just ended one, and the bus
  is the DMA's unless a task is between the stores of the fall-back, or the processor's in
  polling unless a check crossed them (`BusInv`); what a check starts in one piece with its own
  look is not given up by it (`CheckInv`); a transfer is never older than its timeout (`TransferInv`), and a sample is at most as
  old as the transfer that will replace it and the scans that put it off (`SamplesInv`),
  through any interleaving of the two tasks' `update` and `scan`.
- `EstimateInv`: the fallback's height lies between heights that were measured.
  For the auxiliary bus the runs check liveness only; of it the types are proved as well.

**StorageProofs** (any parameters, values, pins, attempts and old blobs):
- `ParamInv`: a running save writes the parameters of now, and its first attempt was begun
  disarmed (`SaveInv`); before they are loaded none has been reported (`LoadInv`); a list waits for the
  clock to wrap, or has been served in this turn and is due in the next, or is due (`ListInv`).
  That a refresh of the setup finds a first parameter to read is the least number principle
  (`Least`, from `WFMin` and `NatLessThanWellFounded`).
- `SetupInv`: the pins in use are what a start made of pins once named, of those of
  now if none has changed. `PinsApart` then compares the preflight's verdict with the start's.
- `StorageKeepsJournal` takes the theorems of `FlashJournalProofs` over to the sum.

**Sums.** In each sum a step moves one component and leaves the variables of the others
(`ExchangeParts`, `SupervisionParts`). The theorems about invariants are stated of the sum
directly. Where a component's proofs are about its own `Spec`, a theorem
`ExchangeKeepsTopic`, `SupervisionKeepsFlight`, `StorageKeepsJournal` or `PathKeepsPipeline`
says that a behaviour of the sum is one of the component, and its theorems follow for
the sum: `ReadersSeeRecords`, `FlightIsGuarded`, `StorageImplementsRegister`, `PilotIsHeard`.

**What is assumed of the constants**, where it is more than their types:
- `WatchdogAssumption`: `GatePeriod <= BootTime` and `BootTime + 3 * GatePeriod < DogTimeout`.
  After one failed look a healthy watchdog's age is bounded by `BootTime` and two periods; with a
  period longer than the start the bound would have to count four periods. In the
  code the period is 10 ms and a start waits 750 ms before the gate is first called
  (`main.cpp`, `taskSensor`). Two timeouts and the stale age fit into a turn of the clock.
- `ScanAssumption`: the scans of all checks together take less than a turn of `micros()` (71
  minutes); the scans are bounded in the model and last milliseconds in the code.
- `MavlinkAssumption`, `ThrottleAssumption`, `AuxAssumption`, `ClockAssumption`, `TestClockAssumption`: a
  timeout and the longest gap between two calls together are shorter than the
  clock, or half of it where the code compares signed differences. "No text" is not a text.
- `ActionsAssumption`: the three service commands are different.
- `BatteryAssumption`: limits are above 0 (with a brownout limit of 0 the code skips the check, but
  the parameter starts at 3 V). Their order is free.

**Only model-checked.** The liveness properties (`ReadTerminates`,
`EverythingArrives`, `OutputsSettle`, `RequestsAnswered`, `SensorsProgress`,
`AuxProgress` and `StorageProgress`): TLAPS does not handle `ENABLED`, on which
fairness rests. The findings are counterexamples of TLC and need no proof. Memory
reordering, the wrap of the 32-bit sequences and what section 4 names as not
modelled are outside both.

## 6. Plan

What is left:

1. refinements for components that have only invariants so far: the request slot of
   `ServiceCommandMailbox` as an atomic one, the USB ring as a queue of packets;
2. what the liveness properties rest on and can be proved without `ENABLED`: that an
   action which the fairness names takes its component nearer to the end;
3. shorter proofs where one step handles several conjuncts of an invariant that
   it leaves alone.

## 7. Running

    tlc -config Supervision.cfg Supervision
    tlapm FlightManagerProofs.tla

Each run's module and configuration are in `PROJECT.json` under `runs`. All runs
finish within seconds to a few minutes.
