----------------------------- MODULE ModuleSetup -----------------------------
(***************************************************************************)
(* The pins: which the parameters name, which the last start gave to the   *)
(* servos, the I2C bus and the buzzer (main.cpp setup(), Output.cpp), and  *)
(* when the preflight calls the setup good (ModuleSetupRuntime.cpp).  Two  *)
(* places check the servos' pins, against different pins; the other two    *)
(* are taken from the parameters unchecked; and what is checked before     *)
(* arming are the parameters of now, not the pins of the start.  Two of    *)
(* the four servos, the first and the last, stand for them.                *)
(***************************************************************************)
EXTENDS Naturals, FiniteSets

CONSTANTS
    NamedPins,    \* values of the pin parameters, of 0..28
    NamedSdas,    \* values of the bus's data pin
    SetupChanges  \* changes of a pin parameter between two starts, a bound

PIN_SBUS_RX == 1
PIN_SDA == 4
PIN_SCL == 5
PIN_BUZZER == 22
PIN_BENCH_ADMIN_GND == 20
PIN_BENCH_ADMIN_SENSE == 21
PIN_BATTERY_ADC == 26

DefaultServos == [aileron |-> 16, throttle |-> 19]

ASSUME SetupAssumption ==
    NamedPins \subseteq 0..28 /\ NamedSdas \subseteq 0..28 /\ SetupChanges \in Nat

VARIABLES
    named,         \* the parameters: servos, bus, buzzer
    boot,          \* what the start made of them: outputPins (Output.cpp: servoPins),
                   \* bus, buzzer, bootServoPinConfigValid
    setupChanges   \* changes since the start

setupVars == <<named, boot, setupChanges>>

BenchPins == {PIN_BENCH_ADMIN_GND, PIN_BENCH_ADMIN_SENSE}

Distinct(servos) == servos.aileron # servos.throttle
PinsOf(servos) == {servos.aileron, servos.throttle}

-----------------------------------------------------------------------------
(* ModuleSetupRuntime. *)

validateI2cPinSetup(bus) ==
    /\ bus[1] \in {0, 4, 8, 12, 16, 20}
    /\ bus[2] \in {1, 5, 9, 13, 17, 21}
    /\ bus[2] = bus[1] + 1
    /\ bus[1] # PIN_BENCH_ADMIN_GND

validateBuzzerPinSetup(pin) ==
    pin \notin {PIN_SBUS_RX, PIN_SDA, PIN_SCL, PIN_BATTERY_ADC} \cup BenchPins

BusPins(pins) == {pins.bus[1], pins.bus[2]}

\* Mutant: the buzzer's pin is not asked about.
validateServoPinSetupSilent(pins) ==
    /\ PinsOf(pins.servos) \cap ({PIN_SBUS_RX} \cup BusPins(pins) \cup BenchPins) = {}
    /\ Distinct(pins.servos)

validateServoPinSetup(pins) ==
    /\ PinsOf(pins.servos) \cap ({PIN_SBUS_RX, pins.buzzer} \cup BusPins(pins) \cup BenchPins) = {}
    /\ Distinct(pins.servos)

\* Mutant: a start whose servo pins were refused is forgotten.
evaluatePinsAnew(pins) ==
    /\ validateI2cPinSetup(pins.bus)
    /\ validateBuzzerPinSetup(pins.buzzer) /\ pins.buzzer \notin BusPins(pins)
    /\ validateServoPinSetup(pins)

\* The pins' part of evaluate().
evaluatePins(pins) ==
    /\ validateI2cPinSetup(pins.bus)
    /\ validateBuzzerPinSetup(pins.buzzer) /\ pins.buzzer \notin BusPins(pins)
    /\ boot.bootServoPinConfigValid /\ validateServoPinSetup(pins)

-----------------------------------------------------------------------------
\* ServoOutput::configurePins(): it knows the standard bus only, and does not tell
\* that it refuses.
configurePins(servos) ==
    IF PinsOf(servos) \cap ({PIN_SBUS_RX, PIN_SDA, PIN_SCL} \cup BenchPins) = {} /\ Distinct(servos)
      THEN servos ELSE DefaultServos

\* setup(): bus and buzzer are taken as they are named.
start(pins) ==
    [outputPins |-> IF validateServoPinSetup(pins) THEN configurePins(pins.servos)
                                                   ELSE DefaultServos,
     bus |-> pins.bus, buzzer |-> pins.buzzer,
     bootServoPinConfigValid |-> validateServoPinSetup(pins)]

NamedBuses == {bus \in NamedSdas \X (0..28) : bus[2] \in {bus[1] + 1, PIN_SCL}}

NamedSetups ==
    [servos : [aileron : NamedPins, throttle : NamedPins],
     bus : NamedBuses, buzzer : NamedPins]

\* Any parameters may be stored.
SetupInit ==
    /\ named \in NamedSetups
    /\ boot = start(named)
    /\ setupChanges = 0

\* A parameter of the telemetry task; the setup is refreshed from them.
changePin ==
    /\ setupChanges < SetupChanges
    /\ named' \in NamedSetups
    /\ Cardinality({k \in DOMAIN named : named'[k] # named[k]}) = 1
    /\ setupChanges' = setupChanges + 1
    /\ UNCHANGED boot

\* A restart with the parameters saved.
restart ==
    /\ boot' = start(named)
    /\ setupChanges' = 0
    /\ UNCHANGED named

SetupNext == changePin \/ restart

-----------------------------------------------------------------------------
SetupTypeOK ==
    /\ named.servos \in [aileron : NamedPins, throttle : NamedPins]
    /\ named.bus \in (0..28) \X (0..28) /\ named.buzzer \in NamedPins
    /\ boot.outputPins \in [aileron : 0..28, throttle : 0..28]
    /\ setupChanges \in 0..SetupChanges

StandardBus == boot.bus = <<PIN_SDA, PIN_SCL>>

\* While the preflight passes the setup, the servos have pins of their own among those
\* named, and, started on the standard bus, among those that are in use since the
\* start, however the parameters were changed after it; and where none was, the servos
\* are on the pins named.
PinsAreTheirOwn ==
    evaluatePins(named) =>
        /\ Cardinality(PinsOf(named.servos) \cup BusPins(named) \cup {named.buzzer}) = 5
        /\ (PinsOf(named.servos) \cup {named.buzzer}) \cap (BenchPins \cup {PIN_SBUS_RX}) = {}
        /\ StandardBus =>
              /\ Distinct(boot.outputPins)
              /\ PinsOf(boot.outputPins) \cap
                   (BenchPins \cup BusPins(boot) \cup {PIN_SBUS_RX, boot.buzzer}) = {}
              /\ setupChanges = 0 => boot.outputPins = named.servos
=============================================================================
