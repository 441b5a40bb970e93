------------------------- MODULE FlightControlTask -------------------------
(***************************************************************************)
(* The servo test of core/control/FlightControlTask.cpp.  The sensor task  *)
(* on core 0 stores a test in three variables, one after another; the      *)
(* flight task on core 1 reads them one after another in every iteration   *)
(* in which the vehicle is not armed.                                      *)
(* micros() is a clock that wraps, here every TestClockSize ticks for the *)
(* 2^32 us; a tick passes only between two iterations and between two      *)
(* requests, which take far less time than the shortest test: the now an   *)
(* iteration starts with is the clock until it ends.                       *)
(***************************************************************************)
EXTENDS Naturals

CONSTANTS
    TestClockSize,  \* the clock wraps at this value
    MaxTest,        \* the longest test, in ticks
    Surfaces,       \* servo test surfaces
    Pulses,         \* servo pulses
    Neutral         \* PWM_NEUTRAL

ASSUME TestClockAssumption ==
    TestClockSize \in Nat /\ MaxTest \in Nat /\ TestClockSize > 4 * MaxTest
ASSUME NeutralAssumption == 0 \in Surfaces /\ Neutral \in Pulses

VARIABLES
    testUs,             \* micros()
    testArmed,          \* FlightManager::_armedShared
    servoTestSurface,
    servoTestPulseUs,
    servoTestUntilUs,
    requestPc,          \* the store requestServoTest() makes next, or "idle"
    testRequest,        \* its arguments
    loopPc,             \* the load the flight task makes next, or "idle"
    loopSurface,        \* the surface it loaded
    outputs,            \* what it wrote last
    liveTest,           \* history: the request stored last
    testAge,            \* history: ticks since then, up to half a turn of the clock
    testOverlaps        \* history: that request began while a test was running

testVars == <<servoTestSurface, servoTestPulseUs, servoTestUntilUs>>
requestVars == <<requestPc, testRequest, liveTest, testOverlaps>>
loopVars == <<loopPc, loopSurface, outputs>>
servoTestVars == <<testUs, testArmed, testVars, requestVars, loopVars, testAge>>

Half == TestClockSize \div 2
Requests == [surface : Surfaces, pulse : Pulses, ticks : 1 .. MaxTest]
NoRequest == [surface |-> 0, pulse |-> Neutral, ticks |-> 0]
Test(surface, pulse) == [kind |-> "test", surface |-> surface, pulse |-> pulse]
Quiet(kind) == [kind |-> kind, surface |-> 0, pulse |-> Neutral]

\* (int32_t)(testUntil - now) > 0
\* Mutant: the difference is compared unsigned.
AheadUnsigned(until, t) == until # t

Ahead(until, t) ==
    LET difference == (until + TestClockSize - t) % TestClockSize
    IN  0 < difference /\ difference < Half

ServoTestInit ==
    /\ testUs \in 0 .. TestClockSize - 1
    /\ testArmed = FALSE
    /\ servoTestSurface = 0
    /\ servoTestPulseUs = Neutral
    /\ servoTestUntilUs = 0
    /\ requestPc = "idle"
    /\ testRequest = NoRequest
    /\ loopPc = "idle"
    /\ loopSurface = 0
    /\ outputs = Quiet("safe")
    /\ liveTest = NoRequest
    /\ testAge = Half
    /\ testOverlaps = FALSE

testTick ==
    /\ requestPc = "idle" /\ loopPc = "idle"
    /\ testUs' = (testUs + 1) % TestClockSize
    /\ testAge' = IF testAge < Half THEN testAge + 1 ELSE Half
    /\ UNCHANGED <<testArmed, testVars, requestVars, loopVars>>

setTestArmed ==
    /\ testArmed' = ~testArmed
    /\ UNCHANGED <<testUs, testVars, requestVars, loopVars, testAge>>

-----------------------------------------------------------------------------
(* requestServoTest(), called by the service command processor once it has  *)
(* seen the vehicle disarmed.                                               *)

beginRequest ==
    /\ requestPc = "idle"
    /\ ~testArmed
    /\ testRequest' \in Requests
    /\ requestPc' = "surface"
    /\ testOverlaps' = Ahead(servoTestUntilUs, testUs)
    /\ UNCHANGED <<testUs, testArmed, testVars, liveTest, loopVars, testAge>>

storeSurface ==
    /\ requestPc = "surface"
    /\ servoTestSurface' = testRequest.surface
    /\ requestPc' = "pulse"
    /\ UNCHANGED <<testUs, testArmed, servoTestPulseUs, servoTestUntilUs, testRequest, liveTest, testOverlaps,
                   loopVars, testAge>>

\* Mutant: the deadline is stored before the pulse.
storePulseLate ==
    /\ requestPc = "pulse"
    /\ servoTestUntilUs' = (testUs + testRequest.ticks) % TestClockSize
    /\ requestPc' = "until"
    /\ UNCHANGED <<testUs, testArmed, servoTestSurface, servoTestPulseUs, testRequest, liveTest, testOverlaps,
                   loopVars, testAge>>

storePulse ==
    /\ requestPc = "pulse"
    /\ servoTestPulseUs' = testRequest.pulse
    /\ requestPc' = "until"
    /\ UNCHANGED <<testUs, testArmed, servoTestSurface, servoTestUntilUs, testRequest, liveTest, testOverlaps,
                   loopVars, testAge>>

\* Mutant: the deadline does not wrap.
storeUntilWide ==
    /\ requestPc = "until"
    /\ servoTestUntilUs' = testUs + testRequest.ticks
    /\ requestPc' = "idle"
    /\ liveTest' = testRequest
    /\ testAge' = 0
    /\ UNCHANGED <<testUs, testArmed, servoTestSurface, servoTestPulseUs, testRequest, testOverlaps, loopVars>>

storeUntil ==
    /\ requestPc = "until"
    /\ servoTestUntilUs' = (testUs + testRequest.ticks) % TestClockSize
    /\ requestPc' = "idle"
    /\ liveTest' = testRequest
    /\ testAge' = 0
    /\ UNCHANGED <<testUs, testArmed, servoTestSurface, servoTestPulseUs, testRequest, testOverlaps, loopVars>>

requestServoTest == beginRequest \/ storeSurface \/ storePulse \/ storeUntil

-----------------------------------------------------------------------------
(* One iteration of run(), as far as the servo test goes.                   *)

beginIteration ==
    /\ loopPc = "idle"
    /\ IF testArmed THEN outputs' = Quiet("driven") /\ UNCHANGED loopPc
                ELSE loopPc' = "until" /\ UNCHANGED outputs
    /\ UNCHANGED <<testUs, testArmed, testVars, requestVars, loopSurface, testAge>>

loadUntil ==
    /\ loopPc = "until"
    /\ IF Ahead(servoTestUntilUs, testUs)
         THEN loopPc' = "surface" /\ UNCHANGED outputs
         ELSE loopPc' = "idle" /\ outputs' = Quiet("safe")
    /\ UNCHANGED <<testUs, testArmed, testVars, requestVars, loopSurface, testAge>>

loadSurface ==
    /\ loopPc = "surface"
    /\ loopSurface' = servoTestSurface
    /\ loopPc' = "pulse"
    /\ UNCHANGED <<testUs, testArmed, testVars, requestVars, outputs, testAge>>

writeServoTest ==
    /\ loopPc = "pulse"
    /\ outputs' = Test(loopSurface, servoTestPulseUs)
    /\ loopPc' = "idle"
    /\ UNCHANGED <<testUs, testArmed, testVars, requestVars, loopSurface, testAge>>

runLoop == beginIteration \/ loadUntil \/ loadSurface \/ writeServoTest

ServoTestNext == testTick \/ setTestArmed \/ requestServoTest \/ runLoop

ServoTestSpec == ServoTestInit /\ [][ServoTestNext]_servoTestVars

-----------------------------------------------------------------------------
ServoTestTypeOK ==
    /\ testUs \in 0 .. TestClockSize - 1
    /\ testArmed \in BOOLEAN
    /\ servoTestSurface \in Surfaces
    /\ servoTestPulseUs \in Pulses
    /\ servoTestUntilUs \in 0 .. TestClockSize - 1
    /\ requestPc \in {"idle", "surface", "pulse", "until"}
    /\ testRequest \in Requests \cup {NoRequest}
    /\ loopPc \in {"idle", "until", "surface", "pulse"}
    /\ loopSurface \in Surfaces
    /\ outputs \in [kind : {"safe", "driven", "test"}, surface : Surfaces, pulse : Pulses]
    /\ liveTest \in Requests \cup {NoRequest}
    /\ testAge \in 0 .. Half
    /\ testOverlaps \in BOOLEAN

\* A test requested while no other is running reaches the servos as it was
\* requested: its surface with its pulse, never with another test's.
TestIsWhole ==
    [][writeServoTest /\ ~testOverlaps => outputs' = Test(liveTest.surface, liveTest.pulse)]_servoTestVars

\* For half a turn of the clock after a request, no test output is written
\* beyond the requested time, wherever the clock wraps in between.
TestEndsOnTime ==
    [][writeServoTest => testAge < liveTest.ticks \/ testAge = Half]_servoTestVars

\* What the configurator's documentation promises: the test a user asked for
\* is a short pulse, so the servos never move again long after it.
TestIsShort ==
    [][writeServoTest /\ liveTest # NoRequest => testAge < MaxTest]_servoTestVars
=============================================================================
