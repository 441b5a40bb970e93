-------------------------- MODULE RCPipelineProofs --------------------------
(***************************************************************************)
(* Theorems about what reaches the control surfaces, for every clock size, *)
(* timeout and period.  RCPipeline: a lost receiver is seen and a received *)
(* one believed, an override holds and expires, and an armed vehicle       *)
(* returns to its receiver.  FlightControlTask: a servo test reaches the   *)
(* servos whole and ends on time.                                          *)
(***************************************************************************)
EXTENDS ControlPath, TLAPS

-----------------------------------------------------------------------------
(* RCPipeline: the receiver, the override and the source. *)

\* A receiver in force delivered as long ago as the clock says; none is out of
\* force without a reason; and the expiry check bounds the silence.
ReceiverInv ==
    /\ valid => /\ ~signalled
                /\ silence = Since(lastValidTime, now)
                /\ silence <= MaxTimeout + lag + Period
    /\ valid /\ pc \in {"expiry", "clear", "select"} => silence <= MaxTimeout + lag
    /\ ~valid => signalled \/ silence > MinTimeout

\* The same of an override.
OverrideInv ==
    /\ overrideActive => /\ overrideAge = Since(overrideLast, now)
                         /\ overrideAge <= OverrideTimeout + lag + Period
    /\ overrideActive /\ pc = "select" => overrideAge <= OverrideTimeout + lag

\* update()'s copy of the clock is from this update, and an override set
\* before it began is not older than the copy says.
CopyInv ==
    /\ pc # "idle" => Since(nowMs, now) <= lag
    /\ onTime /\ overrideActive /\ pc \in {"receiver", "expiry"}
           => Since(overrideLast, nowMs) <= overrideAge

\* Such an override is dropped only when it is too old.
HoldInv ==
    onTime /\ overrideAge <= OverrideTimeout => overrideActive /\ pc # "clear"

\* What is published was chosen an update ago at most.
SourceInv ==
    /\ source # "failsafe" => silence <= MaxTimeout + lag + Period
    /\ source = "override" => overrideAge <= OverrideTimeout + lag + Period

\* An armed vehicle has been armed since its last override was set.
ArmInv ==
    /\ ~armed => armedFor = 0
    /\ armedFor <= overrideAge

RCInv ==
    /\ TypeOK
    /\ ReceiverInv
    /\ OverrideInv
    /\ CopyInv
    /\ HoldInv
    /\ SourceInv
    /\ ArmInv

-----------------------------------------------------------------------------
\* The larger of two.
LEMMA MaxPair ==
    ASSUME NEW a \in Int, NEW b \in Int
    PROVE  Max({a, b}) = IF a >= b THEN a ELSE b
  BY DEF Max

\* The smaller of two.
LEMMA MinPair ==
    ASSUME NEW a \in Int, NEW b \in Int
    PROVE  Min({a, b}) = IF a <= b THEN a ELSE b
  BY DEF Min

\* Every limit lies below Horizon, and Horizon below a turn of the clock.
LEMMA Limits ==
    /\ {MinTimeout, MaxTimeout, OverrideTimeout, Period, Horizon, ClockSize} \subseteq Nat
    /\ MinTimeout <= MaxTimeout
    /\ MaxTimeout + 2 * Period < Horizon
    /\ OverrideTimeout + 2 * Period < Horizon
    /\ Horizon < ClockSize
  BY TimeoutAssumption, ClockAssumption, MaxPair DEF Horizon

\* An age grows to the horizon and stays there.
LEMMA OlderAge ==
    ASSUME NEW a \in 0 .. Horizon
    PROVE  Older(a) = IF a < Horizon THEN a + 1 ELSE Horizon
  BY MinPair, Limits DEF Older

\* The modulus of a number below two turns of the clock.
LEMMA ModOnce ==
    ASSUME NEW C \in Nat \ {0}, NEW a \in 0 .. 2 * C - 1
    PROVE  a % C = IF a < C THEN a ELSE a - C
  BY SMTT(30)

\* The difference of two readings, without modulus.
LEMMA SinceValue ==
    ASSUME NEW r \in 0 .. ClockSize - 1, NEW t \in 0 .. ClockSize - 1
    PROVE  Since(r, t) = IF r <= t THEN t - r ELSE t + ClockSize - r
  <1> DEFINE a == t + ClockSize - r
  <1>1. ClockSize \in Nat \ {0}
    BY Limits
  <1>2. a \in 0 .. 2 * ClockSize - 1 /\ (a < ClockSize <=> t < r)
    BY <1>1
  <1> HIDE DEF a
  <1>3. a % ClockSize = IF a < ClockSize THEN a ELSE a - ClockSize
    BY <1>1, <1>2, ModOnce
  <1>4. Since(r, t) = IF t < r THEN a ELSE a - ClockSize
    BY <1>2, <1>3 DEF Since, a
  <1> QED
    BY <1>1, <1>4 DEF a

\* A difference of two clock readings is a number.
LEMMA SinceNat ==
    ASSUME NEW r \in 0 .. ClockSize - 1, NEW t \in 0 .. ClockSize - 1
    PROVE  Since(r, t) \in Nat
  <1>1. ClockSize \in Nat
    BY Limits
  <1> QED
    BY <1>1, SinceValue

\* The clock after a tick.
LEMMA NextReading ==
    ASSUME NEW t \in 0 .. ClockSize - 1
    PROVE  (t + 1) % ClockSize = IF t + 1 < ClockSize THEN t + 1 ELSE 0
  BY ModOnce, Limits

\* A tick makes a difference below Horizon one larger.
LEMMA SinceTick ==
    ASSUME NEW r \in 0 .. ClockSize - 1, NEW t \in 0 .. ClockSize - 1,
           Since(r, t) < Horizon
    PROVE  Since(r, (t + 1) % ClockSize) = Since(r, t) + 1
  <1> DEFINE u == (t + 1) % ClockSize
  <1>1. ClockSize \in Nat /\ Horizon \in Nat /\ Horizon < ClockSize
    BY Limits
  <1>2. u = IF t + 1 < ClockSize THEN t + 1 ELSE 0
    BY NextReading
  <1> HIDE DEF u
  <1>3. u \in 0 .. ClockSize - 1
    BY <1>1, <1>2
  <1>4. Since(r, u) = IF r <= u THEN u - r ELSE u + ClockSize - r
    BY <1>3, SinceValue
  <1>5. Since(r, t) = IF r <= t THEN t - r ELSE t + ClockSize - r
    BY SinceValue
  <1>6. Since(r, u) = Since(r, t) + 1
    BY <1>1, <1>2, <1>4, <1>5
  <1> QED
    BY <1>6 DEF u

\* A reading is no older than the way over a third one.
LEMMA SinceTriangle ==
    ASSUME NEW r \in 0 .. ClockSize - 1, NEW s \in 0 .. ClockSize - 1,
           NEW t \in 0 .. ClockSize - 1
    PROVE  Since(r, t) <= Since(r, s) + Since(s, t)
  BY SinceValue, Limits

-----------------------------------------------------------------------------
\* A receiver that has heard nothing satisfies the invariant.
LEMMA InitRCInv == Init => RCInv
  <1> SUFFICES ASSUME Init PROVE RCInv
    OBVIOUS
  <1>1. TypeOK
    <2>1. 0 \in 0 .. ClockSize - 1 /\ 0 \in 0 .. Period /\ {0, Horizon} \subseteq 0 .. Horizon
      BY Limits
    <2> QED
      BY <2>1 DEF Init, TypeOK
  <1>2. ReceiverInv /\ OverrideInv /\ CopyInv /\ HoldInv /\ SourceInv /\ ArmInv
    BY Limits DEF Init, ReceiverInv, OverrideInv, CopyInv, HoldInv, SourceInv, ArmInv
  <1> QED
    BY <1>1, <1>2 DEF RCInv

\* A millisecond passes.
LEMMA TickRCInv == RCInv /\ Tick => RCInv'
  <1> SUFFICES ASSUME RCInv, Tick PROVE RCInv'
    OBVIOUS
  <1> USE DEF RCInv
  <1>1. /\ silence' = IF silence < Horizon THEN silence + 1 ELSE Horizon
        /\ overrideAge' = IF overrideAge < Horizon THEN overrideAge + 1 ELSE Horizon
        /\ armedFor' = IF ~armed THEN 0
                       ELSE IF armedFor < Horizon THEN armedFor + 1 ELSE Horizon
    BY OlderAge DEF Tick, TypeOK
  <1>2. lag \in Nat /\ lag < Period /\ lag' = lag + 1
    BY DEF Tick, TypeOK
  <1>3. \A r \in 0 .. ClockSize - 1 :
            Since(r, now) < Horizon => Since(r, now') = Since(r, now) + 1
    BY SinceTick DEF Tick, TypeOK
  <1>4. TypeOK'
    BY <1>1, <1>2, NextReading, Limits DEF Tick, TypeOK
  <1>5. ReceiverInv'
    <2>1. valid => silence < Horizon /\ Since(lastValidTime, now') = silence + 1
      BY <1>2, <1>3, Limits DEF TypeOK, ReceiverInv
    <2>2. silence \in Nat /\ silence' \in Nat /\ silence' >= silence /\ silence' <= silence + 1
      BY <1>1, Limits DEF TypeOK
    <2>3. Since(lastValidTime, now)' = Since(lastValidTime, now')
      BY DEF Tick, Since
    <2> QED
      BY <1>1, <1>2, <2>1, <2>2, <2>3, Limits DEF Tick, ReceiverInv
  <1>6. OverrideInv'
    <2>1. overrideActive => overrideAge < Horizon /\ Since(overrideLast, now') = overrideAge + 1
      BY <1>2, <1>3, Limits DEF TypeOK, OverrideInv
    <2>2. overrideAge \in Nat
      BY Limits DEF TypeOK
    <2>3. Since(overrideLast, now)' = Since(overrideLast, now')
      BY DEF Tick, Since
    <2> QED
      BY <1>1, <1>2, <2>1, <2>2, <2>3, Limits DEF Tick, OverrideInv
  <1>7. CopyInv'
    <2>1. pc # "idle" => Since(nowMs, now') = Since(nowMs, now) + 1 /\ Since(nowMs, now) \in Nat
      BY <1>2, <1>3, SinceNat, Limits DEF TypeOK, CopyInv
    <2>2. overrideAge \in Nat /\ overrideAge' \in Nat /\ overrideAge' >= overrideAge
      BY <1>1, Limits DEF TypeOK
    <2>3. Since(overrideLast, nowMs) \in Nat
      BY SinceNat DEF TypeOK
    <2>4. /\ Since(nowMs, now)' = Since(nowMs, now')
          /\ Since(overrideLast, nowMs)' = Since(overrideLast, nowMs)
      BY DEF Tick, Since
    <2> QED
      BY <1>2, <2>1, <2>2, <2>3, <2>4 DEF Tick, CopyInv
  <1>8. HoldInv' /\ SourceInv' /\ ArmInv'
    BY <1>1, <1>2, Limits DEF Tick, TypeOK, HoldInv, SourceInv, ArmInv
  <1> QED
    BY <1>4, <1>5, <1>6, <1>7, <1>8

\* The vehicle and the telemetry task.
LEMMA OthersRCInv ==
    RCInv /\ (setArmed \/ setFailsafeTimeoutMs \/ setOverride \/ clearOverride) => RCInv'
  <1> SUFFICES ASSUME RCInv,
                      setArmed \/ setFailsafeTimeoutMs \/ setOverride \/ clearOverride
               PROVE  RCInv'
    OBVIOUS
  <1> USE DEF RCInv, Since
  <1>1. CASE setArmed
    BY <1>1, Limits DEF setArmed, TypeOK, ReceiverInv, OverrideInv, CopyInv, HoldInv, SourceInv,
       ArmInv, receiverVars, overrideVars, updateVars
  <1>2. CASE setFailsafeTimeoutMs
    <2>1. \A timeout \in Timeouts :
              Max({MinTimeout, Min({timeout, MaxTimeout})}) \in MinTimeout .. MaxTimeout
      BY MaxPair, MinPair, TimeoutAssumption
    <2>2. failsafeTimeout' \in MinTimeout .. MaxTimeout
      BY <1>2, <2>1 DEF setFailsafeTimeoutMs
    <2> QED
      BY <1>2, <2>2 DEF setFailsafeTimeoutMs, TypeOK, ReceiverInv, OverrideInv, CopyInv, HoldInv,
         SourceInv, ArmInv, receiverVars, overrideVars, updateVars, armVars
  <1>3. CASE setOverride
    <2>1. Since(now, now) = 0
      BY SinceValue DEF TypeOK
    <2>2. TypeOK' /\ ReceiverInv' /\ SourceInv'
      BY <1>3, Limits DEF setOverride, TypeOK, ReceiverInv, SourceInv, receiverVars, updateVars,
         armVars
    <2>3. OverrideInv' /\ HoldInv'
      BY <1>3, <2>1, Limits DEF setOverride, TypeOK, OverrideInv, HoldInv, updateVars
    <2>4. CopyInv'
      BY <1>3 DEF setOverride, CopyInv, updateVars
    <2>5. ArmInv'
      BY <1>3 DEF setOverride, overrideAllowed, ArmInv, armVars
    <2> QED
      BY <2>2, <2>3, <2>4, <2>5
  <1>4. CASE clearOverride
    BY <1>4 DEF clearOverride, TypeOK, ReceiverInv, OverrideInv, CopyInv, HoldInv, SourceInv,
       ArmInv, receiverVars, updateVars, armVars
  <1> QED
    BY <1>1, <1>2, <1>3, <1>4

\* update() takes what has arrived and judges its age.
LEMMA UpdateRCInv == RCInv /\ update => RCInv'
  <1> SUFFICES ASSUME RCInv, update PROVE RCInv'
    OBVIOUS
  <1> USE DEF RCInv
  <1>1. CASE beginUpdate
    <2>1. Since(now, now) = 0
      BY SinceValue DEF TypeOK
    <2>2. TypeOK' /\ ReceiverInv' /\ OverrideInv' /\ HoldInv' /\ SourceInv' /\ ArmInv'
      BY <1>1 DEF beginUpdate, TypeOK, ReceiverInv, OverrideInv, HoldInv, SourceInv, ArmInv,
         Since, receiverVars, overrideVars, armVars
    <2>3. /\ Since(nowMs, now)' = Since(now, now)
          /\ Since(overrideLast, nowMs)' = Since(overrideLast, now)
      BY <1>1 DEF beginUpdate, Since, overrideVars
    <2>4. CopyInv'
      BY <1>1, <2>1, <2>3, Limits DEF beginUpdate, TypeOK, OverrideInv, CopyInv, overrideVars
    <2> QED
      BY <2>2, <2>4
  <1>2. CASE updateReceiver
    <2>1. Since(now, now) = 0
      BY SinceValue DEF TypeOK
    <2>2. TypeOK'
      <3>1. silence' \in 0 .. Horizon /\ lastValidTime' \in 0 .. ClockSize - 1
        BY <1>2, Limits DEF updateReceiver, goodFrame, failsafeFrame, noFrame, TypeOK
      <3>2. {valid', rxFailsafe', signalled'} \subseteq BOOLEAN /\ ~(valid' /\ rxFailsafe')
        BY <1>2 DEF updateReceiver, goodFrame, failsafeFrame, noFrame, TypeOK
      <3> QED
        BY <1>2, <3>1, <3>2 DEF updateReceiver, TypeOK, overrideVars, armVars
    <2>3. ReceiverInv'
      <3>1. CASE goodFrame
        BY <1>2, <2>1, <3>1, Limits DEF updateReceiver, goodFrame, TypeOK, ReceiverInv, Since
      <3>2. CASE failsafeFrame
        BY <3>2 DEF failsafeFrame, ReceiverInv
      <3>3. CASE noFrame
        <4>1. Since(lastValidTime, now)' = Since(lastValidTime, now)
          BY <1>2, <3>3 DEF updateReceiver, noFrame, Since
        <4>2. valid' => valid /\ Since(lastValidTime, now) <= failsafeTimeout
          <5>1. Since(lastValidTime, now) \in Nat
            BY SinceNat DEF TypeOK
          <5>2. failsafeTimeout \in Nat
            BY Limits DEF TypeOK
          <5>3. valid' => valid /\ ~(Since(lastValidTime, now) > failsafeTimeout)
            BY <3>3, Zenon DEF noFrame
          <5> QED
            BY <5>1, <5>2, <5>3
        <4>3. valid /\ ~valid' => Since(lastValidTime, now) > failsafeTimeout
          BY <3>3 DEF noFrame, TypeOK
        <4> QED
          BY <1>2, <3>3, <4>1, <4>2, <4>3, Limits
          DEF updateReceiver, noFrame, TypeOK, ReceiverInv
      <3> QED
        BY <1>2, <3>1, <3>2, <3>3 DEF updateReceiver
    <2>4. OverrideInv' /\ CopyInv' /\ HoldInv' /\ ArmInv'
      BY <1>2 DEF updateReceiver, OverrideInv, CopyInv, HoldInv, ArmInv, Since, overrideVars,
         armVars
    <2>5. SourceInv'
      BY <1>2, Limits DEF updateReceiver, goodFrame, failsafeFrame, noFrame, TypeOK, SourceInv,
         overrideVars
    <2> QED
      BY <2>2, <2>3, <2>4, <2>5
  <1>3. CASE checkExpiry
    <2>1. TypeOK' /\ ReceiverInv' /\ SourceInv' /\ ArmInv'
      BY <1>3 DEF checkExpiry, TypeOK, ReceiverInv, SourceInv, ArmInv, Since, receiverVars,
         overrideVars, armVars
    <2>2. overrideActive /\ ~expired => overrideAge <= OverrideTimeout + lag
      <3>1. Since(overrideLast, now) <= Since(overrideLast, nowMs) + Since(nowMs, now)
        BY SinceTriangle DEF TypeOK
      <3>2. /\ Since(overrideLast, nowMs) \in Nat
            /\ Since(nowMs, now) \in Nat
            /\ Since(overrideLast, now) \in Nat
        BY SinceNat DEF TypeOK
      <3>3. Since(nowMs, now) <= lag
        BY <1>3 DEF checkExpiry, CopyInv
      <3> QED
        BY <3>1, <3>2, <3>3, Limits DEF expired, OverrideInv, TypeOK
    <2>3. OverrideInv'
      BY <1>3, <2>2 DEF checkExpiry, OverrideInv, Since, overrideVars
    <2>4. CopyInv'
      BY <1>3 DEF checkExpiry, CopyInv, Since, overrideVars
    <2>5. HoldInv'
      <3>1. onTime /\ expired => overrideAge > OverrideTimeout
        <4>1. Since(overrideLast, nowMs) \in Nat
          BY SinceNat DEF TypeOK
        <4> QED
          BY <1>3, <4>1, Limits DEF checkExpiry, expired, CopyInv, TypeOK
      <3> QED
        BY <1>3, <3>1, Limits DEF checkExpiry, HoldInv, TypeOK, overrideVars
    <2> QED
      BY <2>1, <2>3, <2>4, <2>5
  <1>4. CASE dropOverride
    <2>1. TypeOK' /\ ReceiverInv' /\ OverrideInv' /\ SourceInv' /\ ArmInv'
      BY <1>4 DEF dropOverride, TypeOK, ReceiverInv, OverrideInv, SourceInv, ArmInv, Since,
         receiverVars, armVars
    <2>2. CopyInv' /\ HoldInv'
      BY <1>4 DEF dropOverride, CopyInv, HoldInv, Since
    <2> QED
      BY <2>1, <2>2
  <1>5. CASE selectSource
    <2>1. TypeOK'
      BY <1>5, Limits DEF selectSource, chosen, TypeOK, receiverVars, overrideVars, armVars
    <2>2. ReceiverInv' /\ OverrideInv'
      BY <1>5, Limits DEF selectSource, TypeOK, ReceiverInv, OverrideInv, Since, receiverVars,
         overrideVars
    <2>3. CopyInv' /\ HoldInv' /\ ArmInv'
      BY <1>5 DEF selectSource, CopyInv, HoldInv, ArmInv, Since, overrideVars, armVars
    <2>4. SourceInv'
      BY <1>5, Limits DEF selectSource, chosen, TypeOK, ReceiverInv, OverrideInv, SourceInv,
         receiverVars, overrideVars
    <2> QED
      BY <2>1, <2>2, <2>3, <2>4
  <1> QED
    BY <1>1, <1>2, <1>3, <1>4, <1>5 DEF update

\* The inductive invariant.
THEOREM RCInvariant == Spec => []RCInv
  <1>1. RCInv /\ [Next]_vars => RCInv'
    <2> SUFFICES ASSUME RCInv, [Next]_vars PROVE RCInv'
      OBVIOUS
    <2>1. CASE Next
      BY <2>1, TickRCInv, OthersRCInv, UpdateRCInv DEF Next
    <2>2. CASE UNCHANGED vars
      BY <2>2 DEF vars, receiverVars, overrideVars, updateVars, armVars, RCInv, TypeOK,
         ReceiverInv, OverrideInv, CopyInv, HoldInv, SourceInv, ArmInv, Since
    <2> QED
      BY <2>1, <2>2
  <1> QED
    BY InitRCInv, <1>1, PTL DEF Spec

\* RXManager and RCPipeline keep their types, and a valid frame excludes the
\* receiver's failsafe.
THEOREM TypeCorrect == Spec => []TypeOK
  BY RCInvariant, PTL DEF RCInv

\* A receiver silent for too long is flown on failsafe positions, through any
\* number of wraps of the clock.
THEOREM LossSeen == Spec => []LossIsSeen
  <1>1. RCInv => LossIsSeen
    BY Limits DEF RCInv, TypeOK, SourceInv, LossIsSeen
  <1> QED
    BY <1>1, RCInvariant, PTL

\* An override nobody renews expires.
THEOREM OverrideExpiry == Spec => []OverrideExpires
  <1>1. RCInv => OverrideExpires
    BY Limits DEF RCInv, TypeOK, SourceInv, OverrideExpires
  <1> QED
    BY <1>1, RCInvariant, PTL

\* An armed vehicle returns to its receiver.
THEOREM ArmedOnReceiver == Spec => []ArmedFliesOnReceiver
  <1>1. RCInv => ArmedFliesOnReceiver
    BY Limits DEF RCInv, TypeOK, SourceInv, ArmInv, ArmedFliesOnReceiver
  <1> QED
    BY <1>1, RCInvariant, PTL

\* Failsafe positions have a reason.
THEOREM LossReal == Spec => LossIsReal
  <1>1. RCInv /\ [Next]_vars
          => [selectSource /\ source' = "failsafe" => signalled \/ silence > MinTimeout]_vars
    BY DEF RCInv, TypeOK, ReceiverInv, selectSource, chosen
  <1> QED
    BY <1>1, RCInvariant, PTL DEF Spec, LossIsReal

\* A failsafe bit of the receiver holds until a good frame.
THEOREM SignalHeld == Spec => SignalIsHeld
  <1>1. RCInv /\ [Next]_vars => [selectSource /\ signalled => source' = "failsafe"]_vars
    BY DEF RCInv, ReceiverInv, selectSource, chosen
  <1> QED
    BY <1>1, RCInvariant, PTL DEF Spec, SignalIsHeld

\* An override set between two updates is what the next ones publish.
THEOREM OverrideHeld == Spec => OverrideHolds
  <1>1. RCInv /\ [Next]_vars
          => [selectSource /\ onTime /\ overrideAge <= OverrideTimeout /\ source' # "failsafe"
                => source' = "override"]_vars
    BY DEF RCInv, HoldInv, selectSource, chosen
  <1> QED
    BY <1>1, RCInvariant, PTL DEF Spec, OverrideHolds

-----------------------------------------------------------------------------
(* FlightControlTask: the servo test. *)

\* What the flight task subtracts to see whether a test runs, and the clock's readings.
Left(until, t) == (until + TestClockSize - t) % TestClockSize
TestReadings == 0 .. TestClockSize - 1

\* What a request has stored so far, and that what is stored is the last one when it ends.
StoredInv ==
    /\ requestPc # "idle" => testRequest \in Requests
    /\ requestPc \in {"pulse", "until"} => servoTestSurface = testRequest.surface
    /\ requestPc = "until" => servoTestPulseUs = testRequest.pulse
    /\ requestPc = "idle" => servoTestSurface = liveTest.surface /\ servoTestPulseUs = liveTest.pulse

\* An iteration loads a test only while one runs; a request that found none running excludes
\* that until it is stored.
RunningInv ==
    /\ loopPc \in {"surface", "pulse"} => Ahead(servoTestUntilUs, testUs)
    /\ requestPc # "idle" /\ ~testOverlaps => ~Ahead(servoTestUntilUs, testUs)
    /\ loopPc = "pulse" /\ ~testOverlaps => loopSurface = liveTest.surface

\* Below half a turn of the clock the deadline tells the age of the test.
DeadlineInv ==
    testAge < Half =>
        Left(servoTestUntilUs, testUs) =
            IF testAge <= liveTest.ticks THEN liveTest.ticks - testAge
                                         ELSE TestClockSize + liveTest.ticks - testAge

ServoTestInv == ServoTestTypeOK /\ StoredInv /\ RunningInv /\ DeadlineInv

\* The clock of the servo test: its next reading, and what a deadline subtracts to.
LEMMA TestClock ==
    /\ TestClockSize \in Nat /\ Half \in Nat /\ MaxTest \in Nat
    /\ 2 * Half <= TestClockSize /\ 2 * MaxTest <= Half
    /\ 0 \in TestReadings
    /\ \A t \in TestReadings : (t + 1) % TestClockSize \in TestReadings
    /\ \A until, t \in TestReadings :
          /\ Left(until, t) \in TestReadings
          /\ Left(until, (t + 1) % TestClockSize) =
                IF Left(until, t) = 0 THEN TestClockSize - 1 ELSE Left(until, t) - 1
          /\ Ahead(until, t) <=> Left(until, t) > 0 /\ Left(until, t) < Half
    /\ \A t \in TestReadings, k \in 1 .. MaxTest :
          /\ (t + k) % TestClockSize \in TestReadings
          /\ Left((t + k) % TestClockSize, t) = k
  <1> DEFINE C == TestClockSize
             wrap(x) == x % C
  <1>1. C \in Nat \ {0} /\ MaxTest \in Nat /\ C > 4 * MaxTest
    BY TestClockAssumption
  <1>2. Half \in Nat /\ 2 * Half <= C /\ C <= 2 * Half + 1
    BY <1>1 DEF Half
  <1>3. 2 * MaxTest <= Half
    BY <1>1, <1>2
  <1>4. \A x \in 0 .. 2 * C - 1 : wrap(x) = IF x < C THEN x ELSE x - C
    BY <1>1, ModOnce
  <1>5. /\ \A t, k : (t + k) % C = wrap(t + k)
        /\ \A until, t : Left(until, t) = wrap(until + C - t)
    BY DEF Left
  <1> HIDE DEF wrap
  <1>6. ASSUME NEW until \in 0 .. C - 1, NEW t \in 0 .. C - 1
        PROVE  wrap(until + C - t) = IF until < t THEN until + C - t ELSE until - t
    <2> DEFINE a == until + C - t
    <2>1. a \in 0 .. 2 * C - 1 /\ (a < C <=> until < t) /\ a - C = until - t
      BY <1>1
    <2> HIDE DEF a
    <2>2. wrap(a) = IF a < C THEN a ELSE a - C
      BY <1>4, <2>1
    <2>3. wrap(a) = IF until < t THEN a ELSE until - t
      BY <2>1, <2>2
    <2> QED
      BY <2>3 DEF a
  <1>7. ASSUME NEW t \in 0 .. C - 1, NEW k \in 0 .. C - 1
        PROVE  wrap(t + k) = IF t + k < C THEN t + k ELSE t + k - C
    <2> DEFINE a == t + k
    <2>1. a \in 0 .. 2 * C - 1 /\ a - C = t + k - C
      BY <1>1
    <2> HIDE DEF a
    <2>2. wrap(a) = IF a < C THEN a ELSE a - C
      BY <1>4, <2>1
    <2>3. wrap(a) = IF a < C THEN a ELSE t + k - C
      BY <2>1, <2>2
    <2> QED
      BY <2>3 DEF a
  <1>8. ASSUME NEW t \in 0 .. C - 1
        PROVE  wrap(t + 1) \in 0 .. C - 1 /\ wrap(t + 1) = IF t + 1 < C THEN t + 1 ELSE 0
    <2> DEFINE a == t + 1
    <2>1. a \in 0 .. 2 * C - 1 /\ a >= 0 /\ a <= C
      BY <1>1
    <2> HIDE DEF a
    <2>2. wrap(a) = IF a < C THEN a ELSE a - C
      BY <1>4, <2>1
    <2>3. wrap(a) \in 0 .. C - 1 /\ wrap(a) = IF a < C THEN a ELSE 0
      BY <1>1, <2>1, <2>2
    <2> QED
      BY <2>3 DEF a
  <1>9. ASSUME NEW until \in 0 .. C - 1, NEW t \in 0 .. C - 1
        PROVE  /\ wrap(until + C - t) \in 0 .. C - 1
               /\ wrap(until + C - wrap(t + 1)) =
                     IF wrap(until + C - t) = 0 THEN C - 1 ELSE wrap(until + C - t) - 1
    <2> DEFINE u == wrap(t + 1)
    <2>1. u \in 0 .. C - 1 /\ u = IF t + 1 < C THEN t + 1 ELSE 0
      BY <1>8
    <2> HIDE DEF u
    <2>2. wrap(until + C - t) = IF until < t THEN until + C - t ELSE until - t
      BY <1>6
    <2>3. wrap(until + C - u) = IF until < u THEN until + C - u ELSE until - u
      BY <1>6, <2>1
    <2>4. wrap(until + C - t) \in 0 .. C - 1
      BY <1>1, <2>2
    <2>5. wrap(until + C - u) = IF wrap(until + C - t) = 0 THEN C - 1 ELSE wrap(until + C - t) - 1
      BY <1>1, <2>1, <2>2, <2>3
    <2> QED
      BY <2>4, <2>5 DEF u
  <1>10. ASSUME NEW t \in 0 .. C - 1, NEW k \in 1 .. MaxTest
         PROVE  wrap(t + k) \in 0 .. C - 1 /\ wrap(wrap(t + k) + C - t) = k
    <2> DEFINE u == wrap(t + k)
    <2>1. k \in 0 .. C - 1 /\ k >= 1
      BY <1>1
    <2>2. u = IF t + k < C THEN t + k ELSE t + k - C
      BY <1>7, <2>1
    <2> HIDE DEF u
    <2>3. u \in 0 .. C - 1
      BY <1>1, <2>1, <2>2
    <2>4. wrap(u + C - t) = IF u < t THEN u + C - t ELSE u - t
      BY <1>6, <2>3
    <2>5. wrap(u + C - t) = k
      BY <1>1, <2>1, <2>2, <2>3, <2>4
    <2> QED
      BY <2>3, <2>5 DEF u
  <1>11. 0 \in 0 .. C - 1 /\ TestReadings = 0 .. C - 1
    BY <1>1 DEF TestReadings
  <1>12. ASSUME NEW until \in TestReadings, NEW t \in TestReadings
         PROVE  /\ Left(until, t) \in TestReadings
                /\ Left(until, (t + 1) % C) = IF Left(until, t) = 0 THEN C - 1 ELSE Left(until, t) - 1
    <2> DEFINE u == wrap(t + 1)
    <2>1. until \in 0 .. C - 1 /\ t \in 0 .. C - 1
      BY <1>11
    <2>2. (t + 1) % C = u /\ Left(until, t) = wrap(until + C - t)
      BY <1>5
    <2>3. /\ wrap(until + C - t) \in 0 .. C - 1
          /\ wrap(until + C - u) = IF wrap(until + C - t) = 0 THEN C - 1 ELSE wrap(until + C - t) - 1
      BY <1>9, <2>1
    <2> HIDE DEF u
    <2>4. Left(until, u) = wrap(until + C - u)
      BY <1>5
    <2> QED
      BY <1>11, <2>2, <2>3, <2>4
  <1>13. ASSUME NEW until \in TestReadings, NEW t \in TestReadings
         PROVE  Ahead(until, t) <=> Left(until, t) > 0 /\ Left(until, t) < Half
    <2>1. Left(until, t) \in Nat
      BY <1>11, <1>12
    <2>2. Ahead(until, t) <=> 0 < Left(until, t) /\ Left(until, t) < Half
      BY DEF Ahead, Left
    <2> QED
      BY <2>1, <2>2
  <1>14. ASSUME NEW t \in TestReadings, NEW k \in 1 .. MaxTest
         PROVE  (t + k) % C \in TestReadings /\ Left((t + k) % C, t) = k
    <2> DEFINE u == wrap(t + k)
    <2>1. t \in 0 .. C - 1
      BY <1>11
    <2>2. (t + k) % C = u
      BY <1>5
    <2>3. u \in 0 .. C - 1 /\ wrap(u + C - t) = k
      BY <1>10, <2>1
    <2> HIDE DEF u
    <2>4. Left(u, t) = wrap(u + C - t)
      BY <1>5
    <2> QED
      BY <1>11, <2>2, <2>3, <2>4
  <1>15. ASSUME NEW t \in TestReadings PROVE (t + 1) % C \in TestReadings
    BY ONLY <1>5, <1>8, <1>11, t \in TestReadings
  <1>16. \A t \in TestReadings : (t + 1) % C \in TestReadings
    BY ONLY <1>15, Zenon
  <1>17. \A until, t \in TestReadings :
            /\ Left(until, t) \in TestReadings
            /\ Left(until, (t + 1) % C) = IF Left(until, t) = 0 THEN C - 1 ELSE Left(until, t) - 1
            /\ Ahead(until, t) <=> Left(until, t) > 0 /\ Left(until, t) < Half
    BY ONLY <1>12, <1>13, Zenon
  <1>18. \A t \in TestReadings, k \in 1 .. MaxTest :
            (t + k) % C \in TestReadings /\ Left((t + k) % C, t) = k
    BY ONLY <1>14, Zenon
  <1>19. C \in Nat /\ 0 \in TestReadings
    BY <1>1, <1>11
  <1> QED
    BY ONLY <1>1, <1>2, <1>3, <1>16, <1>17, <1>18, <1>19, Zenon

\* At the start no test is stored.
LEMMA ServoTestStarts == ServoTestInit => ServoTestInv
  <1> SUFFICES ASSUME ServoTestInit PROVE ServoTestInv
    OBVIOUS
  <1>1. 0 \in TestReadings /\ Half \in 0 .. Half /\ ~(Half < Half) /\ 0 \in Surfaces /\ Neutral \in Pulses
    BY TestClock, NeutralAssumption
  <1>2. Quiet("safe") \in [kind : {"safe", "driven", "test"}, surface : Surfaces, pulse : Pulses]
    BY <1>1 DEF Quiet
  <1>3. ServoTestTypeOK
    BY <1>1, <1>2 DEF ServoTestInit, ServoTestTypeOK, TestReadings
  <1> QED
    BY <1>1, <1>3 DEF ServoTestInit, ServoTestInv, StoredInv, RunningInv, DeadlineInv, NoRequest

\* A tick, which passes between two iterations and between two requests.
LEMMA TestTickStep == ASSUME ServoTestInv, testTick PROVE ServoTestInv'
  <1>1. /\ testUs \in TestReadings /\ servoTestUntilUs \in TestReadings
        /\ testAge \in 0 .. Half /\ liveTest \in Requests \cup {NoRequest}
    BY DEF ServoTestInv, ServoTestTypeOK, TestReadings
  <1>2. liveTest.ticks \in 0 .. MaxTest
    <2>1. MaxTest \in Nat
      BY TestClock
    <2> QED
      BY <1>1, <2>1 DEF Requests, NoRequest
  <1>3. /\ requestPc = "idle" /\ loopPc = "idle"
        /\ testUs' = (testUs + 1) % TestClockSize
        /\ testAge' = IF testAge < Half THEN testAge + 1 ELSE Half
        /\ UNCHANGED <<testArmed, servoTestSurface, servoTestPulseUs, servoTestUntilUs, requestPc, testRequest>>
        /\ UNCHANGED <<liveTest, testOverlaps, loopPc, loopSurface, outputs>>
    BY DEF testTick, testVars, requestVars, loopVars
  <1>4. testUs' \in TestReadings /\ testAge' \in 0 .. Half
    <2>1. testUs' \in TestReadings
      BY <1>1, <1>3, TestClock
    <2>2. testAge' \in 0 .. Half
      BY <1>1, <1>3, TestClock
    <2> QED
      BY <2>1, <2>2
  <1>5. ServoTestTypeOK'
    BY <1>3, <1>4 DEF ServoTestInv, ServoTestTypeOK, TestReadings
  <1>6. StoredInv' /\ RunningInv'
    BY <1>3 DEF ServoTestInv, StoredInv, RunningInv
  <1>7. DeadlineInv'
    <2> SUFFICES ASSUME testAge' < Half
                 PROVE  Left(servoTestUntilUs', testUs') =
                           IF testAge' <= liveTest'.ticks THEN liveTest'.ticks - testAge'
                                                          ELSE TestClockSize + liveTest'.ticks - testAge'
      BY DEF DeadlineInv, Left, Half
    <2>1. testAge < Half /\ testAge' = testAge + 1
      BY <1>1, <1>3, TestClock
    <2>2. Left(servoTestUntilUs, testUs) =
             IF testAge <= liveTest.ticks THEN liveTest.ticks - testAge
                                          ELSE TestClockSize + liveTest.ticks - testAge
      BY <2>1 DEF ServoTestInv, DeadlineInv
    <2>3. Left(servoTestUntilUs, testUs') =
             IF Left(servoTestUntilUs, testUs) = 0 THEN TestClockSize - 1
                                                   ELSE Left(servoTestUntilUs, testUs) - 1
      BY <1>1, <1>3, TestClock
    <2>4. TestClockSize \in Nat /\ Half \in Nat /\ 2 * Half <= TestClockSize /\ liveTest'.ticks = liveTest.ticks
          /\ MaxTest \in Nat /\ servoTestUntilUs' = servoTestUntilUs
      BY <1>3, TestClock
    <2> DEFINE left == Left(servoTestUntilUs, testUs)
               ticks == liveTest.ticks
    <2>5. /\ left = IF testAge <= ticks THEN ticks - testAge ELSE TestClockSize + ticks - testAge
          /\ Left(servoTestUntilUs', testUs') = IF left = 0 THEN TestClockSize - 1 ELSE left - 1
          /\ ticks \in 0 .. MaxTest /\ testAge \in 0 .. Half
          /\ liveTest'.ticks = ticks
      BY <1>1, <1>2, <2>2, <2>3, <2>4
    <2> HIDE DEF left, ticks
    <2>6. (IF left = 0 THEN TestClockSize - 1 ELSE left - 1) =
             IF testAge + 1 <= ticks THEN ticks - (testAge + 1)
                                     ELSE TestClockSize + ticks - (testAge + 1)
      BY ONLY <2>1, <2>4, <2>5
    <2> QED
      BY <2>1, <2>5, <2>6
  <1> QED
    BY <1>5, <1>6, <1>7 DEF ServoTestInv

\* A request is begun while the vehicle is disarmed and stored variable by variable.
LEMMA RequestStep == ASSUME ServoTestInv, requestServoTest PROVE ServoTestInv'
  <1>1. /\ testUs \in TestReadings /\ servoTestUntilUs \in TestReadings
        /\ testRequest \in Requests \cup {NoRequest}
        /\ ServoTestTypeOK /\ StoredInv /\ RunningInv /\ DeadlineInv
    BY DEF ServoTestInv, ServoTestTypeOK, TestReadings
  <1>2. \A r \in Requests : r.surface \in Surfaces /\ r.pulse \in Pulses /\ r.ticks \in 1 .. MaxTest
    BY DEF Requests
  <1>3. CASE beginRequest
    <2>1. /\ requestPc = "idle" /\ requestPc' = "surface" /\ testRequest' \in Requests
          /\ testOverlaps' = Ahead(servoTestUntilUs, testUs)
          /\ UNCHANGED <<testUs, testArmed, servoTestSurface, servoTestPulseUs, servoTestUntilUs>>
          /\ UNCHANGED <<liveTest, loopPc, loopSurface, outputs, testAge>>
      BY <1>3 DEF beginRequest, testVars, loopVars
    <2>2. Ahead(servoTestUntilUs, testUs) \in BOOLEAN
      BY DEF Ahead
    <2>3. ServoTestTypeOK'
      BY <1>1, <2>1, <2>2 DEF ServoTestTypeOK
    <2>4. StoredInv'
      BY <2>1 DEF StoredInv
    <2>5. RunningInv'
      BY <1>1, <2>1 DEF RunningInv
    <2>6. DeadlineInv'
      BY <1>1, <2>1 DEF DeadlineInv
    <2> QED
      BY <2>3, <2>4, <2>5, <2>6 DEF ServoTestInv
  <1>4. CASE storeSurface
    <2>1. /\ requestPc = "surface" /\ requestPc' = "pulse" /\ servoTestSurface' = testRequest.surface
          /\ UNCHANGED <<testUs, testArmed, servoTestPulseUs, servoTestUntilUs, testRequest, liveTest>>
          /\ UNCHANGED <<testOverlaps, loopPc, loopSurface, outputs, testAge>>
      BY <1>4 DEF storeSurface, loopVars
    <2>2. testRequest \in Requests
      BY <1>1, <2>1 DEF StoredInv
    <2>3. ServoTestTypeOK'
      BY <1>1, <1>2, <2>1, <2>2 DEF ServoTestTypeOK
    <2>4. StoredInv' /\ RunningInv' /\ DeadlineInv'
      BY <1>1, <2>1, <2>2 DEF StoredInv, RunningInv, DeadlineInv
    <2> QED
      BY <2>3, <2>4 DEF ServoTestInv
  <1>5. CASE storePulse
    <2>1. /\ requestPc = "pulse" /\ requestPc' = "until" /\ servoTestPulseUs' = testRequest.pulse
          /\ UNCHANGED <<testUs, testArmed, servoTestSurface, servoTestUntilUs, testRequest, liveTest>>
          /\ UNCHANGED <<testOverlaps, loopPc, loopSurface, outputs, testAge>>
      BY <1>5 DEF storePulse, loopVars
    <2>2. testRequest \in Requests
      BY <1>1, <2>1 DEF StoredInv
    <2>3. ServoTestTypeOK'
      BY <1>1, <1>2, <2>1, <2>2 DEF ServoTestTypeOK
    <2>4. StoredInv' /\ RunningInv' /\ DeadlineInv'
      BY <1>1, <2>1, <2>2 DEF StoredInv, RunningInv, DeadlineInv
    <2> QED
      BY <2>3, <2>4 DEF ServoTestInv
  <1>6. CASE storeUntil
    <2>1. /\ requestPc = "until" /\ requestPc' = "idle" /\ liveTest' = testRequest /\ testAge' = 0
          /\ servoTestUntilUs' = (testUs + testRequest.ticks) % TestClockSize
          /\ UNCHANGED <<testUs, testArmed, servoTestSurface, servoTestPulseUs, testRequest>>
          /\ UNCHANGED <<testOverlaps, loopPc, loopSurface, outputs>>
      BY <1>6 DEF storeUntil, loopVars
    <2>2. /\ testRequest \in Requests /\ testRequest.ticks \in 1 .. MaxTest
          /\ servoTestSurface = testRequest.surface /\ servoTestPulseUs = testRequest.pulse
      BY <1>1, <1>2, <2>1 DEF StoredInv
    <2>3. servoTestUntilUs' \in TestReadings /\ Left(servoTestUntilUs', testUs') = testRequest.ticks
      BY <1>1, <2>1, <2>2, TestClock
    <2>4. 0 \in 0 .. Half
      BY TestClock
    <2>5. ServoTestTypeOK'
      BY <1>1, <2>1, <2>2, <2>3, <2>4 DEF ServoTestTypeOK, TestReadings
    <2>6. StoredInv'
      BY <2>1, <2>2 DEF StoredInv
    <2>7. Ahead(servoTestUntilUs', testUs')
      <3>1. testRequest.ticks > 0 /\ testRequest.ticks < Half
        <4>1. MaxTest \in Nat /\ Half \in Nat /\ 2 * MaxTest <= Half
          BY TestClock
        <4> QED
          BY <2>2, <4>1
      <3> QED
        BY <1>1, <2>1, <2>3, <3>1, TestClock
    <2>8. ~testOverlaps => loopPc \notin {"surface", "pulse"}
      BY <1>1, <2>1 DEF RunningInv
    <2>9. RunningInv'
      BY <2>1, <2>7, <2>8 DEF RunningInv, Ahead
    <2>10. DeadlineInv'
      <3>1. 0 <= testRequest.ticks /\ testRequest.ticks - 0 = testRequest.ticks
        <4>1. MaxTest \in Nat
          BY TestClock
        <4> QED
          BY <2>2, <4>1
      <3>2. Left(servoTestUntilUs', testUs') =
               IF testAge' <= liveTest'.ticks THEN liveTest'.ticks - testAge'
                                              ELSE TestClockSize + liveTest'.ticks - testAge'
        BY <2>1, <2>3, <3>1
      <3> QED
        BY <3>2 DEF DeadlineInv, Left, Half
    <2> QED
      BY <2>5, <2>6, <2>9, <2>10 DEF ServoTestInv
  <1> QED
    BY <1>3, <1>4, <1>5, <1>6 DEF requestServoTest

\* An iteration, and the arming of the vehicle.
LEMMA LoopStep == ASSUME ServoTestInv, runLoop \/ setTestArmed PROVE ServoTestInv'
  <1>1. ServoTestTypeOK /\ StoredInv /\ RunningInv /\ DeadlineInv
    BY DEF ServoTestInv
  <1>2. /\ UNCHANGED <<testUs, servoTestSurface, servoTestPulseUs, servoTestUntilUs, requestPc, testRequest>>
        /\ UNCHANGED <<liveTest, testOverlaps, testAge>>
    BY DEF runLoop, beginIteration, loadUntil, loadSurface, writeServoTest, setTestArmed, testVars, requestVars
  <1>3. StoredInv' /\ DeadlineInv'
    BY <1>1, <1>2 DEF StoredInv, DeadlineInv
  <1>4. ServoTestTypeOK'
    <2>1. 0 \in Surfaces /\ Neutral \in Pulses
      BY NeutralAssumption
    <2>2. /\ Quiet("safe") \in [kind : {"safe", "driven", "test"}, surface : Surfaces, pulse : Pulses]
          /\ Quiet("driven") \in [kind : {"safe", "driven", "test"}, surface : Surfaces, pulse : Pulses]
      BY <2>1 DEF Quiet
    <2>3. Test(loopSurface, servoTestPulseUs) \in
             [kind : {"safe", "driven", "test"}, surface : Surfaces, pulse : Pulses]
      BY <1>1 DEF Test, ServoTestTypeOK
    <2>4. outputs' \in [kind : {"safe", "driven", "test"}, surface : Surfaces, pulse : Pulses]
      BY <1>1, <2>2, <2>3
         DEF runLoop, beginIteration, loadUntil, loadSurface, writeServoTest, setTestArmed, loopVars,
             ServoTestTypeOK
    <2>5. testArmed' \in BOOLEAN /\ loopPc' \in {"idle", "until", "surface", "pulse"} /\ loopSurface' \in Surfaces
      BY <1>1 DEF runLoop, beginIteration, loadUntil, loadSurface, writeServoTest, setTestArmed, loopVars,
                  ServoTestTypeOK
    <2> QED
      BY <1>1, <1>2, <2>4, <2>5 DEF ServoTestTypeOK
  <1>5. /\ loopPc' \in {"surface", "pulse"} => Ahead(servoTestUntilUs, testUs)
        /\ loopPc' = "pulse" /\ ~testOverlaps => loopSurface' = liveTest.surface
    <2>1. CASE setTestArmed
      BY <1>1, <2>1 DEF setTestArmed, loopVars, RunningInv
    <2>2. CASE beginIteration \/ loadUntil \/ writeServoTest
      BY <1>1, <2>2 DEF beginIteration, loadUntil, writeServoTest, RunningInv
    <2>3. CASE loadSurface
      <3>1. loopPc = "surface" /\ loopSurface' = servoTestSurface
        BY <2>3 DEF loadSurface
      <3>2. Ahead(servoTestUntilUs, testUs) /\ (~testOverlaps => requestPc = "idle")
        BY <1>1, <3>1 DEF RunningInv
      <3> QED
        BY <1>1, <3>1, <3>2 DEF StoredInv
    <2> QED
      BY <2>1, <2>2, <2>3 DEF runLoop
  <1>6. RunningInv'
    BY <1>1, <1>2, <1>5 DEF RunningInv
  <1> QED
    BY <1>3, <1>4, <1>6 DEF ServoTestInv

\* Every step of the servo test, and none.
LEMMA ServoTestStep == ASSUME ServoTestInv, ServoTestNext \/ UNCHANGED servoTestVars PROVE ServoTestInv'
  <1>1. CASE ServoTestNext
    BY <1>1, TestTickStep, RequestStep, LoopStep DEF ServoTestNext
  <1>2. CASE UNCHANGED servoTestVars
    <2>1. /\ UNCHANGED <<testUs, testArmed, servoTestSurface, servoTestPulseUs, servoTestUntilUs, requestPc>>
          /\ UNCHANGED <<testRequest, liveTest, testOverlaps, loopPc, loopSurface, outputs, testAge>>
      BY <1>2 DEF servoTestVars, testVars, requestVars, loopVars
    <2>2. ServoTestTypeOK' /\ StoredInv' /\ RunningInv' /\ DeadlineInv'
      BY <2>1 DEF ServoTestInv, ServoTestTypeOK, StoredInv, RunningInv, DeadlineInv
    <2> QED
      BY <2>2 DEF ServoTestInv
  <1> QED
    BY <1>1, <1>2

\* In the whole the servo test keeps its invariant: the pipeline does not touch it.
THEOREM ServoTestInvariant == PathSpec => []ServoTestInv
  <1>1. PathInit => ServoTestInv
    BY ServoTestStarts DEF PathInit
  <1>2. ServoTestInv /\ [PathNext]_<<component, vars, servoTestVars>> => ServoTestInv'
    BY ServoTestStep DEF PathNext
  <1> QED
    BY <1>1, <1>2, PTL DEF PathSpec

\* The servo test's variables keep their types: a deadline stays a reading of the clock.
THEOREM ServoTestTypeCorrect == PathSpec => []ServoTestTypeOK
  <1>1. ServoTestInv => ServoTestTypeOK
    BY DEF ServoTestInv
  <1> QED
    BY <1>1, ServoTestInvariant, PTL

\* A test requested while none is running reaches the servos as requested, although it is stored
\* in three steps and loaded in three (FlightControlTask::requestServoTest() and run()).
THEOREM TestsAreWhole == PathSpec => TestIsWhole
  <1>1. ServoTestInv => [writeServoTest /\ ~testOverlaps =>
                            outputs' = Test(liveTest.surface, liveTest.pulse)]_servoTestVars
    <2> SUFFICES ASSUME ServoTestInv, writeServoTest, ~testOverlaps
                 PROVE  outputs' = Test(liveTest.surface, liveTest.pulse)
      OBVIOUS
    <2>1. loopPc = "pulse" /\ outputs' = Test(loopSurface, servoTestPulseUs)
      BY DEF writeServoTest
    <2>2. Ahead(servoTestUntilUs, testUs) /\ loopSurface = liveTest.surface
      BY <2>1 DEF ServoTestInv, RunningInv
    <2>3. requestPc = "idle"
      BY <2>2 DEF ServoTestInv, RunningInv
    <2>4. servoTestPulseUs = liveTest.pulse
      BY <2>3 DEF ServoTestInv, StoredInv
    <2> QED
      BY <2>1, <2>2, <2>4
  <1> QED
    BY <1>1, ServoTestInvariant, PTL DEF TestIsWhole

\* No test is written beyond the time requested, for half a turn of the clock, wherever it wraps
\* in between (FlightControlTask::run(), the signed difference).
THEOREM TestsEndOnTime == PathSpec => TestEndsOnTime
  <1>1. ServoTestInv => [writeServoTest => testAge < liveTest.ticks \/ testAge = Half]_servoTestVars
    <2> SUFFICES ASSUME ServoTestInv, writeServoTest, testAge # Half
                 PROVE  testAge < liveTest.ticks
      OBVIOUS
    <2>1. /\ testUs \in TestReadings /\ servoTestUntilUs \in TestReadings
          /\ testAge \in 0 .. Half /\ liveTest \in Requests \cup {NoRequest}
      BY DEF ServoTestInv, ServoTestTypeOK, TestReadings
    <2>2. /\ TestClockSize \in Nat /\ Half \in Nat /\ MaxTest \in Nat /\ 2 * Half <= TestClockSize
      BY TestClock
    <2>3. liveTest.ticks \in 0 .. MaxTest
      BY <2>1, <2>2 DEF Requests, NoRequest
    <2>4. Ahead(servoTestUntilUs, testUs)
      BY DEF writeServoTest, ServoTestInv, RunningInv
    <2>5. Left(servoTestUntilUs, testUs) > 0 /\ Left(servoTestUntilUs, testUs) < Half
      BY <2>1, <2>4, TestClock
    <2>6. testAge < Half
      BY <2>1, <2>2
    <2>7. Left(servoTestUntilUs, testUs) =
             IF testAge <= liveTest.ticks THEN liveTest.ticks - testAge
                                          ELSE TestClockSize + liveTest.ticks - testAge
      BY <2>6 DEF ServoTestInv, DeadlineInv
    <2> QED
      BY <2>1, <2>2, <2>3, <2>5, <2>6, <2>7
  <1> QED
    BY <1>1, ServoTestInvariant, PTL DEF TestEndsOnTime

\* A behaviour of the whole is one of the pipeline.
THEOREM PathKeepsPipeline == PathSpec => Spec
  <1>1. PathInit => Init
    BY DEF PathInit
  <1>2. [PathNext]_<<component, vars, servoTestVars>> => [Next]_vars
    BY DEF PathNext
  <1> QED
    BY <1>1, <1>2, PTL DEF PathSpec, Spec

\* So the receiver's loss and the override are what they are above, beside the servo test.
THEOREM PilotIsHeard ==
    PathSpec => /\ []TypeOK /\ []LossIsSeen /\ []OverrideExpires /\ []ArmedFliesOnReceiver
                /\ LossIsReal /\ SignalIsHeld /\ OverrideHolds
  BY PathKeepsPipeline, TypeCorrect, LossSeen, OverrideExpiry, ArmedOnReceiver, LossReal, SignalHeld,
     OverrideHeld, PTL
=============================================================================
