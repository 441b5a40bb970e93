------------------------ MODULE FlightModeController ------------------------
(***************************************************************************)
(* core/control/FlightModeController.cpp: the flight state machine with    *)
(* its two hold timers.  A timer is the number of ticks its gesture has    *)
(* been held, NotHeld when it is not running; _transitionReason is wording *)
(* and is left out.  The actions say nothing of anyone else's variables.   *)
(***************************************************************************)
EXTENDS Integers

CONSTANT ArmHold    \* ARM_HOLD_MS, in ticks

ASSUME ArmHoldAssumption == ArmHold \in Nat \ {0}

VARIABLES
    state,       \* _state
    armHold,     \* ticks since _armHoldStart
    disarmHold   \* ticks since _disarmHoldStart

controllerVars == <<state, armHold, disarmHold>>

FlightStates == {"Standby", "PreflightBlocked", "ReadyToArm", "ArmedManual", "Failsafe"}

\* Stick positions the guards tell apart: low throttle with the rudder right,
\* left or in between, and a throttle of ARM_THROTTLE_MAX or more.
Sticks == {"armGesture", "disarmGesture", "low", "high"}

NotHeld == -1
Holds == NotHeld..ArmHold

isArmed == state = "ArmedManual"

ControllerInit ==
    /\ state = "Standby"
    /\ armHold = NotHeld
    /\ disarmHold = NotHeld

transitionTo(s) ==
    /\ state' = s
    /\ armHold' = NotHeld
    /\ disarmHold' = NotHeld

-----------------------------------------------------------------------------
(* update(): seen is the _state it loaded, which a request arriving while   *)
(* it runs may have changed since; it stores _state only in transitionTo.   *)

\* A timer that was not running starts now.
Start(hold) == IF hold = NotHeld THEN 0 ELSE hold

\* Mutant: the failsafe enters the state that is declared but never used.
updateFailsafeSafe == transitionTo("Safe")

updateFailsafe == transitionTo("Failsafe")

updateBlocked(seen) ==
    /\ seen # "ArmedManual"
    /\ IF seen = "PreflightBlocked"
         THEN UNCHANGED controllerVars
         ELSE transitionTo("PreflightBlocked")

updateReady(seen, gesture) ==
    /\ seen # "ArmedManual"
    /\ LET running == IF seen = "ReadyToArm" THEN armHold ELSE NotHeld
           held    == IF gesture THEN Start(running) ELSE NotHeld
       IN  IF held = ArmHold
             THEN transitionTo("ArmedManual")
             ELSE /\ state' = IF seen = "ReadyToArm" THEN state ELSE "ReadyToArm"
                  /\ armHold' = held
                  /\ disarmHold' = IF seen = "ReadyToArm" THEN disarmHold ELSE NotHeld

updateArmed(seen, gesture) ==
    /\ seen = "ArmedManual"
    /\ LET held == IF gesture THEN Start(disarmHold) ELSE NotHeld
       IN  IF held = ArmHold
             THEN transitionTo("ReadyToArm")
             ELSE disarmHold' = held /\ UNCHANGED <<state, armHold>>

updateController(seen, in) ==
    \/ in.failsafe /\ updateFailsafe
    \/ ~in.failsafe /\ ~in.preflightOk /\ updateBlocked(seen)
    \/ ~in.failsafe /\ in.preflightOk
       /\ updateReady(seen, in.gestures /\ in.sticks = "armGesture")
    \/ ~in.failsafe /\ updateArmed(seen, in.gestures /\ in.sticks = "disarmGesture")

\* Time passes: a running timer advances, up to the value that matters.
Advance(hold) == IF hold \in {NotHeld, ArmHold} THEN hold ELSE hold + 1

tick ==
    /\ armHold' = Advance(armHold)
    /\ disarmHold' = Advance(disarmHold)
    /\ UNCHANGED state

-----------------------------------------------------------------------------
(* The requests, with the answer they give.                                 *)

ArmAccepted(preflightOk, failsafe, throttleHigh) ==
    isArmed \/ (~failsafe /\ preflightOk /\ ~throttleHigh)

requestArm(preflightOk, failsafe, throttleHigh) ==
    \/ /\ ~isArmed /\ ArmAccepted(preflightOk, failsafe, throttleHigh)
       /\ transitionTo("ArmedManual")
    \/ /\ ~isArmed /\ ~failsafe /\ ~preflightOk
       /\ transitionTo("PreflightBlocked")
    \/ /\ isArmed \/ failsafe \/ (preflightOk /\ throttleHigh)
       /\ UNCHANGED controllerVars

forceArm == transitionTo("ArmedManual")

DisarmAccepted(force, throttleHigh) == ~isArmed \/ force \/ ~throttleHigh

requestDisarm(force, throttleHigh) ==
    IF DisarmAccepted(force, throttleHigh)
      THEN transitionTo("ReadyToArm")
      ELSE UNCHANGED controllerVars
=============================================================================
