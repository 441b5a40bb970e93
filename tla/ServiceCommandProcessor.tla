---------------------- MODULE ServiceCommandProcessor ----------------------
(***************************************************************************)
(* app/ServiceCommandProcessor.cpp with both ends of its mailbox:          *)
(*   - process(), a periodic handler of the sensor task, step by step (pc):*)
(*     first the result of an IMU calibration, then at most one request;   *)
(*   - the telemetry task, which submits requests, drains completions and  *)
(*     arms or disarms between any two of these steps;                     *)
(*   - the IMU frames that finish a calibration (drivers/Sensors.cpp).     *)
(* Whether a sensor is present, a calibration is valid, a flash write      *)
(* succeeds or the outputs are ready is a free choice where it is asked.   *)
(***************************************************************************)
EXTENDS ServiceCommandMailbox

CONSTANTS CalImu, CalMag, ServoTest

ASSUME ActionsAssumption ==
    /\ Actions = {CalImu, CalMag, ServoTest} /\ Empty \notin Actions
    /\ CalImu # CalMag /\ CalMag # ServoTest /\ CalImu # ServoTest
ASSUME MaxRequestsAssumption == MaxRequests \in Nat

VARIABLES
    armed,      \* flightManager.isArmed()
    imu,        \* SensorManager::_imuCalibrationState
    magActive,  \* magCalibrationActive
    pc,         \* where the sensor task is in process()
    request,    \* its request
    posting,    \* the completion it is writing
    resume      \* where it goes on after complete()

localVars == <<request, posting, resume>>
vars == <<mailboxVars, armed, imu, magActive, pc, localVars>>

Init ==
    /\ MailboxInit
    /\ armed = FALSE
    /\ imu = "Idle"
    /\ magActive = FALSE
    /\ pc = "idle"
    /\ request = Empty
    /\ posting = Empty
    /\ resume = "idle"

At(here, there) == pc = here /\ pc' = there

\* complete() is called with this result; control then goes on at `next`.
Complete(action, result, async, next) ==
    /\ pc' = "copyHead"
    /\ posting' = [action |-> action, result |-> result, async |-> async]
    /\ resume' = next

-----------------------------------------------------------------------------
(* pollAsyncCompletions                                                     *)

\* Mutant: the result is reported and stays in place.
pollResultKept ==
    /\ pc = "idle"
    /\ CASE imu = "Complete" -> pc' = "saveImu" /\ UNCHANGED <<imu, posting, resume>>
         [] imu = "Failed" -> Complete(CalImu, "failed", TRUE, "claim") /\ UNCHANGED imu
         [] OTHER -> pc' = "claim" /\ UNCHANGED <<imu, posting, resume>>
    /\ UNCHANGED <<mailboxVars, armed, magActive, request>>

pollResult ==
    /\ pc = "idle"
    /\ CASE imu = "Complete" -> pc' = "saveImu" /\ imu' = "Idle" /\ UNCHANGED <<posting, resume>>
         [] imu = "Failed" -> Complete(CalImu, "failed", TRUE, "claim") /\ imu' = "Idle"
         [] OTHER -> pc' = "claim" /\ UNCHANGED <<imu, posting, resume>>
    /\ UNCHANGED <<mailboxVars, armed, magActive, request>>

saveImu ==
    /\ pc = "saveImu"
    /\ \E result \in {"accepted", "failed"} : Complete(CalImu, result, TRUE, "claim")
    /\ UNCHANGED <<mailboxVars, armed, imu, magActive, request>>

-----------------------------------------------------------------------------
(* claim and processRequest                                                 *)

claim ==
    \/ At("claim", "copy") /\ claimSlot /\ UNCHANGED <<armed, imu, magActive, localVars>>
    \/ /\ At("claim", "idle")
       /\ pendingReady # 2
       /\ UNCHANGED <<mailboxVars, armed, imu, magActive, localVars>>
    \/ /\ At("copy", "clear")
       /\ copyRequest
       /\ request' = pending
       /\ UNCHANGED <<armed, imu, magActive, posting, resume>>
    \/ At("clear", "release") /\ clearRequest /\ UNCHANGED <<armed, imu, magActive, localVars>>
    \/ At("release", "check") /\ releaseSlot /\ UNCHANGED <<armed, imu, magActive, localVars>>

rejectIfArmed ==
    /\ pc = "check"
    /\ IF armed THEN Complete(request, "rejected", FALSE, "idle")
                ELSE pc' = "serve" /\ UNCHANGED <<posting, resume>>
    /\ UNCHANGED <<mailboxVars, armed, imu, magActive, request>>

serveCalImu ==
    /\ pc = "serve" /\ request = CalImu
    /\ \/ Complete(CalImu, "rejected", FALSE, "idle") /\ UNCHANGED imu
       \/ /\ imu # "Collecting"
          /\ imu' = "Collecting"
          /\ Complete(CalImu, "inProgress", FALSE, "idle")
    /\ UNCHANGED <<mailboxVars, armed, magActive, request>>

serveCalMag ==
    /\ pc = "serve" /\ request = CalMag
    /\ \/ Complete(CalMag, "denied", FALSE, "idle") /\ UNCHANGED magActive
       \/ /\ ~magActive
          /\ magActive' = TRUE
          /\ Complete(CalMag, "inProgress", FALSE, "idle")
       \/ /\ magActive
          /\ magActive' = FALSE
          /\ \/ Complete(CalMag, "failed", FALSE, "idle")
             \/ pc' = "saveMag" /\ UNCHANGED <<posting, resume>>
    /\ UNCHANGED <<mailboxVars, armed, imu, request>>

saveMag ==
    /\ pc = "saveMag"
    /\ \E result \in {"accepted", "failed"} : Complete(CalMag, result, FALSE, "idle")
    /\ UNCHANGED <<mailboxVars, armed, imu, magActive, request>>

serveServoTest ==
    /\ pc = "serve" /\ request = ServoTest
    /\ \E result \in {"accepted", "rejected"} : Complete(ServoTest, result, FALSE, "idle")
    /\ UNCHANGED <<mailboxVars, armed, imu, magActive, request>>

complete ==
    /\ \/ At("copyHead", "copyReason") /\ copyHead(posting)
       \/ At("copyReason", "mark") /\ copyReason(posting)
       \/ At("mark", resume) /\ markCompletion
    /\ UNCHANGED <<armed, imu, magActive, localVars>>

process ==
    \/ pollResult \/ saveImu
    \/ claim \/ rejectIfArmed
    \/ serveCalImu \/ serveCalMag \/ saveMag \/ serveServoTest
    \/ complete

\* Enough frames were observed between two calls of process().
finishImuCalibration ==
    /\ pc = "idle"
    /\ imu = "Collecting"
    /\ imu' \in {"Complete", "Failed"}
    /\ UNCHANGED <<mailboxVars, armed, magActive, pc, localVars>>

-----------------------------------------------------------------------------
(* The telemetry task                                                       *)

handle ==
    /\ ~armed
    /\ Len(accepted) < MaxRequests
    /\ \E action \in Actions : submit(action)
    /\ UNCHANGED <<armed, imu, magActive, pc, localVars>>

runMavlinkTelemetry ==
    /\ takeCompletion
    /\ UNCHANGED <<armed, imu, magActive, pc, localVars>>

setArmed ==
    /\ armed' = ~armed
    /\ UNCHANGED <<mailboxVars, imu, magActive, pc, localVars>>

Next == process \/ finishImuCalibration \/ handle \/ runMavlinkTelemetry \/ setArmed

Spec == Init /\ [][Next]_vars

\* The sensor task's scheduler keeps calling process().
FairSpec == Spec /\ WF_vars(process)

-----------------------------------------------------------------------------
TypeOK ==
    /\ MailboxTypeOK
    /\ armed \in BOOLEAN
    /\ imu \in {"Idle", "Collecting", "Complete", "Failed"}
    /\ magActive \in BOOLEAN
    /\ pc \in {"idle", "saveImu", "claim", "copy", "clear", "release", "check", "serve",
               "saveMag", "copyHead", "copyReason", "mark"}
    /\ request \in Actions \cup {Empty}
    /\ posting \in Completions \cup {Empty}
    /\ resume \in {"idle", "claim"}

\* The sensor task claims exactly the accepted requests, each one once, whole
\* and in order, and never runs more than one behind.
RequestsInOrder ==
    /\ IsPrefix(claimed, accepted)
    /\ Len(accepted) <= Len(claimed) + 1

Starts == Cardinality({i \in DOMAIN posts : posts[i].action = CalImu /\ posts[i].result = "inProgress"})
Outcomes == Cardinality({i \in DOMAIN posts : posts[i].async})

\* Between two calls of process() a calibration is in progress exactly when
\* one more start than outcomes was posted: each one ends in one outcome.
OneOutcomePerStart ==
    pc = "idle" => Starts = Outcomes + (IF imu = "Idle" THEN 0 ELSE 1)

Answers == Cardinality({i \in DOMAIN posts : ~posts[i].async})

\* In the end every accepted request has been answered by a completion of its own.
RequestsAnswered == <>[](Answers >= Len(accepted))

\* What the round trip of a completion promises: the telemetry task receives
\* the completions that were posted, each one once, whole and in order.
ReportsArePosts ==
    IsPrefix(reports, [i \in DOMAIN posts |-> [head |-> posts[i], reason |-> posts[i]]])

\* What the configurator's documentation promises of a calibration: nothing
\* of it is written to flash while the vehicle is armed.
SavesOnlyDisarmed == pc \in {"saveImu", "saveMag"} => ~armed
=============================================================================
