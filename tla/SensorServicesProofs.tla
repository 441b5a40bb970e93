------------------------ MODULE SensorServicesProofs ------------------------
(***************************************************************************)
(* Proofs about SensorServices: the service commands and their mailbox,    *)
(* the sampling of the IMU, the auxiliary bus and the estimate of the      *)
(* height.  They share no state, so each has an inductive invariant of its *)
(* own, and a step of the whole is a step of one and leaves the others     *)
(* alone.                                                                  *)
(***************************************************************************)
EXTENDS SensorServices, SequenceTheorems, FiniteSetTheorems, TLAPS

-----------------------------------------------------------------------------
(* ServiceCommandProcessor. *)

\* What the sensor task holds at its place in process().
HoldsInv ==
    /\ pc \in {"copyHead", "copyReason", "mark"} => posting \in Completions
    /\ pc \in {"clear", "release", "check", "serve", "saveMag"} => request \in Actions
    /\ pc # "idle" => imu \in {"Idle", "Collecting"}

\* The request slot: who has it, and what was accepted and not yet claimed.
SlotInv ==
    /\ pendingReady = 1 <=> pc \in {"copy", "clear", "release"}
    /\ pendingReady = 2 \/ pc = "copy" => pending \in Actions /\ accepted = Append(claimed, pending)
    /\ pendingReady = 0 \/ pc \in {"clear", "release"} => accepted = claimed

StartPosted == pc = "copyHead" /\ posting.action = CalImu /\ posting.result = "inProgress"
OutcomeDue == pc = "saveImu" \/ (pc = "copyHead" /\ posting.async)

\* Every start that was posted, or is being posted, has an outcome that was posted, is
\* being posted, or is still to come.
CalibrationInv ==
    /\ Starts \in Nat /\ Outcomes \in Nat
    /\ Starts + (IF StartPosted THEN 1 ELSE 0) =
          Outcomes + (IF OutcomeDue THEN 1 ELSE 0) + (IF imu = "Idle" THEN 0 ELSE 1)

CommandsInv == TypeOK /\ HoldsInv /\ SlotInv /\ CalibrationInv

-----------------------------------------------------------------------------
(* SensorManager. *)

\* The two buffers' indices, how long `n` scans hold the processor, and how old a sample
\* may be when they have put its successor off.
Indices == {0, 1}
Delay(n) == n * ScanTime
Span(n) == n * (DmaTimeout + 1 + ScanTime)

\* update() has ended a transfer and not yet begun the next.
Ending == {"framed", "expired", "next", "retry", "falling", "start"}

\* On the fast path a transfer is under way unless a task has just ended one, and the bus
\* is the DMA's unless a task is falling back.  A bus that is not polled though it should
\* be was taken between the fall-back's two stores.
BusInv ==
    /\ dmaFastPath => \A t \in Tasks : place[t] # "polled"
    /\ dmaFastPath /\ ~mpuActive => \E t \in Tasks : place[t] \in Ending
    /\ dmaFastPath /\ ~busDma => \E t \in Tasks : place[t] = "falling"
    /\ busDma /\ (~dmaFastPath \/ \E t \in Tasks : place[t] = "falling") => crossed
    /\ \A t \in Tasks : place[t] = "start" => dmaFastPath

\* The check's update() is done at one time.  What it finds under way while the sensor task
\* is between two transfers has begun at that time, so it does not give it up.
CheckInv ==
    /\ place["telemetry"] \notin {"rest", "polled"} => dmaFastPath
    /\ place["telemetry"] \in {"waiting", "start"} => nowUs["telemetry"] = us
    /\ place["sensor"] \in Ending /\ dmaFastPath /\ mpuActive => mpuStart = us
    /\ place["telemetry"] \in {"expired", "retry", "falling"} => place["sensor"] \notin Ending

\* The sensor task has done this period's update().
Looked == "sensor" \in served /\ place["sensor"] = "rest"

\* A transfer is not under way for longer than its timeout, and the scans since, once the
\* sensor task has looked; what a scan restarted meanwhile is new.
TransferInv ==
    dmaFastPath =>
        /\ mpuActive => Elapsed(mpuStart) <= Delay(scans) + DmaTimeout + 1
        /\ mpuActive /\ Looked => Elapsed(mpuStart) <= Delay(scans) + DmaTimeout
        /\ place["sensor"] \in {"waiting", "start"} => Elapsed(nowUs["sensor"]) <= Delay(scans)
        /\ place["sensor"] = "waiting" /\ mpuActive => nowUs["sensor"] = us \/ mpuStart = us

Valid(i, bound) == buf[i].valid => Elapsed(buf[i].stamp) <= bound

\* On the fast path the clock tells a sample's age, and what is published is as old as
\* the transfer under way and the scans before it.
SamplesInv ==
    dmaFastPath =>
        /\ \A i \in Indices :
              /\ buf[i].valid => age[i] = IF Elapsed(buf[i].stamp) > MaxAge THEN MaxAge
                                          ELSE Elapsed(buf[i].stamp)
              /\ Valid(i, Span(scans) + DmaTimeout + 1)
        /\ mpuActive => Valid(writeIdx, Span(scans) + Elapsed(mpuStart))
        /\ Looked => Valid(writeIdx, Span(scans) + DmaTimeout)
        /\ \A t \in Tasks :
              /\ place[t] \in {"framed", "expired"} => Valid(target[t], Span(scans))
              /\ place[t] \in {"next", "retry", "falling", "start"} => Valid(writeIdx, Span(scans))

ImuInv == SensorTypeOK /\ BusInv /\ CheckInv /\ TransferInv /\ SamplesInv

-----------------------------------------------------------------------------
(* SensorPipeline. *)

\* The fallback's height lies between heights measured, and the refusals counted are
\* refusals of the present run of them.
EstimateInv ==
    /\ PipelineTypeOK
    /\ kalman.initialized <=> fallback.hasAltitude
    /\ fallback.hasAltitude => \E low, high \in measured : fallback.altitudeM \in low .. high
    /\ measured \subseteq Heights
    /\ farUpdates \in Nat /\ farUpdates <= kalman.rejects
    /\ ~kalman.initialized => farUpdates = 0
    /\ EstimateIsUsable

-----------------------------------------------------------------------------
(* ServiceCommandProcessor: one outcome per start, requests in order. *)


\* One more completion is one more start, or outcome, if it is one.
LEMMA PostCounts ==
    ASSUME NEW c \in Completions, posts \in Seq(Completions), posts' = Append(posts, c)
    PROVE  /\ Starts' = Starts + (IF c.action = CalImu /\ c.result = "inProgress" THEN 1 ELSE 0)
           /\ Outcomes' = Outcomes + (IF c.async THEN 1 ELSE 0)
           /\ Starts \in Nat /\ Outcomes \in Nat
  <1> DEFINE n == Len(posts)
  <1> DEFINE started == {i \in DOMAIN posts : posts[i].action = CalImu /\ posts[i].result = "inProgress"}
  <1> DEFINE ended == {i \in DOMAIN posts : posts[i].async}
  <1>1. /\ n \in Nat /\ DOMAIN posts = 1 .. n /\ DOMAIN posts' = 1 .. n + 1
        /\ \A i \in 1 .. n : posts'[i] = posts[i]
        /\ posts'[n + 1] = c
    BY AppendProperties, LenProperties
  <1>2. n + 1 \notin 1 .. n /\ 1 .. n + 1 = (1 .. n) \cup {n + 1}
    BY <1>1
  <1>3. IsFiniteSet(1 .. n)
    BY <1>1, FS_Interval
  <1>4. /\ IsFiniteSet(started) /\ IsFiniteSet(ended)
        /\ Cardinality(started) \in Nat /\ Cardinality(ended) \in Nat
    BY <1>1, <1>3, FS_Subset, FS_CardinalityType
  <1>5. Starts = Cardinality(started) /\ Outcomes = Cardinality(ended)
    BY DEF Starts, Outcomes
  <1>6. Starts' = Starts + (IF c.action = CalImu /\ c.result = "inProgress" THEN 1 ELSE 0)
    <2> DEFINE after == {i \in DOMAIN posts' : posts'[i].action = CalImu /\ posts'[i].result = "inProgress"}
    <2>1. Starts' = Cardinality(after)
      BY DEF Starts
    <2>2. CASE c.action = CalImu /\ c.result = "inProgress"
      <3>1. after = started \cup {n + 1} /\ n + 1 \notin started
        BY <1>1, <1>2, <2>2
      <3>2. Cardinality(after) = Cardinality(started) + 1
        BY <1>4, <3>1, FS_AddElement
      <3> QED
        BY <1>5, <2>1, <2>2, <3>2
    <2>3. CASE ~(c.action = CalImu /\ c.result = "inProgress")
      <3>1. after = started
        BY <1>1, <1>2, <2>3
      <3>2. Cardinality(started) + 0 = Cardinality(started)
        BY <1>4
      <3> HIDE DEF started, after
      <3> QED
        BY <1>5, <2>1, <2>3, <3>1, <3>2
    <2> QED
      BY <2>2, <2>3
  <1>7. Outcomes' = Outcomes + (IF c.async THEN 1 ELSE 0)
    <2> DEFINE after == {i \in DOMAIN posts' : posts'[i].async}
    <2>1. Outcomes' = Cardinality(after)
      BY DEF Outcomes
    <2>2. CASE c.async
      <3>1. after = ended \cup {n + 1} /\ n + 1 \notin ended
        BY <1>1, <1>2, <2>2
      <3>2. Cardinality(after) = Cardinality(ended) + 1
        BY <1>4, <3>1, FS_AddElement
      <3> QED
        BY <1>5, <2>1, <2>2, <3>2
    <2>3. CASE ~c.async
      <3>1. after = ended
        BY <1>1, <1>2, <2>3
      <3>2. Cardinality(ended) + 0 = Cardinality(ended)
        BY <1>4
      <3> HIDE DEF ended, after
      <3> QED
        BY <1>5, <2>1, <2>3, <3>1, <3>2
    <2> QED
      BY <2>2, <2>3
  <1> QED
    BY <1>4, <1>5, <1>6, <1>7

\* The requests accepted are those claimed and at most the one in the slot.
LEMMA SlotOrder ==
    ASSUME TypeOK, SlotInv
    PROVE  RequestsInOrder
  <1>1. accepted \in Seq(Actions) /\ claimed \in Seq(Actions) /\ pendingReady \in {0, 1, 2}
    BY DEF TypeOK, MailboxTypeOK
  <1>2. CASE accepted = claimed
    <2>1. Len(claimed) \in Nat
      BY <1>1, LenProperties
    <2> QED
      BY <1>2, <2>1 DEF RequestsInOrder, IsPrefix
  <1>3. CASE pending \in Actions /\ accepted = Append(claimed, pending)
    <2>1. /\ Len(claimed) \in Nat /\ Len(accepted) = Len(claimed) + 1
          /\ \A i \in 1 .. Len(claimed) : accepted[i] = claimed[i]
      BY <1>1, <1>3, AppendProperties, LenProperties
    <2>2. SubSeq(claimed, 1, Len(claimed)) = SubSeq(accepted, 1, Len(claimed))
      BY <2>1
    <2> QED
      BY <2>1, <2>2 DEF RequestsInOrder, IsPrefix
  <1> QED
    BY <1>1, <1>2, <1>3 DEF SlotInv

\* Between two calls of process() no start is being posted and no outcome is due.
LEMMA CalibrationEven ==
    ASSUME CalibrationInv
    PROVE  OneOutcomePerStart
  <1> SUFFICES ASSUME pc = "idle"
               PROVE  Starts = Outcomes + (IF imu = "Idle" THEN 0 ELSE 1)
    BY DEF OneOutcomePerStart
  <1>1. ~StartPosted /\ ~OutcomeDue
    BY DEF StartPosted, OutcomeDue
  <1> QED
    BY <1>1 DEF CalibrationInv

\* At the start nothing is requested, posted or under way.
LEMMA CommandsStart == Init => CommandsInv
  <1> SUFFICES ASSUME Init PROVE CommandsInv
    OBVIOUS
  <1>1. /\ pendingReady = 0 /\ pending = Empty /\ completionReady = FALSE /\ completion = Blank
        /\ accepted = <<>> /\ claimed = <<>> /\ posts = <<>> /\ reports = <<>>
        /\ armed = FALSE /\ imu = "Idle" /\ magActive = FALSE /\ pc = "idle"
        /\ request = Empty /\ posting = Empty /\ resume = "idle"
    BY DEF Init, MailboxInit
  <1>2. \A S : <<>> \in Seq(S)
    OBVIOUS
  <1>3. Len(<<>>) <= MaxRequests /\ 0 \in 0 .. 2
    BY MaxRequestsAssumption
  <1>4. TypeOK
    BY <1>1, <1>2, <1>3, Zenon DEF TypeOK, MailboxTypeOK, Blank
  <1>5. HoldsInv /\ SlotInv
    BY <1>1 DEF HoldsInv, SlotInv
  <1>6. CalibrationInv
    <2>1. Starts = 0 /\ Outcomes = 0
      <3>1. DOMAIN posts = {}
        BY <1>1
      <3>2. /\ {i \in DOMAIN posts : posts[i].action = CalImu /\ posts[i].result = "inProgress"} = {}
            /\ {i \in DOMAIN posts : posts[i].async} = {}
        BY <3>1
      <3> QED
        BY <3>2, FS_EmptySet DEF Starts, Outcomes
    <2>2. ~StartPosted /\ ~OutcomeDue
      BY <1>1 DEF StartPosted, OutcomeDue
    <2> QED
      BY <1>1, <2>1, <2>2 DEF CalibrationInv
  <1> QED
    BY <1>4, <1>5, <1>6 DEF CommandsInv

\* What keeps the balance of starts and outcomes while nothing is posted: nothing
\* happens, a calibration's end is taken, or one is begun.
LEMMA Balance ==
    ASSUME CalibrationInv, posts' = posts,
           \/ (StartPosted' <=> StartPosted) /\ (OutcomeDue' <=> OutcomeDue)
              /\ (imu' = "Idle" <=> imu = "Idle")
           \/ ~StartPosted /\ ~StartPosted' /\ ~OutcomeDue /\ OutcomeDue' /\ imu # "Idle" /\ imu' = "Idle"
           \/ ~StartPosted /\ StartPosted' /\ ~OutcomeDue /\ ~OutcomeDue' /\ imu = "Idle" /\ imu' # "Idle"
    PROVE  CalibrationInv'
  <1>1. Starts' = Starts /\ Outcomes' = Outcomes
    BY DEF Starts, Outcomes
  <1>2. Starts \in Nat /\ Outcomes \in Nat
    BY DEF CalibrationInv
  <1>3. CASE /\ (StartPosted' <=> StartPosted) /\ (OutcomeDue' <=> OutcomeDue)
             /\ (imu' = "Idle" <=> imu = "Idle")
    BY <1>1, <1>3, Zenon DEF CalibrationInv
  <1>4. CASE ~StartPosted /\ ~StartPosted' /\ ~OutcomeDue /\ OutcomeDue' /\ imu # "Idle" /\ imu' = "Idle"
    BY <1>1, <1>2, <1>4 DEF CalibrationInv
  <1>5. CASE ~StartPosted /\ StartPosted' /\ ~OutcomeDue /\ ~OutcomeDue' /\ imu = "Idle" /\ imu' # "Idle"
    BY <1>1, <1>2, <1>5 DEF CalibrationInv
  <1> QED
    BY <1>3, <1>4, <1>5

\* The steps of process() that leave the mailbox alone: a result is taken, a request is
\* served, a completion is made up.
ServeSteps ==
    pollResult \/ saveImu \/ rejectIfArmed \/ serveCalImu \/ serveCalMag \/ saveMag \/ serveServoTest

\* Such a step keeps the invariant.
LEMMA ServeStep ==
    ASSUME CommandsInv, ServeSteps
    PROVE  TypeOK' /\ HoldsInv' /\ SlotInv' /\ CalibrationInv'
  <1>1. TypeOK /\ HoldsInv /\ SlotInv /\ CalibrationInv
    BY DEF CommandsInv
  <1>2. /\ mailboxVars' = mailboxVars /\ armed' = armed /\ request' = request
        /\ pc \in {"idle", "saveImu", "check", "serve", "saveMag"}
        /\ pc' \in {"saveImu", "claim", "serve", "saveMag", "copyHead"}
    BY DEF ServeSteps, pollResult, saveImu, rejectIfArmed, serveCalImu, serveCalMag, saveMag,
           serveServoTest, Complete
  <1>3. posts' = posts
    BY <1>2 DEF mailboxVars, completionVars
  <1>4. /\ imu' \in {"Idle", "Collecting"} /\ magActive' \in BOOLEAN
        /\ pc' \in {"serve", "saveMag"} => pc \in {"check", "serve"}
        /\ \/ pc' # "copyHead" /\ posting' = posting /\ resume' = resume
           \/ pc' = "copyHead" /\ posting' \in Completions /\ resume' \in {"idle", "claim"}
    <2>1. CASE pollResult
      <3>1. \A r \in Results : [action |-> CalImu, result |-> r, async |-> TRUE] \in Completions
        BY ActionsAssumption DEF Completions
      <3>2. "failed" \in Results
        BY DEF Results
      <3> QED
        BY <1>1, <2>1, <3>1, <3>2 DEF pollResult, Complete, TypeOK
    <2>2. CASE saveImu
      <3>1. \A r \in Results : [action |-> CalImu, result |-> r, async |-> TRUE] \in Completions
        BY ActionsAssumption DEF Completions
      <3>2. {"accepted", "failed"} \subseteq Results
        BY DEF Results
      <3> QED
        BY <1>1, <2>2, <3>1, <3>2 DEF saveImu, Complete, TypeOK, HoldsInv
    <2>3. CASE rejectIfArmed \/ serveCalImu \/ serveCalMag \/ saveMag \/ serveServoTest
      <3>1. \A a \in Actions, r \in Results : [action |-> a, result |-> r, async |-> FALSE] \in Completions
        BY DEF Completions
      <3>2. {"accepted", "inProgress", "failed", "denied", "rejected"} \subseteq Results
        BY DEF Results
      <3>3. CalImu \in Actions /\ CalMag \in Actions /\ ServoTest \in Actions
        BY ActionsAssumption
      <3>4. CASE rejectIfArmed
        <4>1. request \in Actions
          BY <1>1, <3>4 DEF rejectIfArmed, HoldsInv
        <4> QED
          BY <1>1, <3>1, <3>2, <3>4, <4>1 DEF rejectIfArmed, Complete, TypeOK, HoldsInv
      <3>5. CASE serveCalImu
        BY <1>1, <3>1, <3>2, <3>3, <3>5 DEF serveCalImu, Complete, TypeOK, HoldsInv
      <3>6. CASE serveCalMag
        BY <1>1, <3>1, <3>2, <3>3, <3>6 DEF serveCalMag, Complete, TypeOK, HoldsInv
      <3>7. CASE saveMag
        BY <1>1, <3>1, <3>2, <3>3, <3>7 DEF saveMag, Complete, TypeOK, HoldsInv
      <3>8. CASE serveServoTest
        BY <1>1, <3>1, <3>2, <3>3, <3>8 DEF serveServoTest, Complete, TypeOK, HoldsInv
      <3> QED
        BY <2>3, <3>4, <3>5, <3>6, <3>7, <3>8
    <2> QED
      BY <2>1, <2>2, <2>3 DEF ServeSteps
  <1>5. TypeOK'
    <2>1. MailboxTypeOK'
      BY <1>1, <1>2 DEF TypeOK, MailboxTypeOK, mailboxVars, requestVars, completionVars
    <2> QED
      BY <1>1, <1>2, <1>4, <2>1 DEF TypeOK
  <1>6. HoldsInv'
    BY <1>1, <1>2, <1>4 DEF HoldsInv
  <1>7. SlotInv'
    <2>1. /\ pendingReady' = pendingReady /\ pending' = pending /\ accepted' = accepted
          /\ claimed' = claimed
      BY <1>2 DEF mailboxVars, requestVars
    <2>2. /\ ~(pc \in {"copy", "clear", "release"}) /\ ~(pc' \in {"copy", "clear", "release"})
          /\ pc # "copy" /\ pc' # "copy" /\ ~(pc \in {"clear", "release"}) /\ ~(pc' \in {"clear", "release"})
      BY <1>2
    <2> QED
      BY <1>1, <2>1, <2>2 DEF SlotInv
  <1>8. CalibrationInv'
    <2>1. CASE pollResult
      <3>1. pc = "idle" /\ ~StartPosted /\ ~OutcomeDue
        BY <2>1 DEF pollResult, StartPosted, OutcomeDue
      <3>2. CASE imu = "Complete"
        <4>1. pc' = "saveImu" /\ imu' = "Idle"
          BY <2>1, <3>2 DEF pollResult
        <4> QED
          BY <1>1, <1>3, <3>1, <3>2, <4>1, Balance DEF StartPosted, OutcomeDue
      <3>3. CASE imu = "Failed"
        <4>1. /\ pc' = "copyHead" /\ imu' = "Idle"
              /\ posting' = [action |-> CalImu, result |-> "failed", async |-> TRUE]
          BY <2>1, <3>3 DEF pollResult, Complete
        <4>2. posting'.result # "inProgress" /\ posting'.async
          BY <4>1
        <4> QED
          BY <1>1, <1>3, <3>1, <3>3, <4>1, <4>2, Balance DEF StartPosted, OutcomeDue
      <3>4. CASE imu # "Complete" /\ imu # "Failed"
        <4>1. pc' = "claim" /\ imu' = imu
          BY <2>1, <3>4 DEF pollResult
        <4> QED
          BY <1>1, <1>3, <3>1, <4>1, Balance DEF StartPosted, OutcomeDue
      <3> QED
        BY <3>2, <3>3, <3>4
    <2>2. CASE saveImu
      <3>1. PICK result \in {"accepted", "failed"} :
              posting' = [action |-> CalImu, result |-> result, async |-> TRUE]
        BY <2>2 DEF saveImu, Complete
      <3>2. pc = "saveImu" /\ pc' = "copyHead" /\ imu' = imu
        BY <2>2 DEF saveImu, Complete
      <3>3. posting'.result # "inProgress" /\ posting'.async
        BY <3>1
      <3> QED
        BY <1>1, <1>3, <3>2, <3>3, Balance DEF StartPosted, OutcomeDue
    <2>3. CASE serveCalImu /\ imu # "Collecting" /\ imu' = "Collecting"
               /\ Complete(CalImu, "inProgress", FALSE, "idle")
      <3>1. pc = "serve" /\ imu = "Idle" /\ ~StartPosted /\ ~OutcomeDue
        BY <1>1, <2>3 DEF serveCalImu, StartPosted, OutcomeDue, HoldsInv
      <3>2. pc' = "copyHead" /\ posting' = [action |-> CalImu, result |-> "inProgress", async |-> FALSE]
        BY <2>3 DEF Complete
      <3>3. posting'.action = CalImu /\ posting'.result = "inProgress" /\ ~posting'.async
        BY <3>2
      <3> QED
        BY <1>1, <1>3, <2>3, <3>1, <3>2, <3>3, Balance DEF StartPosted, OutcomeDue
    <2>4. ASSUME imu' = imu, pc \in {"check", "serve", "saveMag"}, pc' # "saveImu",
                 pc' = "copyHead" => posting'.action # CalImu \/ posting'.result # "inProgress",
                 pc' = "copyHead" => ~posting'.async
          PROVE  CalibrationInv'
      <3>1. ~StartPosted /\ ~OutcomeDue /\ ~StartPosted' /\ ~OutcomeDue'
        BY <2>4 DEF StartPosted, OutcomeDue
      <3> QED
        BY <1>1, <1>3, <2>4, <3>1, Balance
    <2>5. CASE rejectIfArmed
      <3>1. /\ imu' = imu /\ pc = "check" /\ pc' \in {"copyHead", "serve"}
            /\ pc' = "copyHead" => posting' = [action |-> request, result |-> "rejected", async |-> FALSE]
        BY <2>5 DEF rejectIfArmed, Complete
      <3> QED
        BY <2>4, <3>1
    <2>6. CASE serveCalImu /\ imu' = imu /\ Complete(CalImu, "rejected", FALSE, "idle")
      <3>1. /\ imu' = imu /\ pc = "serve" /\ pc' = "copyHead"
            /\ posting' = [action |-> CalImu, result |-> "rejected", async |-> FALSE]
        BY <2>6 DEF serveCalImu, Complete
      <3> QED
        BY <2>4, <3>1
    <2>7. CASE serveCalMag
      <3>1. /\ imu' = imu /\ pc = "serve" /\ pc' \in {"copyHead", "saveMag"}
            /\ pc' = "copyHead" => \E r \in {"denied", "inProgress", "failed"} :
                  posting' = [action |-> CalMag, result |-> r, async |-> FALSE]
        BY <2>7 DEF serveCalMag, Complete
      <3>2. CalMag # CalImu
        BY ActionsAssumption
      <3>3. pc' = "copyHead" => posting'.action # CalImu /\ ~posting'.async
        BY <3>1, <3>2
      <3> QED
        BY <2>4, <3>1, <3>3
    <2>8. CASE saveMag
      <3>1. /\ imu' = imu /\ pc = "saveMag" /\ pc' = "copyHead"
            /\ \E r \in {"accepted", "failed"} :
                  posting' = [action |-> CalMag, result |-> r, async |-> FALSE]
        BY <2>8 DEF saveMag, Complete
      <3>2. posting'.result # "inProgress" /\ ~posting'.async
        BY <3>1
      <3> QED
        BY <2>4, <3>1, <3>2
    <2>9. CASE serveServoTest
      <3>1. /\ imu' = imu /\ pc = "serve" /\ pc' = "copyHead"
            /\ \E r \in {"accepted", "rejected"} :
                  posting' = [action |-> ServoTest, result |-> r, async |-> FALSE]
        BY <2>9 DEF serveServoTest, Complete
      <3>2. posting'.result # "inProgress" /\ ~posting'.async
        BY <3>1
      <3> QED
        BY <2>4, <3>1, <3>2
    <2>10. serveCalImu => \/ imu' = imu /\ Complete(CalImu, "rejected", FALSE, "idle")
                          \/ imu # "Collecting" /\ imu' = "Collecting"
                             /\ Complete(CalImu, "inProgress", FALSE, "idle")
      BY DEF serveCalImu
    <2> QED
      BY <2>1, <2>2, <2>3, <2>5, <2>6, <2>7, <2>8, <2>9, <2>10 DEF ServeSteps
  <1> QED
    BY <1>5, <1>6, <1>7, <1>8

\* A step of claim() hands the slot's request on, or finds none.
LEMMA ClaimStep ==
    ASSUME CommandsInv, claim
    PROVE  TypeOK' /\ HoldsInv' /\ SlotInv' /\ CalibrationInv'
  <1>1. TypeOK /\ HoldsInv /\ SlotInv /\ CalibrationInv
    BY DEF CommandsInv
  <1>2. /\ completionVars' = completionVars /\ armed' = armed /\ imu' = imu /\ magActive' = magActive
        /\ posting' = posting /\ resume' = resume /\ accepted' = accepted
        /\ pc \in {"claim", "copy", "clear", "release"}
        /\ pc' \in {"copy", "idle", "clear", "release", "check"}
        /\ pc' = "idle" <=> pc = "claim" /\ pendingReady # 2
    BY DEF claim, At, claimSlot, copyRequest, clearRequest, releaseSlot, mailboxVars, requestVars, localVars
  <1>3. CalibrationInv'
    <2>1. posts' = posts
      BY <1>2 DEF completionVars
    <2>2. ~StartPosted /\ ~OutcomeDue /\ ~StartPosted' /\ ~OutcomeDue'
      BY <1>2 DEF StartPosted, OutcomeDue
    <2> QED
      BY <1>1, <1>2, <2>1, <2>2, Balance
  <1>4. ASSUME MailboxTypeOK', request' \in Actions \cup {Empty},
               pc' \in {"clear", "release", "check"} => request' \in Actions, SlotInv'
        PROVE  TypeOK' /\ HoldsInv' /\ SlotInv' /\ CalibrationInv'
    <2>1. TypeOK'
      BY <1>1, <1>2, <1>4 DEF TypeOK
    <2>2. HoldsInv'
      BY <1>1, <1>2, <1>4 DEF HoldsInv
    <2> QED
      BY <1>3, <1>4, <2>1, <2>2
  <1>5. /\ accepted \in Seq(Actions) /\ claimed \in Seq(Actions) /\ pending \in Actions \cup {Empty}
        /\ request \in Actions \cup {Empty}
    BY <1>1 DEF TypeOK, MailboxTypeOK
  <1>6. ASSUME pendingReady' \in 0 .. 2, pending' \in Actions \cup {Empty}, claimed' \in Seq(Actions)
        PROVE  MailboxTypeOK'
    BY <1>1, <1>2, <1>6 DEF TypeOK, MailboxTypeOK, completionVars
  <1>7. CASE pc = "claim" /\ pendingReady = 2
    <2>1. /\ pc' = "copy" /\ pendingReady' = 1 /\ pending' = pending /\ claimed' = claimed
          /\ request' = request
      BY <1>7 DEF claim, At, claimSlot, localVars
    <2>2. MailboxTypeOK'
      BY <1>5, <1>6, <2>1
    <2>3. SlotInv'
      BY <1>1, <1>2, <1>7, <2>1 DEF SlotInv
    <2> QED
      BY <1>4, <1>5, <2>1, <2>2, <2>3
  <1>8. CASE pc = "claim" /\ pendingReady # 2
    <2>1. /\ pc' = "idle" /\ pendingReady' = pendingReady /\ pending' = pending /\ claimed' = claimed
          /\ request' = request
      BY <1>8 DEF claim, At, claimSlot, localVars, mailboxVars, requestVars
    <2>2. MailboxTypeOK'
      <3>1. pendingReady \in 0 .. 2
        BY <1>1 DEF TypeOK, MailboxTypeOK
      <3> QED
        BY <1>5, <1>6, <2>1, <3>1
    <2>3. SlotInv'
      BY <1>1, <1>2, <1>8, <2>1 DEF SlotInv
    <2> QED
      BY <1>4, <1>5, <2>1, <2>2, <2>3
  <1>9. CASE pc = "copy"
    <2>1. /\ pc' = "clear" /\ pendingReady' = pendingReady /\ pending' = pending
          /\ claimed' = Append(claimed, pending) /\ request' = pending
      BY <1>9 DEF claim, At, copyRequest
    <2>2. pendingReady = 1 /\ pending \in Actions /\ accepted = Append(claimed, pending)
      BY <1>1, <1>9 DEF SlotInv
    <2>3. MailboxTypeOK'
      <3>1. Append(claimed, pending) \in Seq(Actions)
        BY <1>5, <2>2, AppendProperties
      <3>2. 1 \in 0 .. 2
        OBVIOUS
      <3> QED
        BY <1>5, <1>6, <2>1, <2>2, <3>1, <3>2
    <2>4. SlotInv'
      BY <1>2, <2>1, <2>2 DEF SlotInv
    <2> QED
      BY <1>4, <2>1, <2>2, <2>3, <2>4
  <1>10. CASE pc = "clear"
    <2>1. /\ pc' = "release" /\ pendingReady' = pendingReady /\ pending' = Empty
          /\ claimed' = claimed /\ request' = request
      BY <1>10 DEF claim, At, clearRequest, localVars
    <2>2. pendingReady = 1 /\ accepted = claimed
      BY <1>1, <1>10 DEF SlotInv
    <2>3. MailboxTypeOK'
      <3>1. 1 \in 0 .. 2
        OBVIOUS
      <3> QED
        BY <1>5, <1>6, <2>1, <2>2, <3>1
    <2>4. SlotInv'
      BY <1>2, <2>1, <2>2 DEF SlotInv
    <2>5. request \in Actions
      BY <1>1, <1>10 DEF HoldsInv
    <2> QED
      BY <1>4, <1>5, <2>1, <2>3, <2>4, <2>5
  <1>11. CASE pc = "release"
    <2>1. /\ pc' = "check" /\ pendingReady' = 0 /\ pending' = pending
          /\ claimed' = claimed /\ request' = request
      BY <1>11 DEF claim, At, releaseSlot, localVars
    <2>2. accepted = claimed
      BY <1>1, <1>11 DEF SlotInv
    <2>3. request \in Actions
      BY <1>1, <1>11 DEF HoldsInv
    <2>4. MailboxTypeOK'
      <3>1. 0 \in 0 .. 2
        OBVIOUS
      <3> QED
        BY <1>5, <1>6, <2>1, <3>1
    <2>5. SlotInv'
      BY <1>2, <2>1, <2>2 DEF SlotInv
    <2> QED
      BY <1>4, <1>5, <2>1, <2>3, <2>4, <2>5
  <1> QED
    BY <1>2, <1>7, <1>8, <1>9, <1>10, <1>11

\* A step of complete() posts what was made up, or passes it to the telemetry task.
LEMMA CompleteStep ==
    ASSUME CommandsInv, complete
    PROVE  TypeOK' /\ HoldsInv' /\ SlotInv' /\ CalibrationInv'
  <1>1. TypeOK /\ HoldsInv /\ SlotInv /\ CalibrationInv
    BY DEF CommandsInv
  <1>2. /\ requestVars' = requestVars /\ armed' = armed /\ imu' = imu /\ magActive' = magActive
        /\ request' = request /\ posting' = posting /\ resume' = resume /\ reports' = reports
        /\ pc \in {"copyHead", "copyReason", "mark"}
        /\ pc' \in {"copyReason", "mark", resume}
        /\ posting \in Completions /\ resume \in {"idle", "claim"}
    BY <1>1 DEF complete, At, copyHead, copyReason, markCompletion, localVars, HoldsInv, TypeOK
  <1>3. SlotInv'
    BY <1>1, <1>2 DEF SlotInv, requestVars
  <1>4. HoldsInv'
    BY <1>1, <1>2 DEF HoldsInv
  <1>5. completion.head \in Completions \cup {Empty} /\ completion.reason \in Completions \cup {Empty}
        /\ completion = [head |-> completion.head, reason |-> completion.reason]
    BY <1>1 DEF TypeOK, MailboxTypeOK
  <1>6. ASSUME posts' \in Seq(Completions), completionReady' \in BOOLEAN,
               completion' \in [head : Completions \cup {Empty}, reason : Completions \cup {Empty}]
        PROVE  TypeOK'
    BY <1>1, <1>2, <1>6 DEF TypeOK, MailboxTypeOK, requestVars
  <1>7. CASE pc = "copyHead"
    <2>1. /\ pc' = "copyReason" /\ posts' = Append(posts, posting) /\ completionReady' = completionReady
          /\ completion' = [completion EXCEPT !.head = posting]
      BY <1>2, <1>7 DEF complete, At, copyHead
    <2>2. posts \in Seq(Completions) /\ completionReady \in BOOLEAN
      BY <1>1 DEF TypeOK, MailboxTypeOK
    <2>3. TypeOK'
      <3>1. posts' \in Seq(Completions)
        BY <1>2, <2>1, <2>2, AppendProperties
      <3>2. completion' \in [head : Completions \cup {Empty}, reason : Completions \cup {Empty}]
        BY <1>2, <1>5, <2>1
      <3> QED
        BY <1>6, <2>1, <2>2, <3>1, <3>2
    <2>4. CalibrationInv'
      <3>1. /\ Starts' = Starts + (IF posting.action = CalImu /\ posting.result = "inProgress" THEN 1 ELSE 0)
            /\ Outcomes' = Outcomes + (IF posting.async THEN 1 ELSE 0)
            /\ Starts \in Nat /\ Outcomes \in Nat
        BY <1>2, <2>1, <2>2, PostCounts
      <3>2. /\ StartPosted <=> posting.action = CalImu /\ posting.result = "inProgress"
            /\ OutcomeDue <=> posting.async
            /\ ~StartPosted' /\ ~OutcomeDue'
        BY <1>7, <2>1 DEF StartPosted, OutcomeDue
      <3>3. Starts' = Starts + (IF StartPosted THEN 1 ELSE 0)
        BY <3>1, <3>2
      <3>4. Outcomes' = Outcomes + (IF OutcomeDue THEN 1 ELSE 0)
        BY <3>1, <3>2
      <3>5. Starts' \in Nat /\ Outcomes' \in Nat
        BY <3>1
      <3>6. Starts' = Outcomes' + (IF imu = "Idle" THEN 0 ELSE 1)
        BY <1>1, <3>3, <3>4 DEF CalibrationInv
      <3>7. Starts' + 0 = Outcomes' + 0 + (IF imu = "Idle" THEN 0 ELSE 1)
        BY <3>5, <3>6
      <3> QED
        BY <1>2, <3>2, <3>5, <3>7, Zenon DEF CalibrationInv
    <2> QED
      BY <1>3, <1>4, <2>3, <2>4
  <1>8. CASE pc \in {"copyReason", "mark"}
    <2>1. /\ posts' = posts /\ pc' \in {"mark", "idle", "claim"}
          /\ \/ completionReady' = completionReady /\ completion' = [completion EXCEPT !.reason = posting]
             \/ completionReady' = TRUE /\ completion' = completion
      BY <1>2, <1>8 DEF complete, At, copyReason, markCompletion
    <2>2. posts \in Seq(Completions) /\ completionReady \in BOOLEAN
      BY <1>1 DEF TypeOK, MailboxTypeOK
    <2>3. completion' \in [head : Completions \cup {Empty}, reason : Completions \cup {Empty}]
      BY <1>2, <1>5, <2>1
    <2>4. TypeOK'
      BY <1>6, <2>1, <2>2, <2>3
    <2>5. CalibrationInv'
      <3>1. ~StartPosted /\ ~OutcomeDue /\ ~StartPosted' /\ ~OutcomeDue'
        BY <1>8, <2>1 DEF StartPosted, OutcomeDue
      <3> QED
        BY <1>1, <1>2, <2>1, <3>1, Balance
    <2> QED
      BY <1>3, <1>4, <2>4, <2>5
  <1> QED
    BY <1>2, <1>7, <1>8

\* The telemetry task submits and receives, the vehicle is armed and disarmed, and a
\* calibration comes to its end, between any two steps of the sensor task.
LEMMA OutsideStep ==
    ASSUME CommandsInv, handle \/ runMavlinkTelemetry \/ setArmed \/ finishImuCalibration
    PROVE  TypeOK' /\ HoldsInv' /\ SlotInv' /\ CalibrationInv'
  <1>1. TypeOK /\ HoldsInv /\ SlotInv /\ CalibrationInv
    BY DEF CommandsInv
  <1>2. /\ magActive' = magActive /\ pc' = pc /\ request' = request /\ posting' = posting
        /\ resume' = resume /\ posts' = posts
        /\ \/ imu' = imu
           \/ imu = "Collecting" /\ imu' \in {"Complete", "Failed"} /\ pc = "idle"
    BY DEF handle, submit, runMavlinkTelemetry, takeCompletion, setArmed, finishImuCalibration,
           localVars, mailboxVars, requestVars, completionVars
  <1>3. HoldsInv'
    BY <1>1, <1>2 DEF HoldsInv
  <1>4. CalibrationInv'
    <2>1. (StartPosted' <=> StartPosted) /\ (OutcomeDue' <=> OutcomeDue) /\ (imu' = "Idle" <=> imu = "Idle")
      BY <1>2 DEF StartPosted, OutcomeDue
    <2> QED
      BY <1>1, <1>2, <2>1, Balance
  <1>5. imu' \in {"Idle", "Collecting", "Complete", "Failed"}
    BY <1>1, <1>2 DEF TypeOK
  <1>6. CASE handle
    <2>1. PICK action \in Actions : submit(action)
      BY <1>6 DEF handle
    <2>2. /\ pendingReady = 0 /\ pending' = action /\ pendingReady' = 2
          /\ accepted' = Append(accepted, action) /\ claimed' = claimed
          /\ completionVars' = completionVars /\ armed' = armed /\ Len(accepted) < MaxRequests
      BY <1>6, <2>1 DEF handle, submit
    <2>3. accepted \in Seq(Actions)
      BY <1>1 DEF TypeOK, MailboxTypeOK
    <2>4. accepted' \in Seq(Actions) /\ Len(accepted') <= MaxRequests
      BY <2>2, <2>3, AppendProperties, LenProperties, MaxRequestsAssumption
    <2>5. TypeOK'
      BY <1>1, <1>2, <1>5, <2>2, <2>4 DEF TypeOK, MailboxTypeOK, completionVars
    <2>6. SlotInv'
      BY <1>1, <1>2, <2>2 DEF SlotInv
    <2> QED
      BY <1>3, <1>4, <2>5, <2>6
  <1>7. CASE runMavlinkTelemetry
    <2>1. /\ requestVars' = requestVars /\ armed' = armed /\ completionReady' = FALSE
          /\ reports' = Append(reports, completion) /\ completion' = Blank
      BY <1>7 DEF runMavlinkTelemetry, takeCompletion
    <2>2. reports' \in Seq([head : Completions \cup {Empty}, reason : Completions \cup {Empty}])
      BY <1>1, <2>1, AppendProperties DEF TypeOK, MailboxTypeOK
    <2>3. Blank \in [head : Completions \cup {Empty}, reason : Completions \cup {Empty}]
      BY DEF Blank
    <2>4. TypeOK'
      <3>1. MailboxTypeOK'
        <4>1. /\ completion' \in [head : Completions \cup {Empty}, reason : Completions \cup {Empty}]
              /\ completionReady' \in BOOLEAN
          BY <2>1, <2>3
        <4>2. /\ pendingReady' = pendingReady /\ pending' = pending /\ accepted' = accepted
              /\ claimed' = claimed /\ posts' = posts
          BY <1>2, <2>1 DEF requestVars
        <4>3. /\ pendingReady \in 0 .. 2 /\ pending \in Actions \cup {Empty}
              /\ accepted \in Seq(Actions) /\ Len(accepted) <= MaxRequests
              /\ claimed \in Seq(Actions) /\ posts \in Seq(Completions)
          BY <1>1 DEF TypeOK, MailboxTypeOK
        <4> QED
          BY <2>2, <4>1, <4>2, <4>3 DEF MailboxTypeOK
      <3> QED
        BY <1>1, <1>2, <1>5, <2>1, <3>1 DEF TypeOK
    <2>5. SlotInv'
      BY <1>1, <1>2, <2>1 DEF SlotInv, requestVars
    <2> QED
      BY <1>3, <1>4, <2>4, <2>5
  <1>8. CASE setArmed \/ finishImuCalibration
    <2>1. mailboxVars' = mailboxVars /\ armed' \in BOOLEAN
      BY <1>1, <1>8 DEF setArmed, finishImuCalibration, TypeOK
    <2>2. TypeOK'
      BY <1>1, <1>2, <1>5, <2>1 DEF TypeOK, MailboxTypeOK, mailboxVars, requestVars, completionVars
    <2>3. SlotInv'
      BY <1>1, <1>2, <2>1 DEF SlotInv, mailboxVars, requestVars
    <2> QED
      BY <1>3, <1>4, <2>2, <2>3
  <1> QED
    BY <1>6, <1>7, <1>8

\* Every step keeps the commands' invariant.
LEMMA CommandsStep == ASSUME CommandsInv, [Next]_vars PROVE CommandsInv'
  <1>1. CASE Next
    BY <1>1, ServeStep, ClaimStep, CompleteStep, OutsideStep
       DEF Next, process, ServeSteps, CommandsInv
  <1>2. CASE UNCHANGED vars
    BY <1>2 DEF CommandsInv, vars, mailboxVars, requestVars, completionVars, localVars, TypeOK,
                MailboxTypeOK, HoldsInv, SlotInv, CalibrationInv, StartPosted, OutcomeDue, Starts, Outcomes
  <1> QED
    BY <1>1, <1>2

-----------------------------------------------------------------------------
(* SensorManager: a read is always under way, and a sample is as young as it seems. *)

\* What is assumed of the IMU's times.
LEMMA ImuNumbers ==
    /\ MicrosSize \in Nat \ {0} /\ DmaTimeout \in Nat /\ StaleTimeout \in Nat /\ RetryMax \in Nat
    /\ CalSamples \in Nat /\ CalSamples >= 1 /\ ScanTime \in Nat /\ MaxScans \in Nat
    /\ MaxAge \in Nat /\ MaxAge = StaleTimeout + 1
  BY MicrosAssumption, TimeoutAssumption, ScanAssumption DEF MaxAge

\* One more scan adds its own time and that of the transfer it aborted; with all of them
\* the clock does not come round.
LEMMA Spans ==
    /\ \A n \in 0 .. MaxScans : Span(n) \in Nat /\ Span(n) + DmaTimeout + 1 < MicrosSize
    /\ \A n \in Nat : Span(n + 1) = Span(n) + DmaTimeout + 1 + ScanTime
    /\ \A n \in Nat : Delay(n) \in Nat /\ Delay(n) <= Span(n) /\ Delay(n + 1) = Delay(n) + ScanTime
  <1> DEFINE k == DmaTimeout + 1 + ScanTime
  <1>1. k \in Nat /\ MaxScans \in Nat /\ DmaTimeout \in Nat /\ MicrosSize \in Nat
        /\ MaxScans * k + DmaTimeout + 1 < MicrosSize
    BY ImuNumbers, ScanAssumption
  <1>2. \A n : Span(n) = n * k
    BY DEF Span
  <1>3. k = DmaTimeout + 1 + ScanTime
    OBVIOUS
  <1> HIDE DEF k
  <1>4. ASSUME NEW n \in 0 .. MaxScans
        PROVE  Span(n) \in Nat /\ Span(n) + DmaTimeout + 1 < MicrosSize
    <2>1. n * k \in Nat /\ n * k <= MaxScans * k /\ MaxScans * k \in Nat
      BY <1>1
    <2> QED
      BY <1>1, <1>2, <2>1
  <1>5. ASSUME NEW n \in Nat PROVE Span(n + 1) = Span(n) + DmaTimeout + 1 + ScanTime
    <2>1. (n + 1) * k = n * k + k /\ n * k \in Nat
      BY <1>1
    <2> QED
      BY <1>2, <1>3, <2>1, ImuNumbers
  <1>6. ASSUME NEW n \in Nat PROVE Delay(n) \in Nat /\ Delay(n) <= Span(n) /\ Delay(n + 1) = Delay(n) + ScanTime
    <2>1. ScanTime \in Nat /\ DmaTimeout + 1 \in Nat /\ k = (DmaTimeout + 1) + ScanTime
      BY <1>3, ImuNumbers
    <2>2. n * ScanTime \in Nat /\ (n + 1) * ScanTime = n * ScanTime + ScanTime
      BY <2>1
    <2>3. n * k = n * (DmaTimeout + 1) + n * ScanTime /\ n * (DmaTimeout + 1) \in Nat
      BY <2>1
    <2> QED
      BY <1>2, <2>2, <2>3 DEF Delay
  <1> QED
    BY <1>4, <1>5, <1>6

\* How much later than `t` the clock's value `now` is.
Gone(size, now, t) == (now + size - t) % size

\* As long as it is shorter than a turn of the clock, a time grows by what passes.
LEMMA TurnsBy ==
    ASSUME NEW size \in Nat \ {0}, NEW now \in 0 .. size - 1, NEW d \in Nat
    PROVE  /\ (now + d) % size \in 0 .. size - 1
           /\ \A t \in 0 .. size - 1 :
                 /\ Gone(size, now, t) \in 0 .. size - 1
                 /\ Gone(size, now, now) = 0
                 /\ Gone(size, now, t) + d < size =>
                       Gone(size, (now + d) % size, t) = Gone(size, now, t) + d
  <1> DEFINE at(x) == x % size
  <1>1. /\ \A x \in 0 .. size - 1 : at(x) = x
        /\ \A x \in size .. 2 * size - 1 : at(x) = x - size
        /\ \A x \in Nat : at(x) \in 0 .. size - 1
    OBVIOUS
  <1>2. \A n, t \in 0 .. size - 1 : Gone(size, n, t) = at(n + size - t)
    BY DEF Gone
  <1>3. now + d \in Nat /\ (now + d) % size = at(now + d)
    OBVIOUS
  <1> HIDE DEF at
  <1>4. \A n, t \in 0 .. size - 1 : Gone(size, n, t) = IF t <= n THEN n - t ELSE n + size - t
    <2> SUFFICES ASSUME NEW n \in 0 .. size - 1, NEW t \in 0 .. size - 1
                 PROVE  Gone(size, n, t) = IF t <= n THEN n - t ELSE n + size - t
      OBVIOUS
    <2>1. Gone(size, n, t) = at(n + size - t)
      BY <1>2
    <2>2. CASE t <= n
      <3>1. n + size - t \in size .. 2 * size - 1
        BY <2>2
      <3> QED
        BY <1>1, <2>1, <2>2, <3>1
    <2>3. CASE ~(t <= n)
      <3>1. n + size - t \in 0 .. size - 1
        BY <2>3
      <3> QED
        BY <1>1, <2>1, <2>3, <3>1
    <2> QED
      BY <2>2, <2>3
  <1>5. at(now + d) \in 0 .. size - 1
    BY <1>1, <1>3
  <1>6. ASSUME NEW t \in 0 .. size - 1
        PROVE  /\ Gone(size, now, t) \in 0 .. size - 1 /\ Gone(size, now, now) = 0
               /\ Gone(size, now, t) + d < size => Gone(size, at(now + d), t) = Gone(size, now, t) + d
    <2>1. /\ Gone(size, now, t) = IF t <= now THEN now - t ELSE now + size - t
          /\ Gone(size, now, now) = IF now <= now THEN now - now ELSE now + size - now
          /\ Gone(size, at(now + d), t) = IF t <= at(now + d) THEN at(now + d) - t
                                          ELSE at(now + d) + size - t
      BY <1>4, <1>5
    <2>2. Gone(size, now, t) \in 0 .. size - 1 /\ Gone(size, now, now) = 0
      BY <2>1
    <2>3. ASSUME Gone(size, now, t) + d < size
          PROVE  Gone(size, at(now + d), t) = Gone(size, now, t) + d
      <3>1. CASE now + d < size
        <4>1. at(now + d) = now + d
          BY <1>1, <3>1
        <4> QED
          BY <2>1, <2>3, <3>1, <4>1
      <3>2. CASE ~(now + d < size)
        <4>1. now + d \in size .. 2 * size - 1
          BY <2>2, <2>3, <3>2
        <4>2. at(now + d) = now + d - size
          BY <1>1, <4>1
        <4> QED
          BY <2>1, <2>3, <3>2, <4>1, <4>2
      <3> QED
        BY <3>1, <3>2
    <2> QED
      BY <2>2, <2>3
  <1> QED
    BY <1>3, <1>5, <1>6

\* The same of the sensor task's clock.
LEMMA ImuClock ==
    ASSUME us \in 0 .. MicrosSize - 1, NEW d \in Nat
    PROVE  /\ (us + d) % MicrosSize \in 0 .. MicrosSize - 1
           /\ Elapsed(us) = 0 /\ us \in 0 .. MicrosSize - 1 /\ 0 \in 0 .. MicrosSize - 1
           /\ \A t \in 0 .. MicrosSize - 1 :
                 /\ Elapsed(t) \in Nat
                 /\ us' = (us + d) % MicrosSize /\ Elapsed(t) + d < MicrosSize =>
                       Gone(MicrosSize, us', t) = Elapsed(t) + d
  <1>1. MicrosSize \in Nat \ {0} /\ us \in 0 .. MicrosSize - 1 /\ d \in Nat
    BY ImuNumbers
  <1>2. /\ (us + d) % MicrosSize \in 0 .. MicrosSize - 1
        /\ \A t \in 0 .. MicrosSize - 1 :
              /\ Gone(MicrosSize, us, t) \in 0 .. MicrosSize - 1
              /\ Gone(MicrosSize, us, us) = 0
              /\ Gone(MicrosSize, us, t) + d < MicrosSize =>
                    Gone(MicrosSize, (us + d) % MicrosSize, t) = Gone(MicrosSize, us, t) + d
    BY ONLY <1>1, TurnsBy
  <1>3. \A t : Elapsed(t) = Gone(MicrosSize, us, t)
    BY DEF Elapsed, Gone
  <1>4. 0 \in 0 .. MicrosSize - 1 /\ \A n \in 0 .. MicrosSize - 1 : n \in Nat
    BY <1>1
  <1> QED
    BY <1>1, <1>2, <1>3, <1>4

Places == {"rest", "polled", "ready", "waiting", "framed", "expired", "next", "retry", "falling", "start"}
Times == 0 .. MicrosSize - 1
Samples == [valid : BOOLEAN, stamp : 0 .. MicrosSize - 1]

\* What the parts of update() do to the types.
LEMMA PartTypes ==
    ASSUME SensorTypeOK, NEW t \in Tasks
    PROVE  /\ \A p \in Places : goTo(t, p) => place' \in [Tasks -> Places]
           /\ \A s \in Samples : fill(t, s) => /\ target' \in [Tasks -> Indices]
                                               /\ buf' \in [Indices -> Samples]
                                               /\ age' \in [Indices -> 0 .. MaxAge]
           /\ takeTime(t) => nowUs' \in [Tasks -> Times]
           /\ observeFrame => /\ calState' \in {"idle", "collecting", "complete"}
                              /\ calSamples' \in 0 .. CalSamples - 1
           /\ NoSample \in Samples /\ [valid |-> TRUE, stamp |-> us] \in Samples
           /\ \A d \in Nat : Older(d) \in [Indices -> 0 .. MaxAge]
           /\ \A s \in 0 .. MicrosSize - 1 : startRead(s) =>
                 /\ mpuActive' = TRUE /\ mpuStart' \in 0 .. MicrosSize - 1 /\ busDma' = TRUE
                 /\ crossed' \in BOOLEAN /\ transfer' = "busy"
  <1>1. /\ nowUs \in [Tasks -> Times]
        /\ us \in 0 .. MicrosSize - 1 /\ writeIdx \in Indices /\ target \in [Tasks -> Indices]
        /\ buf \in [Indices -> Samples] /\ age \in [Indices -> 0 .. MaxAge]
        /\ place \in [Tasks -> Places] /\ calState \in {"idle", "collecting", "complete"}
        /\ calSamples \in 0 .. CalSamples - 1
    BY DEF SensorTypeOK, Indices, Samples, Places, Times
  <1>2. \A p \in Places : goTo(t, p) => place' \in [Tasks -> Places]
    BY <1>1 DEF goTo
  <1>3. ASSUME NEW s \in Samples, fill(t, s)
        PROVE  /\ target' \in [Tasks -> Indices] /\ buf' \in [Indices -> Samples]
               /\ age' \in [Indices -> 0 .. MaxAge]
    <2>1. 1 - writeIdx \in Indices /\ 0 \in 0 .. MaxAge
      BY <1>1, ImuNumbers DEF Indices
    <2> QED
      BY <1>1, <1>3, <2>1 DEF fill
  <1>4. ASSUME observeFrame
        PROVE  calState' \in {"idle", "collecting", "complete"} /\ calSamples' \in 0 .. CalSamples - 1
    <2>1. 0 \in 0 .. CalSamples - 1
      BY ImuNumbers
    <2>2. ~(calSamples + 1 >= CalSamples) => calSamples + 1 \in 0 .. CalSamples - 1
      BY <1>1, ImuNumbers
    <2> QED
      BY <1>1, <1>4, <2>1, <2>2 DEF observeFrame, calVars
  <1>5. NoSample \in Samples /\ [valid |-> TRUE, stamp |-> us] \in Samples
    <2>1. 0 \in 0 .. MicrosSize - 1
      BY ImuNumbers
    <2> QED
      BY <1>1, <2>1 DEF NoSample, Samples
  <1>6. ASSUME NEW d \in Nat PROVE Older(d) \in [Indices -> 0 .. MaxAge]
    <2>1. \A i \in Indices : (IF age[i] + d > MaxAge THEN MaxAge ELSE age[i] + d) \in 0 .. MaxAge
      BY <1>1, ImuNumbers
    <2> QED
      BY <2>1 DEF Older, Indices
  <1>7. \A s \in 0 .. MicrosSize - 1 : startRead(s) =>
           /\ mpuActive' = TRUE /\ mpuStart' \in 0 .. MicrosSize - 1 /\ busDma' = TRUE
           /\ crossed' \in BOOLEAN /\ transfer' = "busy"
    BY DEF startRead
  <1>8. takeTime(t) => nowUs' \in [Tasks -> Times]
    BY <1>1 DEF takeTime, Times
  <1> QED
    BY <1>2, <1>3, <1>4, <1>5, <1>6, <1>7, <1>8

\* Every step keeps the types.
LEMMA ImuTypes == ASSUME SensorTypeOK, SensorNext PROVE SensorTypeOK'
  <1>1. /\ us \in Times /\ nowUs \in [Tasks -> Times] /\ served \subseteq Tasks
        /\ dmaFastPath \in BOOLEAN /\ mpuActive \in BOOLEAN /\ busDma \in BOOLEAN /\ crossed \in BOOLEAN
        /\ checking \in BOOLEAN
        /\ mpuStart \in Times /\ retryNotBefore \in Times
        /\ transfer \in {"busy", "done"} /\ mpuDmaTimeouts \in Nat /\ pollingFailures \in 0 .. RetryMax
        /\ buf \in [Indices -> Samples] /\ age \in [Indices -> 0 .. MaxAge]
        /\ writeIdx \in Indices /\ target \in [Tasks -> Indices]
        /\ calState \in {"idle", "collecting", "complete"} /\ calSamples \in 0 .. CalSamples - 1
        /\ place \in [Tasks -> Places] /\ scans \in 0 .. MaxScans
    BY DEF SensorTypeOK, Indices, Samples, Places, Times
  <1>2. ASSUME us' \in Times, nowUs' \in [Tasks -> Times], served' \subseteq Tasks,
               dmaFastPath' \in BOOLEAN, mpuActive' \in BOOLEAN, busDma' \in BOOLEAN, crossed' \in BOOLEAN,
               checking' \in BOOLEAN, mpuStart' \in Times, retryNotBefore' \in Times,
               transfer' \in {"busy", "done"}, mpuDmaTimeouts' \in Nat, pollingFailures' \in 0 .. RetryMax,
               buf' \in [Indices -> Samples], age' \in [Indices -> 0 .. MaxAge],
               writeIdx' \in Indices, target' \in [Tasks -> Indices],
               calState' \in {"idle", "collecting", "complete"}, calSamples' \in 0 .. CalSamples - 1,
               place' \in [Tasks -> Places], scans' \in 0 .. MaxScans
        PROVE  SensorTypeOK'
    BY <1>2 DEF SensorTypeOK, Indices, Samples, Places, Times
  <1>3. /\ 0 \in Times /\ 0 \in 0 .. RetryMax /\ 0 \in 0 .. CalSamples - 1 /\ 0 \in 0 .. MaxAge
        /\ \A n \in Nat : n + 1 \in Nat
    BY ImuNumbers DEF Times
  <1>4. ASSUME NEW t \in Tasks, pollHeldBack(t) PROVE SensorTypeOK'
    BY <1>1, <1>2, <1>4 DEF pollHeldBack, enter, dmaVars, busVars, pollVars, bufferVars, calVars, checkVars
  <1>5. ASSUME NEW t \in Tasks, pollFails(t) PROVE SensorTypeOK'
    <2>1. pollingFailures' \in 0 .. RetryMax
      BY <1>1, <1>5, ImuNumbers DEF pollFails
    <2>2. pollingFailures' \in Nat /\ retryNotBefore' = (us + pollingFailures') % MicrosSize
      BY <1>5, <2>1, ImuNumbers DEF pollFails
    <2>3. retryNotBefore' \in Times
      BY <1>1, <2>2, ImuClock DEF Times
    <2> QED
      BY <1>1, <1>2, <1>5, <2>1, <2>3 DEF pollFails, enter, dmaVars, busVars, bufferVars, calVars, checkVars
  <1>6. ASSUME NEW t \in Tasks, pollFrame(t) \/ dmaFrame(t) PROVE SensorTypeOK'
    <2>1. PICK p \in Places : goTo(t, p)
      BY <1>6 DEF pollFrame, dmaFrame, Places
    <2>2. fill(t, [valid |-> TRUE, stamp |-> us]) /\ observeFrame
      BY <1>6 DEF pollFrame, dmaFrame
    <2>3. /\ place' \in [Tasks -> Places] /\ target' \in [Tasks -> Indices]
          /\ buf' \in [Indices -> Samples] /\ age' \in [Indices -> 0 .. MaxAge]
          /\ calState' \in {"idle", "collecting", "complete"} /\ calSamples' \in 0 .. CalSamples - 1
      BY <2>1, <2>2, PartTypes
    <2>4. /\ us' = us /\ nowUs' = nowUs /\ served' \subseteq Tasks /\ dmaFastPath' = dmaFastPath
          /\ writeIdx' = writeIdx /\ mpuStart' = mpuStart /\ busDma' = busDma /\ crossed' = crossed
          /\ transfer' = transfer
          /\ mpuActive' \in BOOLEAN /\ pollingFailures' \in 0 .. RetryMax
          /\ retryNotBefore' \in Times /\ mpuDmaTimeouts' \in Nat
          /\ checking' = checking /\ scans' = scans
      <3>1. CASE pollFrame(t)
        BY <1>1, <1>3, <3>1 DEF pollFrame, enter, dmaVars, busVars, checkVars
      <3>2. CASE dmaFrame(t)
        BY <1>1, <1>3, <3>2 DEF dmaFrame, busVars, pollVars, checkVars
      <3> QED
        BY <1>6, <3>1, <3>2
    <2> QED
      BY <1>1, <1>2, <2>3, <2>4
  <1>7. ASSUME NEW t \in Tasks, dmaExpires(t) PROVE SensorTypeOK'
    <2>1. fill(t, NoSample) /\ goTo(t, "expired") /\ "expired" \in Places
      BY <1>7 DEF dmaExpires, Places
    <2>2. /\ place' \in [Tasks -> Places] /\ target' \in [Tasks -> Indices]
          /\ buf' \in [Indices -> Samples] /\ age' \in [Indices -> 0 .. MaxAge]
      BY <2>1, PartTypes
    <2> QED
      BY <1>1, <1>2, <1>3, <1>7, <2>2 DEF dmaExpires, busVars, pollVars, calVars, checkVars
  <1>8. ASSUME NEW t \in Tasks, publish(t) PROVE SensorTypeOK'
    <2>1. PICK p \in Places : goTo(t, p)
      BY <1>8 DEF publish, Places
    <2>2. place' \in [Tasks -> Places] /\ writeIdx' \in Indices
      BY <1>1, <1>8, <2>1, PartTypes DEF publish
    <2> QED
      BY <1>1, <1>2, <1>8, <2>2 DEF publish, dmaVars, busVars, pollVars, bufferVars, calVars, checkVars
  <1>9. ASSUME NEW t \in Tasks, disableDma(t) \/ fallBack(t) \/ nothingYet(t) PROVE SensorTypeOK'
    <2>1. PICK p \in Places : goTo(t, p)
      BY <1>9 DEF disableDma, fallBack, nothingYet, Places
    <2>2. place' \in [Tasks -> Places]
      BY <2>1, PartTypes
    <2> QED
      BY <1>1, <1>2, <1>9, <2>2 DEF disableDma, fallBack, nothingYet, dmaVars, busVars, pollVars, bufferVars,
                                    calVars, checkVars
  <1>10. ASSUME NEW t \in Tasks, look(t) \/ startNext(t) PROVE SensorTypeOK'
    <2>1. \E p \in Places : goTo(t, p)
      BY <1>10 DEF look, startNext, Places
    <2>2. place' \in [Tasks -> Places]
      BY <2>1, PartTypes
    <2>3. nowUs' = nowUs \/ takeTime(t)
      BY <1>10 DEF look, startNext
    <2>4. nowUs' \in [Tasks -> Times]
      BY <1>1, <2>3, PartTypes
    <2> QED
      BY <1>1, <1>2, <1>10, <2>2, <2>4 DEF look, enter, startNext, dmaVars, busVars, pollVars, bufferVars,
                                           calVars, checkVars
  <1>11. ASSUME NEW t \in Tasks, startMpuRead(t) PROVE SensorTypeOK'
    <2>1. goTo(t, "rest") /\ "rest" \in Places /\ startRead(nowUs[t])
      BY <1>11 DEF startMpuRead, Places
    <2>2. place' \in [Tasks -> Places]
      BY <2>1, PartTypes
    <2>3. nowUs[t] \in 0 .. MicrosSize - 1
      BY <1>1 DEF Times
    <2>4. /\ mpuActive' \in BOOLEAN /\ mpuStart' \in Times /\ busDma' \in BOOLEAN
          /\ crossed' \in BOOLEAN /\ transfer' \in {"busy", "done"}
      BY <1>1, <2>1, <2>3, PartTypes DEF Times
    <2> QED
      BY <1>1, <1>2, <1>11, <2>2, <2>4 DEF startMpuRead, pollVars, bufferVars, calVars, checkVars
  <1>12. ASSUME NEW d \in 0 .. ScanTime, scanI2cBus(d) PROVE SensorTypeOK'
    <2>1. d \in Nat
      BY ImuNumbers
    <2>2. us' \in Times /\ age' \in [Indices -> 0 .. MaxAge]
      <3>1. us' = (us + d) % MicrosSize /\ age' = Older(d)
        BY <1>12 DEF scanI2cBus
      <3>2. "sensor" \in Tasks
        BY DEF Tasks
      <3>3. Older(d) \in [Indices -> 0 .. MaxAge]
        BY <2>1, <3>2, PartTypes
      <3> QED
        BY <1>1, <2>1, <3>1, <3>3, ImuClock DEF Times
    <2>3. /\ mpuActive' \in BOOLEAN /\ mpuStart' \in Times /\ busDma' \in BOOLEAN
          /\ crossed' \in BOOLEAN /\ transfer' \in {"busy", "done"}
      BY <1>1, <1>12, <2>2 DEF scanI2cBus, restart, startRead
    <2>4. scans' \in 0 .. MaxScans
      BY <1>1, <1>12, ImuNumbers DEF scanI2cBus
    <2> QED
      BY <1>1, <1>2, <1>12, <2>2, <2>3, <2>4 DEF scanI2cBus, pollVars, calVars
  <1>13. ASSUME skipI2cScan PROVE SensorTypeOK'
    <2>1. scans' \in 0 .. MaxScans
      BY <1>1, <1>13, ImuNumbers DEF skipI2cScan
    <2> QED
      BY <1>1, <1>2, <1>13, <2>1 DEF skipI2cScan, dmaVars, busVars, pollVars, bufferVars, calVars
  <1>14. ASSUME endCheck \/ completeTransfer PROVE SensorTypeOK'
    BY <1>1, <1>2, <1>14 DEF endCheck, completeTransfer, dmaVars, busVars, pollVars, bufferVars, calVars,
                             checkVars
  <1>15. ASSUME beginImuCalibration \/ takeImuCalibrationResult PROVE SensorTypeOK'
    BY <1>1, <1>2, <1>3, <1>15 DEF beginImuCalibration, takeImuCalibrationResult, dmaVars, busVars, pollVars,
                                   bufferVars, checkVars
  <1>16. ASSUME NextPeriod PROVE SensorTypeOK'
    <2>1. /\ us' = (us + 1) % MicrosSize
          /\ buf' = [buf EXCEPT ![1 - writeIdx] = NoSample]
          /\ age' = [Older(1) EXCEPT ![1 - writeIdx] = 0]
          /\ target' = [t \in Tasks |-> 0] /\ nowUs' = [t \in Tasks |-> 0]
      BY <1>16 DEF NextPeriod
    <2>2. "sensor" \in Tasks /\ 1 \in Nat /\ 0 \in Indices
      BY DEF Tasks, Indices
    <2>3. us' \in Times
      BY <1>1, <2>1, <2>2, ImuClock DEF Times
    <2>4. NoSample \in Samples /\ Older(1) \in [Indices -> 0 .. MaxAge]
      BY <2>2, PartTypes
    <2>5. buf' \in [Indices -> Samples] /\ age' \in [Indices -> 0 .. MaxAge]
      BY <1>1, <1>3, <2>1, <2>4
    <2>6. target' \in [Tasks -> Indices] /\ nowUs' \in [Tasks -> Times]
      BY <1>3, <2>1, <2>2
    <2>7. mpuStart' \in Times
      BY <1>1, <1>3, <1>16 DEF NextPeriod
    <2> QED
      BY <1>1, <1>2, <1>16, <2>3, <2>5, <2>6, <2>7 DEF NextPeriod, busVars, pollVars, calVars, checkVars
  <1> QED
    BY <1>4, <1>5, <1>6, <1>7, <1>8, <1>9, <1>10, <1>11, <1>12, <1>13, <1>14, <1>15, <1>16
       DEF SensorNext, updateSensor

\* At the start no sample is there and the first transfer begins.
LEMMA ImuStarts == SensorInit => ImuInv
  <1> SUFFICES ASSUME SensorInit PROVE ImuInv
    OBVIOUS
  <1>1. /\ us = 0 /\ nowUs = [t \in Tasks |-> 0] /\ served = {} /\ dmaFastPath \in BOOLEAN
        /\ mpuActive = dmaFastPath /\ mpuStart = 0
        /\ busDma = dmaFastPath /\ crossed = FALSE /\ transfer = "busy"
        /\ mpuDmaTimeouts = 0 /\ pollingFailures = 0 /\ retryNotBefore = 0
        /\ buf = [i \in {0, 1} |-> NoSample] /\ age = [i \in {0, 1} |-> 0] /\ writeIdx = 0
        /\ calState = "idle" /\ calSamples = 0
        /\ place = [t \in Tasks |-> "rest"] /\ target = [t \in Tasks |-> 0]
        /\ checking = FALSE /\ scans = 0
    BY DEF SensorInit
  <1>2. /\ 0 \in 0 .. MicrosSize - 1 /\ 0 \in 0 .. RetryMax /\ 0 \in 0 .. CalSamples - 1
        /\ 0 \in 0 .. MaxAge /\ 0 \in 0 .. MaxScans /\ 0 \in Nat
        /\ Delay(0) = 0 /\ 0 <= Delay(0) + DmaTimeout + 1 /\ 0 <= Delay(0) + DmaTimeout
    BY ImuNumbers DEF Delay
  <1>3. NoSample \in [valid : BOOLEAN, stamp : 0 .. MicrosSize - 1] /\ ~NoSample.valid
    BY <1>2 DEF NoSample
  <1>4. SensorTypeOK
    <2>1. /\ buf \in [{0, 1} -> [valid : BOOLEAN, stamp : 0 .. MicrosSize - 1]]
          /\ age \in [{0, 1} -> 0 .. MaxAge] /\ target \in [Tasks -> {0, 1}]
          /\ nowUs \in [Tasks -> 0 .. MicrosSize - 1]
          /\ place \in [Tasks -> {"rest", "polled", "ready", "waiting", "framed", "expired", "next", "retry",
                                  "falling", "start"}]
      BY <1>1, <1>2, <1>3
    <2> QED
      BY <1>1, <1>2, <2>1 DEF SensorTypeOK
  <1>5. BusInv /\ CheckInv
    <2>1. \A t \in Tasks : place[t] = "rest"
      BY <1>1
    <2>2. "sensor" \in Tasks /\ "telemetry" \in Tasks
      BY DEF Tasks
    <2> QED
      BY <1>1, <2>1, <2>2 DEF BusInv, CheckInv, Ending
  <1>6. TransferInv
    <2>1. Elapsed(0) = 0 /\ place["sensor"] = "rest" /\ "sensor" \notin served
      BY <1>1, <1>2, ImuClock DEF Tasks
    <2> QED
      BY <1>1, <1>2, <2>1 DEF TransferInv, Looked
  <1>7. SamplesInv
    <2>1. \A i \in Indices : ~buf[i].valid
      BY <1>1, <1>3 DEF Indices
    <2>2. writeIdx \in Indices /\ \A t \in Tasks : target[t] \in Indices
      BY <1>1 DEF Indices
    <2> QED
      BY <2>1, <2>2 DEF SamplesInv, Valid
  <1> QED
    BY <1>4, <1>5, <1>6, <1>7 DEF ImuInv

\* The steps that leave the transfers, the buffers and the places in update() alone.
Aside ==
    \/ \E t \in Tasks : pollHeldBack(t) \/ pollFails(t)
    \/ skipI2cScan \/ endCheck \/ beginImuCalibration \/ takeImuCalibrationResult \/ completeTransfer

\* What such a step leaves alone.
LEMMA AsideStep ==
    ASSUME Aside
    PROVE  /\ us' = us /\ nowUs' = nowUs /\ dmaFastPath' = dmaFastPath /\ mpuActive' = mpuActive
           /\ mpuStart' = mpuStart /\ busDma' = busDma /\ crossed' = crossed
           /\ buf' = buf /\ age' = age /\ writeIdx' = writeIdx /\ place' = place /\ target' = target
           /\ dmaFastPath => served' = served
           /\ scans' = scans \/ skipI2cScan
  BY DEF Aside, pollHeldBack, pollFails, skipI2cScan, endCheck, beginImuCalibration,
         takeImuCalibrationResult, completeTransfer, dmaVars, busVars, bufferVars, checkVars

\* What a step within update() leaves alone.
LEMMA UpdateStep ==
    ASSUME NEW t \in Tasks,
           \/ look(t) \/ nothingYet(t) \/ pollFrame(t) \/ dmaFrame(t) \/ dmaExpires(t) \/ publish(t)
           \/ disableDma(t) \/ fallBack(t) \/ startNext(t) \/ startMpuRead(t)
    PROVE  /\ us' = us /\ scans' = scans /\ runs(t)
           /\ fallBack(t) \/ dmaFastPath' = dmaFastPath
           /\ \E p \in Places : place' = [place EXCEPT ![t] = p]
           /\ look(t) \/ pollFrame(t) \/ served' = served
           /\ look(t) \/ startNext(t) \/ nowUs' = nowUs
           /\ startMpuRead(t) \/ mpuStart' = mpuStart
           /\ startMpuRead(t) \/ dmaFrame(t) \/ dmaExpires(t) \/ mpuActive' = mpuActive
           /\ startMpuRead(t) \/ disableDma(t) \/ (busDma' = busDma /\ crossed' = crossed)
           /\ pollFrame(t) \/ dmaFrame(t) \/ dmaExpires(t) \/ (buf' = buf /\ age' = age /\ target' = target)
           /\ publish(t) \/ writeIdx' = writeIdx
  <1>1. CASE look(t)
    BY <1>1 DEF look, enter, goTo, dmaVars, busVars, bufferVars, checkVars, Places
  <1>2. CASE nothingYet(t)
    BY <1>2 DEF nothingYet, goTo, dmaVars, busVars, bufferVars, checkVars, Places
  <1>3. CASE pollFrame(t)
    BY <1>3 DEF pollFrame, enter, goTo, dmaVars, busVars, checkVars, Places
  <1>4. CASE dmaFrame(t)
    BY <1>4 DEF dmaFrame, goTo, busVars, checkVars, Places
  <1>5. CASE dmaExpires(t)
    BY <1>5 DEF dmaExpires, goTo, busVars, checkVars, Places
  <1>6. CASE publish(t)
    <2>1. \E p \in Places : goTo(t, p)
      BY <1>6 DEF publish, Places
    <2> QED
      BY <1>6, <2>1 DEF publish, goTo, dmaVars, busVars, bufferVars, checkVars
  <1>7. CASE disableDma(t)
    BY <1>7 DEF disableDma, goTo, bufferVars, checkVars, Places
  <1>8. CASE fallBack(t)
    BY <1>8 DEF fallBack, goTo, dmaVars, busVars, bufferVars, checkVars, Places
  <1>9. CASE startNext(t)
    BY <1>9 DEF startNext, goTo, dmaVars, busVars, bufferVars, checkVars, Places
  <1>10. CASE startMpuRead(t)
    BY <1>10 DEF startMpuRead, goTo, bufferVars, checkVars, Places
  <1> QED
    BY <1>1, <1>2, <1>3, <1>4, <1>5, <1>6, <1>7, <1>8, <1>9, <1>10

\* Where such a step leads.
LEMMA UpdatePlaces ==
    ASSUME SensorTypeOK, NEW t \in Tasks
    PROVE  /\ look(t) => dmaFastPath /\ place[t] = "rest" /\ place'[t] \in {"ready", "waiting"}
           /\ nothingYet(t) => place[t] = "waiting" /\ place'[t] = "rest"
           /\ pollFrame(t) => ~dmaFastPath /\ place[t] = "rest" /\ place'[t] = "polled"
           /\ dmaFrame(t) => ~mpuActive' /\ place[t] = "ready" /\ place'[t] = "framed"
           /\ dmaExpires(t) => ~mpuActive' /\ place[t] = "waiting" /\ place'[t] = "expired"
           /\ publish(t) => \/ place[t] = "polled" /\ place'[t] = "rest"
                            \/ place[t] = "framed" /\ place'[t] = "next"
                            \/ place[t] = "expired" /\ place'[t] = "retry"
           /\ disableDma(t) => place[t] = "retry" /\ place'[t] = "falling"
           /\ fallBack(t) => place[t] = "falling" /\ place'[t] = "rest"
           /\ startNext(t) => /\ place[t] \in {"next", "retry"}
                              /\ place'[t] = IF dmaFastPath THEN "start" ELSE "rest"
           /\ startMpuRead(t) => place[t] = "start" /\ place'[t] = "rest"
  <1>1. \A p : goTo(t, p) => place'[t] = p
    BY DEF SensorTypeOK, goTo
  <1> QED
    BY <1>1 DEF look, nothingYet, pollFrame, dmaFrame, dmaExpires, publish, disableDma, fallBack,
                startNext, startMpuRead, enter

\* Every step is one of those or one of these.
LEMMA ImuSteps ==
    SensorNext <=> \/ Aside
                   \/ \E t \in Tasks : \/ look(t) \/ nothingYet(t)
                                       \/ pollFrame(t) \/ dmaFrame(t) \/ dmaExpires(t) \/ publish(t)
                                       \/ disableDma(t) \/ fallBack(t) \/ startNext(t) \/ startMpuRead(t)
                   \/ \E d \in 0 .. ScanTime : scanI2cBus(d)
                   \/ NextPeriod
  BY DEF SensorNext, updateSensor, Aside

\* The bus is the DMA's as long as the fast path is taken and nobody falls back, and a
\* transfer that has ended is followed by the next before its task is done.
LEMMA BusStep == ASSUME ImuInv, SensorNext PROVE BusInv'
  <1>1. /\ BusInv /\ CheckInv /\ SensorTypeOK /\ place \in [Tasks -> Places]
        /\ dmaFastPath \in BOOLEAN /\ Tasks = {"sensor", "telemetry"}
    BY DEF ImuInv, SensorTypeOK, Places, Tasks
  <1>2. CASE Aside
    BY <1>1, <1>2, AsideStep DEF BusInv
  <1>3. ASSUME NEW t \in Tasks, look(t) \/ nothingYet(t) \/ pollFrame(t) PROVE BusInv'
    <2>1. /\ dmaFastPath' = dmaFastPath /\ mpuActive' = mpuActive /\ busDma' = busDma /\ crossed' = crossed
          /\ \A x \in Tasks \ {t} : place'[x] = place[x]
      BY <1>1, <1>3, UpdateStep DEF look, nothingYet, pollFrame, dmaVars, busVars, enter, goTo
    <2>2. place[t] \in {"rest", "waiting"} /\ place'[t] \in {"ready", "waiting", "rest", "polled"}
          /\ (dmaFastPath => place'[t] # "polled")
      BY <1>1, <1>3, UpdatePlaces
    <2> QED
      BY <1>1, <2>1, <2>2 DEF BusInv, Ending
  <1>4. ASSUME NEW t \in Tasks, dmaFrame(t) \/ dmaExpires(t) PROVE BusInv'
    <2>1. /\ dmaFastPath' = dmaFastPath /\ busDma' = busDma /\ crossed' = crossed
          /\ \A x \in Tasks \ {t} : place'[x] = place[x]
      BY <1>1, <1>4, UpdateStep DEF dmaFrame, dmaExpires, busVars, goTo
    <2>2. place[t] \in {"ready", "waiting"} /\ place'[t] \in {"framed", "expired"}
      BY <1>1, <1>4, UpdatePlaces
    <2> QED
      BY <1>1, <2>1, <2>2 DEF BusInv, Ending
  <1>5. ASSUME NEW t \in Tasks, publish(t) PROVE BusInv'
    <2>1. /\ dmaFastPath' = dmaFastPath /\ mpuActive' = mpuActive /\ busDma' = busDma /\ crossed' = crossed
          /\ \A x \in Tasks \ {t} : place'[x] = place[x]
      BY <1>1, <1>5, UpdateStep DEF publish, dmaVars, busVars, goTo
    <2>2. \/ ~dmaFastPath /\ place[t] = "polled" /\ place'[t] = "rest"
          \/ place[t] \in {"framed", "expired"} /\ place'[t] \in {"next", "retry"}
      BY <1>1, <1>5, UpdatePlaces DEF BusInv
    <2> QED
      BY <1>1, <2>1, <2>2 DEF BusInv, Ending
  <1>6. ASSUME NEW t \in Tasks, disableDma(t) PROVE BusInv'
    <2>1. /\ dmaFastPath' = dmaFastPath /\ mpuActive' = mpuActive /\ busDma' = FALSE
          /\ \A x \in Tasks \ {t} : place'[x] = place[x]
          /\ place[t] = "retry" /\ place'[t] = "falling"
      BY <1>1, <1>6, UpdatePlaces DEF disableDma, goTo
    <2> QED
      BY <1>1, <2>1 DEF BusInv, Ending
  <1>7. ASSUME NEW t \in Tasks, fallBack(t) PROVE BusInv'
    <2>1. /\ dmaFastPath' = FALSE /\ busDma' = busDma /\ crossed' = crossed
          /\ \A x \in Tasks \ {t} : place'[x] = place[x]
          /\ place[t] = "falling" /\ place'[t] = "rest" /\ runs(t)
      BY <1>1, <1>7, UpdatePlaces DEF fallBack, dmaVars, busVars, goTo
    <2>2. busDma => crossed
      BY <1>1, <2>1 DEF BusInv
    <2>3. \A x \in Tasks \ {t} : place[x] # "start"
      BY <1>1, <2>1 DEF CheckInv, Ending, runs
    <2> QED
      BY <2>1, <2>2, <2>3 DEF BusInv
  <1>8. ASSUME NEW t \in Tasks, startNext(t) PROVE BusInv'
    <2>1. /\ dmaFastPath' = dmaFastPath /\ mpuActive' = mpuActive /\ busDma' = busDma /\ crossed' = crossed
          /\ \A x \in Tasks \ {t} : place'[x] = place[x]
          /\ place[t] \in {"next", "retry"} /\ place'[t] = IF dmaFastPath THEN "start" ELSE "rest"
      BY <1>1, <1>8, UpdatePlaces DEF startNext, dmaVars, busVars, goTo
    <2> QED
      BY <1>1, <2>1 DEF BusInv, Ending
  <1>9. ASSUME NEW t \in Tasks, startMpuRead(t) PROVE BusInv'
    <2>1. /\ dmaFastPath' = dmaFastPath /\ mpuActive' = TRUE /\ busDma' = TRUE
          /\ crossed' = (place["sensor"] = "falling")
          /\ \A x \in Tasks \ {t} : place'[x] = place[x]
          /\ place[t] = "start" /\ place'[t] = "rest" /\ runs(t)
      BY <1>1, <1>9, UpdatePlaces DEF startMpuRead, startRead, goTo
    <2>2. dmaFastPath
      BY <1>1, <2>1 DEF BusInv
    <2>3. \A x \in Tasks : place'[x] = "falling" => x = "sensor" /\ place["sensor"] = "falling"
      BY <1>1, <2>1 DEF runs
    <2> QED
      BY <1>1, <2>1, <2>2, <2>3 DEF BusInv
  <1>10. ASSUME NEW d \in 0 .. ScanTime, scanI2cBus(d) PROVE BusInv'
    <2>1. /\ dmaFastPath' = dmaFastPath /\ place' = place /\ place["telemetry"] = "rest"
          /\ dmaFastPath => busDma' = TRUE /\ mpuActive' = TRUE /\ crossed' = (place["sensor"] = "falling")
          /\ ~dmaFastPath => busDma' = FALSE
      BY <1>10 DEF scanI2cBus, restart, startRead
    <2>2. CASE dmaFastPath
      BY <1>1, <2>1, <2>2 DEF BusInv
    <2>3. CASE ~dmaFastPath
      BY <1>1, <2>1, <2>3 DEF BusInv
    <2> QED
      BY <2>2, <2>3
  <1>11. CASE NextPeriod
    BY <1>1, <1>11 DEF NextPeriod, busVars, BusInv
  <1> QED
    BY <1>2, <1>3, <1>4, <1>5, <1>6, <1>7, <1>8, <1>9, <1>10, <1>11, ImuSteps

\* A check's update() takes no time, and gives up no transfer while the sensor task is
\* between two.
LEMMA CheckStep == ASSUME ImuInv, SensorNext PROVE CheckInv'
  <1>1. /\ BusInv /\ CheckInv /\ SensorTypeOK /\ place \in [Tasks -> Places]
        /\ nowUs \in [Tasks -> Times] /\ us \in Times
        /\ dmaFastPath \in BOOLEAN /\ Tasks = {"sensor", "telemetry"}
    BY DEF ImuInv, SensorTypeOK, Places, Tasks, Times
  <1>2. CASE Aside
    BY <1>1, <1>2, AsideStep DEF CheckInv
  <1>3. ASSUME NEW t \in Tasks, look(t) \/ nothingYet(t) \/ pollFrame(t) PROVE CheckInv'
    <2>1. /\ us' = us /\ dmaFastPath' = dmaFastPath /\ mpuActive' = mpuActive /\ mpuStart' = mpuStart
          /\ \A x \in Tasks \ {t} : place'[x] = place[x] /\ nowUs'[x] = nowUs[x]
      BY <1>1, <1>3, UpdateStep DEF look, nothingYet, pollFrame, dmaVars, enter, goTo, takeTime
    <2>2. /\ place'[t] \in {"ready", "waiting", "rest", "polled"}
          /\ place'[t] \in {"ready", "waiting"} => dmaFastPath
          /\ place'[t] = "waiting" => nowUs'[t] = us
      <3>1. CASE look(t)
        BY <1>1, <3>1, UpdatePlaces DEF look, takeTime, goTo
      <3>2. CASE nothingYet(t) \/ pollFrame(t)
        BY <1>1, <3>2, UpdatePlaces
      <3> QED
        BY <1>3, <3>1, <3>2
    <2> QED
      BY <1>1, <2>1, <2>2 DEF CheckInv, Ending
  <1>4. ASSUME NEW t \in Tasks, dmaFrame(t) \/ dmaExpires(t) PROVE CheckInv'
    <2>1. /\ us' = us /\ ~mpuActive' /\ nowUs' = nowUs /\ dmaFastPath' = dmaFastPath
          /\ \A x \in Tasks \ {t} : place'[x] = place[x]
          /\ place[t] \in {"ready", "waiting"} /\ place'[t] \in {"framed", "expired"} /\ runs(t)
      BY <1>1, <1>4, UpdatePlaces, UpdateStep DEF dmaFrame, dmaExpires, goTo
    <2>2. CASE t = "sensor"
      BY <1>1, <2>1, <2>2 DEF CheckInv, runs
    <2>3. CASE t = "telemetry" /\ dmaFrame(t)
      <3>1. place'[t] = "framed"
        BY <1>1, <2>3, UpdatePlaces
      <3> QED
        BY <1>1, <2>1, <2>3, <3>1 DEF CheckInv
    <2>4. CASE t = "telemetry" /\ dmaExpires(t)
      <3>1. nowUs[t] = us /\ mpuActive /\ place[t] = "waiting"
            /\ (nowUs[t] + MicrosSize - mpuStart) % MicrosSize > DmaTimeout
        BY <1>1, <2>4 DEF CheckInv, dmaExpires, timedOut
      <3>2. Elapsed(mpuStart) > DmaTimeout
        BY <3>1 DEF Elapsed
      <3>3. mpuStart # us
        <4>1. Elapsed(us) = 0 /\ 0 \in Nat /\ ~(0 > DmaTimeout)
          BY <1>1, ImuClock, ImuNumbers DEF Times
        <4> QED
          BY <3>2, <4>1
      <3>4. place["sensor"] \notin Ending
        <4>1. dmaFastPath
          BY <1>1, <2>4, <3>1 DEF CheckInv
        <4> QED
          BY <1>1, <3>1, <3>3, <4>1 DEF CheckInv
      <3> QED
        BY <1>1, <2>1, <2>4, <3>4 DEF CheckInv
    <2> QED
      BY <1>1, <1>4, <2>2, <2>3, <2>4
  <1>5. ASSUME NEW t \in Tasks, publish(t) \/ disableDma(t) \/ fallBack(t) \/ startNext(t) PROVE CheckInv'
    <2>1. /\ us' = us /\ mpuActive' = mpuActive /\ mpuStart' = mpuStart /\ runs(t)
          /\ dmaFastPath' = dmaFastPath \/ (fallBack(t) /\ dmaFastPath' = FALSE)
          /\ \A x \in Tasks \ {t} : place'[x] = place[x] /\ nowUs'[x] = nowUs[x]
      BY <1>1, <1>5, UpdateStep DEF publish, disableDma, fallBack, startNext, dmaVars, takeTime, goTo
    <2>2. /\ place[t] \in {"expired", "retry", "falling", "framed", "next", "polled"}
          /\ place[t] # "polled" => place[t] \in Ending
          /\ place'[t] \in {"rest", "next", "retry", "falling", "start"}
          /\ place'[t] \in {"retry", "falling"} => place[t] \in {"expired", "retry", "falling"}
          /\ place'[t] = "start" => dmaFastPath /\ nowUs'[t] = us
          /\ place[t] = "polled" => place'[t] = "rest"
          /\ fallBack(t) => place'[t] = "rest"
      <3>1. CASE publish(t) \/ disableDma(t) \/ fallBack(t)
        <4>1. /\ ~startNext(t) /\ (publish(t) => ~fallBack(t)) /\ (disableDma(t) => ~fallBack(t))
          BY <3>1 DEF publish, disableDma, fallBack, startNext
        <4> QED
          BY <1>1, <3>1, <4>1, UpdatePlaces DEF Ending
      <3>2. CASE startNext(t)
        <4>1. ~fallBack(t)
          BY <3>2 DEF fallBack, startNext
        <4>2. dmaFastPath => nowUs'[t] = us
          BY <1>1, <3>2 DEF startNext, takeTime
        <4> QED
          BY <1>1, <3>2, <4>1, <4>2, UpdatePlaces DEF Ending
      <3> QED
        BY <1>5, <3>1, <3>2
    <2>3. CASE t = "sensor"
      <3>1. place["telemetry"] = "rest" /\ place'["telemetry"] = "rest"
        BY <1>1, <2>1, <2>3 DEF runs
      <3>2. place["sensor"] \in Ending \/ place'["sensor"] = "rest"
        BY <2>2, <2>3
      <3> QED
        BY <1>1, <2>1, <3>1, <3>2 DEF CheckInv, Ending
    <2>4. CASE t = "telemetry"
      <3>1. place'["sensor"] = place["sensor"] /\ nowUs'["sensor"] = nowUs["sensor"]
        BY <1>1, <2>1, <2>4
      <3>2. place'["telemetry"] \notin {"rest", "polled"} => dmaFastPath'
        BY <1>1, <2>1, <2>2, <2>4 DEF CheckInv
      <3>3. place'["telemetry"] \in {"waiting", "start"} => nowUs'["telemetry"] = us'
        BY <2>1, <2>2, <2>4
      <3> QED
        BY <1>1, <2>1, <2>2, <2>4, <3>1, <3>2, <3>3 DEF CheckInv
    <2> QED
      BY <1>1, <2>3, <2>4
  <1>6. ASSUME NEW t \in Tasks, startMpuRead(t) PROVE CheckInv'
    <2>1. /\ us' = us /\ mpuStart' = nowUs[t] /\ nowUs' = nowUs /\ dmaFastPath' = dmaFastPath /\ runs(t)
          /\ \A x \in Tasks \ {t} : place'[x] = place[x]
          /\ place[t] = "start" /\ place'[t] = "rest"
      BY <1>1, <1>6, UpdatePlaces DEF startMpuRead, startRead, goTo
    <2>2. CASE t = "sensor"
      BY <1>1, <2>1, <2>2 DEF CheckInv, runs, Ending
    <2>3. CASE t = "telemetry"
      BY <1>1, <2>1, <2>3 DEF CheckInv
    <2> QED
      BY <1>1, <2>2, <2>3
  <1>7. ASSUME NEW d \in 0 .. ScanTime, scanI2cBus(d) PROVE CheckInv'
    <2>1. /\ place' = place /\ place["telemetry"] = "rest" /\ dmaFastPath' = dmaFastPath
          /\ dmaFastPath => mpuStart' = us'
      BY <1>7 DEF scanI2cBus, restart, startRead
    <2> QED
      BY <2>1 DEF CheckInv
  <1>8. CASE NextPeriod
    BY <1>1, <1>8 DEF NextPeriod, CheckInv, Ending
  <1> QED
    BY <1>2, <1>3, <1>4, <1>5, <1>6, <1>7, <1>8, ImuSteps

\* When the sensor task finds that a transfer goes on, one does, and it is not older than
\* its timeout, also if a scan has restarted it meanwhile.
LEMMA ReadGoesOn ==
    ASSUME ImuInv, dmaFastPath, nothingYet("sensor")
    PROVE  mpuActive /\ Elapsed(mpuStart) <= DmaTimeout
  <1>1. /\ us \in 0 .. MicrosSize - 1 /\ DmaTimeout \in Nat
        /\ place["sensor"] = "waiting" /\ place["telemetry"] = "rest" /\ ~timedOut("sensor")
        /\ Tasks = {"sensor", "telemetry"} /\ TransferInv /\ BusInv
    BY ImuNumbers DEF ImuInv, SensorTypeOK, Tasks, nothingYet, runs
  <1>2. mpuActive
    BY <1>1 DEF BusInv, Ending
  <1>3. ~((nowUs["sensor"] + MicrosSize - mpuStart) % MicrosSize > DmaTimeout)
    BY <1>1, <1>2 DEF timedOut
  <1>4. mpuStart \in 0 .. MicrosSize - 1
    BY DEF ImuInv, SensorTypeOK
  <1>5. Elapsed(us) = 0 /\ Elapsed(mpuStart) \in Nat
    <2>1. 0 \in Nat
      OBVIOUS
    <2> QED
      BY <1>1, <1>4, <2>1, ImuClock
  <1>6. CASE nowUs["sensor"] = us
    BY <1>1, <1>2, <1>3, <1>5, <1>6 DEF Elapsed
  <1>7. CASE mpuStart = us
    BY <1>1, <1>2, <1>5, <1>7
  <1> QED
    BY <1>1, <1>2, <1>6, <1>7 DEF TransferInv

\* A transfer has begun no longer ago than its timeout, the scans' time and a unit.
LEMMA TransferStep == ASSUME ImuInv, SensorNext PROVE TransferInv'
  <1>1. /\ us \in 0 .. MicrosSize - 1 /\ mpuStart \in 0 .. MicrosSize - 1
        /\ nowUs \in [Tasks -> 0 .. MicrosSize - 1] /\ place \in [Tasks -> Places]
        /\ DmaTimeout \in Nat /\ scans \in 0 .. MaxScans
        /\ TransferInv /\ BusInv /\ CheckInv /\ SensorTypeOK
        /\ Tasks = {"sensor", "telemetry"} /\ dmaFastPath \in BOOLEAN
    BY ImuNumbers DEF ImuInv, SensorTypeOK, Places, Tasks
  <1>2. /\ Delay(scans) \in Nat /\ Delay(scans) + DmaTimeout + 1 < MicrosSize
        /\ Delay(scans + 1) = Delay(scans) + ScanTime /\ 0 <= Delay(scans) + DmaTimeout
        /\ 0 <= Delay(scans) + DmaTimeout + 1 /\ 0 <= Delay(scans)
    <2>1. scans \in Nat /\ MicrosSize \in Nat
      BY <1>1, ImuNumbers
    <2> QED
      BY <1>1, <2>1, Spans
  <1>3. /\ Elapsed(us) = 0 /\ Elapsed(mpuStart) \in Nat
        /\ \A t \in Tasks : nowUs[t] \in 0 .. MicrosSize - 1 /\ Elapsed(nowUs[t]) \in Nat
    <2>1. 0 \in Nat
      OBVIOUS
    <2> QED
      BY <1>1, <2>1, ImuClock
  <1>4. \A x : us' = us => (us' + MicrosSize - x) % MicrosSize = Elapsed(x)
    BY DEF Elapsed
  <1>5. CASE ~dmaFastPath'
    BY <1>5 DEF TransferInv
  <1>6. ASSUME dmaFastPath, dmaFastPath', us' = us, scans' = scans,
               mpuActive' => /\ (us' + MicrosSize - mpuStart') % MicrosSize <= Delay(scans) + DmaTimeout + 1
                             /\ Looked' => (us' + MicrosSize - mpuStart') % MicrosSize <= Delay(scans) + DmaTimeout
                             /\ place'["sensor"] = "waiting" => nowUs'["sensor"] = us \/ mpuStart' = us,
               place'["sensor"] \in {"waiting", "start"} =>
                  (us' + MicrosSize - nowUs'["sensor"]) % MicrosSize <= Delay(scans)
        PROVE  TransferInv'
    BY <1>6 DEF TransferInv, Elapsed, Delay
  <1>7. CASE Aside /\ dmaFastPath
    <2>1. /\ us' = us /\ nowUs' = nowUs /\ mpuActive' = mpuActive /\ mpuStart' = mpuStart
          /\ place' = place /\ served' = served /\ dmaFastPath' = dmaFastPath
          /\ scans' = scans \/ skipI2cScan
      BY <1>7, AsideStep
    <2>2. CASE scans' = scans
      BY <1>1, <1>7, <2>1, <2>2 DEF TransferInv, Elapsed, Looked, Delay
    <2>3. CASE skipI2cScan
      <3>1. scans' = scans + 1
        BY <2>3 DEF skipI2cScan
      <3>2. Delay(scans') \in Nat /\ Delay(scans) <= Delay(scans')
        BY <1>2, <3>1, ImuNumbers
      <3>3. /\ Elapsed(mpuStart)' = Elapsed(mpuStart) /\ Elapsed(nowUs["sensor"])' = Elapsed(nowUs["sensor"])
            /\ Looked' <=> Looked
        BY <2>1 DEF Elapsed, Looked
      <3>4. \A n \in Nat :
               /\ n <= Delay(scans) => n <= Delay(scans')
               /\ n <= Delay(scans) + DmaTimeout => n <= Delay(scans') + DmaTimeout
               /\ n <= Delay(scans) + DmaTimeout + 1 => n <= Delay(scans') + DmaTimeout + 1
        BY <1>1, <1>2, <3>2
      <3>5. Delay(scans') = Delay(scans)'
        BY DEF Delay
      <3>6. /\ mpuActive => Elapsed(mpuStart)' <= Delay(scans') + DmaTimeout + 1
            /\ mpuActive /\ Looked => Elapsed(mpuStart)' <= Delay(scans') + DmaTimeout
            /\ place["sensor"] \in {"waiting", "start"} => Elapsed(nowUs["sensor"])' <= Delay(scans')
            /\ place["sensor"] = "waiting" /\ mpuActive => nowUs["sensor"] = us \/ mpuStart = us
        BY <1>1, <1>3, <1>7, <3>3, <3>4 DEF TransferInv
      <3> QED
        BY <2>1, <3>3, <3>5, <3>6 DEF TransferInv
    <2> QED
      BY <2>1, <2>2, <2>3
  <1>8. ASSUME NEW t \in Tasks, look(t) \/ nothingYet(t) \/ pollFrame(t), dmaFastPath PROVE TransferInv'
    <2>1. /\ us' = us /\ scans' = scans /\ dmaFastPath' = dmaFastPath /\ mpuActive' = mpuActive
          /\ mpuStart' = mpuStart
          /\ \A x \in Tasks \ {t} : place'[x] = place[x] /\ nowUs'[x] = nowUs[x]
      BY <1>1, <1>8, UpdateStep DEF look, nothingYet, pollFrame, dmaVars, enter, goTo, takeTime
    <2>2. CASE t = "sensor" /\ look(t)
      <3>1. place'["sensor"] \in {"ready", "waiting"} /\ (place'["sensor"] = "waiting" => nowUs'["sensor"] = us)
        BY <1>1, <2>2, UpdatePlaces DEF look, takeTime, goTo
      <3>2. ~Looked'
        BY <3>1 DEF Looked
      <3>3. mpuActive => Elapsed(mpuStart) <= Delay(scans) + DmaTimeout + 1
        BY <1>1, <1>8 DEF TransferInv
      <3> QED
        BY <1>2, <1>3, <1>4, <1>6, <1>8, <2>1, <3>1, <3>2, <3>3
    <2>3. CASE t = "sensor" /\ nothingYet(t)
      <3>1. place'["sensor"] = "rest"
        BY <1>1, <2>3, UpdatePlaces
      <3>2. mpuActive => Elapsed(mpuStart) <= DmaTimeout
        BY <1>8, <2>3, ReadGoesOn
      <3>3. mpuActive => /\ Elapsed(mpuStart) <= Delay(scans) + DmaTimeout
                         /\ Elapsed(mpuStart) <= Delay(scans) + DmaTimeout + 1
        BY <1>1, <1>2, <1>3, <3>2
      <3> QED
        BY <1>4, <1>6, <1>8, <2>1, <3>1, <3>3
    <2>4. CASE t = "telemetry" /\ (look(t) \/ nothingYet(t))
      <3>1. /\ place'["sensor"] = place["sensor"] /\ nowUs'["sensor"] = nowUs["sensor"]
            /\ "sensor" \in served' <=> "sensor" \in served
        BY <1>1, <2>1, <2>4 DEF look, nothingYet, enter
      <3> QED
        BY <1>1, <1>8, <2>1, <3>1 DEF TransferInv, Elapsed, Looked, Delay
    <2>5. ~pollFrame(t)
      BY <1>8 DEF pollFrame
    <2> QED
      BY <1>1, <1>8, <2>2, <2>3, <2>4, <2>5
  <1>9. ASSUME NEW t \in Tasks, dmaFrame(t) \/ dmaExpires(t), dmaFastPath PROVE TransferInv'
    <2>1. /\ us' = us /\ scans' = scans /\ dmaFastPath' = dmaFastPath /\ ~mpuActive' /\ nowUs' = nowUs
          /\ \A x \in Tasks \ {t} : place'[x] = place[x]
          /\ place'[t] \in {"framed", "expired"}
      BY <1>1, <1>9, UpdateStep, UpdatePlaces DEF dmaFrame, dmaExpires, goTo
    <2>2. place'["sensor"] \in {"waiting", "start"} =>
             place["sensor"] \in {"waiting", "start"} /\ Elapsed(nowUs["sensor"]) <= Delay(scans)
      BY <1>1, <1>9, <2>1 DEF TransferInv
    <2> QED
      BY <1>4, <1>6, <1>9, <2>1, <2>2
  <1>10. ASSUME NEW t \in Tasks, publish(t) \/ disableDma(t) \/ startNext(t), dmaFastPath PROVE TransferInv'
    <2>1. /\ us' = us /\ scans' = scans /\ dmaFastPath' = dmaFastPath /\ mpuActive' = mpuActive
          /\ mpuStart' = mpuStart /\ served' = served
          /\ \A x \in Tasks \ {t} : place'[x] = place[x] /\ nowUs'[x] = nowUs[x]
          /\ place'[t] \in {"next", "retry", "falling", "start"}
          /\ place'[t] = "start" => nowUs'[t] = us
      <3>1. CASE publish(t)
        BY <1>1, <1>10, <3>1, UpdateStep, UpdatePlaces DEF publish, dmaVars, goTo, BusInv
      <3>2. CASE disableDma(t)
        BY <1>1, <1>10, <3>2, UpdateStep, UpdatePlaces DEF disableDma, goTo
      <3>3. CASE startNext(t)
        BY <1>1, <1>10, <3>3, UpdateStep, UpdatePlaces DEF startNext, dmaVars, takeTime, goTo
      <3> QED
        BY <1>10, <3>1, <3>2, <3>3
    <2>2. CASE t = "sensor"
      <3>1. ~Looked' /\ place'["sensor"] # "waiting"
        BY <2>1, <2>2 DEF Looked
      <3>2. mpuActive => Elapsed(mpuStart) <= Delay(scans) + DmaTimeout + 1
        BY <1>1, <1>10 DEF TransferInv
      <3> QED
        BY <1>2, <1>3, <1>4, <1>6, <1>10, <2>1, <2>2, <3>1, <3>2
    <2>3. CASE t = "telemetry"
      BY <1>1, <1>10, <2>1, <2>3 DEF TransferInv, Elapsed, Looked, Delay
    <2> QED
      BY <1>1, <2>2, <2>3
  <1>11. ASSUME NEW t \in Tasks, startMpuRead(t), dmaFastPath PROVE TransferInv'
    <2>1. /\ us' = us /\ scans' = scans /\ dmaFastPath' = dmaFastPath
          /\ mpuStart' = nowUs[t] /\ served' = served /\ nowUs' = nowUs
          /\ \A x \in Tasks \ {t} : place'[x] = place[x]
          /\ place[t] = "start" /\ place'[t] = "rest"
      BY <1>1, <1>11, UpdateStep, UpdatePlaces DEF startMpuRead, startRead, goTo
    <2>2. CASE t = "sensor"
      <3>1. Elapsed(nowUs["sensor"]) <= Delay(scans)
        BY <1>1, <1>11, <2>1, <2>2 DEF TransferInv
      <3>2. /\ Elapsed(nowUs["sensor"]) <= Delay(scans) + DmaTimeout
            /\ Elapsed(nowUs["sensor"]) <= Delay(scans) + DmaTimeout + 1
        BY <1>1, <1>2, <1>3, <3>1
      <3> QED
        BY <1>4, <1>6, <1>11, <2>1, <2>2, <3>2
    <2>3. CASE t = "telemetry"
      <3>1. nowUs[t] = us /\ place'["sensor"] = place["sensor"]
        BY <1>1, <2>1, <2>3 DEF CheckInv
      <3>2. place["sensor"] \in {"waiting", "start"} => Elapsed(nowUs["sensor"]) <= Delay(scans)
        BY <1>1, <1>11 DEF TransferInv
      <3> QED
        BY <1>2, <1>3, <1>4, <1>6, <1>11, <2>1, <3>1, <3>2
    <2> QED
      BY <1>1, <2>2, <2>3
  <1>12. ASSUME NEW d \in 0 .. ScanTime, scanI2cBus(d), dmaFastPath PROVE TransferInv'
    <2>1. /\ us' = (us + d) % MicrosSize /\ nowUs' = nowUs /\ mpuStart' = us' /\ scans' = scans + 1
          /\ place' = place /\ d \in Nat
      BY <1>12, ImuNumbers DEF scanI2cBus, restart, startRead
    <2>2. us' \in 0 .. MicrosSize - 1
      BY <1>1, <2>1, ImuClock
    <2>3. Elapsed(mpuStart)' = 0
      <3>1. MicrosSize \in Nat \ {0} /\ 0 \in Nat
        BY ImuNumbers
      <3>2. Gone(MicrosSize, us', us') = 0
        BY ONLY <2>2, <3>1, TurnsBy
      <3> QED
        BY <2>1, <3>2 DEF Gone, Elapsed
    <2>4. /\ Delay(scans) + ScanTime \in Nat /\ Delay(scans)' = Delay(scans) + ScanTime
          /\ 0 <= Delay(scans)' + DmaTimeout /\ 0 <= Delay(scans)' + DmaTimeout + 1
      BY <1>1, <1>2, <2>1, ImuNumbers DEF Delay
    <2>5. place["sensor"] \in {"waiting", "start"} => Elapsed(nowUs["sensor"])' <= Delay(scans)'
      <3> SUFFICES ASSUME place["sensor"] \in {"waiting", "start"}
                   PROVE  Elapsed(nowUs["sensor"])' <= Delay(scans)'
        OBVIOUS
      <3>1. Elapsed(nowUs["sensor"]) <= Delay(scans) /\ Elapsed(nowUs["sensor"]) \in Nat
            /\ nowUs["sensor"] \in 0 .. MicrosSize - 1
        BY <1>1, <1>3, <1>12 DEF TransferInv
      <3>2. Delay(scans) + ScanTime < MicrosSize
        <4>1. scans < MaxScans
          BY <1>12 DEF scanI2cBus
        <4>2. Span(scans + 1) < MicrosSize /\ Span(scans + 1) = Span(scans) + DmaTimeout + 1 + ScanTime
              /\ Span(scans) \in Nat /\ Delay(scans) <= Span(scans)
          <5>1. scans + 1 \in 0 .. MaxScans /\ scans \in Nat
            BY <1>1, <4>1, ImuNumbers
          <5>2. /\ Span(scans + 1) \in Nat /\ Span(scans + 1) + DmaTimeout + 1 < MicrosSize
                /\ Span(scans) \in Nat /\ Span(scans + 1) = Span(scans) + DmaTimeout + 1 + ScanTime
                /\ Delay(scans) <= Span(scans)
            BY <1>1, <5>1, Spans
          <5> QED
            BY <5>2, ImuNumbers
        <4> QED
          BY <1>2, <4>2, ImuNumbers
      <3>3. Elapsed(nowUs["sensor"]) + d < MicrosSize /\ Elapsed(nowUs["sensor"]) + d <= Delay(scans) + ScanTime
        BY <1>2, <2>1, <3>1, <3>2, ImuNumbers
      <3>4. Gone(MicrosSize, us', nowUs["sensor"]) = Elapsed(nowUs["sensor"]) + d
        BY <1>1, <2>1, <3>1, <3>3, ImuClock
      <3>5. Elapsed(nowUs["sensor"])' = Gone(MicrosSize, us', nowUs["sensor"])
        BY <2>1 DEF Gone, Elapsed
      <3> QED
        BY <2>4, <3>3, <3>4, <3>5
    <2> QED
      BY <2>1, <2>3, <2>4, <2>5 DEF TransferInv
  <1>13. CASE NextPeriod /\ dmaFastPath
    <2>1. /\ us' = (us + 1) % MicrosSize /\ dmaFastPath' = dmaFastPath /\ mpuActive' = mpuActive
          /\ mpuActive => mpuStart' = mpuStart
          /\ "sensor" \in served /\ served' = {} /\ scans' = scans
          /\ place' = place /\ place["sensor"] = "rest"
      BY <1>1, <1>13 DEF NextPeriod, checkVars
    <2>2. ASSUME mpuActive PROVE Elapsed(mpuStart)' <= Delay(scans)' + DmaTimeout + 1
      <3>1. Elapsed(mpuStart) <= Delay(scans) + DmaTimeout
        BY <1>1, <1>13, <2>1, <2>2 DEF TransferInv, Looked
      <3>2. Elapsed(mpuStart) \in Nat /\ 1 \in Nat
        BY <1>3
      <3>3. Elapsed(mpuStart) + 1 < MicrosSize /\ Elapsed(mpuStart) + 1 <= Delay(scans) + DmaTimeout + 1
        BY <1>1, <1>2, <3>1, <3>2, ImuNumbers
      <3>4. Gone(MicrosSize, us', mpuStart) = Elapsed(mpuStart) + 1
        BY <1>1, <2>1, <3>2, <3>3, ImuClock
      <3>5. Elapsed(mpuStart)' = Gone(MicrosSize, us', mpuStart) /\ Delay(scans)' = Delay(scans)
        BY <2>1, <2>2 DEF Gone, Elapsed, Delay
      <3> QED
        BY <3>3, <3>4, <3>5
    <2> QED
      BY <2>1, <2>2 DEF TransferInv, Looked
  <1>14. ASSUME NEW t \in Tasks, fallBack(t) PROVE ~dmaFastPath'
    BY <1>14 DEF fallBack
  <1>15. dmaFastPath' => dmaFastPath
    BY <1>14, AsideStep, UpdateStep, ImuSteps DEF scanI2cBus, NextPeriod
  <1> QED
    BY <1>5, <1>7, <1>8, <1>9, <1>10, <1>11, <1>12, <1>13, <1>14, <1>15, ImuSteps

\* How old the clock makes a buffer's sample, and an age up to the greatest counted.
Youth(i) == Elapsed(buf[i].stamp)
Clip(n) == IF n > MaxAge THEN MaxAge ELSE n

\* SamplesInv in numbers.
LEMMA SamplesInNumbers ==
    ASSUME ImuInv, dmaFastPath
    PROVE  /\ scans \in 0 .. MaxScans /\ Span(scans) \in Nat
           /\ us \in 0 .. MicrosSize - 1 /\ mpuStart \in 0 .. MicrosSize - 1 /\ Elapsed(mpuStart) \in Nat
           /\ writeIdx \in Indices /\ target \in [Tasks -> Indices] /\ place \in [Tasks -> Places]
           /\ buf \in [Indices -> Samples] /\ age \in [Indices -> 0 .. MaxAge]
           /\ \A i \in Indices :
                 /\ buf[i].valid \in BOOLEAN /\ buf[i].stamp \in 0 .. MicrosSize - 1
                 /\ Youth(i) \in Nat
                 /\ buf[i].valid => age[i] = Clip(Youth(i)) /\ Youth(i) <= Span(scans) + DmaTimeout + 1
           /\ mpuActive /\ buf[writeIdx].valid => Youth(writeIdx) <= Span(scans) + Elapsed(mpuStart)
           /\ Looked /\ buf[writeIdx].valid => Youth(writeIdx) <= Span(scans) + DmaTimeout
           /\ \A t \in Tasks :
                 /\ place[t] \in {"framed", "expired"} /\ buf[target[t]].valid =>
                       Youth(target[t]) <= Span(scans)
                 /\ place[t] \in {"next", "retry", "falling", "start"} /\ buf[writeIdx].valid =>
                       Youth(writeIdx) <= Span(scans)
  <1>1. /\ scans \in 0 .. MaxScans /\ us \in 0 .. MicrosSize - 1 /\ mpuStart \in 0 .. MicrosSize - 1
        /\ writeIdx \in Indices /\ target \in [Tasks -> Indices] /\ place \in [Tasks -> Places]
        /\ buf \in [Indices -> Samples] /\ age \in [Indices -> 0 .. MaxAge]
    BY DEF ImuInv, SensorTypeOK, Indices, Samples, Places
  <1>2. Span(scans) \in Nat
    BY <1>1, Spans
  <1>3. \A i \in Indices : buf[i].valid \in BOOLEAN /\ buf[i].stamp \in 0 .. MicrosSize - 1
    BY <1>1 DEF Samples
  <1>4. 0 \in Nat /\ \A t \in 0 .. MicrosSize - 1 : Elapsed(t) \in Nat
    BY <1>1, ImuClock
  <1>5. Elapsed(mpuStart) \in Nat /\ \A i \in Indices : Youth(i) \in Nat
    BY <1>1, <1>3, <1>4 DEF Youth
  <1>6. SamplesInv
    BY DEF ImuInv
  <1> QED
    BY <1>1, <1>2, <1>3, <1>5, <1>6 DEF SamplesInv, Valid, Youth, Clip

\* What SamplesInv comes to after a step.
LEMMA SamplesAfter ==
    ASSUME \A i \in Indices : buf'[i].valid =>
              /\ age'[i] = Clip(Gone(MicrosSize, us', buf'[i].stamp))
              /\ Gone(MicrosSize, us', buf'[i].stamp) <= Span(scans') + DmaTimeout + 1,
           mpuActive' /\ buf'[writeIdx'].valid =>
              Gone(MicrosSize, us', buf'[writeIdx'].stamp) <=
                 Span(scans') + Gone(MicrosSize, us', mpuStart'),
           Looked' /\ buf'[writeIdx'].valid =>
              Gone(MicrosSize, us', buf'[writeIdx'].stamp) <= Span(scans') + DmaTimeout,
           \A t \in Tasks :
              /\ place'[t] \in {"framed", "expired"} /\ buf'[target'[t]].valid =>
                    Gone(MicrosSize, us', buf'[target'[t]].stamp) <= Span(scans')
              /\ place'[t] \in {"next", "retry", "falling", "start"} /\ buf'[writeIdx'].valid =>
                    Gone(MicrosSize, us', buf'[writeIdx'].stamp) <= Span(scans')
    PROVE  SamplesInv'
  <1>1. \A x : (us' + MicrosSize - x) % MicrosSize = Gone(MicrosSize, us', x)
    BY DEF Gone
  <1> HIDE DEF Gone
  <1> QED
    BY <1>1 DEF SamplesInv, Valid, Elapsed, Clip, Span

\* More scans allow for more.
LEMMA SpansGrow ==
    ASSUME scans \in 0 .. MaxScans, scans < MaxScans
    PROVE  /\ scans + 1 \in 0 .. MaxScans /\ Span(scans + 1) \in Nat /\ Span(scans) \in Nat
           /\ Span(scans + 1) = Span(scans) + DmaTimeout + 1 + ScanTime
           /\ Span(scans + 1) < MicrosSize
  <1>1. scans + 1 \in 0 .. MaxScans /\ scans \in Nat
    BY ImuNumbers
  <1>2. /\ Span(scans + 1) \in Nat /\ Span(scans + 1) + DmaTimeout + 1 < MicrosSize
        /\ Span(scans) \in Nat /\ Span(scans + 1) = Span(scans) + DmaTimeout + 1 + ScanTime
    BY <1>1, Spans
  <1> QED
    BY <1>1, <1>2, ImuNumbers

\* A frame, or none in time: the buffer that is not published has an age of nothing.
LEMMA SampleTaken ==
    ASSUME ImuInv, dmaFastPath, NEW t \in Tasks, dmaFrame(t) \/ dmaExpires(t)
    PROVE  SamplesInv'
  <1>1. dmaFastPath /\ served' = served
    BY DEF dmaFrame, dmaExpires
  <1>2. /\ us' = us /\ scans' = scans /\ writeIdx' = writeIdx /\ ~mpuActive'
        /\ target' = [target EXCEPT ![t] = 1 - writeIdx]
        /\ age' = [age EXCEPT ![1 - writeIdx] = 0]
        /\ \E p \in {"framed", "expired"} : place' = [place EXCEPT ![t] = p]
        /\ \E s \in {NoSample, [valid |-> TRUE, stamp |-> us]} : buf' = [buf EXCEPT ![1 - writeIdx] = s]
    BY DEF dmaFrame, dmaExpires, fill, goTo, checkVars
  <1>3. PICK s \in {NoSample, [valid |-> TRUE, stamp |-> us]} : buf' = [buf EXCEPT ![1 - writeIdx] = s]
    BY <1>2
  <1>4. s.valid => s.stamp = us
    BY DEF NoSample
  <1>5. /\ us \in 0 .. MicrosSize - 1 /\ writeIdx \in Indices /\ target \in [Tasks -> Indices]
        /\ place \in [Tasks -> Places] /\ buf \in [Indices -> Samples] /\ age \in [Indices -> 0 .. MaxAge]
        /\ Span(scans) \in Nat
    BY <1>1, SamplesInNumbers
  <1>6. Gone(MicrosSize, us, us) = 0 /\ Clip(0) = 0 /\ 0 <= Span(scans) /\ DmaTimeout \in Nat
        /\ 0 <= Span(scans) + DmaTimeout + 1
    <2>1. Elapsed(us) = 0 /\ 0 \in Nat
      BY <1>5, ImuClock
    <2> QED
      BY <1>5, <2>1, ImuNumbers DEF Elapsed, Gone, Clip
  <1> DEFINE other == 1 - writeIdx
  <1>7. other \in Indices /\ other # writeIdx /\ \A i \in Indices : i = writeIdx \/ i = other
    BY <1>5 DEF Indices
  <1>8. /\ buf'[other] = s /\ buf'[writeIdx] = buf[writeIdx]
        /\ age'[other] = 0 /\ age'[writeIdx] = age[writeIdx]
        /\ target'[t] = other /\ \A x \in Tasks \ {t} : target'[x] = target[x] /\ place'[x] = place[x]
        /\ place'[t] \in {"framed", "expired"} /\ target' \in [Tasks -> Indices]
    BY <1>2, <1>3, <1>5, <1>7
  <1> HIDE DEF other
  <1>9. \A i \in Indices : Youth(i) = Gone(MicrosSize, us, buf[i].stamp)
    BY DEF Youth, Elapsed, Gone
  <1>10. \A i \in Indices : buf'[i].valid =>
            /\ age'[i] = Clip(Gone(MicrosSize, us', buf'[i].stamp))
            /\ Gone(MicrosSize, us', buf'[i].stamp) <= Span(scans') + DmaTimeout + 1
    <2>1. buf[writeIdx].valid => /\ age[writeIdx] = Clip(Gone(MicrosSize, us, buf[writeIdx].stamp))
                                 /\ Gone(MicrosSize, us, buf[writeIdx].stamp) <= Span(scans) + DmaTimeout + 1
      BY <1>1, <1>5, <1>9, SamplesInNumbers
    <2> QED
      BY <1>2, <1>4, <1>6, <1>7, <1>8, <2>1
  <1>11. \A x \in Tasks : place'[x] \in {"framed", "expired"} /\ buf'[target'[x]].valid =>
            Gone(MicrosSize, us', buf'[target'[x]].stamp) <= Span(scans')
    <2> SUFFICES ASSUME NEW x \in Tasks, place'[x] \in {"framed", "expired"}, buf'[target'[x]].valid
                 PROVE  Gone(MicrosSize, us', buf'[target'[x]].stamp) <= Span(scans')
      OBVIOUS
    <2>1. CASE target'[x] = other
      BY <1>2, <1>4, <1>6, <1>8, <2>1
    <2>2. CASE target'[x] # other
      <3>1. target'[x] = writeIdx /\ x # t /\ target[x] = writeIdx /\ place[x] \in {"framed", "expired"}
        BY <1>7, <1>8, <2>2
      <3>2. buf[writeIdx].valid
        BY <1>8, <3>1
      <3>3. Youth(writeIdx) <= Span(scans)
        BY <1>1, <3>1, <3>2, SamplesInNumbers
      <3> QED
        BY <1>2, <1>5, <1>8, <1>9, <3>1, <3>3
    <2> QED
      BY <2>1, <2>2
  <1>12. \A x \in Tasks : place'[x] \in {"next", "retry", "falling", "start"} /\ buf'[writeIdx'].valid =>
            Gone(MicrosSize, us', buf'[writeIdx'].stamp) <= Span(scans')
    <2> SUFFICES ASSUME NEW x \in Tasks, place'[x] \in {"next", "retry", "falling", "start"}, buf'[writeIdx'].valid
                 PROVE  Gone(MicrosSize, us', buf'[writeIdx'].stamp) <= Span(scans')
      OBVIOUS
    <2>1. x # t /\ place[x] \in {"next", "retry", "falling", "start"} /\ buf[writeIdx].valid
      BY <1>2, <1>8
    <2>2. Youth(writeIdx) <= Span(scans)
      BY <1>1, <2>1, SamplesInNumbers
    <2> QED
      BY <1>2, <1>5, <1>8, <1>9, <2>2
  <1>13. Looked' /\ buf'[writeIdx'].valid =>
            Gone(MicrosSize, us', buf'[writeIdx'].stamp) <= Span(scans') + DmaTimeout
    <2> SUFFICES ASSUME Looked', buf'[writeIdx'].valid
                 PROVE  Gone(MicrosSize, us', buf'[writeIdx'].stamp) <= Span(scans') + DmaTimeout
      OBVIOUS
    <2>1. t # "sensor" /\ place'["sensor"] = place["sensor"]
      BY <1>8 DEF Looked, Tasks
    <2>2. Looked /\ buf[writeIdx].valid
      BY <1>1, <1>2, <1>8, <2>1 DEF Looked
    <2>3. Youth(writeIdx) <= Span(scans) + DmaTimeout
      BY <1>1, <2>2, SamplesInNumbers
    <2> QED
      BY <1>2, <1>5, <1>8, <1>9, <2>3
  <1> QED
    BY <1>2, <1>10, <1>11, <1>12, <1>13, SamplesAfter

\* What is published is what was taken, and the next transfer begins with it, unless its
\* task falls back.
LEMMA SamplePublished ==
    ASSUME ImuInv, dmaFastPath, NEW t \in Tasks,
           publish(t) \/ disableDma(t) \/ startNext(t) \/ startMpuRead(t)
    PROVE  SamplesInv'
  <1>1. /\ us \in 0 .. MicrosSize - 1 /\ writeIdx \in Indices /\ target \in [Tasks -> Indices]
        /\ place \in [Tasks -> Places] /\ Span(scans) \in Nat /\ Elapsed(mpuStart) \in Nat
        /\ \A i \in Indices : Youth(i) \in Nat
        /\ SensorTypeOK /\ \A x \in Tasks : nowUs[x] \in 0 .. MicrosSize - 1
    BY SamplesInNumbers DEF ImuInv, SensorTypeOK
  <1>2. \A i : Youth(i) = Gone(MicrosSize, us, buf[i].stamp)
    BY DEF Youth, Elapsed, Gone
  <1>3. /\ us' = us /\ scans' = scans /\ buf' = buf /\ age' = age /\ target' = target
    BY DEF publish, disableDma, startNext, startMpuRead, bufferVars, checkVars
  <1>4. \A i \in Indices : buf'[i].valid =>
            /\ age'[i] = Clip(Gone(MicrosSize, us', buf'[i].stamp))
            /\ Gone(MicrosSize, us', buf'[i].stamp) <= Span(scans') + DmaTimeout + 1
    BY <1>2, <1>3, SamplesInNumbers
  <1>5. /\ \/ publish(t) /\ writeIdx' = target[t] /\ place[t] \in {"framed", "expired"}
           \/ ~publish(t) /\ writeIdx' = writeIdx /\ place[t] \in {"next", "retry", "falling", "start"}
        /\ place'[t] \notin {"framed", "expired"}
        /\ \A x \in Tasks \ {t} : place'[x] = place[x]
        /\ \E x \in {mpuStart} \cup {nowUs[t]} : mpuStart' = x
    <2>1. CASE publish(t)
      <3>1. place[t] # "polled"
        BY DEF ImuInv, BusInv
      <3> QED
        BY <1>1, <2>1, <3>1, UpdatePlaces DEF publish, goTo, dmaVars
    <2>2. CASE disableDma(t) \/ startNext(t) \/ startMpuRead(t)
      <3>1. ~publish(t) /\ writeIdx' = writeIdx
        BY <2>2 DEF publish, disableDma, startNext, startMpuRead
      <3>2. /\ \A x \in Tasks \ {t} : place'[x] = place[x]
            /\ \E x \in {mpuStart} \cup {nowUs[t]} : mpuStart' = x
        BY <1>1, <2>2 DEF disableDma, startNext, startMpuRead, startRead, goTo, dmaVars
      <3> QED
        BY <1>1, <2>2, <3>1, <3>2, UpdatePlaces
    <2> QED
      BY <2>1, <2>2
  <1>6. writeIdx' \in Indices /\ Gone(MicrosSize, us, buf[writeIdx'].stamp) \in Nat
    BY <1>1, <1>2, <1>5
  <1>7. buf[writeIdx'].valid => Gone(MicrosSize, us, buf[writeIdx'].stamp) <= Span(scans)
    BY <1>2, <1>5, SamplesInNumbers
  <1>8. Gone(MicrosSize, us', mpuStart') \in Nat
    <2>1. 0 \in Nat /\ mpuStart' \in 0 .. MicrosSize - 1
      BY <1>1, <1>5 DEF SensorTypeOK
    <2>2. Elapsed(mpuStart') \in Nat
      BY <1>1, <2>1, ImuClock
    <2> QED
      BY <1>3, <2>2 DEF Gone, Elapsed
  <1>9. mpuActive' /\ buf'[writeIdx'].valid =>
           Gone(MicrosSize, us', buf'[writeIdx'].stamp) <= Span(scans') + Gone(MicrosSize, us', mpuStart')
    <2>1. \A m, n, k \in Nat : m <= n => m <= n + k
      OBVIOUS
    <2> QED
      BY <1>1, <1>3, <1>6, <1>7, <1>8, <2>1
  <1>10. buf'[writeIdx'].valid =>
            Gone(MicrosSize, us', buf'[writeIdx'].stamp) <= Span(scans') + DmaTimeout
    <2>1. \A m, n, k \in Nat : m <= n => m <= n + k
      OBVIOUS
    <2> QED
      BY <1>1, <1>3, <1>6, <1>7, <2>1, ImuNumbers
  <1>11. \A x \in Tasks :
            /\ place'[x] \in {"framed", "expired"} /\ buf'[target'[x]].valid =>
                   Gone(MicrosSize, us', buf'[target'[x]].stamp) <= Span(scans')
            /\ place'[x] \in {"next", "retry", "falling", "start"} /\ buf'[writeIdx'].valid =>
                   Gone(MicrosSize, us', buf'[writeIdx'].stamp) <= Span(scans')
    <2>1. \A x \in Tasks : place'[x] \in {"framed", "expired"} => place[x] \in {"framed", "expired"}
      BY <1>5
    <2>2. \A x \in Tasks : place[x] \in {"framed", "expired"} /\ buf[target[x]].valid =>
             Gone(MicrosSize, us, buf[target[x]].stamp) <= Span(scans)
      BY <1>2, SamplesInNumbers
    <2> QED
      BY <1>3, <1>7, <2>1, <2>2
  <1> QED
    BY <1>4, <1>9, <1>10, <1>11, SamplesAfter

\* As time passes the samples age by what the clock goes on.
LEMMA SamplesAge ==
    ASSUME ImuInv, dmaFastPath, NEW d \in Nat, us' = (us + d) % MicrosSize,
           NEW i \in Indices, buf[i].valid, Youth(i) + d < MicrosSize
    PROVE  /\ Gone(MicrosSize, us', buf[i].stamp) = Youth(i) + d
           /\ Older(d)[i] = Clip(Youth(i) + d)
  <1>1. /\ us \in 0 .. MicrosSize - 1 /\ buf[i].stamp \in 0 .. MicrosSize - 1
        /\ Youth(i) \in Nat /\ age[i] = Clip(Youth(i))
    BY SamplesInNumbers
  <1>2. Elapsed(buf[i].stamp) = Youth(i)
    BY DEF Youth
  <1>3. Gone(MicrosSize, us', buf[i].stamp) = Elapsed(buf[i].stamp) + d
    BY <1>1, <1>2, ImuClock
  <1>4. Older(d)[i] = IF age[i] + d > MaxAge THEN MaxAge ELSE age[i] + d
    BY DEF Older, Indices
  <1>5. Older(d)[i] = Clip(Youth(i) + d)
    <2>1. \A m, n, k \in Nat :
             (IF (IF n > m THEN m ELSE n) + k > m THEN m ELSE (IF n > m THEN m ELSE n) + k) =
                IF n + k > m THEN m ELSE n + k
      OBVIOUS
    <2> QED
      BY <1>1, <1>4, <2>1, ImuNumbers DEF Clip
  <1> QED
    BY <1>2, <1>3, <1>5

\* A scan puts the next sample off by its time and that of the transfer it aborts.
LEMMA SampleScan ==
    ASSUME ImuInv, dmaFastPath, NEW d \in 0 .. ScanTime, scanI2cBus(d)
    PROVE  SamplesInv'
  <1>1. /\ us' = (us + d) % MicrosSize /\ age' = Older(d) /\ mpuStart' = us' /\ scans' = scans + 1
        /\ scans < MaxScans /\ buf' = buf /\ writeIdx' = writeIdx /\ target' = target /\ place' = place
    BY DEF scanI2cBus, restart, startRead
  <1>2. /\ us \in 0 .. MicrosSize - 1 /\ writeIdx \in Indices /\ target \in [Tasks -> Indices]
        /\ Span(scans) \in Nat /\ scans \in 0 .. MaxScans /\ d \in Nat
    BY SamplesInNumbers, ImuNumbers
  <1>3. /\ scans + 1 \in 0 .. MaxScans /\ Span(scans + 1) \in Nat
        /\ Span(scans + 1) = Span(scans) + DmaTimeout + 1 + ScanTime
        /\ Span(scans + 1) < MicrosSize
    BY <1>1, <1>2, SpansGrow
  <1>4. \A i \in Indices : buf'[i].valid =>
           /\ age'[i] = Clip(Gone(MicrosSize, us', buf'[i].stamp))
           /\ Gone(MicrosSize, us', buf'[i].stamp) \in Nat
           /\ Gone(MicrosSize, us', buf'[i].stamp) <= Span(scans')
    <2> SUFFICES ASSUME NEW i \in Indices, buf[i].valid
                 PROVE  /\ Older(d)[i] = Clip(Gone(MicrosSize, us', buf[i].stamp))
                        /\ Gone(MicrosSize, us', buf[i].stamp) \in Nat
                        /\ Gone(MicrosSize, us', buf[i].stamp) <= Span(scans + 1)
      BY <1>1
    <2>1. Youth(i) \in Nat /\ Youth(i) <= Span(scans) + DmaTimeout + 1
      BY SamplesInNumbers
    <2>2. Youth(i) + d \in Nat /\ Youth(i) + d <= Span(scans + 1) /\ Youth(i) + d < MicrosSize
      BY <1>2, <1>3, <2>1, ImuNumbers
    <2>3. /\ Gone(MicrosSize, us', buf[i].stamp) = Youth(i) + d
          /\ Older(d)[i] = Clip(Youth(i) + d)
      BY <1>1, <1>2, <2>2, SamplesAge
    <2> QED
      BY <2>2, <2>3
  <1>5. Gone(MicrosSize, us', mpuStart') = 0
    <2>1. us' \in 0 .. MicrosSize - 1
      BY <1>1, <1>2, ImuClock
    <2>2. MicrosSize \in Nat \ {0} /\ 0 \in Nat
      BY ImuNumbers
    <2>3. Gone(MicrosSize, us', us') = 0
      BY ONLY <2>1, <2>2, TurnsBy
    <2> QED
      BY <1>1, <2>3
  <1>6. /\ writeIdx' \in Indices /\ \A t \in Tasks : target'[t] \in Indices
        /\ Span(scans') \in Nat /\ Span(scans') + 0 = Span(scans') /\ DmaTimeout \in Nat
        /\ \A n \in Nat : n <= Span(scans') => /\ n <= Span(scans') + DmaTimeout + 1
                                               /\ n <= Span(scans') + DmaTimeout
    BY <1>1, <1>2, <1>3, ImuNumbers
  <1>7. \A i \in Indices : buf'[i].valid =>
           /\ age'[i] = Clip(Gone(MicrosSize, us', buf'[i].stamp))
           /\ Gone(MicrosSize, us', buf'[i].stamp) <= Span(scans') + DmaTimeout + 1
    BY <1>4, <1>6
  <1>8. mpuActive' /\ buf'[writeIdx'].valid =>
           Gone(MicrosSize, us', buf'[writeIdx'].stamp) <= Span(scans') + Gone(MicrosSize, us', mpuStart')
    BY <1>4, <1>5, <1>6
  <1>9. \A t \in Tasks :
           /\ place'[t] \in {"framed", "expired"} /\ buf'[target'[t]].valid =>
                 Gone(MicrosSize, us', buf'[target'[t]].stamp) <= Span(scans')
           /\ place'[t] \in {"next", "retry", "falling", "start"} /\ buf'[writeIdx'].valid =>
                 Gone(MicrosSize, us', buf'[writeIdx'].stamp) <= Span(scans')
    BY <1>4, <1>6
  <1>10. Looked' /\ buf'[writeIdx'].valid =>
            Gone(MicrosSize, us', buf'[writeIdx'].stamp) <= Span(scans') + DmaTimeout
    BY <1>4, <1>6
  <1> QED
    BY <1>7, <1>8, <1>9, <1>10, SamplesAfter

\* A period ages what is published no further than the transfer under way.
LEMMA SamplePeriod ==
    ASSUME ImuInv, dmaFastPath, NextPeriod
    PROVE  SamplesInv'
  <1>1. /\ us' = (us + 1) % MicrosSize /\ scans' = scans /\ writeIdx' = writeIdx /\ place' = place
        /\ \A t \in Tasks : place[t] = "rest"
        /\ buf' = [buf EXCEPT ![1 - writeIdx] = NoSample]
        /\ age' = [Older(1) EXCEPT ![1 - writeIdx] = 0]
        /\ "sensor" \in served
    BY DEF NextPeriod, checkVars
  <1>2. mpuActive /\ mpuStart' = mpuStart /\ Elapsed(mpuStart) <= Delay(scans) + DmaTimeout /\ Looked
    <2>1. mpuActive
      BY <1>1 DEF ImuInv, BusInv, Ending
    <2>2. Looked
      BY <1>1 DEF Looked, Tasks
    <2> QED
      BY <1>1, <2>1, <2>2 DEF NextPeriod, ImuInv, TransferInv
  <1>3. /\ us \in 0 .. MicrosSize - 1 /\ mpuStart \in 0 .. MicrosSize - 1 /\ Elapsed(mpuStart) \in Nat
        /\ writeIdx \in Indices /\ Span(scans) \in Nat /\ scans \in 0 .. MaxScans /\ DmaTimeout \in Nat
        /\ buf \in [Indices -> Samples] /\ 1 \in Nat /\ Youth(writeIdx) \in Nat
    BY SamplesInNumbers, ImuNumbers
  <1>4. /\ Span(scans) + DmaTimeout + 1 < MicrosSize
        /\ Delay(scans) \in Nat /\ Delay(scans) <= Span(scans)
    <2>1. scans \in Nat
      BY <1>3, ImuNumbers
    <2> QED
      BY <1>3, <2>1, Spans
  <1>5. Gone(MicrosSize, us', mpuStart') = Elapsed(mpuStart) + 1
    <2>1. Elapsed(mpuStart) + 1 < MicrosSize
      BY <1>2, <1>3, <1>4, ImuNumbers
    <2> QED
      BY <1>1, <1>2, <1>3, <2>1, ImuClock
  <1> DEFINE other == 1 - writeIdx
  <1>6. /\ other # writeIdx /\ other \in Indices /\ \A i \in Indices : i = writeIdx \/ i = other
    BY <1>3 DEF Indices
  <1>7. buf'[other] = NoSample /\ buf'[writeIdx] = buf[writeIdx] /\ age'[writeIdx] = Older(1)[writeIdx]
    <2>1. Older(1) \in [Indices -> 0 .. MaxAge]
      <3>1. "sensor" \in Tasks /\ SensorTypeOK
        BY DEF Tasks, ImuInv
      <3> QED
        BY <1>3, <3>1, PartTypes
    <2> QED
      BY <1>1, <1>3, <1>6, <2>1
  <1> HIDE DEF other
  <1>8. ASSUME buf[writeIdx].valid
        PROVE  /\ age'[writeIdx] = Clip(Gone(MicrosSize, us', buf[writeIdx].stamp))
               /\ Gone(MicrosSize, us', buf[writeIdx].stamp) \in Nat
               /\ Gone(MicrosSize, us', buf[writeIdx].stamp) <=
                     Span(scans) + Gone(MicrosSize, us', mpuStart')
               /\ Gone(MicrosSize, us', buf[writeIdx].stamp) <= Span(scans) + DmaTimeout + 1
    <2>1. /\ Youth(writeIdx) <= Span(scans) + Elapsed(mpuStart)
          /\ Youth(writeIdx) <= Span(scans) + DmaTimeout
      BY <1>2, <1>8, SamplesInNumbers
    <2>2. /\ Youth(writeIdx) + 1 < MicrosSize /\ Youth(writeIdx) + 1 \in Nat
          /\ Youth(writeIdx) + 1 <= Span(scans) + DmaTimeout + 1
          /\ Youth(writeIdx) + 1 <= Span(scans) + (Elapsed(mpuStart) + 1)
      BY <1>2, <1>3, <1>4, <2>1, ImuNumbers
    <2>3. /\ Gone(MicrosSize, us', buf[writeIdx].stamp) = Youth(writeIdx) + 1
          /\ Older(1)[writeIdx] = Clip(Youth(writeIdx) + 1)
      BY <1>1, <1>3, <1>8, <2>2, SamplesAge
    <2> QED
      BY <1>5, <1>7, <2>2, <2>3
  <1>9. ~NoSample.valid
    BY DEF NoSample
  <1>10. \A i \in Indices : buf'[i].valid =>
            /\ age'[i] = Clip(Gone(MicrosSize, us', buf'[i].stamp))
            /\ Gone(MicrosSize, us', buf'[i].stamp) <= Span(scans') + DmaTimeout + 1
    BY <1>1, <1>6, <1>7, <1>8, <1>9
  <1>11. mpuActive' /\ buf'[writeIdx'].valid =>
            Gone(MicrosSize, us', buf'[writeIdx'].stamp) <= Span(scans') + Gone(MicrosSize, us', mpuStart')
    BY <1>1, <1>7, <1>8
  <1>12. ~Looked'
    BY <1>1 DEF NextPeriod, Looked
  <1> QED
    BY <1>1, <1>10, <1>11, <1>12, SamplesAfter

\* On the fast path the clock goes on telling the samples' ages.
LEMMA SamplesStep == ASSUME ImuInv, SensorNext PROVE SamplesInv'
  <1> SUFFICES ASSUME dmaFastPath' PROVE SamplesInv'
    BY DEF SamplesInv
  <1>1. CASE Aside
    <2>1. /\ us' = us /\ mpuActive' = mpuActive /\ mpuStart' = mpuStart /\ buf' = buf /\ age' = age
          /\ writeIdx' = writeIdx /\ place' = place /\ target' = target /\ dmaFastPath
          /\ served' = served /\ (scans' = scans \/ skipI2cScan)
      <3>1. dmaFastPath' = dmaFastPath
        BY <1>1, AsideStep
      <3>2. dmaFastPath
        BY <3>1
      <3> QED
        BY <1>1, <3>2, AsideStep
    <2>2. Span(scans) \in Nat /\ scans \in 0 .. MaxScans /\ target \in [Tasks -> Indices]
          /\ writeIdx \in Indices /\ Elapsed(mpuStart) \in Nat /\ \A i \in Indices : Youth(i) \in Nat
      BY <2>1, SamplesInNumbers
    <2>3. Span(scans') \in Nat /\ Span(scans) <= Span(scans')
      <3>1. CASE scans' = scans
        BY <2>2, <3>1
      <3>2. CASE skipI2cScan
        <4>1. scans < MaxScans /\ scans' = scans + 1
          BY <3>2 DEF skipI2cScan
        <4> QED
          BY <2>2, <4>1, SpansGrow, ImuNumbers
      <3> QED
        BY <2>1, <3>1, <3>2
    <2>4. \A n, k \in Nat : /\ n <= Span(scans) => n <= Span(scans')
                            /\ n <= Span(scans) + k => n <= Span(scans') + k
                            /\ n <= Span(scans) + k + 1 => n <= Span(scans') + k + 1
      BY <2>2, <2>3
    <2>5. \A x : Gone(MicrosSize, us', x) = Elapsed(x)
      BY <2>1 DEF Gone, Elapsed
    <2>6. \A i : Gone(MicrosSize, us', buf'[i].stamp) = Youth(i)
      BY <2>1, <2>5 DEF Youth
    <2>7. \A i \in Indices : buf'[i].valid =>
             /\ age'[i] = Clip(Gone(MicrosSize, us', buf'[i].stamp))
             /\ Gone(MicrosSize, us', buf'[i].stamp) <= Span(scans') + DmaTimeout + 1
      BY <2>1, <2>2, <2>4, <2>6, SamplesInNumbers, ImuNumbers
    <2>8. mpuActive' /\ buf'[writeIdx'].valid =>
             Gone(MicrosSize, us', buf'[writeIdx'].stamp) <=
                Span(scans') + Gone(MicrosSize, us', mpuStart')
      BY <2>1, <2>2, <2>4, <2>5, <2>6, SamplesInNumbers
    <2>9. \A t \in Tasks :
             /\ place'[t] \in {"framed", "expired"} /\ buf'[target'[t]].valid =>
                   Gone(MicrosSize, us', buf'[target'[t]].stamp) <= Span(scans')
             /\ place'[t] \in {"next", "retry", "falling", "start"} /\ buf'[writeIdx'].valid =>
                   Gone(MicrosSize, us', buf'[writeIdx'].stamp) <= Span(scans')
      BY <2>1, <2>2, <2>4, <2>6, SamplesInNumbers
    <2>10. Looked' /\ buf'[writeIdx'].valid =>
              Gone(MicrosSize, us', buf'[writeIdx'].stamp) <= Span(scans') + DmaTimeout
      <3>1. Looked' <=> Looked
        BY <2>1 DEF Looked
      <3>2. \A n \in Nat : n <= Span(scans) + DmaTimeout => n <= Span(scans') + DmaTimeout
        BY <2>4, ImuNumbers
      <3> QED
        BY <2>1, <2>2, <2>6, <3>1, <3>2, SamplesInNumbers
    <2> QED
      BY <2>7, <2>8, <2>9, <2>10, SamplesAfter
  <1>2. ASSUME NEW t \in Tasks, pollFrame(t) PROVE SamplesInv'
    BY <1>2 DEF pollFrame
  <1>3. ASSUME NEW t \in Tasks, fallBack(t) PROVE SamplesInv'
    BY <1>3 DEF fallBack
  <1>4. ASSUME NEW t \in Tasks, publish(t) \/ disableDma(t) \/ startNext(t) \/ startMpuRead(t)
        PROVE  SamplesInv'
    <2>1. dmaFastPath
      BY <1>4 DEF publish, disableDma, startNext, startMpuRead
    <2> QED
      BY <1>4, <2>1, SamplePublished
  <1>5. ASSUME NEW d \in 0 .. ScanTime, scanI2cBus(d) PROVE SamplesInv'
    <2>1. dmaFastPath
      BY <1>5 DEF scanI2cBus
    <2> QED
      BY <1>5, <2>1, SampleScan
  <1>6. CASE NextPeriod
    <2>1. dmaFastPath
      BY <1>6 DEF NextPeriod
    <2> QED
      BY <1>6, <2>1, SamplePeriod
  <1>7. ASSUME NEW t \in Tasks, dmaFrame(t) \/ dmaExpires(t) PROVE SamplesInv'
    <2>1. dmaFastPath
      BY <1>7 DEF dmaFrame, dmaExpires
    <2> QED
      BY <1>7, <2>1, SampleTaken
  <1>8. ASSUME NEW t \in Tasks, look(t) \/ nothingYet(t) PROVE SamplesInv'
    <2>1. /\ us' = us /\ mpuActive' = mpuActive /\ mpuStart' = mpuStart /\ buf' = buf /\ age' = age
          /\ writeIdx' = writeIdx /\ target' = target /\ dmaFastPath /\ scans' = scans
      BY <1>8 DEF look, nothingYet, dmaVars, bufferVars, checkVars
    <2>2. /\ \A x \in Tasks \ {t} : place'[x] = place[x]
          /\ place'[t] \in {"ready", "waiting", "rest"} /\ (look(t) => place'[t] # "rest")
      <3>1. SensorTypeOK
        BY DEF ImuInv
      <3> QED
        BY <1>8, <3>1, UpdatePlaces DEF SensorTypeOK, look, nothingYet, goTo
    <2>3. \A x : Gone(MicrosSize, us', x) = Elapsed(x)
      BY <2>1 DEF Gone, Elapsed
    <2>4. \A i : Gone(MicrosSize, us', buf'[i].stamp) = Youth(i)
      BY <2>1, <2>3 DEF Youth
    <2>5. /\ writeIdx \in Indices /\ Span(scans) \in Nat /\ Elapsed(mpuStart) \in Nat /\ DmaTimeout \in Nat
          /\ \A i \in Indices : Youth(i) \in Nat
      BY <2>1, SamplesInNumbers, ImuNumbers
    <2>6. Looked' /\ buf[writeIdx].valid => Youth(writeIdx) <= Span(scans) + DmaTimeout
      <3> SUFFICES ASSUME Looked', buf[writeIdx].valid PROVE Youth(writeIdx) <= Span(scans) + DmaTimeout
        OBVIOUS
      <3>1. CASE t = "sensor"
        <4>1. nothingYet("sensor")
          BY <1>8, <2>2, <3>1 DEF Looked
        <4>2. mpuActive /\ Elapsed(mpuStart) <= DmaTimeout
          BY <2>1, <4>1, ReadGoesOn
        <4>3. Youth(writeIdx) <= Span(scans) + Elapsed(mpuStart)
          BY <2>1, <4>2, SamplesInNumbers
        <4> QED
          BY <2>5, <4>2, <4>3
      <3>2. CASE t = "telemetry"
        <4>1. place'["sensor"] = place["sensor"] /\ ("sensor" \in served' => "sensor" \in served)
          BY <1>8, <2>2, <3>2 DEF Tasks, look, nothingYet, enter
        <4>2. Looked
          BY <4>1 DEF Looked
        <4> QED
          BY <2>1, <4>2, SamplesInNumbers
      <3> QED
        BY <3>1, <3>2 DEF Tasks
    <2>7. \A x \in Tasks :
             /\ place'[x] \in {"framed", "expired"} => place[x] \in {"framed", "expired"}
             /\ place'[x] \in {"next", "retry", "falling", "start"} =>
                   place[x] \in {"next", "retry", "falling", "start"}
      BY <2>2
    <2> QED
      BY <2>1, <2>3, <2>4, <2>6, <2>7, SamplesInNumbers, SamplesAfter
  <1>9. CASE Aside \/ \E t \in Tasks : pollFrame(t) \/ fallBack(t)
    BY <1>1, <1>2, <1>3, <1>9
  <1> QED
    BY <1>4, <1>5, <1>6, <1>7, <1>8, <1>9, ImuSteps

\* A sample that seems young is, and a transfer is always under way.
LEMMA ImuParts ==
    ImuInv => SensorTypeOK /\ ReadUnderWay /\ FastSamplesAreFresh /\ PollingHasTheBus
  <1> SUFFICES ASSUME ImuInv PROVE ReadUnderWay /\ FastSamplesAreFresh /\ PollingHasTheBus
    BY DEF ImuInv
  <1>1. ReadUnderWay /\ PollingHasTheBus
    BY DEF ImuInv, SensorTypeOK, BusInv, Ending, ReadUnderWay, PollingHasTheBus
  <1>2. ASSUME dmaFastPath, Ok PROVE age[writeIdx] <= StaleTimeout
    <2>1. /\ Youth(writeIdx) \in Nat /\ Youth(writeIdx) <= StaleTimeout
          /\ age[writeIdx] = Clip(Youth(writeIdx))
      BY <1>2, SamplesInNumbers DEF Ok, Youth
    <2> QED
      BY <2>1, ImuNumbers DEF Clip
  <1> QED
    BY <1>1, <1>2 DEF FastSamplesAreFresh

\* Every step of the sampling keeps its invariant.
LEMMA ImuStep == ASSUME ImuInv, [SensorNext]_sensorVars PROVE ImuInv'
  <1>1. CASE SensorNext
    <2>1. SensorTypeOK'
      BY <1>1, ImuTypes DEF ImuInv
    <2> QED
      BY <1>1, <2>1, BusStep, CheckStep, TransferStep, SamplesStep DEF ImuInv
  <1>2. CASE UNCHANGED sensorVars
    <2>1. SensorTypeOK' /\ BusInv' /\ CheckInv'
      BY <1>2 DEF sensorVars, dmaVars, busVars, pollVars, bufferVars, calVars, checkVars, ImuInv,
                  SensorTypeOK, BusInv, CheckInv
    <2>2. TransferInv' /\ SamplesInv'
      BY <1>2 DEF sensorVars, dmaVars, busVars, pollVars, bufferVars, checkVars, ImuInv,
                  TransferInv, SamplesInv, Valid, Elapsed, Looked, Delay, Span
    <2> QED
      BY <2>1, <2>2 DEF ImuInv
  <1> QED
    BY <1>1, <1>2

-----------------------------------------------------------------------------
(* SensorAuxBus: the types. *)

\* What is assumed of the auxiliary bus's times.
LEMMA AuxNumbers ==
    /\ AuxMicrosSize \in Nat \ {0} /\ ConversionTime \in Nat /\ AuxFailLimit \in Nat \ {0}
    /\ MaxAuxGap \in Nat /\ MaxAuxChecks \in Nat
    /\ 0 \in 0 .. AuxMicrosSize - 1 /\ 0 \in 0 .. AuxFailLimit - 1
    /\ 0 \in 0 .. MaxAuxGap /\ 0 \in 0 .. MaxAuxChecks
    /\ \A n \in Nat : n % AuxMicrosSize \in 0 .. AuxMicrosSize - 1
  <1>1. /\ AuxMicrosSize \in Nat \ {0} /\ ConversionTime \in Nat /\ AuxFailLimit \in Nat \ {0}
        /\ MaxAuxGap \in Nat /\ MaxAuxChecks \in Nat
    BY AuxAssumption
  <1> QED
    BY <1>1

\* At the start nothing is under way on the bus.
LEMMA AuxStarts == AuxInit => AuxTypeOK
  <1> SUFFICES ASSUME AuxInit PROVE AuxTypeOK
    OBVIOUS
  <1>1. /\ auxUs \in 0 .. AuxMicrosSize - 1 /\ gap \in 0 .. MaxAuxGap
        /\ bmpWaitUntil \in 0 .. AuxMicrosSize - 1 /\ auxChecks \in 0 .. MaxAuxChecks
        /\ auxFails \in [Devices -> 0 .. AuxFailLimit - 1]
    BY AuxNumbers DEF AuxInit
  <1>2. auxHas \in [Devices -> BOOLEAN] /\ hasDevice \in [Devices -> BOOLEAN]
    BY DEF AuxInit
  <1>3. /\ present \subseteq Devices /\ magTurn \in BOOLEAN /\ auxChecking \in BOOLEAN
        /\ bmpState = "idle" /\ reading = "none"
    BY DEF AuxInit
  <1> QED
    BY <1>1, <1>2, <1>3 DEF AuxTypeOK

BmpStates == {"idle", "temp pending", "temp read", "pressure pending"}
Transactions ==
    {"none", "mag", "nobaro", "wait", "commandTemp", "readTemp", "commandPressure", "readPressure"}

\* A device that fails is counted, or dropped with its count cleared.
LEMMA FailCounts ==
    ASSUME AuxTypeOK, NEW d \in Devices, readFail(d) \/ readOk(d)
    PROVE  auxHas' \in [Devices -> BOOLEAN] /\ auxFails' \in [Devices -> 0 .. AuxFailLimit - 1]
  <1>1. auxHas \in [Devices -> BOOLEAN] /\ auxFails \in [Devices -> 0 .. AuxFailLimit - 1]
    BY DEF AuxTypeOK
  <1>2. CASE readOk(d)
    BY <1>1, <1>2, AuxNumbers DEF readOk
  <1>3. CASE readFail(d)
    <2>1. ~(auxFails[d] + 1 >= AuxFailLimit) => auxFails[d] + 1 \in 0 .. AuxFailLimit - 1
      <3>1. auxFails[d] \in 0 .. AuxFailLimit - 1 /\ AuxFailLimit \in Nat
        BY <1>1, AuxNumbers
      <3>2. \A n \in 0 .. AuxFailLimit - 1 : ~(n + 1 >= AuxFailLimit) => n + 1 \in 0 .. AuxFailLimit - 1
        BY <3>1
      <3> QED
        BY <3>1, <3>2
    <2>2. (IF auxFails[d] + 1 >= AuxFailLimit THEN 0 ELSE auxFails[d] + 1) \in 0 .. AuxFailLimit - 1
      BY <2>1, AuxNumbers
    <2>3. auxFails' = [auxFails EXCEPT ![d] = IF auxFails[d] + 1 >= AuxFailLimit THEN 0
                                              ELSE auxFails[d] + 1]
      BY <1>3 DEF readFail
    <2>4. auxHas' = [auxHas EXCEPT ![d] = FALSE] \/ auxHas' = auxHas
      BY <1>3 DEF readFail
    <2>5. auxFails' \in [Devices -> 0 .. AuxFailLimit - 1]
      BY <1>1, <2>2, <2>3
    <2>6. auxHas' \in [Devices -> BOOLEAN]
      BY <1>1, <2>4
    <2> QED
      BY <2>5, <2>6
  <1> QED
    BY <1>2, <1>3

\* A transaction leaves the devices and the barometer's conversion in their types.
LEMMA Finished ==
    ASSUME AuxTypeOK, NEW t \in Transactions, finishUpdate(t)
    PROVE  /\ auxHas' \in [Devices -> BOOLEAN] /\ hasDevice' \in [Devices -> BOOLEAN]
           /\ auxFails' \in [Devices -> 0 .. AuxFailLimit - 1]
           /\ bmpState' \in BmpStates /\ bmpWaitUntil' \in 0 .. AuxMicrosSize - 1
           /\ magTurn' \in BOOLEAN
  <1>1. /\ auxHas \in [Devices -> BOOLEAN] /\ auxFails \in [Devices -> 0 .. AuxFailLimit - 1]
        /\ bmpState \in BmpStates /\ bmpWaitUntil \in 0 .. AuxMicrosSize - 1 /\ magTurn \in BOOLEAN
        /\ auxUs \in 0 .. AuxMicrosSize - 1 /\ "mag" \in Devices /\ "baro" \in Devices
    BY DEF AuxTypeOK, BmpStates, Devices
  <1>2. hasDevice' = auxHas'
    BY DEF finishUpdate
  <1>3. CASE t = "mag"
    <2>1. /\ readOk("mag") \/ readFail("mag")
          /\ magTurn' = FALSE /\ bmpState' = bmpState /\ bmpWaitUntil' = bmpWaitUntil
      BY <1>3 DEF finishUpdate, readMag
    <2> QED
      BY <1>1, <1>2, <2>1, FailCounts
  <1>4. CASE t # "mag"
    <2>1. readBaro(t)
      BY <1>4 DEF finishUpdate
    <2>2. magTurn' \in BOOLEAN
      BY <1>1, <2>1 DEF readBaro
    <2>3. \A s \in BmpStates : baroFails(s) => /\ auxHas' \in [Devices -> BOOLEAN]
                                               /\ auxFails' \in [Devices -> 0 .. AuxFailLimit - 1]
                                               /\ bmpState' \in BmpStates
                                               /\ bmpWaitUntil' \in 0 .. AuxMicrosSize - 1
      <3> SUFFICES ASSUME NEW s \in BmpStates, baroFails(s)
                   PROVE  /\ auxHas' \in [Devices -> BOOLEAN]
                          /\ auxFails' \in [Devices -> 0 .. AuxFailLimit - 1]
                          /\ bmpState' \in BmpStates
                          /\ bmpWaitUntil' \in 0 .. AuxMicrosSize - 1
        OBVIOUS
      <3>1. readFail("baro") /\ bmpWaitUntil' = bmpWaitUntil /\ bmpState' \in {s, "idle"}
        BY DEF baroFails
      <3> QED
        BY <1>1, <3>1, FailCounts DEF BmpStates
    <2>4. CASE t = "nobaro" \/ t = "wait"
      BY <1>1, <1>2, <2>1, <2>2, <2>4 DEF readBaro
    <2>5. CASE t \notin {"nobaro", "wait"} /\ ~answers("baro")
                  /\ t \in {"commandTemp", "readTemp", "commandPressure", "readPressure"}
      <3>1. baroFails(bmpState)
        BY <2>1, <2>5 DEF readBaro
      <3> QED
        BY <1>1, <1>2, <2>2, <2>3, <3>1
    <2>6. CASE /\ t \notin {"nobaro", "wait"}
               /\ ~(~answers("baro")
                       /\ t \in {"commandTemp", "readTemp", "commandPressure", "readPressure"})
      <3>1. \/ /\ bmpWaitUntil' = (auxUs + ConversionTime) % AuxMicrosSize
               /\ bmpState' \in {"temp pending", "pressure pending"}
               /\ UNCHANGED <<auxFails, auxHas>>
            \/ bmpState' = "temp read" /\ UNCHANGED <<auxFails, auxHas, bmpWaitUntil>>
            \/ bmpState' = "idle" /\ readOk("baro") /\ UNCHANGED bmpWaitUntil
            \/ baroFails("idle")
        <4>1. \/ /\ t \in {"commandTemp", "commandPressure"}
                 /\ bmpWaitUntil' = (auxUs + ConversionTime) % AuxMicrosSize
                 /\ bmpState' = IF t = "commandTemp" THEN "temp pending" ELSE "pressure pending"
                 /\ UNCHANGED <<auxFails, auxHas>>
              \/ /\ t = "readTemp"
                 /\ bmpState' = "temp read"
                 /\ UNCHANGED <<auxFails, auxHas, bmpWaitUntil>>
              \/ /\ t = "readPressure"
                 /\ bmpState' = "idle"
                 /\ readOk("baro")
                 /\ UNCHANGED bmpWaitUntil
              \/ t = "readPressure" /\ baroFails("idle")
          BY <2>1, <2>6 DEF readBaro
        <4> QED
          BY <4>1
      <3>2. auxUs + ConversionTime \in Nat
        BY <1>1, AuxNumbers
      <3>3. (auxUs + ConversionTime) % AuxMicrosSize \in 0 .. AuxMicrosSize - 1
        BY <3>2, AuxNumbers
      <3> QED
        BY <1>1, <1>2, <2>2, <2>3, <3>1, <3>3, FailCounts DEF BmpStates
    <2> QED
      BY <2>4, <2>5, <2>6
  <1> QED
    BY <1>3, <1>4

\* Every step of the auxiliary bus keeps its types.
LEMMA AuxStep == ASSUME AuxTypeOK, [AuxNext]_auxVars PROVE AuxTypeOK'
  <1>1. /\ auxUs \in 0 .. AuxMicrosSize - 1 /\ gap \in 0 .. MaxAuxGap /\ present \subseteq Devices
        /\ auxHas \in [Devices -> BOOLEAN] /\ hasDevice \in [Devices -> BOOLEAN]
        /\ auxFails \in [Devices -> 0 .. AuxFailLimit - 1] /\ bmpState \in BmpStates
        /\ bmpWaitUntil \in 0 .. AuxMicrosSize - 1 /\ magTurn \in BOOLEAN /\ reading \in Transactions
        /\ auxChecking \in BOOLEAN /\ auxChecks \in 0 .. MaxAuxChecks
    BY DEF AuxTypeOK, BmpStates, Transactions
  <1>2. transaction \in Transactions
    <2>1. transaction \in {"mag", "nobaro", "commandTemp", "commandPressure", "wait", "readTemp",
                           "readPressure"}
      <3>1. CASE bmpState = "idle"
        BY <3>1 DEF transaction
      <3>2. CASE bmpState = "temp read"
        BY <3>2 DEF transaction
      <3>3. CASE bmpState \notin {"idle", "temp read"}
        BY <3>3 DEF transaction
      <3> QED
        BY <3>1, <3>2, <3>3
    <2> QED
      BY <2>1 DEF Transactions
  <1>3. ASSUME auxUs' \in 0 .. AuxMicrosSize - 1, gap' \in 0 .. MaxAuxGap, present' \subseteq Devices,
               auxHas' \in [Devices -> BOOLEAN], hasDevice' \in [Devices -> BOOLEAN],
               auxFails' \in [Devices -> 0 .. AuxFailLimit - 1], bmpState' \in BmpStates,
               bmpWaitUntil' \in 0 .. AuxMicrosSize - 1, magTurn' \in BOOLEAN,
               reading' \in Transactions, auxChecking' \in BOOLEAN, auxChecks' \in 0 .. MaxAuxChecks
        PROVE  AuxTypeOK'
    BY <1>3 DEF AuxTypeOK, BmpStates, Transactions
  <1>5. CASE beginAuxUpdate
    BY <1>1, <1>2, <1>3, <1>5, AuxNumbers DEF beginAuxUpdate, auxCheckVars
  <1>6. CASE endAuxUpdate
    BY <1>1, <1>3, <1>6, Finished DEF endAuxUpdate, auxClockVars, auxCheckVars, Transactions
  <1>7. CASE updateInCheck
    BY <1>1, <1>2, <1>3, <1>7, Finished DEF updateInCheck, auxClockVars, auxCheckVars
  <1>8. CASE skipScan
    <2>1. auxChecks' \in 0 .. MaxAuxChecks
      BY <1>1, <1>8, AuxNumbers DEF skipScan
    <2> QED
      BY <1>1, <1>3, <1>8, <2>1 DEF skipScan, auxClockVars
  <1>9. CASE scanDevices
    <2>1. auxChecks' \in 0 .. MaxAuxChecks
      BY <1>1, <1>9, AuxNumbers DEF scanDevices
    <2>2. /\ auxHas' \in [Devices -> BOOLEAN] /\ hasDevice' \in [Devices -> BOOLEAN]
          /\ auxFails' \in [Devices -> 0 .. AuxFailLimit - 1]
      BY <1>1, <1>9, AuxNumbers DEF scanDevices
    <2> QED
      BY <1>1, <1>3, <1>9, <2>1, <2>2 DEF scanDevices, auxClockVars, BmpStates
  <1>10. CASE endAuxCheck
    BY <1>1, <1>3, <1>10 DEF endAuxCheck, auxClockVars
  <1>11. CASE auxTick
    <2>1. auxUs' \in 0 .. AuxMicrosSize - 1 /\ gap' \in 0 .. MaxAuxGap
      <3>1. auxUs + 1 \in Nat /\ auxUs' = (auxUs + 1) % AuxMicrosSize /\ gap < MaxAuxGap /\ gap' = gap + 1
        BY <1>1, <1>11 DEF auxTick
      <3> QED
        BY <1>1, <3>1, AuxNumbers
    <2> QED
      BY <1>1, <1>3, <1>11, <2>1 DEF auxTick, auxCheckVars
  <1>12. ASSUME NEW d \in Devices, plug(d) PROVE AuxTypeOK'
    <2>1. present' \subseteq Devices
      BY <1>1, <1>12 DEF plug
    <2> QED
      BY <1>1, <1>3, <1>12, <2>1 DEF plug, auxClockVars, auxCheckVars
  <1>13. CASE UNCHANGED auxVars
    BY <1>1, <1>3, <1>13 DEF auxVars, auxClockVars, auxCheckVars
  <1> QED
    BY <1>5, <1>6, <1>7, <1>8, <1>9, <1>10, <1>11, <1>12, <1>13 DEF AuxNext

-----------------------------------------------------------------------------
(* SensorPipeline: the estimate is usable whenever the sensor is well. *)

Kalmans == [initialized : BOOLEAN, altitudeM : Heights, rejects : 0..RejectCap, wide : BOOLEAN]
Fallbacks == [hasAltitude : BOOLEAN, altitudeM : Heights]

\* What is assumed of the heights, and what lies between two of them.
LEMMA PipelineNumbers ==
    /\ Ceiling \in Nat /\ Gate \in Nat /\ MaxRejects \in Nat \ {0} /\ RejectCap = MaxRejects + 1
    /\ 0 \in Heights /\ 0 \in 0..RejectCap /\ 0 <= MaxRejects /\ Unmeasured \notin Heights
    /\ \A a, b \in Heights : Between(a, b) \subseteq Heights
    /\ \A n \in 0..RejectCap : Lower(n + 1, RejectCap) \in 0..RejectCap
  <1>1. Ceiling \in Nat /\ Gate \in Nat /\ MaxRejects \in Nat \ {0} /\ RejectCap = MaxRejects + 1
    BY PipelineAssumption DEF RejectCap
  <1>2. \A a, b \in Heights : Between(a, b) \subseteq Heights
    BY <1>1 DEF Between, Lower, Upper, Heights
  <1>3. \A n \in 0..RejectCap : Lower(n + 1, RejectCap) \in 0..RejectCap
    BY <1>1 DEF Lower
  <1>4. 0 \in Heights /\ 0 \in 0..RejectCap /\ 0 <= MaxRejects /\ Unmeasured \notin Heights
    BY <1>1 DEF Heights, Unmeasured
  <1> QED
    BY <1>1, <1>2, <1>3, <1>4

\* What an update makes of the Kalman filter.
LEMMA KalmanUpdate ==
    ASSUME NEW k \in Kalmans, NEW baro \in Heights \cup {Unmeasured}, NEW new \in kalmanUpdates(k, baro)
    PROVE  /\ new \in Kalmans
           /\ new.initialized <=> k.initialized \/ baro # Unmeasured
           /\ k.initialized /\ baro = Unmeasured => new.rejects = k.rejects
           /\ k.initialized /\ baro # Unmeasured =>
                 new.rejects = 0 \/ new.rejects = Lower(k.rejects + 1, RejectCap)
  <1>1. CASE ~k.initialized
    <2>1. new = IF baro = Unmeasured THEN k ELSE [k EXCEPT !.initialized = TRUE, !.altitudeM = baro]
      BY <1>1 DEF kalmanUpdates
    <2>2. CASE baro = Unmeasured
      BY <1>1, <2>1, <2>2
    <2>3. CASE baro # Unmeasured
      <3>1. new = [k EXCEPT !.initialized = TRUE, !.altitudeM = baro] /\ baro \in Heights
        BY <2>1, <2>3
      <3>2. new \in Kalmans /\ new.initialized
        BY <3>1 DEF Kalmans
      <3> QED
        BY <1>1, <2>3, <3>2
    <2> QED
      BY <2>2, <2>3
  <1>2. CASE k.initialized
    <2>1. PICK p \in predictions(k) : new \in IF baro = Unmeasured THEN {p} ELSE corrections(p, baro)
      BY <1>2 DEF kalmanUpdates
    <2>2. p \in Kalmans /\ p.initialized /\ p.rejects = k.rejects
      <3> DEFINE near == {h \in Heights : Apart(h, k.altitudeM) <= 1}
                 drifted == {[k EXCEPT !.altitudeM = a] : a \in near}
      <3>1. p \in drifted \cup {[q EXCEPT !.wide = TRUE] : q \in drifted}
        BY DEF predictions
      <3>2. ASSUME NEW q \in drifted PROVE q \in Kalmans /\ q.initialized /\ q.rejects = k.rejects
        BY <1>2 DEF Kalmans
      <3> HIDE DEF drifted
      <3>3. CASE p \in drifted
        BY <3>2, <3>3
      <3>4. ASSUME NEW q \in drifted, p = [q EXCEPT !.wide = TRUE]
            PROVE  p \in Kalmans /\ p.initialized /\ p.rejects = k.rejects
        BY <3>2, <3>4 DEF Kalmans
      <3> QED
        BY <3>1, <3>3, <3>4
    <2>3. CASE baro = Unmeasured
      BY <1>2, <2>1, <2>2, <2>3
    <2>4. CASE baro # Unmeasured
      <3>1. baro \in Heights /\ new \in corrections(p, baro)
        BY <2>1, <2>4
      <3>2. CASE new = reject(p)
        <4>1. Lower(p.rejects + 1, RejectCap) \in 0..RejectCap
          BY <2>2, PipelineNumbers DEF Kalmans
        <4>2. new \in Kalmans /\ new.initialized /\ new.rejects = Lower(p.rejects + 1, RejectCap)
          BY <2>2, <3>2, <4>1 DEF reject, Kalmans
        <4> QED
          BY <1>2, <2>2, <2>4, <4>2
      <3> DEFINE drawn == {[p EXCEPT !.altitudeM = a, !.rejects = 0] : a \in Between(p.altitudeM, baro)}
      <3>3. CASE new \in drawn \cup {[q EXCEPT !.wide = FALSE] : q \in drawn}
        <4>1. Between(p.altitudeM, baro) \subseteq Heights /\ 0 \in 0..RejectCap
          BY <2>2, <3>1, PipelineNumbers DEF Kalmans
        <4>2. ASSUME NEW q \in drawn PROVE q \in Kalmans /\ q.initialized /\ q.rejects = 0
          BY <2>2, <4>1 DEF Kalmans
        <4> HIDE DEF drawn
        <4>3. ASSUME NEW q \in drawn, new = [q EXCEPT !.wide = FALSE]
              PROVE  new \in Kalmans /\ new.initialized /\ new.rejects = 0
          BY <4>2, <4>3 DEF Kalmans
        <4> QED
          BY <1>2, <2>4, <3>3, <4>2, <4>3
      <3>4. new = reject(p) \/ new \in drawn \cup {[q EXCEPT !.wide = FALSE] : q \in drawn}
        BY <3>1 DEF corrections
      <3> QED
        BY <3>2, <3>3, <3>4
    <2> QED
      BY <2>3, <2>4
  <1> QED
    BY <1>1, <1>2

\* A height between two of which one is in a range and the other measured is in a range of
\* measured heights.
LEMMA StaysBetween ==
    ASSUME NEW S \in SUBSET Heights, NEW a \in Heights, NEW b \in Heights, NEW low \in S, NEW high \in S,
           a \in low..high, NEW c \in Between(a, b)
    PROVE  \E m, n \in S \cup {b} : c \in m..n
  <1>1. Ceiling \in Nat
    BY PipelineNumbers
  <1>2. \A x \in S \cup {b} : x \in Nat
    BY <1>1 DEF Heights
  <1>3. low \in Nat /\ high \in Nat /\ a \in Nat /\ b \in Nat /\ low <= a /\ a <= high
        /\ low \in S \cup {b} /\ high \in S \cup {b} /\ b \in S \cup {b}
    BY <1>2
  <1>4. c \in Nat /\ (a <= b => a <= c /\ c <= b) /\ (b <= a => b <= c /\ c <= a)
    BY <1>3 DEF Between, Lower, Upper
  <1>5. CASE a <= b
    <2>1. c \in low..b
      BY <1>3, <1>4, <1>5
    <2> QED
      BY <1>3, <2>1
  <1>6. CASE b <= a
    <2>1. c \in b..high
      BY <1>3, <1>4, <1>6
    <2> QED
      BY <1>3, <2>1
  <1> QED
    BY <1>3, <1>5, <1>6

\* What an update makes of the fallback.
LEMMA FallbackUpdate ==
    ASSUME NEW f \in Fallbacks, NEW baro \in Heights \cup {Unmeasured}, NEW new \in fallbackUpdates(f, baro),
           NEW S \in SUBSET Heights, f.hasAltitude => \E low, high \in S : f.altitudeM \in low..high
    PROVE  /\ new \in Fallbacks
           /\ new.hasAltitude <=> f.hasAltitude \/ baro # Unmeasured
           /\ new.hasAltitude =>
                 \E low, high \in S \cup ({baro} \ {Unmeasured}) : new.altitudeM \in low..high
  <1>1. CASE baro = Unmeasured
    <2>1. new = f
      BY <1>1 DEF fallbackUpdates
    <2> QED
      BY <1>1, <2>1
  <1>2. CASE baro # Unmeasured /\ ~f.hasAltitude
    <2>1. new = [hasAltitude |-> TRUE, altitudeM |-> baro] /\ baro \in Heights
      BY <1>2 DEF fallbackUpdates
    <2>2. baro \in Nat /\ baro \in baro..baro
      BY <2>1, PipelineNumbers DEF Heights
    <2> QED
      BY <1>2, <2>1, <2>2 DEF Fallbacks
  <1>3. CASE baro # Unmeasured /\ f.hasAltitude
    <2>1. /\ baro \in Heights /\ f.altitudeM \in Heights
          /\ \E a \in Between(f.altitudeM, baro) : new = [f EXCEPT !.altitudeM = a]
      <3>1. new \in {[f EXCEPT !.altitudeM = a] : a \in Between(f.altitudeM, baro)}
        BY <1>3 DEF fallbackUpdates
      <3> QED
        BY <1>3, <3>1 DEF Fallbacks
    <2>2. PICK a \in Between(f.altitudeM, baro) : new = [f EXCEPT !.altitudeM = a]
      BY <2>1
    <2>3. a \in Heights
      BY <2>1, PipelineNumbers
    <2>4. new \in Fallbacks /\ new.hasAltitude /\ new.altitudeM = a
      BY <1>3, <2>2, <2>3 DEF Fallbacks
    <2>5. PICK low \in S, high \in S : f.altitudeM \in low..high
      BY <1>3
    <2>6. \E m, n \in S \cup {baro} : a \in m..n
      BY <2>1, <2>5, StaysBetween
    <2> QED
      BY <1>3, <2>4, <2>6
  <1> QED
    BY <1>1, <1>2, <1>3

\* At the start nothing has been measured and nothing is valid.
LEMMA EstimateStarts == PipelineInit => EstimateInv
  <1> SUFFICES ASSUME PipelineInit PROVE EstimateInv
    OBVIOUS
  <1>1. PipelineTypeOK
    BY PipelineNumbers DEF PipelineInit, PipelineTypeOK, SensorHealths
  <1>2. ~kalman.initialized /\ ~fallback.hasAltitude /\ measured = {} /\ farUpdates = 0
        /\ kalman.rejects = 0 /\ ~estimated.valid /\ sensorHealth = "WarmingUp"
    BY DEF PipelineInit
  <1> QED
    BY <1>1, <1>2 DEF EstimateInv, EstimateIsUsable

\* Every update keeps the estimate's invariant: a filter that has refused too often calls
\* itself stale, and the fallback's height is published.
LEMMA EstimateStep == ASSUME EstimateInv, [updatePipeline]_pipelineVars PROVE EstimateInv'
  <1>1. CASE UNCHANGED pipelineVars
    BY <1>1 DEF pipelineVars, EstimateInv, PipelineTypeOK, EstimateIsUsable
  <1>2. CASE updatePipeline
    <2>1. PICK health \in SensorHealths, baro \in Heights \cup {Unmeasured} :
             /\ sensorHealth' = health
             /\ kalman' \in kalmanUpdates(kalman, baro)
             /\ fallback' \in fallbackUpdates(fallback, baro)
             /\ estimated' = choose(kalman', fallback', kalmanHealth(kalman', health, baro), health)
             /\ measured' = measured \cup ({baro} \ {Unmeasured})
             /\ farUpdates' = IF ~kalman.initialized \/ baro = Unmeasured THEN farUpdates
                              ELSE IF kalman'.rejects = 0 THEN 0
                              ELSE Lower(farUpdates + 1, MaxRejects)
      BY <1>2 DEF updatePipeline
    <2>2. /\ kalman \in Kalmans /\ fallback \in Fallbacks /\ measured \in SUBSET Heights
          /\ farUpdates \in Nat /\ farUpdates <= kalman.rejects /\ kalman.rejects \in 0..RejectCap
          /\ kalman.initialized <=> fallback.hasAltitude
          /\ fallback.hasAltitude => \E low, high \in measured : fallback.altitudeM \in low..high
          /\ ~kalman.initialized => farUpdates = 0
      BY DEF EstimateInv, PipelineTypeOK, Kalmans, Fallbacks
    <2>3. /\ kalman' \in Kalmans
          /\ kalman'.initialized <=> kalman.initialized \/ baro # Unmeasured
          /\ kalman.initialized /\ baro = Unmeasured => kalman'.rejects = kalman.rejects
          /\ kalman.initialized /\ baro # Unmeasured =>
                kalman'.rejects = 0 \/ kalman'.rejects = Lower(kalman.rejects + 1, RejectCap)
      BY <2>1, <2>2, KalmanUpdate
    <2>4. /\ fallback' \in Fallbacks
          /\ fallback'.hasAltitude <=> fallback.hasAltitude \/ baro # Unmeasured
          /\ fallback'.hasAltitude => \E low, high \in measured' : fallback'.altitudeM \in low..high
      BY <2>1, <2>2, FallbackUpdate
    <2>5. measured' \subseteq Heights /\ (kalman'.initialized <=> fallback'.hasAltitude)
      BY <2>1, <2>2, <2>3, <2>4
    <2>6. /\ farUpdates' \in Nat /\ farUpdates' <= kalman'.rejects
          /\ ~kalman'.initialized => farUpdates' = 0
      <3>1. kalman'.rejects \in 0..RejectCap
        BY <2>3 DEF Kalmans
      <3>2. CASE ~kalman.initialized
        <4>1. farUpdates' = 0
          BY <2>1, <2>2, <3>2
        <4> QED
          BY <3>1, <4>1, PipelineNumbers
      <3>3. CASE kalman.initialized /\ baro = Unmeasured
        <4>1. farUpdates' = farUpdates /\ kalman'.rejects = kalman.rejects /\ kalman'.initialized
          BY <2>1, <2>3, <3>3
        <4> QED
          BY <2>2, <4>1
      <3>4. CASE kalman.initialized /\ baro # Unmeasured
        <4>1. /\ farUpdates' = IF kalman'.rejects = 0 THEN 0 ELSE Lower(farUpdates + 1, MaxRejects)
              /\ kalman'.rejects = 0 \/ kalman'.rejects = Lower(kalman.rejects + 1, RejectCap)
              /\ kalman'.initialized
          BY <2>1, <2>3, <3>4
        <4>2. farUpdates' \in Nat /\ farUpdates' <= kalman'.rejects
          <5>1. CASE kalman'.rejects = 0
            BY <4>1, <5>1
          <5>2. CASE kalman'.rejects # 0
            <6>1. /\ farUpdates' = Lower(farUpdates + 1, MaxRejects)
                  /\ kalman'.rejects = Lower(kalman.rejects + 1, RejectCap)
              BY <4>1, <5>2
            <6> QED
              BY <2>2, <6>1, PipelineNumbers DEF Lower
          <5> QED
            BY <5>1, <5>2
        <4> QED
          BY <4>1, <4>2
      <3> QED
        BY <3>2, <3>3, <3>4
    <2> DEFINE judged == kalmanHealth(kalman', health, baro)
    <2>7. /\ judged \in SensorHealths
          /\ judged = "Ok" => health = "Ok"
          /\ kalman'.initialized /\ kalman'.rejects >= MaxRejects => judged = "Stale"
      BY <2>1 DEF kalmanHealth, SensorHealths
    <2>8. estimated' = IF judged # "Ok" /\ health = "Ok"
                         THEN [altitudeM |-> fallback'.altitudeM, health |-> health, valid |-> TRUE]
                         ELSE [altitudeM |-> kalman'.altitudeM, health |-> judged, valid |-> judged = "Ok"]
      BY <2>1 DEF choose
    <2> HIDE DEF judged
    <2>9. /\ estimated' \in [altitudeM : Heights, health : SensorHealths, valid : BOOLEAN]
          /\ estimated'.valid <=> health = "Ok"
          /\ estimated'.valid => estimated'.health = "Ok"
          /\ judged = "Stale" /\ estimated'.valid => estimated'.altitudeM = fallback'.altitudeM
      <3>1. kalman'.altitudeM \in Heights /\ fallback'.altitudeM \in Heights
        BY <2>3, <2>4 DEF Kalmans, Fallbacks
      <3>2. CASE judged # "Ok" /\ health = "Ok"
        <4>1. estimated' = [altitudeM |-> fallback'.altitudeM, health |-> health, valid |-> TRUE]
          BY <2>8, <3>2
        <4>2. /\ estimated'.altitudeM = fallback'.altitudeM /\ estimated'.health = health
              /\ estimated'.valid
              /\ estimated' \in [altitudeM : Heights, health : SensorHealths, valid : BOOLEAN]
          BY <2>1, <3>1, <4>1
        <4> QED
          BY <3>2, <4>2
      <3>3. CASE ~(judged # "Ok" /\ health = "Ok")
        <4>1. estimated' = [altitudeM |-> kalman'.altitudeM, health |-> judged, valid |-> judged = "Ok"]
          BY <2>8, <3>3
        <4>2. /\ estimated'.altitudeM = kalman'.altitudeM /\ estimated'.health = judged
              /\ estimated'.valid = (judged = "Ok")
              /\ estimated' \in [altitudeM : Heights, health : SensorHealths, valid : BOOLEAN]
          BY <2>7, <3>1, <4>1
        <4>3. judged = "Ok" <=> health = "Ok"
          BY <2>7, <3>3
        <4> QED
          BY <4>2, <4>3
      <3> QED
        BY <3>2, <3>3
    <2>10. PipelineTypeOK'
      BY <2>1, <2>3, <2>4, <2>9 DEF PipelineTypeOK, Kalmans, Fallbacks
    <2>11. EstimateIsUsable'
      <3>1. ASSUME estimated'.valid, farUpdates' >= MaxRejects
            PROVE  \E low, high \in measured' : estimated'.altitudeM \in low..high
        <4>1. kalman'.initialized
          BY <2>6, <3>1, PipelineNumbers
        <4>2. kalman'.rejects >= MaxRejects
          <5>1. kalman'.rejects \in 0..RejectCap
            BY <2>3 DEF Kalmans
          <5> QED
            BY <2>6, <3>1, <5>1, PipelineNumbers
        <4>3. estimated'.altitudeM = fallback'.altitudeM
          BY <2>7, <2>9, <3>1, <4>1, <4>2
        <4> QED
          BY <2>4, <2>5, <4>1, <4>3
      <3> QED
        BY <2>1, <2>9, <3>1 DEF EstimateIsUsable
    <2> QED
      BY <2>4, <2>5, <2>6, <2>10, <2>11 DEF EstimateInv
  <1> QED
    BY <1>1, <1>2

-----------------------------------------------------------------------------
(* The whole. *)

servicesVars == <<component, vars, sensorVars, auxVars, pipelineVars>>
ServicesInv == CommandsInv /\ ImuInv /\ AuxTypeOK /\ EstimateInv

\* At the start each component's invariant holds.
LEMMA ServicesStart == ServicesInit => ServicesInv
  BY CommandsStart, ImuStarts, AuxStarts, EstimateStarts DEF ServicesInit, ServicesInv

\* A step is one of a single component, and the others keep their invariants with their
\* states.
LEMMA ServicesStep == ASSUME ServicesInv, [ServicesNext]_servicesVars PROVE ServicesInv'
  <1>1. [Next]_vars /\ [SensorNext]_sensorVars /\ [AuxNext]_auxVars /\ [updatePipeline]_pipelineVars
    BY DEF ServicesNext, servicesVars
  <1> QED
    BY <1>1, CommandsStep, ImuStep, AuxStep, EstimateStep DEF ServicesInv

\* The invariant holds throughout.
LEMMA ServicesInvariant == ServicesSpec => []ServicesInv
  <1>1. ServicesInit => ServicesInv
    BY ServicesStart
  <1>2. ServicesInv /\ [ServicesNext]_servicesVars => ServicesInv'
    BY ServicesStep
  <1> QED
    BY <1>1, <1>2, PTL DEF ServicesSpec, servicesVars

\* The mailbox and the processor keep their types.
THEOREM CommandsTypeCorrect == ServicesSpec => []TypeOK
  <1>1. ServicesInv => TypeOK
    BY DEF ServicesInv, CommandsInv
  <1> QED
    BY <1>1, ServicesInvariant, PTL

\* Requests are served in the order they were accepted, each once (submit() and claim()
\* of the mailbox's request slot).
THEOREM RequestsKeepOrder == ServicesSpec => []RequestsInOrder
  <1>1. ServicesInv => RequestsInOrder
    BY SlotOrder DEF ServicesInv, CommandsInv
  <1> QED
    BY <1>1, ServicesInvariant, PTL

\* A calibration that was reported as started is reported as ended once, and no other end
\* is (process() of the service command processor).
THEOREM StartsHaveOutcomes == ServicesSpec => []OneOutcomePerStart
  <1>1. ServicesInv => OneOutcomePerStart
    BY CalibrationEven DEF ServicesInv, CommandsInv
  <1> QED
    BY <1>1, ServicesInvariant, PTL

\* On the fast path a read is always under way, whichever task's update() or scan
\* interrupted which, a sample that getLatest() calls Ok is as young as it says, a bus that
\* is polled is not the DMA's unless a check started a read between the two stores of the
\* fall-back, and the estimate is valid exactly when the sensor is well.
THEOREM SensorsAlwaysHold == ServicesSpec => []SensorsHold
  <1>1. ServicesInv => SensorsHold
    BY ImuParts DEF ServicesInv, SensorsHold, EstimateInv
  <1> QED
    BY <1>1, ServicesInvariant, PTL
=============================================================================
