--------------------------- MODULE StorageProofs ---------------------------
(***************************************************************************)
(* Proofs about Storage: the parameters and the pins, and, from            *)
(* FlashJournalProofs, the journal beside them.  They share no state, so   *)
(* each has an inductive invariant of its own.                             *)
(***************************************************************************)
EXTENDS Storage, FlashJournalProofs, SequenceTheorems, FiniteSetTheorems,
        WellFoundedInduction

-----------------------------------------------------------------------------
(* ParamManager. *)

\* What a save writes is what the parameters are, and its first attempt was begun disarmed.
SaveInv ==
    /\ step \in {"attempt", "delay"} => saveBlob = params
    /\ step = "attempt" /\ saveAttempt = 0 => ~armed

\* Before the parameters are loaded nothing has been reported.
LoadInv == step = "load" => \A i \in ParamIndices : reported[i] = None

Half == ClockSize \div 2

\* A running list waits for the clock to wrap, or has been served in this turn and is due
\* in the next one, or is due in this one.
ListInv ==
    sendActive =>
        /\ sendIndex <= SaveIndex
        /\ \/ ~early /\ nextSendMs = 0 /\ now >= Half /\ silent <= now - Half
           \/ served /\ silent = 0 /\ nextSendMs = (now + 1) % ClockSize
           \/ ~served /\ due /\ silent <= (IF early THEN 1 ELSE Half)

ParamInv ==
    /\ ParamTypeOK /\ AppliedIsCurrent /\ CleanMeansStored /\ GroundStationInSync
    /\ SaveInv /\ LoadInv /\ ListInv

-----------------------------------------------------------------------------
(* ModuleSetup. *)

\* The pins in use are what a start made of pins once named, of those of now as long as
\* none has changed.
SetupInv ==
    /\ SetupTypeOK /\ named \in NamedSetups
    /\ \E pins \in NamedSetups : boot = start(pins)
    /\ setupChanges = 0 => boot = start(named)

-----------------------------------------------------------------------------
(* ParamManager: the parameters, their values and the clock. *)

\* The parameters are numbered, and what bounds them.
LEMMA ParamNumbers ==
    /\ Persisted \in Nat /\ Persisted >= 1 /\ ParamIndices = 1 .. Persisted
    /\ SaveIndex = Persisted + 1 /\ SaveIndex \notin ParamIndices
    /\ Default \in ParamValues /\ MaxValue \in Nat /\ ParamValues \subseteq Nat
    /\ ParamValues \subseteq SetValues
    /\ None \notin Nat /\ None \notin ParamValues
    /\ setupParams \subseteq ParamIndices
    /\ \A i \in ParamIndices : i \in setupParams <=> GroupOf[i] = "setup"
  <1>1. Persisted \in Nat /\ Persisted >= 1
    BY GroupsAssumption, EmptySeq DEF Persisted
  <1>2. SaveIndex \notin ParamIndices
    BY <1>1 DEF SaveIndex, ParamIndices
  <1>3. Default \in ParamValues /\ MaxValue \in Nat /\ ParamValues \subseteq Nat /\ ParamValues \subseteq SetValues
    BY ParamValuesAssumption DEF ParamValues, SetValues
  <1>4. None \notin Nat /\ None \notin ParamValues
    BY <1>3, NoneAssumption
  <1> QED
    BY <1>1, <1>2, <1>3, <1>4 DEF ParamIndices, SaveIndex, setupParams, groupParams

\* A value is brought into its range, where it is left alone.
LEMMA Constrained ==
    /\ \A value \in SetValues : constrain(value) \in ParamValues
    /\ \A value \in ParamValues : constrain(value) = value
  BY ParamNumbers DEF constrain, SetValues, ParamValues

\* The values of all parameters are a sequence that a restart restores as they are.
LEMMA WholeBlob ==
    ASSUME NEW values \in [ParamIndices -> ParamValues]
    PROVE  values \in Seq(SetValues) /\ Len(values) = Persisted /\ values # None
  <1>1. values \in [1 .. Persisted -> SetValues] /\ values \in [1 .. Persisted -> Nat]
    BY ParamNumbers
  <1>2. values \in Seq(SetValues) /\ values \in Seq(Nat)
    BY <1>1, ParamNumbers, SeqDef
  <1>3. Len(values) \in Nat /\ DOMAIN values = 1 .. Len(values)
    BY <1>2, LenProperties
  <1>4. Len(values) = Persisted
    BY <1>1, <1>3, ParamNumbers
  <1> QED
    BY <1>2, <1>4, NoneAssumption

\* What a restart makes of the parameters.
LEMMA RestoredTypes ==
    ASSUME ParamTypeOK
    PROVE  /\ Restored \in [ParamIndices -> ParamValues]
           /\ stored \in [ParamIndices -> ParamValues] => Restored = stored
  <1>1. stored = None \/ (stored \in Seq(SetValues) /\ Len(stored) <= Persisted + 1)
    BY DEF ParamTypeOK
  <1>2. Restored \in [ParamIndices -> ParamValues]
    <2>1. CASE stored = None \/ Len(stored) > Persisted
      BY <2>1, ParamNumbers DEF Restored
    <2>2. CASE ~(stored = None \/ Len(stored) > Persisted)
      <3>1. \A i \in ParamIndices : i <= Len(stored) => stored[i] \in SetValues
        <4>1. stored \in Seq(SetValues) /\ Len(stored) \in Nat
          BY <1>1, <2>2, LenProperties
        <4>2. \A i \in ParamIndices : i <= Len(stored) => i \in 1 .. Len(stored)
          BY <4>1, ParamNumbers
        <4> QED
          BY <4>1, <4>2, ElementOfSeq
      <3>2. \A i \in ParamIndices :
               (IF i <= Len(stored) THEN constrain(stored[i]) ELSE Default) \in ParamValues
        BY <3>1, Constrained, ParamNumbers
      <3> QED
        BY <2>2, <3>2 DEF Restored
    <2> QED
      BY <2>1, <2>2
  <1>3. ASSUME stored \in [ParamIndices -> ParamValues] PROVE Restored = stored
    <2>1. stored # None /\ Len(stored) = Persisted
      BY <1>3, WholeBlob
    <2>2. Restored = [i \in ParamIndices |-> IF i <= Len(stored) THEN constrain(stored[i]) ELSE Default]
      BY <2>1, ParamNumbers DEF Restored
    <2>3. \A i \in ParamIndices :
             (IF i <= Len(stored) THEN constrain(stored[i]) ELSE Default) = stored[i]
      <3>1. \A i \in ParamIndices : i <= Len(stored) /\ stored[i] \in ParamValues
        BY <1>3, <2>1, ParamNumbers
      <3> QED
        BY <3>1, Constrained
    <2> QED
      BY <1>3, <2>2, <2>3
  <1> QED
    BY <1>2, <1>3

\* The clock of the turns: half of it, the next turn, and what is due.
LEMMA ListClock ==
    /\ ClockSize \in Nat /\ Half \in Nat /\ Half >= 1 /\ ClockSize = 2 * Half
    /\ 0 \in 0 .. ClockSize - 1
    /\ \A x \in 0 .. ClockSize - 1 :
          /\ (x + 1) % ClockSize \in 0 .. ClockSize - 1
          /\ (x + 1) % ClockSize = IF x + 1 = ClockSize THEN 0 ELSE x + 1
          /\ ~Before(x, x)
          /\ Before(x, 0) <=> x >= Half
  <1> DEFINE wrap(x) == x % ClockSize
  <1>1. ClockSize \in Nat /\ Half \in Nat /\ Half >= 1 /\ ClockSize = 2 * Half
    BY ClockAssumption DEF Half
  <1>2. /\ \A x \in 0 .. ClockSize - 1 : wrap(x) = x
        /\ \A x \in ClockSize .. 2 * ClockSize - 1 : wrap(x) = x - ClockSize
    BY <1>1
  <1>3. /\ \A x : (x + 1) % ClockSize = wrap(x + 1)
        /\ \A x, y : (x + ClockSize - y) % ClockSize = wrap(x + ClockSize - y)
    OBVIOUS
  <1> HIDE DEF wrap
  <1>4. ASSUME NEW x \in 0 .. ClockSize - 1
        PROVE  /\ wrap(x + 1) \in 0 .. ClockSize - 1
               /\ wrap(x + 1) = IF x + 1 = ClockSize THEN 0 ELSE x + 1
               /\ wrap(x + ClockSize - x) = 0
               /\ wrap(x + ClockSize - 0) = x
    <2>1. x + ClockSize - x = ClockSize /\ x + ClockSize - 0 \in ClockSize .. 2 * ClockSize - 1
          /\ ClockSize \in ClockSize .. 2 * ClockSize - 1
      BY <1>1
    <2>2. wrap(x + ClockSize - x) = 0 /\ wrap(x + ClockSize - 0) = x
      BY <1>1, <1>2, <2>1
    <2>3. wrap(x + 1) = IF x + 1 = ClockSize THEN 0 ELSE x + 1
      <3>1. CASE x + 1 = ClockSize
        <4>1. wrap(ClockSize) = ClockSize - ClockSize
          BY <1>1, <1>2, <2>1
        <4> QED
          BY <1>1, <3>1, <4>1
      <3>2. CASE x + 1 # ClockSize
        <4>1. x + 1 \in 0 .. ClockSize - 1
          BY <1>1, <3>2
        <4> QED
          BY <1>2, <3>2, <4>1
      <3> QED
        BY <3>1, <3>2
    <2>4. wrap(x + 1) \in 0 .. ClockSize - 1
      BY <1>1, <2>3
    <2> QED
      BY <2>2, <2>3, <2>4
  <1>5. \A x, y : Before(x, y) <=> wrap(x + ClockSize - y) >= Half
    BY <1>3 DEF Before, Half
  <1>6. ~(0 >= Half) /\ 0 \in 0 .. ClockSize - 1
    BY <1>1
  <1>7. ASSUME NEW x \in 0 .. ClockSize - 1
        PROVE  ~Before(x, x) /\ (Before(x, 0) <=> x >= Half)
    <2>1. wrap(x + ClockSize - x) = 0 /\ wrap(x + ClockSize - 0) = x
      BY <1>4
    <2>2. Before(x, x) <=> 0 >= Half
      BY <1>5, <2>1
    <2>3. Before(x, 0) <=> x >= Half
      BY <1>5, <2>1
    <2> QED
      BY <1>6, <2>2, <2>3
  <1>8. ASSUME NEW x \in 0 .. ClockSize - 1
        PROVE  /\ (x + 1) % ClockSize \in 0 .. ClockSize - 1
               /\ (x + 1) % ClockSize = IF x + 1 = ClockSize THEN 0 ELSE x + 1
    <2>1. (x + 1) % ClockSize = wrap(x + 1)
      BY <1>3
    <2> QED
      BY ONLY <1>4, <2>1
  <1> QED
    BY <1>1, <1>6, <1>7, <1>8

\* A set of numbers has a least one.
LEMMA Least ==
    ASSUME NEW S, S \subseteq Nat, S # {}
    PROVE  \E i \in S : \A j \in S : i <= j
  <1>1. \E x \in S : \A y \in S : ~ (<<y, x>> \in OpToRel(<, Nat))
    BY WFMin, NatLessThanWellFounded
  <1>2. \A x, y \in Nat : y < x => <<y, x>> \in OpToRel(<, Nat)
    BY DEF OpToRel
  <1>3. \A x \in S : x \in Nat
    OBVIOUS
  <1>4. \E x \in S : \A y \in S : ~(y < x)
    BY ONLY <1>1, <1>2, <1>3, Zenon
  <1>5. PICK x \in S : \A y \in S : ~(y < x)
    BY <1>4
  <1>6. \A y \in S : y \in Nat /\ x \in Nat
    BY <1>3
  <1> QED
    BY <1>5, <1>6

\* At the start nothing is loaded, and a restart finds whatever was stored.
LEMMA ParamStarts == ParamInit => ParamInv
  <1> SUFFICES ASSUME ParamInit PROVE ParamInv
    OBVIOUS
  <1>1. /\ params = [i \in ParamIndices |-> Default] /\ dirty = FALSE
        /\ applied = [i \in ParamIndices |-> None]
        /\ stored \in {None} \cup UNION {[1 .. n -> SetValues] : n \in 0 .. Persisted + 1}
        /\ step = "load" /\ saveBlob = None /\ saveAttempt = 0 /\ armed = FALSE
        /\ snapshot = NothingRead /\ now = 0 /\ served = FALSE
        /\ sendIndex = 1 /\ nextSendMs = 0 /\ sendActive = FALSE
        /\ reported = [i \in ParamIndices |-> None] /\ early = TRUE /\ silent = 0
    BY DEF ParamInit
  <1>2. stored = None \/ (stored \in Seq(SetValues) /\ Len(stored) <= Persisted + 1)
    <2> SUFFICES ASSUME stored # None
                 PROVE  stored \in Seq(SetValues) /\ Len(stored) <= Persisted + 1
      OBVIOUS
    <2>1. \E n \in 0 .. Persisted + 1 : stored \in [1 .. n -> SetValues]
      <3> DEFINE blobs == {[1 .. n -> SetValues] : n \in 0 .. Persisted + 1}
      <3>1. stored \in {None} \cup UNION blobs
        BY <1>1
      <3>2. \A B \in blobs : \E n \in 0 .. Persisted + 1 : B = [1 .. n -> SetValues]
        OBVIOUS
      <3> HIDE DEF blobs
      <3>3. stored \in UNION blobs
        BY <3>1
      <3>4. \E B \in blobs : stored \in B
        BY ONLY <3>3
      <3> QED
        BY <3>2, <3>4
    <2>11. PICK n \in 0 .. Persisted + 1 : stored \in [1 .. n -> SetValues]
      BY <2>1
    <2>2. n \in Nat /\ n <= Persisted + 1
      BY ParamNumbers
    <2>3. stored \in Seq(SetValues)
      BY <2>11, <2>2, SeqDef
    <2>4. Len(stored) \in Nat /\ DOMAIN stored = 1 .. Len(stored)
      BY <2>3, LenProperties
    <2>5. Len(stored) = n
      BY <2>11, <2>2, <2>4
    <2> QED
      BY <2>2, <2>3, <2>5
  <1>3. DOMAIN snapshot = {} /\ snapshot \in [DOMAIN snapshot -> ParamValues]
    BY <1>1 DEF NothingRead
  <1>4. /\ params \in [ParamIndices -> ParamValues]
        /\ applied \in [ParamIndices -> ParamValues \cup {None}]
        /\ reported \in [ParamIndices -> ParamValues \cup {None}]
        /\ \A i \in ParamIndices : reported[i] = None
    BY <1>1, ParamNumbers
  <1>5. /\ saveAttempt \in 0 .. SaveAttempts - 1 /\ now \in 0 .. ClockSize - 1
        /\ nextSendMs \in 0 .. ClockSize - 1 /\ sendIndex \in 1 .. SaveIndex + 1
        /\ silent \in 0 .. ClockSize
    BY <1>1, SaveAttemptsAssumption, ListClock, ParamNumbers
  <1>6. ParamTypeOK
    BY <1>1, <1>2, <1>3, <1>4, <1>5 DEF ParamTypeOK
  <1> QED
    BY <1>1, <1>4, <1>6 DEF ParamInv, AppliedIsCurrent, CleanMeansStored, GroundStationInSync, SaveInv,
                            LoadInv, ListInv

\* What the parts of a message's handling do to the types.
LEMMA SetTypes ==
    ASSUME ParamTypeOK, NEW i \in ParamIndices, NEW value \in SetValues,
           IF armed THEN UNCHANGED <<params, dirty, applied>> ELSE setParam(i, value),
           sendParam(i, params')
    PROVE  /\ params' \in [ParamIndices -> ParamValues]
           /\ dirty' \in BOOLEAN /\ applied' \in [ParamIndices -> ParamValues \cup {None}]
           /\ reported' \in [ParamIndices -> ParamValues \cup {None}]
           /\ reported'[i] = params'[i]
           /\ \A j \in ParamIndices \ {i} : reported'[j] = reported[j] /\ params'[j] = params[j]
  <1>1. /\ params \in [ParamIndices -> ParamValues] /\ dirty \in BOOLEAN
        /\ applied \in [ParamIndices -> ParamValues \cup {None}]
        /\ reported \in [ParamIndices -> ParamValues \cup {None}]
    BY DEF ParamTypeOK
  <1>2. reported' = [reported EXCEPT ![i] = params'[i]]
    BY DEF sendParam
  <1>3. CASE armed
    BY <1>1, <1>2, <1>3
  <1>4. CASE ~armed
    <2>1. /\ params' = [params EXCEPT ![i] = constrain(value)] /\ dirty' = TRUE
          /\ applied' = [j \in ParamIndices |-> IF GroupOf[j] = GroupOf[i] THEN params'[j] ELSE applied[j]]
      BY <1>4 DEF setParam, applyParam
    <2>2. constrain(value) \in ParamValues
      BY Constrained
    <2>3. params' \in [ParamIndices -> ParamValues] /\ \A j \in ParamIndices \ {i} : params'[j] = params[j]
      BY <1>1, <2>1, <2>2
    <2>4. applied' \in [ParamIndices -> ParamValues \cup {None}]
      BY <1>1, <2>1, <2>3
    <2> QED
      BY <1>1, <1>2, <2>1, <2>3, <2>4
  <1> QED
    BY <1>3, <1>4

\* Every step keeps the types.
LEMMA ParamTypes == ASSUME ParamInv, ParamNext PROVE ParamTypeOK'
  <1>1. /\ params \in [ParamIndices -> ParamValues] /\ dirty \in BOOLEAN
        /\ applied \in [ParamIndices -> ParamValues \cup {None}]
        /\ stored = None \/ (stored \in Seq(SetValues) /\ Len(stored) <= Persisted + 1)
        /\ step \in {"load", "bind", "run", "attempt", "delay"}
        /\ saveBlob \in [ParamIndices -> ParamValues] \cup {None}
        /\ saveAttempt \in 0 .. SaveAttempts - 1 /\ armed \in BOOLEAN
        /\ DOMAIN snapshot \subseteq setupParams /\ snapshot \in [DOMAIN snapshot -> ParamValues]
        /\ now \in 0 .. ClockSize - 1 /\ nextSendMs \in 0 .. ClockSize - 1
        /\ served \in BOOLEAN /\ sendActive \in BOOLEAN /\ early \in BOOLEAN
        /\ sendIndex \in 1 .. SaveIndex + 1 /\ silent \in 0 .. ClockSize
        /\ reported \in [ParamIndices -> ParamValues \cup {None}]
    BY DEF ParamInv, ParamTypeOK
  <1>2. ASSUME params' \in [ParamIndices -> ParamValues], dirty' \in BOOLEAN,
               applied' \in [ParamIndices -> ParamValues \cup {None}],
               stored' = None \/ (stored' \in Seq(SetValues) /\ Len(stored') <= Persisted + 1),
               step' \in {"load", "bind", "run", "attempt", "delay"},
               saveBlob' \in [ParamIndices -> ParamValues] \cup {None},
               saveAttempt' \in 0 .. SaveAttempts - 1, armed' \in BOOLEAN,
               DOMAIN snapshot' \subseteq setupParams, snapshot' \in [DOMAIN snapshot' -> ParamValues],
               now' \in 0 .. ClockSize - 1, nextSendMs' \in 0 .. ClockSize - 1,
               served' \in BOOLEAN, sendActive' \in BOOLEAN, early' \in BOOLEAN,
               sendIndex' \in 1 .. SaveIndex + 1, silent' \in 0 .. ClockSize,
               reported' \in [ParamIndices -> ParamValues \cup {None}]
        PROVE  ParamTypeOK'
    BY <1>2 DEF ParamTypeOK
  <1>3. /\ 0 \in 0 .. ClockSize - 1 /\ 0 \in 0 .. ClockSize /\ 0 \in 0 .. SaveAttempts - 1
        /\ 1 \in 1 .. SaveIndex + 1
    BY ListClock, ParamNumbers, SaveAttemptsAssumption
  <1>4. DOMAIN NothingRead \subseteq setupParams /\ NothingRead \in [DOMAIN NothingRead -> ParamValues]
    BY DEF NothingRead
  <1>5. CASE loadPersistent
    <2>1. params' \in [ParamIndices -> ParamValues] /\ dirty' \in BOOLEAN
      BY <1>5, RestoredTypes DEF loadPersistent, ParamInv
    <2> QED
      BY <1>1, <1>2, <1>5, <2>1 DEF loadPersistent, clockVars, listVars
  <1>6. CASE bindAndApply
    <2>1. applied' \in [ParamIndices -> ParamValues \cup {None}]
      BY <1>1, <1>6 DEF bindAndApply
    <2> QED
      BY <1>1, <1>2, <1>6, <2>1 DEF bindAndApply, clockVars, listVars
  <1>7. ASSUME NEW i \in ParamIndices, NEW value \in SetValues, handleParamSet(i, value)
        PROVE  ParamTypeOK'
    <2>1. /\ params' \in [ParamIndices -> ParamValues] /\ dirty' \in BOOLEAN
          /\ applied' \in [ParamIndices -> ParamValues \cup {None}]
          /\ reported' \in [ParamIndices -> ParamValues \cup {None}]
      BY <1>7, SetTypes DEF handleParamSet, ParamInv
    <2> QED
      BY <1>1, <1>2, <1>7, <2>1 DEF handleParamSet, clockVars, listVars, saveVars
  <1>8. CASE handleSave
    <2>1. /\ dirty' \in BOOLEAN /\ saveBlob' \in [ParamIndices -> ParamValues] \cup {None}
          /\ saveAttempt' \in 0 .. SaveAttempts - 1
          /\ step' \in {"load", "bind", "run", "attempt", "delay"}
      BY <1>1, <1>3, <1>8 DEF handleSave, savePersistent, saveVars
    <2> QED
      BY <1>1, <1>2, <1>8, <2>1 DEF handleSave, clockVars, listVars
  <1>9. CASE writeAttempt
    <2>1. saveBlob = params /\ step = "attempt"
      BY <1>9 DEF writeAttempt, ParamInv, SaveInv
    <2>2. stored' = None \/ (stored' \in Seq(SetValues) /\ Len(stored') <= Persisted + 1)
      <3>1. stored' = params \/ stored' = stored
        BY <1>9, <2>1 DEF writeAttempt
      <3>2. params \in Seq(SetValues) /\ Len(params) <= Persisted + 1
        BY <1>1, WholeBlob, ParamNumbers
      <3> QED
        BY <1>1, <3>1, <3>2
    <2>3. /\ dirty' \in BOOLEAN /\ saveBlob' \in [ParamIndices -> ParamValues] \cup {None}
          /\ saveAttempt' \in 0 .. SaveAttempts - 1
          /\ step' \in {"load", "bind", "run", "attempt", "delay"}
      BY <1>1, <1>3, <1>9 DEF writeAttempt
    <2> QED
      BY <1>1, <1>2, <1>9, <2>2, <2>3 DEF writeAttempt, clockVars, listVars
  <1>10. CASE afterDelay
    <2>1. /\ saveAttempt' \in 0 .. SaveAttempts - 1
          /\ saveBlob' \in [ParamIndices -> ParamValues] \cup {None}
          /\ step' \in {"load", "bind", "run", "attempt", "delay"}
      <3>1. saveAttempt + 1 < SaveAttempts => saveAttempt + 1 \in 0 .. SaveAttempts - 1
        BY <1>1, SaveAttemptsAssumption
      <3> QED
        BY <1>1, <1>3, <1>10, <3>1 DEF afterDelay
    <2> QED
      BY <1>1, <1>2, <1>10, <2>1 DEF afterDelay, clockVars, listVars, settings
  <1>11. CASE sendAll
    <2>1. /\ sendIndex' = 1 /\ nextSendMs' = 0 /\ sendActive' = TRUE /\ silent' = 0 /\ early' \in BOOLEAN
      BY <1>11 DEF sendAll
    <2> QED
      BY <1>1, <1>2, <1>3, <1>11, <2>1 DEF sendAll, settings, saveVars, clockVars
  <1>12. CASE processSendQueue
    <2>1. CASE sendActive /\ due
      <3>1. sendIndex <= SaveIndex
        BY <2>1 DEF ParamInv, ListInv
      <3>2. /\ sendIndex' = sendIndex + 1 /\ silent' = 0 /\ early' = early /\ served' = TRUE
            /\ sendActive' \in {FALSE, sendActive} /\ nextSendMs' \in {nextSendMs, (now + 1) % ClockSize}
            /\ reported' \in {reported, [reported EXCEPT ![sendIndex] = params[sendIndex]]}
            /\ sendIndex \notin ParamIndices => reported' = reported
        BY <1>12, <2>1 DEF processSendQueue, sendNext, sendParam
      <3>3. sendIndex' \in 1 .. SaveIndex + 1
        BY <1>1, <3>1, <3>2, ParamNumbers
      <3>4. (now + 1) % ClockSize \in 0 .. ClockSize - 1
        BY <1>1, ListClock
      <3>5. reported' \in [ParamIndices -> ParamValues \cup {None}]
        BY <1>1, <3>2
      <3>6. sendActive' \in BOOLEAN /\ nextSendMs' \in 0 .. ClockSize - 1
        BY <1>1, <3>2, <3>4
      <3> QED
        BY <1>1, <1>2, <1>3, <1>12, <3>2, <3>3, <3>5, <3>6 DEF processSendQueue, settings, saveVars
    <2>2. CASE ~(sendActive /\ due)
      BY <1>1, <1>2, <1>12, <2>2 DEF processSendQueue, settings, saveVars, listVars
    <2> QED
      BY <2>1, <2>2
  <1>13. CASE healthRefresh
    <2>1. applied' \in [ParamIndices -> ParamValues \cup {None}]
      BY <1>1, <1>13 DEF healthRefresh
    <2> QED
      BY <1>1, <1>2, <1>13, <2>1 DEF healthRefresh, saveVars, clockVars, listVars
  <1>14. CASE readSetup
    <2> DEFINE next == CHOOSE i \in unread : \A j \in unread : i <= j
    <2>1. /\ unread # {}
          /\ snapshot' = [i \in DOMAIN snapshot \cup {next} |->
                             IF i = next THEN params[i] ELSE snapshot[i]]
      BY <1>14 DEF readSetup
    <2>2. next \in setupParams
      <3>1. unread \subseteq setupParams /\ \A i \in unread : i \in Nat
        BY ParamNumbers DEF unread
      <3>2. \E i \in unread : \A j \in unread : i <= j
        BY <2>1, <3>1, Least
      <3>3. next \in unread
        BY <3>2
      <3> QED
        BY <3>1, <3>3
    <2> HIDE DEF next
    <2>3. next \in ParamIndices
      BY <2>2, ParamNumbers
    <2>4. DOMAIN snapshot' \subseteq setupParams /\ snapshot' \in [DOMAIN snapshot' -> ParamValues]
      BY <1>1, <2>1, <2>2, <2>3
    <2> QED
      BY <1>1, <1>2, <1>14, <2>4 DEF readSetup, settings, saveVars, clockVars, listVars
  <1>15. CASE writeSetup
    <2>1. applied' \in [ParamIndices -> ParamValues \cup {None}] /\ snapshot' = NothingRead
      <3>1. \A i \in setupParams : i \in DOMAIN snapshot
        BY <1>15 DEF writeSetup, unread
      <3> QED
        BY <1>1, <1>15, <3>1 DEF writeSetup
    <2> QED
      BY <1>1, <1>2, <1>4, <1>15, <2>1 DEF writeSetup, saveVars, clockVars, listVars
  <1>16. CASE setArmed
    BY <1>1, <1>2, <1>16 DEF setArmed, settings, saveVars, clockVars, listVars
  <1>17. CASE Turn
    <2>1. now' \in 0 .. ClockSize - 1
      BY <1>1, <1>17, ListClock DEF Turn
    <2>2. silent' \in 0 .. ClockSize
      <3>1. sendActive => silent = 0 \/ silent <= now - Half
        BY <1>17 DEF Turn, ParamInv, ListInv
      <3>2. sendActive => silent + 1 \in 0 .. ClockSize
        BY <1>1, <3>1, ListClock
      <3> QED
        BY <1>3, <1>17, <3>2 DEF Turn
    <2> QED
      BY <1>1, <1>2, <1>17, <2>1, <2>2 DEF Turn, settings, saveVars
  <1>18. CASE Reset
    <2>1. /\ params' \in [ParamIndices -> ParamValues]
          /\ applied' \in [ParamIndices -> ParamValues \cup {None}]
          /\ reported' \in [ParamIndices -> ParamValues \cup {None}]
      BY <1>18, ParamNumbers DEF Reset
    <2>2. /\ dirty' = FALSE /\ step' = "load" /\ saveBlob' = None /\ saveAttempt' = 0 /\ armed' = FALSE
          /\ snapshot' = NothingRead /\ now' = 0 /\ served' = FALSE /\ sendIndex' = 1
          /\ nextSendMs' = 0 /\ sendActive' = FALSE /\ early' = TRUE /\ silent' = 0 /\ stored' = stored
      BY <1>18 DEF Reset
    <2> QED
      BY <1>1, <1>2, <1>3, <1>4, <2>1, <2>2
  <1> QED
    BY <1>5, <1>6, <1>7, <1>8, <1>9, <1>10, <1>11, <1>12, <1>13, <1>14, <1>15, <1>16, <1>17, <1>18
       DEF ParamNext, telemetry, refreshModuleSetup

\* Every step leaves what the groups were given, the module setup apart, as it is now.
LEMMA AppliedStep == ASSUME ParamInv, ParamNext PROVE AppliedIsCurrent'
  <1>1. /\ params \in [ParamIndices -> ParamValues]
        /\ applied \in [ParamIndices -> ParamValues \cup {None}]
        /\ AppliedIsCurrent
    BY DEF ParamInv, ParamTypeOK
  <1>2. CASE loadPersistent \/ Reset
    BY <1>2 DEF loadPersistent, Reset, AppliedIsCurrent
  <1>3. CASE bindAndApply
    BY <1>3 DEF bindAndApply, AppliedIsCurrent
  <1>4. ASSUME NEW i \in ParamIndices, NEW value \in SetValues, handleParamSet(i, value)
        PROVE  AppliedIsCurrent'
    <2>1. step' = step /\ step = "run"
      BY <1>4 DEF handleParamSet, receiving, saveVars
    <2>2. \A j \in ParamIndices : GroupOf[j] # "setup" => applied[j] = params[j]
      BY <1>1, <2>1 DEF AppliedIsCurrent
    <2>3. CASE armed
      BY <1>4, <2>2, <2>3 DEF handleParamSet, AppliedIsCurrent
    <2>4. CASE ~armed
      <3>1. /\ params' = [params EXCEPT ![i] = constrain(value)]
            /\ applied' = [j \in ParamIndices |-> IF GroupOf[j] = GroupOf[i] THEN params'[j] ELSE applied[j]]
        BY <1>4, <2>4 DEF handleParamSet, setParam, applyParam
      <3>2. \A j \in ParamIndices : GroupOf[j] # GroupOf[i] => params'[j] = params[j]
        BY <1>1, <3>1
      <3>3. \A j \in ParamIndices : GroupOf[j] # "setup" => applied'[j] = params'[j]
        BY <2>2, <3>1, <3>2
      <3> QED
        BY <3>3 DEF AppliedIsCurrent
    <2> QED
      BY <2>3, <2>4
  <1>5. CASE handleSave \/ writeAttempt \/ afterDelay
    <2>1. step \in {"run", "attempt", "delay"} /\ UNCHANGED <<params, applied>>
      BY <1>5 DEF handleSave, writeAttempt, afterDelay, receiving, settings
    <2>2. \A j \in ParamIndices : GroupOf[j] # "setup" => applied[j] = params[j]
      BY <1>1, <2>1 DEF AppliedIsCurrent
    <2> QED
      BY <2>1, <2>2 DEF AppliedIsCurrent
  <1>6. CASE healthRefresh \/ writeSetup
    <2>1. /\ UNCHANGED <<step, params>>
          /\ \A j \in ParamIndices : GroupOf[j] # "setup" => applied'[j] = applied[j]
      BY <1>6, ParamNumbers DEF healthRefresh, writeSetup, saveVars
    <2> QED
      BY <1>1, <2>1 DEF AppliedIsCurrent
  <1>7. CASE sendAll \/ processSendQueue \/ readSetup \/ setArmed \/ Turn
    BY <1>1, <1>7 DEF AppliedIsCurrent, sendAll, processSendQueue, readSetup, setArmed, Turn, settings, saveVars
  <1> QED
    BY <1>2, <1>3, <1>4, <1>5, <1>6, <1>7 DEF ParamNext, telemetry, refreshModuleSetup

\* What the sensor task and the list do leaves the parameters and the flash alone.
LEMMA RestoredUnchanged == ASSUME UNCHANGED stored PROVE Restored' = Restored
  BY DEF Restored

\* No step loses what is not marked as unsaved.
LEMMA CleanStep == ASSUME ParamInv, ParamNext PROVE CleanMeansStored'
  <1>1. /\ params \in [ParamIndices -> ParamValues] /\ CleanMeansStored
        /\ stored \in [ParamIndices -> ParamValues] => Restored = stored
    BY RestoredTypes DEF ParamInv, ParamTypeOK
  <1>2. ParamTypeOK'
    BY ParamTypes
  <1>3. stored' \in [ParamIndices -> ParamValues] => Restored' = stored'
    <2>1. (ParamTypeOK => (stored \in [ParamIndices -> ParamValues] => Restored = stored))'
      BY RestoredTypes, PTL
    <2> QED
      BY <1>2, <2>1
  <1>4. CASE loadPersistent
    <2>1. params' = Restored /\ stored' = stored
      BY <1>4 DEF loadPersistent
    <2> QED
      BY <2>1, RestoredUnchanged DEF CleanMeansStored
  <1>5. CASE Reset
    BY <1>5 DEF Reset, CleanMeansStored
  <1>6. ASSUME NEW i \in ParamIndices, NEW value \in SetValues, handleParamSet(i, value)
        PROVE  CleanMeansStored'
    <2>1. stored' = stored /\ step' = step /\ (armed => UNCHANGED <<params, dirty>>) /\ (~armed => dirty' = TRUE)
      BY <1>6 DEF handleParamSet, setParam, saveVars
    <2> QED
      BY <1>1, <2>1, RestoredUnchanged DEF CleanMeansStored
  <1>7. CASE handleSave
    <2>1. UNCHANGED <<params, stored>> /\ step = "run" /\ (dirty' = dirty \/ stored = params)
      BY <1>7 DEF handleSave, savePersistent, receiving
    <2>2. CASE dirty' = dirty
      BY <1>1, <2>1, <2>2, RestoredUnchanged DEF CleanMeansStored
    <2>3. CASE stored = params
      BY <1>1, <2>1, <2>3, RestoredUnchanged DEF CleanMeansStored
    <2> QED
      BY <2>1, <2>2, <2>3
  <1>8. CASE writeAttempt
    <2>1. saveBlob = params /\ step = "attempt" /\ params' = params
      BY <1>8 DEF writeAttempt, ParamInv, SaveInv
    <2>2. stored' = params \/ UNCHANGED <<stored, dirty>>
      BY <1>8, <2>1 DEF writeAttempt
    <2>3. CASE stored' = params
      BY <1>1, <1>3, <2>1, <2>3 DEF CleanMeansStored
    <2>4. CASE UNCHANGED <<stored, dirty>>
      BY <1>1, <2>1, <2>4, RestoredUnchanged DEF CleanMeansStored
    <2> QED
      BY <2>2, <2>3, <2>4
  <1>9. CASE bindAndApply \/ sendAll \/ processSendQueue \/ healthRefresh \/ afterDelay \/ readSetup
             \/ writeSetup \/ setArmed \/ Turn
    <2>1. UNCHANGED <<params, dirty, stored>> /\ (step = "load" => step' = "load")
      BY <1>9 DEF bindAndApply, sendAll, processSendQueue, healthRefresh, afterDelay, readSetup, writeSetup,
                  setArmed, Turn, settings, saveVars
    <2> QED
      BY <1>1, <2>1, RestoredUnchanged DEF CleanMeansStored
  <1> QED
    BY <1>4, <1>5, <1>6, <1>7, <1>8, <1>9 DEF ParamNext, telemetry, refreshModuleSetup

\* Whatever has been sent is still so after every step.
LEMMA ReportedStep == ASSUME ParamInv, ParamNext PROVE GroundStationInSync' /\ LoadInv'
  <1>1. /\ params \in [ParamIndices -> ParamValues]
        /\ reported \in [ParamIndices -> ParamValues \cup {None}]
        /\ GroundStationInSync /\ LoadInv /\ ParamTypeOK
    BY DEF ParamInv, ParamTypeOK
  <1>2. CASE loadPersistent
    <2>1. UNCHANGED reported /\ step' = "bind" /\ \A i \in ParamIndices : reported[i] = None
      BY <1>1, <1>2 DEF loadPersistent, LoadInv
    <2> QED
      BY <2>1 DEF GroundStationInSync, LoadInv
  <1>3. CASE Reset
    BY <1>3 DEF Reset, GroundStationInSync, LoadInv
  <1>4. ASSUME NEW i \in ParamIndices, NEW value \in SetValues, handleParamSet(i, value)
        PROVE  GroundStationInSync' /\ LoadInv'
    <2>1. /\ reported'[i] = params'[i]
          /\ \A j \in ParamIndices \ {i} : reported'[j] = reported[j] /\ params'[j] = params[j]
      BY <1>1, <1>4, SetTypes DEF handleParamSet
    <2>2. step' = "run"
      BY <1>4 DEF handleParamSet, receiving, saveVars
    <2> QED
      BY <1>1, <2>1, <2>2 DEF GroundStationInSync, LoadInv
  <1>5. CASE processSendQueue
    <2>1. step' = "run" /\ UNCHANGED params
      BY <1>5 DEF processSendQueue, receiving, saveVars, settings
    <2>2. \/ UNCHANGED reported
          \/ sendIndex \in ParamIndices /\ reported' = [reported EXCEPT ![sendIndex] = params[sendIndex]]
      BY <1>5 DEF processSendQueue, sendNext, sendParam
    <2>3. \A i \in ParamIndices : reported'[i] \in {reported[i], params[i]}
      BY <1>1, <2>2
    <2> QED
      BY <1>1, <2>1, <2>3 DEF GroundStationInSync, LoadInv
  <1>6. CASE bindAndApply \/ handleSave \/ sendAll \/ healthRefresh \/ writeAttempt \/ afterDelay
             \/ readSetup \/ writeSetup \/ setArmed \/ Turn
    <2>1. UNCHANGED <<params, reported>>
      BY <1>6 DEF bindAndApply, handleSave, sendAll, healthRefresh, writeAttempt, afterDelay, readSetup,
                  writeSetup, setArmed, Turn, settings
    <2>2. step' = "load" => step = "load"
      BY <1>6 DEF bindAndApply, handleSave, savePersistent, sendAll, healthRefresh, writeAttempt, afterDelay,
                  readSetup, writeSetup, setArmed, Turn, saveVars
    <2> QED
      BY <1>1, <2>1, <2>2 DEF GroundStationInSync, LoadInv
  <1> QED
    BY <1>2, <1>3, <1>4, <1>5, <1>6 DEF ParamNext, telemetry, refreshModuleSetup

\* The running save writes the parameters of now: no message is handled before it ends.
LEMMA SaveStep == ASSUME ParamInv, ParamNext PROVE SaveInv'
  <1>1. SaveInv /\ saveAttempt \in Nat
    BY SaveAttemptsAssumption DEF ParamInv, ParamTypeOK
  <1>2. CASE loadPersistent \/ bindAndApply \/ Reset
    BY <1>2 DEF loadPersistent, bindAndApply, Reset, SaveInv
  <1>3. ASSUME NEW i \in ParamIndices, NEW value \in SetValues, handleParamSet(i, value)
        PROVE  SaveInv'
    BY <1>3 DEF handleParamSet, receiving, saveVars, SaveInv
  <1>4. CASE handleSave
    BY <1>4 DEF handleSave, savePersistent, receiving, saveVars, SaveInv
  <1>5. CASE writeAttempt
    BY <1>1, <1>5 DEF writeAttempt, SaveInv
  <1>6. CASE afterDelay
    <2>1. saveAttempt + 1 # 0
      BY <1>1
    <2>2. UNCHANGED <<params, armed>> /\ step = "delay"
      BY <1>6 DEF afterDelay, settings
    <2>3. step' = "run" \/ (saveBlob' = saveBlob /\ saveAttempt' = saveAttempt + 1)
      BY <1>6 DEF afterDelay
    <2> HIDE DEF SaveInv
    <2>4. saveBlob = params
      BY <1>1, <2>2 DEF SaveInv
    <2>5. CASE step' = "run"
      BY <2>5 DEF SaveInv
    <2>6. CASE saveBlob' = saveBlob /\ saveAttempt' = saveAttempt + 1
      BY <2>1, <2>2, <2>4, <2>6 DEF SaveInv
    <2> QED
      BY <2>3, <2>5, <2>6
  <1>7. CASE setArmed
    BY <1>1, <1>7 DEF setArmed, telemetryWaits, settings, saveVars, SaveInv
  <1>8. CASE sendAll \/ processSendQueue \/ healthRefresh \/ readSetup \/ writeSetup \/ Turn
    <2>1. UNCHANGED <<params, step, saveBlob, saveAttempt, armed>>
      BY <1>8 DEF sendAll, processSendQueue, healthRefresh, readSetup, writeSetup, Turn, settings, saveVars
    <2> QED
      BY <1>1, <2>1 DEF SaveInv
  <1> QED
    BY <1>2, <1>3, <1>4, <1>5, <1>6, <1>7, <1>8 DEF ParamNext, telemetry, refreshModuleSetup

\* The running list stays in one of its three places.
LEMMA ListStep == ASSUME ParamInv, ParamNext PROVE ListInv'
  <1>1. /\ now \in 0 .. ClockSize - 1 /\ nextSendMs \in 0 .. ClockSize - 1
        /\ served \in BOOLEAN /\ sendActive \in BOOLEAN /\ early \in BOOLEAN
        /\ sendIndex \in 1 .. SaveIndex + 1 /\ silent \in 0 .. ClockSize
    BY DEF ParamInv, ParamTypeOK
  <1>2. ListInv /\ ClockSize \in Nat /\ Half \in Nat /\ Half >= 1 /\ ClockSize = 2 * Half
    BY ListClock DEF ParamInv
  <1>3. CASE UNCHANGED <<clockVars, listVars>>
    BY <1>2, <1>3 DEF ListInv, due, clockVars, listVars
  <1>4. CASE Reset
    BY <1>4 DEF Reset, ListInv
  <1>5. CASE sendAll
    <2>1. /\ sendIndex' = 1 /\ nextSendMs' = 0 /\ silent' = 0 /\ now' = now /\ ~served'
          /\ early' = (now < Half)
      BY <1>5 DEF sendAll, receiving, clockVars, Half
    <2>2. sendIndex' <= SaveIndex
      BY <2>1, ParamNumbers
    <2>3. CASE now < Half
      <3>1. ~Before(now, 0)
        BY <1>1, <1>2, <2>3, ListClock
      <3>2. due'
        BY <2>1, <3>1 DEF due
      <3>3. silent' <= (IF early' THEN 1 ELSE Half)
        BY <1>2, <2>1
      <3> QED
        BY <2>1, <2>2, <3>2, <3>3 DEF ListInv
    <2>4. CASE ~(now < Half)
      <3>1. now' >= Half /\ silent' <= now' - Half
        BY <1>1, <1>2, <2>1, <2>4
      <3>2. ~early'
        BY <2>1, <2>4, Zenon
      <3> QED
        BY <2>1, <2>2, <3>1, <3>2 DEF ListInv
    <2> QED
      BY <2>3, <2>4
  <1>6. CASE processSendQueue
    <2>1. now' = now /\ served' = TRUE /\ ~served
      BY <1>6 DEF processSendQueue, receiving
    <2>2. CASE sendActive /\ due
      <3>1. /\ silent' = 0 /\ sendIndex' = sendIndex + 1
            /\ \/ ~sendActive'
               \/ ~(sendIndex + 1 > SaveIndex) /\ nextSendMs' = (now + 1) % ClockSize
        BY <1>6, <2>2 DEF processSendQueue, sendNext
      <3>2. ~(sendIndex + 1 > SaveIndex) => sendIndex' <= SaveIndex
        BY <1>1, <3>1, ParamNumbers
      <3> QED
        BY <2>1, <3>1, <3>2 DEF ListInv
    <2>3. CASE ~(sendActive /\ due)
      <3>1. UNCHANGED listVars
        BY <1>6, <2>3 DEF processSendQueue
      <3>2. CASE ~sendActive
        BY <3>1, <3>2 DEF ListInv, listVars
      <3>3. CASE sendActive
        <4>1. sendIndex <= SaveIndex /\ ~early /\ nextSendMs = 0 /\ now >= Half /\ silent <= now - Half
          BY <1>2, <2>1, <2>3, <3>3 DEF ListInv
        <4> QED
          BY <2>1, <3>1, <4>1 DEF ListInv, listVars
      <3> QED
        BY <3>2, <3>3
    <2> QED
      BY <2>2, <2>3
  <1>7. CASE Turn
    <2>1. /\ served /\ now' = (now + 1) % ClockSize /\ ~served'
          /\ sendActive => silent' = silent + 1
          /\ UNCHANGED <<sendIndex, nextSendMs, sendActive, early>>
      BY <1>7 DEF Turn
    <2>2. CASE ~sendActive
      BY <2>1, <2>2 DEF ListInv
    <2>3. CASE sendActive
      <3>1. /\ sendIndex <= SaveIndex
            /\ \/ ~early /\ nextSendMs = 0 /\ now >= Half /\ silent <= now - Half
               \/ silent = 0 /\ nextSendMs = (now + 1) % ClockSize
        BY <1>2, <2>1, <2>3 DEF ListInv
      <3>2. now' \in 0 .. ClockSize - 1 /\ now' = IF now + 1 = ClockSize THEN 0 ELSE now + 1
        BY <1>1, <2>1, ListClock
      <3>3. ~Before(now', now')
        BY <3>2, ListClock
      <3>4. CASE silent = 0 /\ nextSendMs = (now + 1) % ClockSize
        <4>1. due'
          BY <2>1, <3>3, <3>4 DEF due
        <4>2. silent' <= (IF early' THEN 1 ELSE Half)
          BY <1>2, <2>1, <2>3, <3>4
        <4> QED
          BY <2>1, <3>1, <4>1, <4>2 DEF ListInv
      <3>5. CASE ~early /\ nextSendMs = 0 /\ now >= Half /\ silent <= now - Half
        <4>1. CASE now + 1 = ClockSize
          <5>1. now' = 0 /\ nextSendMs' = 0
            BY <2>1, <3>2, <3>5, <4>1
          <5>2. due'
            BY <3>3, <5>1 DEF due
          <5>3. silent + 1 <= Half
            BY <1>1, <1>2, <3>5, <4>1
          <5>4. silent' <= (IF early' THEN 1 ELSE Half)
            BY <2>1, <2>3, <3>5, <5>3
          <5> QED
            BY <2>1, <3>1, <5>2, <5>4 DEF ListInv
        <4>2. CASE now + 1 # ClockSize
          <5>1. now' >= Half /\ silent' <= now' - Half
            BY <1>1, <1>2, <2>1, <2>3, <3>2, <3>5, <4>2
          <5> QED
            BY <2>1, <3>1, <3>5, <5>1 DEF ListInv
        <4> QED
          BY <4>1, <4>2
      <3> QED
        BY <3>1, <3>4, <3>5
    <2> QED
      BY <2>2, <2>3
  <1>8. \/ UNCHANGED <<clockVars, listVars>>
        \/ Reset \/ sendAll \/ processSendQueue \/ Turn
    BY DEF ParamNext, telemetry, refreshModuleSetup, loadPersistent, bindAndApply, handleParamSet, handleSave,
           healthRefresh, writeAttempt, afterDelay, readSetup, writeSetup, setArmed
  <1> QED
    BY <1>3, <1>4, <1>5, <1>6, <1>7, <1>8

\* The list keeps its pace wherever it is.
LEMMA ListPace == ASSUME ParamInv PROVE ListOnTime
  <1>1. /\ ListInv /\ Half \in Nat /\ Half >= 1 /\ ClockSize = 2 * Half
        /\ now \in 0 .. ClockSize - 1 /\ silent \in 0 .. ClockSize
    BY ListClock DEF ParamInv, ParamTypeOK
  <1>2. ASSUME sendActive PROVE silent <= (IF early THEN 1 ELSE Half)
    <2>1. \/ ~early /\ now >= Half /\ silent <= now - Half
          \/ silent = 0
          \/ silent <= (IF early THEN 1 ELSE Half)
      BY <1>1, <1>2 DEF ListInv
    <2>2. now >= Half /\ silent <= now - Half => silent <= Half
      BY <1>1
    <2>3. silent = 0 => silent <= (IF early THEN 1 ELSE Half)
      BY <1>1
    <2> QED
      BY <2>1, <2>2, <2>3
  <1> QED
    BY <1>2 DEF ListOnTime, Half

\* The parameters, what is applied, stored and reported of them, and the list.
LEMMA ParamStep == ASSUME ParamInv, ParamNext \/ UNCHANGED paramVars PROVE ParamInv'
  <1>1. CASE ParamNext
    BY <1>1, ParamTypes, AppliedStep, CleanStep, ReportedStep, SaveStep, ListStep DEF ParamInv
  <1>2. CASE UNCHANGED paramVars
    <2>1. /\ UNCHANGED <<params, dirty, applied, stored, step, saveBlob, saveAttempt, armed, snapshot>>
          /\ UNCHANGED <<now, served, sendIndex, nextSendMs, sendActive, early, silent, reported>>
      BY <1>2 DEF paramVars, settings, saveVars, clockVars, listVars
    <2>2. ParamTypeOK' /\ AppliedIsCurrent' /\ CleanMeansStored'
      BY <2>1, RestoredUnchanged DEF ParamInv, ParamTypeOK, AppliedIsCurrent, CleanMeansStored
    <2>3. GroundStationInSync' /\ SaveInv' /\ LoadInv' /\ ListInv'
      BY <2>1 DEF ParamInv, GroundStationInSync, SaveInv, LoadInv, ListInv, due
    <2> QED
      BY <2>2, <2>3 DEF ParamInv
  <1> QED
    BY <1>1, <1>2

\* What the parameters' part of the run promises.
LEMMA ParamsAgree == ASSUME ParamInv PROVE SettingsAgree
  BY ListPace DEF ParamInv, SettingsAgree

\* The flash is written by an attempt of a save, and while armed not by the first.
LEMMA WritesAreRetries ==
    ASSUME ParamInv, ParamNext, stored' # stored, armed PROVE saveAttempt > 0
  <1>1. writeAttempt
    BY DEF ParamNext, telemetry, refreshModuleSetup, loadPersistent, bindAndApply, handleParamSet, handleSave,
           healthRefresh, afterDelay, readSetup, writeSetup, setArmed, sendAll, processSendQueue, Turn, Reset,
           settings
  <1>2. step = "attempt" /\ (saveAttempt = 0 => ~armed)
    BY <1>1 DEF writeAttempt, ParamInv, SaveInv
  <1>3. saveAttempt \in Nat
    BY SaveAttemptsAssumption DEF ParamInv, ParamTypeOK
  <1> QED
    BY <1>2, <1>3

-----------------------------------------------------------------------------
(* ModuleSetup. *)

\* The pins of a setup that may be named are pins of the controller.
LEMMA SetupPins ==
    ASSUME NEW pins \in NamedSetups
    PROVE  /\ pins.servos \in [aileron : NamedPins, throttle : NamedPins]
           /\ pins.servos.aileron \in 0 .. 28 /\ pins.servos.throttle \in 0 .. 28
           /\ pins.bus \in (0 .. 28) \X (0 .. 28) /\ pins.buzzer \in NamedPins /\ pins.buzzer \in 0 .. 28
  <1>1. /\ pins.servos \in [aileron : NamedPins, throttle : NamedPins]
        /\ pins.bus \in NamedBuses /\ pins.buzzer \in NamedPins
    BY DEF NamedSetups
  <1>2. NamedPins \subseteq 0 .. 28 /\ NamedSdas \subseteq 0 .. 28
    BY SetupAssumption
  <1>3. pins.bus \in (0 .. 28) \X (0 .. 28)
    BY <1>1, <1>2 DEF NamedBuses
  <1> QED
    BY <1>1, <1>2, <1>3

\* A start keeps the servos on pins of the controller, on those named or on the default ones.
LEMMA StartTypes ==
    ASSUME NEW pins \in NamedSetups
    PROVE  /\ start(pins).outputPins \in [aileron : 0 .. 28, throttle : 0 .. 28]
           /\ start(pins).bus = pins.bus /\ start(pins).buzzer = pins.buzzer
           /\ start(pins).bootServoPinConfigValid = validateServoPinSetup(pins)
  <1>1. /\ start(pins).outputPins = IF validateServoPinSetup(pins) THEN configurePins(pins.servos)
                                                                  ELSE DefaultServos
        /\ start(pins).bus = pins.bus /\ start(pins).buzzer = pins.buzzer
        /\ start(pins).bootServoPinConfigValid = validateServoPinSetup(pins)
    BY DEF start
  <1>2. DefaultServos \in [aileron : 0 .. 28, throttle : 0 .. 28]
    BY DEF DefaultServos
  <1>3. pins.servos \in [aileron : 0 .. 28, throttle : 0 .. 28]
    BY SetupPins
  <1>4. configurePins(pins.servos) \in {pins.servos, DefaultServos}
    BY DEF configurePins
  <1>5. start(pins).outputPins \in {pins.servos, DefaultServos}
    BY <1>1, <1>4
  <1> QED
    BY <1>1, <1>2, <1>3, <1>5

\* A start takes the pins of its parameters.
LEMMA SetupStarts == SetupInit => SetupInv
  <1> SUFFICES ASSUME SetupInit PROVE SetupInv
    OBVIOUS
  <1>1. named \in NamedSetups /\ boot = start(named) /\ setupChanges = 0
    BY DEF SetupInit
  <1>2. 0 \in 0 .. SetupChanges
    BY SetupAssumption
  <1>3. SetupTypeOK
    BY <1>1, <1>2, SetupPins, StartTypes DEF SetupTypeOK
  <1> QED
    BY <1>1, <1>3 DEF SetupInv

\* A change of a parameter leaves the pins in use alone; a restart takes the parameters of now.
LEMMA SetupStep == ASSUME SetupInv, SetupNext \/ UNCHANGED setupVars PROVE SetupInv'
  <1>1. /\ SetupTypeOK /\ named \in NamedSetups /\ setupChanges \in 0 .. SetupChanges
        /\ boot.outputPins \in [aileron : 0 .. 28, throttle : 0 .. 28]
        /\ setupChanges = 0 => boot = start(named)
    BY DEF SetupInv, SetupTypeOK
  <1>2. PICK pins \in NamedSetups : boot = start(pins)
    BY DEF SetupInv
  <1>3. CASE changePin
    <2>1. /\ named' \in NamedSetups /\ boot' = boot /\ setupChanges < SetupChanges
          /\ setupChanges' = setupChanges + 1
      BY <1>3 DEF changePin
    <2>2. setupChanges' \in 0 .. SetupChanges /\ setupChanges' # 0
      BY <1>1, <2>1, SetupAssumption
    <2>3. SetupTypeOK'
      BY <1>1, <2>1, <2>2, SetupPins DEF SetupTypeOK
    <2>4. start(pins)' = start(pins)
      BY DEF start
    <2>5. \E q \in NamedSetups : boot' = start(q)
      BY <1>2, <2>1
    <2> QED
      BY <2>1, <2>2, <2>3, <2>5 DEF SetupInv, start
  <1>4. CASE restart
    <2>1. named' = named /\ boot' = start(named) /\ setupChanges' = 0
      BY <1>4 DEF restart
    <2>2. 0 \in 0 .. SetupChanges
      BY SetupAssumption
    <2>3. SetupTypeOK'
      BY <1>1, <2>1, <2>2, SetupPins, StartTypes DEF SetupTypeOK
    <2> QED
      BY <1>1, <2>1, <2>3 DEF SetupInv, start
  <1>5. CASE UNCHANGED setupVars
    <2>1. named' = named /\ boot' = boot /\ setupChanges' = setupChanges
      BY <1>5 DEF setupVars
    <2>2. SetupTypeOK'
      BY <1>1, <2>1 DEF SetupTypeOK
    <2> QED
      BY <1>1, <1>2, <2>1, <2>2 DEF SetupInv, start
  <1> QED
    BY <1>3, <1>4, <1>5 DEF SetupNext

\* A setup that passes the preflight names five pins, none of them the receiver's or the bench's.
LEMMA NamedApart ==
    ASSUME NEW pins \in NamedSetups, evaluatePins(pins)
    PROVE  /\ Cardinality(PinsOf(pins.servos) \cup BusPins(pins) \cup {pins.buzzer}) = 5
           /\ (PinsOf(pins.servos) \cup {pins.buzzer}) \cap (BenchPins \cup {PIN_SBUS_RX}) = {}
  <1> PICK a, b, c, d, e :
           /\ a = pins.servos.aileron /\ b = pins.servos.throttle
           /\ c = pins.bus[1] /\ d = pins.bus[2] /\ e = pins.buzzer
    OBVIOUS
  <1>1. a \in 0 .. 28 /\ b \in 0 .. 28 /\ c \in 0 .. 28 /\ d \in 0 .. 28 /\ e \in 0 .. 28
    BY SetupPins
  <1>2. PinsOf(pins.servos) = {a, b} /\ BusPins(pins) = {c, d}
    BY DEF PinsOf, BusPins
  <1>3. d = c + 1 /\ e \notin {c, d} /\ validateBuzzerPinSetup(e) /\ validateServoPinSetup(pins)
    BY <1>2 DEF evaluatePins, validateI2cPinSetup
  <1>4. {a, b} \cap ({PIN_SBUS_RX, e} \cup {c, d} \cup BenchPins) = {} /\ a # b
    BY <1>2, <1>3 DEF validateServoPinSetup, Distinct
  <1>5. e \notin {PIN_SBUS_RX} \cup BenchPins
    BY <1>3 DEF validateBuzzerPinSetup
  <1>6. c # d
    BY <1>1, <1>3
  <1>7. a # c /\ a # d /\ a # e /\ b # c /\ b # d /\ b # e /\ c # e /\ d # e
    BY <1>3, <1>4
  <1>8. Cardinality({a, b} \cup {c, d} \cup {e}) = 5
    <2>1. /\ IsFiniteSet({}) /\ Cardinality({}) = 0
      BY FS_EmptySet
    <2>2. IsFiniteSet({a}) /\ Cardinality({a}) = 1
      BY FS_Singleton
    <2>3. /\ IsFiniteSet({a} \cup {b}) /\ Cardinality({a} \cup {b}) = 2
      <3>1. b \notin {a}
        BY ONLY <1>4
      <3> QED
        BY ONLY <2>2, <3>1, FS_AddElement
    <2>4. /\ IsFiniteSet({a} \cup {b} \cup {c}) /\ Cardinality({a} \cup {b} \cup {c}) = 3
      <3>1. c \notin {a} \cup {b}
        BY ONLY <1>4, <1>6, <1>7
      <3> QED
        BY ONLY <2>3, <3>1, FS_AddElement
    <2>5. /\ IsFiniteSet({a} \cup {b} \cup {c} \cup {d}) /\ Cardinality({a} \cup {b} \cup {c} \cup {d}) = 4
      <3>1. d \notin {a} \cup {b} \cup {c}
        BY ONLY <1>4, <1>6, <1>7
      <3> QED
        BY ONLY <2>4, <3>1, FS_AddElement
    <2>6. Cardinality({a} \cup {b} \cup {c} \cup {d} \cup {e}) = 5
      <3>1. e \notin {a} \cup {b} \cup {c} \cup {d}
        BY ONLY <1>4, <1>6, <1>7
      <3> QED
        BY ONLY <2>5, <3>1, FS_AddElement
    <2>7. {a, b} \cup {c, d} \cup {e} = {a} \cup {b} \cup {c} \cup {d} \cup {e}
      BY ONLY <1>4, <1>6, <1>7
    <2> QED
      BY <2>6, <2>7
  <1>9. ({a, b} \cup {e}) \cap (BenchPins \cup {PIN_SBUS_RX}) = {}
    BY <1>4, <1>5
  <1>10. (PinsOf(pins.servos) \cup {e}) \cap (BenchPins \cup {PIN_SBUS_RX}) = {}
    BY <1>2, <1>9
  <1>11. Cardinality(PinsOf(pins.servos) \cup BusPins(pins) \cup {e}) = 5
    BY <1>2, <1>8
  <1> QED
    BY <1>10, <1>11

\* On the standard bus a start whose servo pins passed uses them, apart from all others in use.
LEMMA StartApart ==
    ASSUME NEW pins \in NamedSetups, boot = start(pins), boot.bootServoPinConfigValid, StandardBus
    PROVE  /\ boot.outputPins = pins.servos
           /\ Distinct(boot.outputPins)
           /\ PinsOf(boot.outputPins) \cap (BenchPins \cup BusPins(boot) \cup {PIN_SBUS_RX, boot.buzzer}) = {}
  <1>1. validateServoPinSetup(pins) /\ boot.bus = pins.bus /\ boot.buzzer = pins.buzzer
    BY StartTypes
  <1>2. BusPins(boot) = {PIN_SDA, PIN_SCL} /\ BusPins(pins) = {PIN_SDA, PIN_SCL}
    BY <1>1 DEF StandardBus, BusPins
  <1>3. /\ PinsOf(pins.servos) \cap ({PIN_SBUS_RX, pins.buzzer} \cup BusPins(pins) \cup BenchPins) = {}
        /\ Distinct(pins.servos)
    BY <1>1 DEF validateServoPinSetup
  <1>4. PinsOf(pins.servos) \cap ({PIN_SBUS_RX, PIN_SDA, PIN_SCL} \cup BenchPins) = {}
    <2> HIDE DEF PinsOf, BenchPins
    <2> QED
      BY <1>2, <1>3
  <1>5. configurePins(pins.servos) = pins.servos
    BY <1>3, <1>4 DEF configurePins
  <1>6. boot.outputPins = pins.servos
    BY <1>1, <1>5 DEF start
  <1>7. PinsOf(pins.servos) \cap (BenchPins \cup BusPins(boot) \cup {PIN_SBUS_RX, boot.buzzer}) = {}
    BY <1>1, <1>2, <1>3
  <1> QED
    BY <1>3, <1>6, <1>7

\* The pins of a setup that passes the preflight, those named and those in use.
LEMMA PinsApart == ASSUME SetupInv PROVE PinsAreTheirOwn
  <1> SUFFICES ASSUME evaluatePins(named) PROVE
        /\ Cardinality(PinsOf(named.servos) \cup BusPins(named) \cup {named.buzzer}) = 5
        /\ (PinsOf(named.servos) \cup {named.buzzer}) \cap (BenchPins \cup {PIN_SBUS_RX}) = {}
        /\ StandardBus =>
              /\ Distinct(boot.outputPins)
              /\ PinsOf(boot.outputPins) \cap
                   (BenchPins \cup BusPins(boot) \cup {PIN_SBUS_RX, boot.buzzer}) = {}
              /\ setupChanges = 0 => boot.outputPins = named.servos
    BY DEF PinsAreTheirOwn
  <1>1. named \in NamedSetups /\ (setupChanges = 0 => boot = start(named)) /\ boot.bootServoPinConfigValid
    BY DEF SetupInv, evaluatePins
  <1>2. PICK pins \in NamedSetups : boot = start(pins)
    BY DEF SetupInv
  <1>3. /\ Cardinality(PinsOf(named.servos) \cup BusPins(named) \cup {named.buzzer}) = 5
        /\ (PinsOf(named.servos) \cup {named.buzzer}) \cap (BenchPins \cup {PIN_SBUS_RX}) = {}
    BY <1>1, NamedApart
  <1>4. StandardBus =>
           /\ Distinct(boot.outputPins)
           /\ PinsOf(boot.outputPins) \cap (BenchPins \cup BusPins(boot) \cup {PIN_SBUS_RX, boot.buzzer}) = {}
    BY <1>1, <1>2, StartApart
  <1>5. StandardBus /\ setupChanges = 0 => boot.outputPins = named.servos
    BY <1>1, StartApart
  <1> QED
    BY <1>3, <1>4, <1>5

-----------------------------------------------------------------------------
(* Storage. *)

storageVars == <<component, vars, paramVars, setupVars>>

StorageInv == ParamInv /\ SetupInv

\* Each component starts in its own invariant.
LEMMA StorageStarts == StorageInit => StorageInv
  BY ParamStarts, SetupStarts DEF StorageInit, StorageInv

\* A step of one component keeps its invariant and leaves the others' variables alone.
LEMMA StorageStep == ASSUME StorageInv, [StorageNext]_storageVars PROVE StorageInv'
  <1>1. /\ ParamNext \/ UNCHANGED paramVars
        /\ SetupNext \/ UNCHANGED setupVars
    BY DEF StorageNext, storageVars
  <1>2. ParamInv' /\ SetupInv'
    BY <1>1, ParamStep, SetupStep DEF StorageInv
  <1> QED
    BY <1>2 DEF StorageInv

\* The inductive invariant of the parameters and the pins.
THEOREM StorageInvariant == StorageSpec => []StorageInv
  BY StorageStarts, StorageStep, PTL DEF StorageSpec, storageVars

\* What has been set is what is applied and reported, and, unless it is marked as unsaved, what
\* a restart finds; a list keeps its pace across the wrap of the clock; and a setup that the
\* preflight passes has the servos on pins of their own (ParamManager.cpp,
\* ModuleSetupRuntime.cpp), for any parameters, any pins and any old blob.
THEOREM SettingsAlwaysHold == StorageSpec => []SettingsHold
  <1>1. StorageInv => SettingsHold
    BY ParamsAgree, PinsApart DEF StorageInv, SettingsHold, SetupInv
  <1> QED
    BY <1>1, StorageInvariant, PTL

\* While armed the flash is written by nothing but the retry of a save begun before
\* (ParamManager::savePersistent(), persistFlashBlobWithRetry()).
THEOREM ArmedWritesNothingNew == StorageSpec => ArmedWritesAreRetries
  <1>1. StorageInv /\ [StorageNext]_storageVars => [stored' # stored /\ armed => saveAttempt > 0]_paramVars
    <2> SUFFICES ASSUME StorageInv, [StorageNext]_storageVars, stored' # stored, armed
                 PROVE  saveAttempt > 0
      OBVIOUS
    <2>1. ParamNext
      BY DEF StorageNext, storageVars, paramVars, settings
    <2> QED
      BY <2>1, WritesAreRetries DEF StorageInv
  <1> QED
    BY <1>1, StorageInvariant, PTL DEF StorageSpec, storageVars, ArmedWritesAreRetries

\* A behaviour of the whole is one of the journal.
THEOREM StorageKeepsJournal == StorageSpec => Spec
  <1>1. StorageInit => Init
    BY DEF StorageInit
  <1>2. [StorageNext]_storageVars => [Next]_vars
    BY DEF StorageNext, storageVars
  <1> QED
    BY <1>1, <1>2, PTL DEF StorageSpec, storageVars, Spec

\* So it is a durable register beside the parameters and the pins too (CalibrationStorage.cpp,
\* save() and load()).
THEOREM StorageImplementsRegister == StorageSpec => []TypeOK /\ ImplementsRegister
  BY StorageKeepsJournal, TypeCorrect, Refinement, PTL
=============================================================================
