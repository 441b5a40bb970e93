---------------------------- MODULE ParamManager ----------------------------
(***************************************************************************)
(* telemetry/ParamManager.cpp: the settings the ground station sets, what  *)
(* each group of them was last applied as, and the list of all of them     *)
(* that is sent one by one.                                                *)
(* The telemetry task executes it and preempts the sensor task, except in  *)
(* the delay between two attempts of a save.  The sensor task refreshes    *)
(* the module setup from the parameters on its own, read after read        *)
(* (main.cpp, refreshModuleSetupFromParams).  The flash is the durable     *)
(* register that FlashJournal implements.                                  *)
(***************************************************************************)
EXTENDS Naturals, Sequences

CONSTANTS
    GroupOf,    \* the group of every persisted parameter, as a sequence
    MaxValue,   \* minVal and maxVal of every parameter are 0 and MaxValue
    Default,    \* its value without a stored one
    None,       \* no blob, nothing applied, nothing reported
    SaveAttempts, \* FLASH_WRITE_ATTEMPTS
    ClockSize   \* turns of the telemetry task in which millis() wraps

ASSUME GroupsAssumption == GroupOf \in Seq({"pid", "rates", "setup"}) /\ GroupOf # << >>
ASSUME ParamValuesAssumption == MaxValue \in Nat /\ Default \in 0 .. MaxValue
ASSUME NoneAssumption == None \notin Nat /\ None \notin Seq(Nat)
ASSUME SaveAttemptsAssumption == SaveAttempts \in Nat \ {0}
ASSUME ClockAssumption == ClockSize \in Nat \ {0} /\ ClockSize % 2 = 0

VARIABLES
    params,         \* _params[].value of the persisted ones
    dirty,          \* _dirty
    applied,        \* what the handlers of their groups were last given
    stored,         \* the values a restart finds in the flash
    step,           \* where the telemetry task is
    saveBlob,       \* the blob of the running save
    saveAttempt,    \* its attempt
    armed,          \* what _armStateProvider answers
    snapshot,       \* the setup's values the sensor task has read so far
    now,            \* millis() / 20
    served,         \* processSendQueue() has run in this turn
    sendIndex, nextSendMs, sendActive,
    reported,       \* what the ground station was last sent
    early, silent   \* of the running list: its first turn lay in the first
                    \* half of the clock; turns since it was last served

settings == <<params, dirty, applied, stored>>
saveVars == <<step, saveBlob, saveAttempt>>
listVars == <<sendIndex, nextSendMs, sendActive, early, silent>>
clockVars == <<now, served>>
paramVars == <<settings, saveVars, armed, snapshot, clockVars, listVars, reported>>

Persisted == Len(GroupOf)           \* PARAM_PERSISTED_COUNT
SaveIndex == Persisted + 1          \* PARAM_SAVE, the last of PARAM_COUNT
ParamIndices == 1 .. Persisted
ParamValues == 0 .. MaxValue
SetValues == 0 .. MaxValue + 1       \* values a message or an old blob may carry

constrain(value) == IF value > MaxValue THEN MaxValue ELSE value

groupParams(group) == {i \in ParamIndices : GroupOf[i] = group}
setupParams == groupParams("setup")
NothingRead == [i \in {} |-> None]

\* int32_t(later - sooner) < 0
Before(later, sooner) == (later + ClockSize - sooner) % ClockSize >= ClockSize \div 2

-----------------------------------------------------------------------------
\* What loadPersistent() makes of the defaults.
Restored ==
    IF stored = None \/ Len(stored) > Persisted THEN [i \in ParamIndices |-> Default]
    ELSE [i \in ParamIndices |-> IF i <= Len(stored) THEN constrain(stored[i]) ELSE Default]

ParamInit ==
    /\ params = [i \in ParamIndices |-> Default]
    /\ dirty = FALSE
    /\ applied = [i \in ParamIndices |-> None]
    /\ stored \in {None} \cup UNION {[1 .. n -> SetValues] : n \in 0 .. Persisted + 1}
    /\ step = "load"
    /\ saveBlob = None /\ saveAttempt = 0
    /\ armed = FALSE
    /\ snapshot = NothingRead
    /\ now = 0 /\ served = FALSE
    /\ sendIndex = 1 /\ nextSendMs = 0 /\ sendActive = FALSE
    /\ reported = [i \in ParamIndices |-> None]
    /\ early = TRUE /\ silent = 0

\* setup(): no handler is bound yet, so what is loaded is not applied.
loadPersistent ==
    /\ step = "load"
    /\ params' = Restored
    /\ dirty' = (stored # None /\ Len(stored) < Persisted)
    /\ step' = "bind"
    /\ UNCHANGED <<applied, stored, saveBlob, saveAttempt, armed, snapshot, clockVars, listVars, reported>>

bindAndApply ==
    /\ step = "bind"
    /\ applied' = params
    /\ step' = "run"
    /\ UNCHANGED <<params, dirty, stored, saveBlob, saveAttempt, armed, snapshot, clockVars, listVars, reported>>

-----------------------------------------------------------------------------
(* Messages, handled before processSendQueue() in a turn                    *)

receiving == step = "run" /\ ~served

\* Mutant: the handler is called before the value is stored.
applyParamEarly(i, values) ==
    [j \in ParamIndices |-> IF GroupOf[j] = GroupOf[i] THEN params[j] ELSE applied[j]]

\* Every handler is given all of its group.
applyParam(i, values) ==
    [j \in ParamIndices |-> IF GroupOf[j] = GroupOf[i] THEN values[j] ELSE applied[j]]

sendParam(i, values) ==
    reported' = IF i \in ParamIndices THEN [reported EXCEPT ![i] = values[i]] ELSE reported

\* Mutant: a set parameter is not marked as unsaved.
setParamClean(i, value) ==
    /\ params' = [params EXCEPT ![i] = constrain(value)]
    /\ applied' = applyParam(i, params')
    /\ UNCHANGED dirty

setParam(i, value) ==
    /\ params' = [params EXCEPT ![i] = constrain(value)]
    /\ dirty' = TRUE
    /\ applied' = applyParam(i, params')

\* Mutant: the answer repeats the value of the message.
handleParamSetEcho(i, value) ==
    /\ receiving
    /\ IF armed THEN UNCHANGED <<params, dirty, applied>> ELSE setParam(i, value)
    /\ reported' = [reported EXCEPT ![i] = constrain(value)]
    /\ UNCHANGED <<stored, saveVars, armed, snapshot, clockVars, listVars>>

\* PARAM_SET of a persisted parameter; the answer is what it is now.
handleParamSet(i, value) ==
    /\ receiving
    /\ IF armed THEN UNCHANGED <<params, dirty, applied>> ELSE setParam(i, value)
    /\ sendParam(i, params')
    /\ UNCHANGED <<stored, saveVars, armed, snapshot, clockVars, listVars>>

\* Mutant: the armed state is not asked.
savePersistentArmed ==
    IF stored = params
      THEN dirty' = FALSE /\ UNCHANGED saveVars
      ELSE saveBlob' = params /\ saveAttempt' = 0 /\ step' = "attempt" /\ UNCHANGED dirty

\* Refused while armed; what is stored already is not written again.
savePersistent ==
    IF armed
      THEN UNCHANGED <<dirty, saveVars>>
    ELSE IF stored = params
      THEN dirty' = FALSE /\ UNCHANGED saveVars
    ELSE saveBlob' = params /\ saveAttempt' = 0 /\ step' = "attempt" /\ UNCHANGED dirty

\* PARAM_SET of PARAM_SAVE with a value of at least 0.5.
handleSave ==
    /\ receiving
    /\ savePersistent
    /\ UNCHANGED <<params, applied, stored, armed, snapshot, clockVars, listVars, reported>>

\* One erase, program and verification; the other core is parked.
writeAttempt ==
    /\ step = "attempt"
    /\ \/ /\ stored' = saveBlob
          /\ dirty' = FALSE
          /\ step' = "run" /\ saveBlob' = None /\ saveAttempt' = 0
       \/ /\ step' = "delay"
          /\ UNCHANGED <<stored, dirty, saveBlob, saveAttempt>>
    /\ UNCHANGED <<params, applied, armed, snapshot, clockVars, listVars, reported>>

\* delay(5) is over: the next attempt, or the save has failed.
afterDelay ==
    /\ step = "delay"
    /\ IF saveAttempt + 1 < SaveAttempts
         THEN step' = "attempt" /\ saveAttempt' = saveAttempt + 1 /\ UNCHANGED saveBlob
         ELSE step' = "run" /\ saveAttempt' = 0 /\ saveBlob' = None
    /\ UNCHANGED <<settings, armed, snapshot, clockVars, listVars, reported>>

\* Mutant: the deadline of the previous list is kept.
sendAllKept ==
    /\ receiving
    /\ sendIndex' = 1 /\ sendActive' = TRUE
    /\ early' = (now < ClockSize \div 2)
    /\ silent' = 0
    /\ UNCHANGED <<nextSendMs, settings, saveVars, armed, snapshot, clockVars, reported>>

\* PARAM_REQUEST_LIST: from the first parameter, due at millis() = 0.
sendAll ==
    /\ receiving
    /\ sendIndex' = 1 /\ nextSendMs' = 0 /\ sendActive' = TRUE
    /\ early' = (now < ClockSize \div 2)
    /\ silent' = 0
    /\ UNCHANGED <<settings, saveVars, armed, snapshot, clockVars, reported>>

due == ~Before(now, nextSendMs)

sendNext ==
    /\ sendParam(sendIndex, params)
    /\ sendIndex' = sendIndex + 1
    /\ IF sendIndex + 1 > SaveIndex
         THEN sendActive' = FALSE /\ UNCHANGED nextSendMs
         ELSE nextSendMs' = (now + 1) % ClockSize /\ UNCHANGED sendActive
    /\ silent' = 0
    /\ UNCHANGED early

processSendQueue ==
    /\ receiving
    /\ IF sendActive /\ due THEN sendNext ELSE UNCHANGED <<listVars, reported>>
    /\ served' = TRUE
    /\ UNCHANGED <<settings, saveVars, armed, snapshot, now>>

\* runHealthReport() refreshes the setup once more.
healthRefresh ==
    /\ step = "run"
    /\ applied' = [i \in ParamIndices |-> IF i \in setupParams THEN params[i] ELSE applied[i]]
    /\ UNCHANGED <<params, dirty, stored, saveVars, armed, snapshot, clockVars, listVars, reported>>

-----------------------------------------------------------------------------
(* The sensor task, which runs when the telemetry task waits                *)

telemetryWaits == step \in {"run", "delay"}

unread == setupParams \ DOMAIN snapshot

\* Mutant: the snapshot of the previous refresh is used again.
writeSetupKept ==
    /\ telemetryWaits /\ unread = {}
    /\ applied' = [i \in ParamIndices |-> IF i \in setupParams THEN snapshot[i] ELSE applied[i]]
    /\ UNCHANGED <<params, dirty, stored, saveVars, armed, snapshot, clockVars, listVars, reported>>

readSetup ==
    /\ telemetryWaits /\ unread # {}
    /\ LET next == CHOOSE i \in unread : \A j \in unread : i <= j
       IN snapshot' = [i \in DOMAIN snapshot \cup {next} |->
                          IF i = next THEN params[i] ELSE snapshot[i]]
    /\ UNCHANGED <<settings, saveVars, armed, clockVars, listVars, reported>>

writeSetup ==
    /\ telemetryWaits /\ unread = {}
    /\ applied' = [i \in ParamIndices |-> IF i \in setupParams THEN snapshot[i] ELSE applied[i]]
    /\ snapshot' = NothingRead
    /\ UNCHANGED <<params, dirty, stored, saveVars, armed, clockVars, listVars, reported>>

refreshModuleSetup == readSetup \/ writeSetup

\* publishState() stores the armed state.
setArmed ==
    /\ telemetryWaits
    /\ armed' = ~armed
    /\ UNCHANGED <<settings, saveVars, snapshot, clockVars, listVars, reported>>

-----------------------------------------------------------------------------
\* The next turn: the telemetry task runs at least once in 20 ms, unless it is
\* saving, and the clock of the model counts its turns.
Turn ==
    /\ step = "run" /\ served
    /\ now' = (now + 1) % ClockSize
    /\ served' = FALSE
    /\ silent' = IF sendActive THEN silent + 1 ELSE 0
    /\ UNCHANGED <<settings, saveVars, armed, snapshot, sendIndex, nextSendMs, sendActive, early, reported>>

Reset ==
    /\ params' = [i \in ParamIndices |-> Default]
    /\ dirty' = FALSE
    /\ applied' = [i \in ParamIndices |-> None]
    /\ step' = "load" /\ saveBlob' = None /\ saveAttempt' = 0
    /\ armed' = FALSE
    /\ snapshot' = NothingRead
    /\ now' = 0 /\ served' = FALSE
    /\ sendIndex' = 1 /\ nextSendMs' = 0 /\ sendActive' = FALSE
    /\ reported' = [i \in ParamIndices |-> None]
    /\ early' = TRUE /\ silent' = 0
    /\ UNCHANGED stored

telemetry ==
    \/ \E i \in ParamIndices, value \in SetValues : handleParamSet(i, value)
    \/ handleSave \/ sendAll \/ processSendQueue \/ healthRefresh
    \/ writeAttempt \/ afterDelay

ParamNext ==
    loadPersistent \/ bindAndApply \/ telemetry \/ refreshModuleSetup \/ setArmed \/ Turn \/ Reset

\* A save is executed to its end; the sensor task runs again and again in the
\* waits of the telemetry task above it.
ParamFairness ==
    /\ WF_paramVars(writeAttempt \/ afterDelay)
    /\ SF_paramVars(refreshModuleSetup)

ParamSpec == ParamInit /\ [][ParamNext]_paramVars /\ ParamFairness

-----------------------------------------------------------------------------
ParamTypeOK ==
    /\ params \in [ParamIndices -> ParamValues]
    /\ dirty \in BOOLEAN
    /\ applied \in [ParamIndices -> ParamValues \cup {None}]
    /\ stored = None \/ (stored \in Seq(SetValues) /\ Len(stored) <= Persisted + 1)
    /\ step \in {"load", "bind", "run", "attempt", "delay"}
    /\ saveBlob \in [ParamIndices -> ParamValues] \cup {None}
    /\ saveAttempt \in 0 .. SaveAttempts - 1
    /\ armed \in BOOLEAN
    /\ DOMAIN snapshot \subseteq setupParams /\ snapshot \in [DOMAIN snapshot -> ParamValues]
    /\ now \in 0 .. ClockSize - 1 /\ nextSendMs \in 0 .. ClockSize - 1
    /\ served \in BOOLEAN /\ sendActive \in BOOLEAN /\ early \in BOOLEAN
    /\ sendIndex \in 1 .. SaveIndex + 1
    /\ reported \in [ParamIndices -> ParamValues \cup {None}]
    /\ silent \in 0 .. ClockSize

\* The flight code flies with the values the ground station reads back: once
\* the handlers are bound every group but the module setup has been given the
\* current values, also after a boot from an old or refused blob.
AppliedIsCurrent ==
    step \notin {"load", "bind"} =>
        \A i \in ParamIndices : GroupOf[i] # "setup" => applied[i] = params[i]

\* isDirty() does not hide a loss: as long as it is FALSE a restart at any
\* point, within a save too, comes up with the values of now.
CleanMeansStored == step # "load" /\ ~dirty => Restored = params

\* While armed the flash is only written as the retry of a save that was begun
\* disarmed.
ArmedWritesAreRetries == [][stored' # stored /\ armed => saveAttempt > 0]_paramVars

\* What V1_0_Remaining_Work.md:18 and :24 ask of a save: while armed it is refused and
\* the flash is not touched.
ArmedIsNotWritten == [][stored' # stored => ~armed]_paramVars

\* Whatever the ground station was sent of a parameter, from the list or as
\* the answer to a set or a refused set, is what it is now.
GroundStationInSync == \A i \in ParamIndices : reported[i] \in {params[i], None}

\* A list requested in the first half of the clock goes out one parameter per
\* turn, also across the wrap; in the second half its first entry waits for
\* the clock to wrap, and no longer.
ListOnTime == sendActive => silent <= (IF early THEN 1 ELSE ClockSize \div 2)

\* What is applied, what is stored and what was reported agree with what was
\* set, and the list keeps its pace.
SettingsAgree ==
    /\ ParamTypeOK
    /\ AppliedIsCurrent
    /\ CleanMeansStored
    /\ GroundStationInSync
    /\ ListOnTime

\* A module setup written from a stale or mixed reading is healed by a later
\* refresh, unless a restart loads the parameters anew.
SetupIsCurrent == \A i \in setupParams : applied[i] = params[i]
SetupCatchesUp == step = "run" /\ ~SetupIsCurrent ~> SetupIsCurrent \/ step = "load"
=============================================================================
