---------------------------- MODULE FlashJournal ----------------------------
(***************************************************************************)
(* storage/CalibrationStorage.cpp: a value kept in two flash sectors, each *)
(* holding one generation, and found again after a loss of power at any    *)
(* point of a save.  storage/ParamStorage.cpp is the same journal without  *)
(* the area of the previous firmware.                                      *)
(* A sector holds a whole blob or nothing valid: erased, half erased and   *)
(* half programmed sectors all fail the checksum.  The flash may fail to   *)
(* program a sector; it never changes one it was not told to.              *)
(***************************************************************************)
EXTENDS Integers

CONSTANTS
    Values,         \* the calibrations a blob may carry
    NoBlob,         \* no valid blob, no value
    Attempts,       \* FLASH_WRITE_ATTEMPTS
    MaxGeneration   \* bound: no save begins beyond this generation

ASSUME ValuesAssumption ==
    NoBlob \notin Values /\ NoBlob \notin [generation : Nat, value : Values]
ASSUME AttemptsAssumption == Attempts \in Nat \ {0}
ASSUME GenerationAssumption == MaxGeneration \in Nat \ {0}

VARIABLES
    sectors,    \* what the two sectors of the journal hold
    previous,   \* the newest blob in the previous firmware's journal
    legacy,     \* the value in the sector used before there was a journal
    pc,         \* where save() is
    saving,     \* its journalBlob
    attempt,    \* its attempt
    result      \* what the last save returned, "none" while it has not

flashVars == <<sectors, previous, legacy>>
vars == <<flashVars, pc, saving, attempt, result>>

SlotCount == 2
Slots == 0 .. SlotCount - 1
Blobs == [generation : 1 .. MaxGeneration, value : Values]

\* Mutant: every generation goes to the first sector.
SlotFirst(generation) == 0

Slot(generation) == generation % SlotCount

-----------------------------------------------------------------------------
Candidates == {sectors[s] : s \in Slots} \cup {previous}

newestBlob(blobs) ==
    CHOOSE b \in blobs : \A c \in blobs : c.generation <= b.generation

\* load(): the newest valid blob, or else the legacy value as generation 1.
load ==
    IF Candidates # {NoBlob} THEN newestBlob(Candidates \ {NoBlob})
    ELSE IF legacy # NoBlob  THEN [generation |-> 1, value |-> legacy]
    ELSE NoBlob

hasExisting == load # NoBlob

nextGeneration == IF hasExisting THEN load.generation + 1 ELSE 1

Init ==
    /\ sectors = [s \in Slots |-> NoBlob]
    /\ previous \in Blobs \cup {NoBlob}
    /\ legacy \in Values \cup {NoBlob}
    /\ pc = "idle"
    /\ saving = NoBlob
    /\ attempt = 0
    /\ result = "none"

-----------------------------------------------------------------------------
(* save()                                                                   *)

\* A blob without a valid calibration is refused.
refuse ==
    /\ pc = "idle"
    /\ result' = "failed"
    /\ UNCHANGED <<flashVars, pc, saving, attempt>>

keep ==
    /\ pc = "idle"
    /\ hasExisting
    /\ result' = "ok"
    /\ UNCHANGED <<flashVars, pc, saving, attempt>>

begin(value) ==
    /\ pc = "idle"
    /\ nextGeneration <= MaxGeneration
    /\ hasExisting => load.value # value
    /\ saving' = [generation |-> nextGeneration, value |-> value]
    /\ attempt' = 0
    /\ pc' = "erase"
    /\ result' = "none"
    /\ UNCHANGED flashVars

erase ==
    /\ pc = "erase"
    /\ sectors' = [sectors EXCEPT ![Slot(saving.generation)] = NoBlob]
    /\ pc' = "program"
    /\ UNCHANGED <<previous, legacy, saving, attempt, result>>

program ==
    /\ pc = "program"
    /\ \E held \in {saving, NoBlob} :
         sectors' = [sectors EXCEPT ![Slot(saving.generation)] = held]
    /\ pc' = "verify"
    /\ UNCHANGED <<previous, legacy, saving, attempt, result>>

slotMatches == sectors[Slot(saving.generation)] = saving

return(answer) ==
    /\ pc' = "idle"
    /\ saving' = NoBlob
    /\ attempt' = 0
    /\ result' = answer

\* Mutant: the attempts are not counted.
retryUncounted == pc' = "erase" /\ UNCHANGED <<attempt, saving, result>>

\* Mutant: one attempt more than allowed.
retryOnceMore ==
    IF attempt < Attempts
      THEN pc' = "erase" /\ attempt' = attempt + 1 /\ UNCHANGED <<saving, result>>
      ELSE return("failed")

retry ==
    IF attempt + 1 < Attempts
      THEN pc' = "erase" /\ attempt' = attempt + 1 /\ UNCHANGED <<saving, result>>
      ELSE return("failed")

verify ==
    /\ pc = "verify"
    /\ IF slotMatches THEN return("ok") ELSE retry
    /\ UNCHANGED flashVars

save == erase \/ program \/ verify \/ refuse \/ keep \/ \E value \in Values : begin(value)

-----------------------------------------------------------------------------
\* Power is lost, or the watchdog resets the controller, and it boots again.
crash ==
    /\ pc' = "idle"
    /\ saving' = NoBlob
    /\ attempt' = 0
    /\ result' = "none"
    /\ UNCHANGED flashVars

Next == save \/ crash

Spec == Init /\ [][Next]_vars

\* A save that has begun is executed to its end unless power is lost.
FairSpec == Spec /\ WF_vars(erase \/ program \/ verify)

-----------------------------------------------------------------------------
TypeOK ==
    /\ sectors \in [Slots -> Blobs \cup {NoBlob}]
    /\ previous \in Blobs \cup {NoBlob}
    /\ legacy \in Values \cup {NoBlob}
    /\ pc \in {"idle", "erase", "program", "verify"}
    /\ saving \in Blobs \cup {NoBlob}
    /\ attempt \in 0 .. Attempts - 1
    /\ result \in {"none", "ok", "failed"}

\* Every save returns, however often the flash fails.
SaveEnds == pc # "idle" ~> pc = "idle"

\* What load() would return changes only to the value being saved and only
\* once, a save that fails or is cut short before it leaves the old value, and
\* one that reports success has taken effect: the journal is a durable register.
Register == INSTANCE DurableRegister
              WITH NoValue   <- NoBlob,
                   stored    <- IF hasExisting THEN load.value ELSE NoBlob,
                   pending   <- IF pc = "idle" THEN NoBlob ELSE saving.value,
                   committed <- pc # "idle" /\ slotMatches,
                   answer    <- result

ImplementsRegister == Register!Spec
=============================================================================
