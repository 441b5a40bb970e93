------------------------- MODULE FlashJournalProofs -------------------------
(***************************************************************************)
(* FlashJournal for every set of values and every bound: types, and the    *)
(* refinement of DurableRegister, a loss of power included.                *)
(***************************************************************************)
EXTENDS FlashJournal, TLAPS

\* A blob lies in the sector its generation names, and every blob of the
\* journal is newer than the previous firmware's.
SectorsInv ==
    \A s \in Slots : sectors[s] # NoBlob =>
        /\ Slot(sectors[s].generation) = s
        /\ previous # NoBlob => sectors[s].generation > previous.generation

Target == sectors[Slot(saving.generation)]
OtherSector == sectors[1 - Slot(saving.generation)]
Kept == {OtherSector, previous} \ {NoBlob}

\* The blobs a save does not touch include the newest one, one generation
\* older than the blob being saved; whatever else its sector holds is older.
SavingInv ==
    pc # "idle" =>
        /\ saving \in Blobs
        /\ \A b \in Kept : b.generation < saving.generation
        /\ Kept # {} => \E b \in Kept : b.generation = saving.generation - 1
        /\ Kept = {} => Target \in {NoBlob, saving}
        /\ Target \notin {NoBlob, saving} => Target.generation < saving.generation - 1
        /\ pc = "erase" => Target # saving
        /\ pc = "program" => Target = NoBlob

JournalInv == TypeOK /\ SectorsInv /\ SavingInv

-----------------------------------------------------------------------------
Valid == Candidates \ {NoBlob}

\* b is the only newest valid blob.
Newest(b) == b \in Valid /\ \A c \in Valid : c # b => c.generation < b.generation

\* A blob newer than every other one of a set is the one newestBlob picks.
LEMMA NewestPicked ==
    ASSUME NEW S \in SUBSET Blobs, NEW b \in S, \A c \in S : c # b => c.generation < b.generation
    PROVE  newestBlob(S) = b
  <1>1. \A c \in S : c.generation \in Nat
    BY GenerationAssumption DEF Blobs
  <1>2. \A c \in S : c.generation <= b.generation
    BY <1>1
  <1> QED
    BY <1>1, <1>2 DEF newestBlob

\* load() returns the newest blob.
LEMMA LoadNewest ==
    ASSUME TypeOK, NEW b, Newest(b) PROVE load = b
  <1>1. Valid \in SUBSET Blobs
    BY DEF TypeOK, Valid, Candidates, Slots, SlotCount
  <1>2. newestBlob(Valid) = b
    BY <1>1, NewestPicked DEF Newest
  <1>3. Candidates # {NoBlob}
    BY DEF Newest, Valid
  <1> QED
    BY <1>2, <1>3 DEF load, Valid

\* The sectors and the previous journal never tie: there is a newest blob.
LEMMA NewestExists ==
    ASSUME TypeOK, SectorsInv, Candidates # {NoBlob} PROVE \E b \in Blobs : Newest(b)
  <1>1. Slots = {0, 1} /\ Candidates = {sectors[0], sectors[1], previous}
    BY DEF Slots, SlotCount, Candidates
  <1>2. /\ sectors[0] \in Blobs \cup {NoBlob}
        /\ sectors[1] \in Blobs \cup {NoBlob}
        /\ previous \in Blobs \cup {NoBlob}
    BY <1>1 DEF TypeOK
  <1>3. \A b \in Blobs : b.generation \in Nat
    BY GenerationAssumption DEF Blobs
  <1>4. sectors[0] # NoBlob /\ sectors[1] # NoBlob =>
            sectors[0].generation # sectors[1].generation
    BY <1>1 DEF SectorsInv
  <1>5. NoBlob \notin Blobs
    BY ValuesAssumption, GenerationAssumption DEF Blobs
  <1>6. \A s \in {0, 1} : sectors[s] # NoBlob /\ previous # NoBlob =>
            sectors[s].generation > previous.generation
    BY <1>1 DEF SectorsInv
  <1>7. Valid = {sectors[0], sectors[1], previous} \ {NoBlob} /\ Valid # {}
    BY <1>1 DEF Valid
  <1> QED
    BY <1>2, <1>3, <1>4, <1>5, <1>6, <1>7 DEF Newest

\* What load() returns is no blob, the legacy value, or the newest blob.
LEMMA LoadCases ==
    ASSUME TypeOK, SectorsInv
    PROVE  \/ Valid # {} /\ load \in Blobs /\ Newest(load)
           \/ /\ Valid = {} /\ legacy # NoBlob
              /\ load = [generation |-> 1, value |-> legacy] /\ load \in Blobs
           \/ Valid = {} /\ legacy = NoBlob /\ load = NoBlob
  <1>1. CASE Candidates # {NoBlob}
    BY <1>1, NewestExists, LoadNewest DEF Newest
  <1>2. CASE Candidates = {NoBlob}
    <2>1. [generation |-> 1, value |-> legacy] \in Blobs \/ legacy = NoBlob
      BY GenerationAssumption DEF TypeOK, Blobs
    <2> QED
      BY <1>2, <2>1 DEF load, Valid
  <1> QED
    BY <1>1, <1>2

-----------------------------------------------------------------------------
\* The constants, and which slot a generation goes to.
LEMMA Facts ==
    /\ Slots = {0, 1}
    /\ NoBlob \notin Blobs
    /\ \A b \in Blobs : b.generation \in Nat /\ b.generation >= 1 /\ b.value \in Values
    /\ \A g \in Nat : Slot(g) \in Slots
  BY ValuesAssumption, GenerationAssumption DEF Slots, SlotCount, Slot, Blobs

\* A flash that never saw a save satisfies the invariant.
LEMMA InitInv == Init => JournalInv
  BY AttemptsAssumption, Facts DEF Init, JournalInv, TypeOK, SectorsInv, SavingInv

\* Flash and program counter apart, the flash invariant needs no care.
LEMMA FlashUnchanged ==
    ASSUME JournalInv, UNCHANGED flashVars
    PROVE  SectorsInv'
  BY DEF JournalInv, SectorsInv, flashVars

\* The new blob is one generation beyond every other one.
LEMMA BeginInv ==
    ASSUME JournalInv, NEW value \in Values, begin(value) PROVE JournalInv'
  <1> USE DEF JournalInv
  <1>1. SectorsInv'
    BY FlashUnchanged DEF begin
  <1>2. saving' \in Blobs /\ nextGeneration \in Nat
    BY LoadCases, Facts, GenerationAssumption DEF begin, nextGeneration, hasExisting, Blobs
  <1>3. TypeOK'
    BY <1>2, AttemptsAssumption DEF begin, TypeOK, flashVars
  <1>4. saving'.generation = nextGeneration
    BY DEF begin
  <1>5. \A c \in Valid : c.generation < nextGeneration
    <2>1. Valid \subseteq Blobs
      BY Facts DEF Valid, Candidates, TypeOK
    <2> QED
      BY <2>1, LoadCases, Facts DEF nextGeneration, hasExisting, Newest
  <1>6. Valid # {} => load \in Valid /\ load.generation = nextGeneration - 1 /\ load \in Blobs
    BY LoadCases, Facts DEF nextGeneration, hasExisting, Newest
  <1>7. SavingInv'
    <2> DEFINE t == Slot(nextGeneration)
    <2>1. /\ t \in Slots /\ 1 - t \in Slots /\ Slots = {t, 1 - t}
          /\ Target' = sectors[t] /\ OtherSector' = sectors[1 - t] /\ previous' = previous
      BY <1>2, <1>4, Facts DEF Target, OtherSector, begin, flashVars
    <2>2. Kept' = {sectors[1 - t], previous} \ {NoBlob}
      BY <2>1 DEF Kept
    <2>3. Valid = {sectors[t], sectors[1 - t], previous} \ {NoBlob}
      BY <2>1 DEF Valid, Candidates
    <2>4. Valid \subseteq Blobs
      BY <2>1, <2>3 DEF TypeOK
    <2>5. Kept' \subseteq Valid
      BY <2>2, <2>3
    <2>6. sectors[t] # NoBlob => sectors[t].generation < nextGeneration - 1
      <3> HAVE sectors[t] # NoBlob
      <3>1. /\ sectors[t] \in Valid /\ sectors[t].generation \in Nat
            /\ sectors[t].generation < nextGeneration
        BY <1>5, <2>3, <2>4, Facts
      <3>2. Slot(sectors[t].generation) = Slot(nextGeneration)
        BY <2>1 DEF SectorsInv
      <3> QED
        BY <1>2, <3>1, <3>2 DEF Slot, SlotCount
    <2>7. Kept' # {} => load \in Kept'
      <3> HAVE Kept' # {}
      <3>1. load \in Valid /\ load.generation = nextGeneration - 1
        BY <1>6, <2>5
      <3> QED
        BY <1>2, <2>2, <2>3, <2>6, <3>1
    <2>8. Kept' = {} => sectors[t] = NoBlob
      <3> SUFFICES ASSUME Kept' = {}, sectors[t] # NoBlob PROVE FALSE
        OBVIOUS
      <3>1. Valid = {sectors[t]}
        BY <2>2, <2>3
      <3> QED
        BY <1>2, <1>6, <2>6, <3>1
    <2>9. sectors[t] # saving'
      BY <1>2, <1>4, <2>6, Facts
    <2> QED
      BY <1>2, <1>4, <1>5, <1>6, <2>1, <2>5, <2>6, <2>7, <2>8, <2>9 DEF SavingInv, begin
  <1> QED
    BY <1>1, <1>3, <1>7

\* Erasing the sector of the older blob loses nothing that is loaded.
LEMMA EraseInv == ASSUME JournalInv, erase PROVE JournalInv'
  <1> USE DEF JournalInv
  <1>1. saving \in Blobs /\ Slot(saving.generation) \in Slots /\ 1 - Slot(saving.generation) \in Slots
    BY Facts DEF SavingInv, erase
  <1>2. TypeOK' /\ SectorsInv'
    BY <1>1 DEF erase, TypeOK, SectorsInv
  <1>3. Target' = NoBlob /\ OtherSector' = OtherSector /\ Kept' = Kept
    BY <1>1, Facts DEF erase, Target, OtherSector, Kept, TypeOK
  <1>4. SavingInv'
    BY <1>1, <1>3, Facts DEF SavingInv, erase
  <1> QED
    BY <1>2, <1>4

\* Programming a page completes the blob or leaves it unreadable.
LEMMA ProgramInv == ASSUME JournalInv, program PROVE JournalInv'
  <1> USE DEF JournalInv
  <1>1. saving \in Blobs /\ Slot(saving.generation) \in Slots /\ 1 - Slot(saving.generation) \in Slots
    BY Facts DEF SavingInv, program
  <1>2. PICK held \in {saving, NoBlob} :
          sectors' = [sectors EXCEPT ![Slot(saving.generation)] = held]
    BY DEF program
  <1>3. TypeOK'
    BY <1>1, <1>2 DEF program, TypeOK
  <1>4. Target' = held /\ OtherSector' = OtherSector /\ Kept' = Kept
    BY <1>1, <1>2, Facts DEF program, Target, OtherSector, Kept, TypeOK
  <1>5. previous # NoBlob => saving.generation > previous.generation
    BY <1>1, Facts DEF SavingInv, Kept, program, TypeOK
  <1>6. SectorsInv'
    BY <1>1, <1>2, <1>5 DEF program, SectorsInv, TypeOK
  <1>7. SavingInv'
    BY <1>1, <1>2, <1>4, Facts DEF SavingInv, program
  <1> QED
    BY <1>3, <1>6, <1>7

\* The steps that leave the sectors alone.
LEMMA OtherInv ==
    ASSUME JournalInv, verify \/ refuse \/ keep \/ crash \/ UNCHANGED vars PROVE JournalInv'
  <1> USE DEF JournalInv
  <1>1. UNCHANGED flashVars
    BY DEF verify, refuse, keep, crash, vars
  <1>2. SectorsInv'
    BY <1>1, FlashUnchanged
  <1>3. TypeOK'
    BY AttemptsAssumption DEF verify, return, retry, refuse, keep, crash, TypeOK, flashVars, vars
  <1>4. SavingInv'
    <2>1. CASE pc' = "idle"
      BY <2>1 DEF SavingInv
    <2>2. CASE pc' # "idle"
      <3>1. UNCHANGED saving /\ pc # "idle" /\ pc' \in {pc, "erase"}
            /\ (pc' = "erase" => pc = "erase" \/ Target # saving)
        BY <2>2 DEF verify, return, retry, refuse, keep, crash, vars, slotMatches, Target
      <3>2. Target' = Target /\ Kept' = Kept
        BY <1>1, <3>1 DEF Target, Kept, OtherSector, flashVars
      <3> QED
        BY <3>1, <3>2 DEF SavingInv
    <2> QED
      BY <2>1, <2>2
  <1> QED
    BY <1>2, <1>3, <1>4

\* The invariant of the journal, for every set of values and every bound.
THEOREM JournalInvariant == Spec => []JournalInv
  <1>1. JournalInv /\ [Next]_vars => JournalInv'
    BY BeginInv, EraseInv, ProgramInv, OtherInv DEF Next, save
  <1> QED
    BY InitInv, <1>1, PTL DEF Spec

\* The journal's variables keep their types.
THEOREM TypeCorrect == Spec => []TypeOK
  BY JournalInvariant, PTL DEF JournalInv

-----------------------------------------------------------------------------
\* The refinement mapping, by name.
Stored == IF hasExisting THEN load.value ELSE NoBlob
Pending == IF pc = "idle" THEN NoBlob ELSE saving.value
Committed == pc # "idle" /\ slotMatches

\* What a restart would load depends on the flash alone.
LEMMA StoredUnchanged == ASSUME UNCHANGED flashVars PROVE Stored' = Stored /\ load' = load
  BY DEF flashVars, Stored, hasExisting, load, Candidates

\* What a load finds is a value or nothing.
LEMMA StoredType ==
    ASSUME JournalInv PROVE Stored \in Values \cup {NoBlob} /\ (hasExisting => Stored \in Values)
  BY LoadCases, Facts DEF JournalInv, Stored, hasExisting

\* As long as the new blob is not in place, what the save touches is not the
\* newest blob.
LEMMA EraseKeepsLoad ==
    ASSUME JournalInv, JournalInv', pc # "idle", UNCHANGED <<previous, legacy, saving>>,
           Target # saving, Target' = NoBlob, OtherSector' = OtherSector
    PROVE  load' = load
  <1> USE DEF JournalInv
  <1>1. /\ Slots = {Slot(saving.generation), 1 - Slot(saving.generation)}
        /\ saving \in Blobs
    BY Facts DEF SavingInv
  <1>2. Valid = Kept \cup ({Target} \ {NoBlob}) /\ Valid' = Kept
    BY <1>1 DEF Valid, Candidates, Kept, Target, OtherSector
  <1>3. CASE Kept = {}
    <2>1. Valid = {} /\ Valid' = {}
      BY <1>2, <1>3 DEF SavingInv
    <2> QED
      BY <2>1, Facts DEF load, Valid, Candidates
  <1>4. CASE Kept # {}
    <2>1. PICK b \in Kept : b.generation = saving.generation - 1
      BY <1>4 DEF SavingInv
    <2>2. Valid \subseteq Blobs
      BY Facts DEF Valid, Candidates, TypeOK
    <2>3. \A c \in Valid : c.generation <= b.generation
      BY <1>1, <1>2, <2>1, <2>2, Facts DEF SavingInv
    <2>4. Newest(load)
      BY <1>2, <1>4, LoadCases
    <2>5. load = b
      BY <1>2, <2>1, <2>2, <2>3, <2>4, Facts DEF Newest
    <2>6. Valid' \in SUBSET Blobs /\ b \in Valid' /\ \A c \in Valid' : c # b => c.generation < b.generation
      BY <1>2, <2>1, <2>2, <2>4, <2>5 DEF Newest
    <2>7. newestBlob(Valid') = b
      BY <2>6, NewestPicked
    <2>8. load' = b
      BY <1>2, <1>4, <2>7 DEF load, Valid
    <2> QED
      BY <2>5, <2>8
  <1> QED
    BY <1>3, <1>4

\* The save takes effect when its blob is programmed.
LEMMA ProgrammedLoads ==
    ASSUME JournalInv, JournalInv', pc # "idle", saving' = saving, previous' = previous,
           Target' = saving, OtherSector' = OtherSector
    PROVE  load' = saving
  <1> USE DEF JournalInv
  <1>1. /\ Slots = {Slot(saving.generation), 1 - Slot(saving.generation)}
        /\ saving \in Blobs /\ saving # NoBlob
    BY Facts DEF SavingInv
  <1>2. Valid' = Kept \cup {saving}
    BY <1>1 DEF Valid, Candidates, Kept, Target, OtherSector
  <1>3. \A c \in Valid' : c # saving => c.generation < saving.generation
    BY <1>2 DEF SavingInv
  <1>4. Valid' \in SUBSET Blobs
    BY Facts DEF Valid, Candidates, TypeOK
  <1>5. newestBlob(Valid') = saving
    BY <1>2, <1>3, <1>4, NewestPicked
  <1> QED
    BY <1>1, <1>2, <1>5 DEF load, Valid

\* The register starts with what the first load finds.
LEMMA InitRefines == ASSUME Init PROVE Register!Init
  <1>1. JournalInv
    BY InitInv
  <1> QED
    BY <1>1, StoredType DEF Init, Register!Init, Stored, slotMatches

\* A step of the journal is one of the register or none.
LEMMA StepRefines ==
    ASSUME JournalInv, JournalInv', [Next]_vars
    PROVE  [Register!Next]_(Register!vars)
  <1> USE DEF JournalInv, Stored, Pending, Committed, slotMatches
  <1> USE DEF Register!vars, Register!Next
  <1>0. pc # "idle" => saving \in Blobs /\ saving.value \in Values /\ saving # NoBlob /\ saving.value # NoBlob
    BY Facts, ValuesAssumption DEF SavingInv
  <1>1. ASSUME NEW value \in Values, begin(value) PROVE Register!Begin
    <2>1. Stored' = Stored
      BY <1>1, StoredUnchanged DEF begin
    <2>2. ~Committed' /\ ~Committed
      BY <1>1 DEF begin, SavingInv, Target
    <2>3. Pending = NoBlob /\ Pending' = value
      BY <1>1 DEF begin
    <2> QED
      BY <1>1, <2>1, <2>2, <2>3 DEF begin, Register!Begin
  <1>2. CASE erase
    <2>1. pc # "idle" /\ pc' # "idle" /\ Target # saving /\ Target' = NoBlob /\ OtherSector' = OtherSector
      BY <1>2, Facts DEF erase, SavingInv, Target, OtherSector, TypeOK
    <2>2. load' = load
      BY <1>2, <2>1, EraseKeepsLoad DEF erase
    <2>3. ~Committed /\ ~Committed'
      BY <1>0, <1>2, <2>1 DEF erase, Target
    <2> QED
      BY <1>2, <2>1, <2>2, <2>3 DEF erase, hasExisting
  <1>3. CASE program
    <2>1. pc # "idle" /\ pc' # "idle" /\ saving' = saving /\ Target = NoBlob /\ Target # saving
          /\ OtherSector' = OtherSector /\ Target' \in {saving, NoBlob}
      BY <1>0, <1>3, Facts DEF program, SavingInv, Target, OtherSector, TypeOK
    <2>2. CASE Target' = NoBlob
      <3>1. load' = load
        BY <1>3, <2>1, <2>2, EraseKeepsLoad DEF program
      <3>2. ~Committed /\ ~Committed'
        BY <1>0, <2>1, <2>2 DEF Target
      <3> QED
        BY <1>3, <2>1, <3>1, <3>2 DEF program, hasExisting
    <2>3. CASE Target' = saving
      <3>1. load' = saving
        BY <1>3, <2>1, <2>3, ProgrammedLoads DEF program
      <3>2. ~Committed /\ Committed'
        BY <1>0, <2>1, <2>3 DEF Target
      <3> QED
        BY <1>0, <1>3, <2>1, <3>1, <3>2 DEF program, hasExisting, Register!Commit
    <2> QED
      BY <2>1, <2>2, <2>3
  <1>4. CASE verify
    <2>1. Stored' = Stored
      BY <1>4, StoredUnchanged DEF verify
    <2>2. CASE pc' = "idle"
      BY <1>0, <1>4, <2>1, <2>2 DEF verify, return, retry, Register!End
    <2>3. CASE pc' # "idle"
      BY <1>4, <2>1, <2>3 DEF verify, return, retry, flashVars
    <2> QED
      BY <2>2, <2>3
  <1>5. CASE refuse \/ keep
    <2>1. Stored' = Stored
      BY <1>5, StoredUnchanged DEF refuse, keep
    <2>2. hasExisting => Stored # NoBlob
      BY StoredType, ValuesAssumption
    <2> QED
      BY <1>5, <2>1, <2>2 DEF refuse, keep, Register!Return
  <1>6. CASE crash
    <2>1. Stored' = Stored
      BY <1>6, StoredUnchanged DEF crash
    <2> QED
      BY <1>6, <2>1 DEF crash, Register!Crash
  <1>7. CASE UNCHANGED vars
    BY <1>7, StoredUnchanged DEF vars, flashVars
  <1> QED
    BY <1>1, <1>2, <1>3, <1>4, <1>5, <1>6, <1>7 DEF Next, save

\* The journal is a durable register: a save takes effect at one instant or
\* not at all, through every failure of the flash and every loss of power.
THEOREM Refinement == Spec => ImplementsRegister
  BY InitRefines, StepRefines, JournalInvariant, PTL
     DEF Spec, ImplementsRegister, Register!Spec
=============================================================================
