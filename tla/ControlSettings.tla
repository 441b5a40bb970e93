-------------------------- MODULE ControlSettings --------------------------
(***************************************************************************)
(* core/control/FlightControlTask.cpp: PID gains and mixer settings cross  *)
(* from the telemetry task on core 0 to the flight task on core 1, each    *)
(* kind through a record and a sequence counter, odd while the record is   *)
(* being stored.  The flight task looks once per iteration, skips a record *)
(* that is being stored or changed under its copy, and comes back.         *)
(* A record is stored and copied word by word; its words carry the number  *)
(* of their publication.                                                   *)
(***************************************************************************)
EXTENDS Naturals, FiniteSets

CONSTANTS
    SettingWords,       \* the words of a record
    MaxSettings         \* bound: publications of each kind

ASSUME SettingsAssumption == SettingWords # {} /\ MaxSettings \in Nat

VARIABLES
    pendingSeq, pendingWord,    \* per kind: counter and record
    storing, unstored,          \* the kind being published, or "none"; its words to store
    appliedSeq, applied,        \* per kind: what the control loop uses
    looking, seq1,              \* the kind run() looks at, its first load of the counter
    copied, uncopied            \* its copy, and the words it has yet to copy

pendingVars == <<pendingSeq, pendingWord, storing, unstored>>
lookVars == <<looking, seq1, copied, uncopied>>
appliedVars == <<appliedSeq, applied>>
settingsVars == <<pendingVars, lookVars, appliedVars>>

Kinds == {"pid", "mixer"}
Record(n) == [w \in SettingWords |-> n]
IsOdd(n) == n % 2 = 1
settingsPublished(k) == pendingSeq[k] \div 2

SettingsInit ==
    /\ pendingSeq = [k \in Kinds |-> 0] /\ pendingWord = [k \in Kinds |-> Record(0)]
    /\ storing = "none" /\ unstored = {}
    /\ appliedSeq = [k \in Kinds |-> 0] /\ applied = [k \in Kinds |-> Record(0)]
    /\ looking = "none" /\ seq1 = 0 /\ copied = Record(0) /\ uncopied = {}

-----------------------------------------------------------------------------
\* publishPendingPidGains(), publishPendingMixerSettings(): only the telemetry
\* task calls them, so the counter it finds is even.
beginSettings(k) ==
    /\ storing = "none" /\ settingsPublished(k) < MaxSettings
    /\ pendingSeq' = [pendingSeq EXCEPT ![k] = IF IsOdd(@ + 1) THEN @ + 1 ELSE @ + 2]
    /\ storing' = k /\ unstored' = SettingWords
    /\ UNCHANGED <<pendingWord, lookVars, appliedVars>>

storeSetting ==
    \E w \in unstored :
        /\ pendingWord' = [pendingWord EXCEPT ![storing][w] = settingsPublished(storing) + 1]
        /\ unstored' = unstored \ {w}
        /\ UNCHANGED <<pendingSeq, storing, lookVars, appliedVars>>

endSettings ==
    /\ storing # "none" /\ unstored = {}
    /\ pendingSeq' = [pendingSeq EXCEPT ![storing] = @ + 1]
    /\ storing' = "none"
    /\ UNCHANGED <<pendingWord, unstored, lookVars, appliedVars>>

publishSettings == (\E k \in Kinds : beginSettings(k)) \/ storeSetting \/ endSettings

-----------------------------------------------------------------------------
\* applyPendingControlSettings(), the gains first.
leave(k) == looking' = IF k = "pid" THEN "mixer" ELSE "none"

\* Mutant: a record that is being stored is copied too.
worthCopyingOdd(k) == pendingSeq[k] # appliedSeq[k]

worthCopying(k) == ~IsOdd(pendingSeq[k]) /\ pendingSeq[k] # appliedSeq[k]

\* Mutant: the second look is not needed.
unchangedAnyway(k) == TRUE

unchanged(k) == pendingSeq[k] = seq1

startLook ==
    /\ looking = "none"
    /\ looking' = "pid"
    /\ UNCHANGED <<pendingVars, seq1, copied, uncopied, appliedVars>>

loadSeq1 ==
    /\ looking \in Kinds
    /\ IF worthCopying(looking)
         THEN /\ seq1' = pendingSeq[looking]
              /\ uncopied' = SettingWords
              /\ looking' = (IF looking = "pid" THEN "pid copy" ELSE "mixer copy")
         ELSE leave(looking) /\ UNCHANGED <<seq1, uncopied>>
    /\ UNCHANGED <<pendingVars, copied, appliedVars>>

Copying(k) == looking = (IF k = "pid" THEN "pid copy" ELSE "mixer copy")

copySetting(k) ==
    /\ Copying(k)
    /\ \E w \in uncopied :
         copied' = [copied EXCEPT ![w] = pendingWord[k][w]] /\ uncopied' = uncopied \ {w}
    /\ UNCHANGED <<pendingVars, looking, seq1, appliedVars>>

\* Mutant: the record counts as applied although it changed under the copy.
loadSeq2Skipping(k) ==
    /\ Copying(k) /\ uncopied = {}
    /\ applied' = IF unchanged(k) THEN [applied EXCEPT ![k] = copied] ELSE applied
    /\ appliedSeq' = [appliedSeq EXCEPT ![k] = pendingSeq[k]]
    /\ leave(k)
    /\ UNCHANGED <<pendingVars, seq1, copied, uncopied>>

loadSeq2(k) ==
    /\ Copying(k) /\ uncopied = {}
    /\ IF unchanged(k)
         THEN /\ applied' = [applied EXCEPT ![k] = copied]
              /\ appliedSeq' = [appliedSeq EXCEPT ![k] = pendingSeq[k]]
         ELSE UNCHANGED appliedVars
    /\ leave(k)
    /\ UNCHANGED <<pendingVars, seq1, copied, uncopied>>

applySettings == startLook \/ loadSeq1 \/ \E k \in Kinds : copySetting(k) \/ loadSeq2(k)

SettingsNext == publishSettings \/ applySettings

\* Both tasks run, and the telemetry task finishes what it publishes.
SettingsFairness ==
    /\ WF_settingsVars(applySettings)
    /\ WF_settingsVars(storeSetting \/ endSettings)

SettingsSpec == SettingsInit /\ [][SettingsNext]_settingsVars /\ SettingsFairness

-----------------------------------------------------------------------------
SettingsTypeOK ==
    /\ pendingSeq \in [Kinds -> 0 .. 2 * MaxSettings]
    /\ pendingWord \in [Kinds -> [SettingWords -> 0 .. MaxSettings]]
    /\ storing \in Kinds \cup {"none"} /\ unstored \subseteq SettingWords
    /\ appliedSeq \in [Kinds -> 0 .. 2 * MaxSettings]
    /\ applied \in [Kinds -> [SettingWords -> 0 .. MaxSettings]]
    /\ looking \in Kinds \cup {"none", "pid copy", "mixer copy"}
    /\ seq1 \in 0 .. 2 * MaxSettings
    /\ copied \in [SettingWords -> 0 .. MaxSettings] /\ uncopied \subseteq SettingWords

\* The control loop never flies gains or a mixer of two publications, and what
\* it flies is the publication its applied counter stands for.
SettingsAreWhole == \A k \in Kinds : applied[k] = Record(appliedSeq[k] \div 2)

\* The last publication reaches the control loop, however the copies collided.
SettingsArrive == \A k \in Kinds : <>[](applied[k] = Record(settingsPublished(k)))
=============================================================================
