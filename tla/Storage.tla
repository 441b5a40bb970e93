------------------------------- MODULE Storage -------------------------------
(***************************************************************************)
(* The flash journal, the parameter manager above it and the pins that are *)
(* assigned by parameters, checked in one run.  FlashJournal shows that a  *)
(* save is one atomic change of a durable register; ParamManager is        *)
(* written against that register, ModuleSetup against any parameters.      *)
(* They share no state here: a behaviour is one of a single component.     *)
(***************************************************************************)
EXTENDS FlashJournal, ParamManager, ModuleSetup

VARIABLE component

OneOfEachKind == <<"pid", "setup">>

StorageInit ==
    /\ component \in {"journal", "params", "pins"}
    /\ Init /\ (component # "journal" => previous = NoBlob /\ legacy = NoBlob)
    /\ ParamInit /\ (component # "params" => stored = None)
    /\ SetupInit
    /\ component # "pins" =>
          named = [servos |-> DefaultServos, bus |-> <<PIN_SDA, PIN_SCL>>, buzzer |-> PIN_BUZZER]

StorageNext ==
    /\ \/ component = "journal" /\ Next /\ UNCHANGED <<paramVars, setupVars>>
       \/ component = "params" /\ ParamNext /\ UNCHANGED <<vars, setupVars>>
       \/ component = "pins" /\ SetupNext /\ UNCHANGED <<vars, paramVars>>
    /\ UNCHANGED component

StorageSpec ==
    /\ StorageInit /\ [][StorageNext]_<<component, vars, paramVars, setupVars>>
    /\ WF_vars(erase \/ program \/ verify)
    /\ ParamFairness

\* What holds of the parameters and of the pins in every state.
SettingsHold == SettingsAgree /\ SetupTypeOK /\ PinsAreTheirOwn

\* A save that has begun returns, and a stale module setup is healed.
StorageProgress == SaveEnds /\ SetupCatchesUp
=============================================================================
