-------------------------- MODULE DurableRegister --------------------------
(***************************************************************************)
(* What a settings store promises: a value that survives a loss of power,  *)
(* and a save that takes effect at one instant or not at all.              *)
(***************************************************************************)
CONSTANTS Values, NoValue

VARIABLES
    stored,     \* the value a restart would load, NoValue if there is none
    pending,    \* the value being saved, NoValue if no save is running
    committed,  \* the running save has taken effect
    answer      \* what the last save returned, "none" while it has not

vars == <<stored, pending, committed, answer>>

Init ==
    /\ stored \in Values \cup {NoValue}
    /\ pending = NoValue
    /\ committed = FALSE
    /\ answer = "none"

Begin ==
    /\ pending = NoValue
    /\ pending' \in Values
    /\ answer' = "none"
    /\ UNCHANGED <<stored, committed>>

\* A save of what is stored already, or of a value that is refused.
Return ==
    /\ pending = NoValue
    /\ answer' \in (IF stored = NoValue THEN {"failed"} ELSE {"ok", "failed"})
    /\ UNCHANGED <<stored, pending, committed>>

Commit ==
    /\ pending # NoValue /\ ~committed
    /\ stored' = pending
    /\ committed' = TRUE
    /\ UNCHANGED <<pending, answer>>

\* A save succeeds exactly if it has taken effect.
End ==
    /\ pending # NoValue
    /\ pending' = NoValue
    /\ committed' = FALSE
    /\ answer' = IF committed THEN "ok" ELSE "failed"
    /\ UNCHANGED stored

\* A loss of power ends a running save before or after it took effect.
Crash ==
    /\ pending' = NoValue
    /\ committed' = FALSE
    /\ answer' = "none"
    /\ UNCHANGED stored

Next == Begin \/ Return \/ Commit \/ End \/ Crash

Spec == Init /\ [][Next]_vars
=============================================================================
