--------------------------- MODULE TimingMonitor ---------------------------
(***************************************************************************)
(* core/scheduling/TimingMonitor.cpp: the flight task notes which phases   *)
(* of its iteration took longer than their budget; once a second the       *)
(* telemetry task's health report (app/RuntimeHealthReporter.cpp) looks at *)
(* the notes one by one, reports, and asks for a new window.  Only the     *)
(* flight task clears the notes, at its next iteration.  Maxima, averages, *)
(* jitter and counts follow the same course as the notes.                  *)
(***************************************************************************)
EXTENDS Naturals

CONSTANT PhaseCount   \* the last phase is the whole iteration

ASSUME PhaseAssumption == PhaseCount \in Nat \ {0, 1}

Phases == 1..PhaseCount

VARIABLES
    budgetExceeded,   \* _phaseBudgetExceeded: the phases noted
    resetRequested,   \* timingWindowResetRequested
    loop,             \* flight task: <<"top", 0>>, <<"clear", p>>, <<"end", p>>
    report,           \* telemetry task: <<"idle", 0>>, <<"check", p>>, <<"request", 0>>
    overruns          \* history: phases over budget, neither reported nor excused

timingVars == <<budgetExceeded, resetRequested, loop, report, overruns>>

TimingInit ==
    /\ budgetExceeded = {}
    /\ resetRequested = FALSE
    /\ loop = <<"top", 0>>
    /\ report = <<"idle", 0>>
    /\ overruns = {}

-----------------------------------------------------------------------------
(* The flight task. *)

\* The iteration begins: a requested reset clears the notes phase by phase.
exchangeRequest ==
    /\ loop[1] = "top"
    /\ resetRequested' = FALSE
    /\ loop' = IF resetRequested THEN <<"clear", 1>> ELSE <<"end", 1>>
    /\ UNCHANGED <<budgetExceeded, report, overruns>>

resetWindow ==
    /\ loop[1] = "clear"
    /\ budgetExceeded' = budgetExceeded \ {loop[2]}
    /\ loop' = IF loop[2] < PhaseCount THEN <<"clear", loop[2] + 1>> ELSE <<"end", 1>>
    /\ UNCHANGED <<resetRequested, report, overruns>>

\* A report under way has passed the phase by, or the window is about to be erased.
Excusable == report[1] # "idle" \/ resetRequested

endTiming ==
    /\ loop[1] = "end"
    /\ \E exceeded \in BOOLEAN :
          /\ budgetExceeded' = budgetExceeded \cup (IF exceeded THEN {loop[2]} ELSE {})
          /\ overruns' = overruns \cup (IF exceeded /\ ~Excusable THEN {loop[2]} ELSE {})
    /\ loop' = IF loop[2] < PhaseCount THEN <<"end", loop[2] + 1>> ELSE <<"top", 0>>
    /\ UNCHANGED <<resetRequested, report>>

\* Disarmed, or without data, the iteration ends early: only the phases up to there and the last are measured.
skipPhases ==
    /\ loop[1] = "end" /\ loop[2] \in {1, 2} \ {PhaseCount}
    /\ loop' = <<"end", PhaseCount>>
    /\ UNCHANGED <<budgetExceeded, resetRequested, report, overruns>>

-----------------------------------------------------------------------------
(* The health report. *)

\* Mutant: the new window is asked for before the old one is looked at.
startReportAfterRequest ==
    /\ report[1] = "idle"
    /\ report' = <<"check", 1>>
    /\ resetRequested' = TRUE
    /\ UNCHANGED <<budgetExceeded, loop, overruns>>

startReport ==
    /\ report[1] = "idle"
    /\ report' = <<"check", 1>>
    /\ UNCHANGED <<budgetExceeded, resetRequested, loop, overruns>>

\* The first note found is reported, with the status of all phases.
checkBudgets ==
    /\ report[1] = "check"
    /\ IF report[2] \in budgetExceeded
         THEN report' = <<"request", 0>> /\ overruns' = {}
         ELSE /\ report' = IF report[2] < PhaseCount THEN <<"check", report[2] + 1>>
                                                      ELSE <<"request", 0>>
              /\ UNCHANGED overruns
    /\ UNCHANGED <<budgetExceeded, resetRequested, loop>>

requestTimingWindowReset ==
    /\ report[1] = "request"
    /\ resetRequested' = TRUE
    /\ report' = <<"idle", 0>>
    /\ UNCHANGED <<budgetExceeded, loop, overruns>>

TimingNext ==
    \/ exchangeRequest \/ resetWindow \/ endTiming \/ skipPhases
    \/ startReport \/ checkBudgets \/ requestTimingWindowReset

-----------------------------------------------------------------------------
TimingTypeOK ==
    /\ budgetExceeded \subseteq Phases /\ overruns \subseteq Phases
    /\ resetRequested \in BOOLEAN
    /\ loop \in ({"clear", "end"} \X Phases) \cup {<<"top", 0>>}
    /\ report \in ({"check"} \X Phases) \cup {<<"idle", 0>>, <<"request", 0>>}

\* An overrun is reported before its note can be erased, unless it happened while
\* a report was under way or a reset pending.
OverrunsAreReported == resetRequested \/ loop[1] = "clear" => overruns = {}
=============================================================================
