----------------------- MODULE ServiceCommandMailbox -----------------------
(***************************************************************************)
(* app/ServiceCommandMailbox.cpp: one slot for a request on its way from   *)
(* the telemetry task to the sensor task, one for a completion on its way  *)
(* back.  Both tasks run on core 0 and telemetry has the higher priority,  *)
(* so submit and takeCompletion are single steps, while claim and complete *)
(* are taken apart.                                                        *)
(* A completion has two words, its head (action and result) and its        *)
(* reason text; both carry the completion they were written for.           *)
(***************************************************************************)
EXTENDS Naturals, Sequences, SequencesExt

CONSTANTS
    Actions,      \* the service commands that go through the mailbox
    Empty,        \* what a cleared slot holds
    MaxRequests   \* bound: requests accepted in a behaviour

VARIABLES
    pendingReady,     \* _pendingReady: 0 free, 1 in use, 2 full
    pending,          \* _pending
    completionReady,  \* _completionReady
    completion,       \* _completion
    accepted,         \* history: the requests submit() accepted
    claimed,          \* history: the requests claim() returned
    posts,            \* history: the completions complete() was given
    reports           \* history: the completions takeCompletion() returned

requestVars == <<pendingReady, pending, accepted, claimed>>
completionVars == <<completionReady, completion, posts, reports>>
mailboxVars == <<requestVars, completionVars>>

Blank == [head |-> Empty, reason |-> Empty]

Results == {"accepted", "inProgress", "failed", "denied", "rejected"}
Completions == [action : Actions, result : Results, async : BOOLEAN]

MailboxInit ==
    /\ pendingReady = 0
    /\ pending = Empty
    /\ completionReady = FALSE
    /\ completion = Blank
    /\ accepted = <<>>
    /\ claimed = <<>>
    /\ posts = <<>>
    /\ reports = <<>>

-----------------------------------------------------------------------------
(* The telemetry side.                                                      *)

\* Mutant: the request is stored and never marked full.
submitUnmarked(action) ==
    /\ pendingReady = 0
    /\ pending' = action
    /\ pendingReady' = 1
    /\ accepted' = Append(accepted, action)
    /\ UNCHANGED <<claimed, completionVars>>

submit(action) ==
    /\ pendingReady = 0
    /\ pending' = action
    /\ pendingReady' = 2
    /\ accepted' = Append(accepted, action)
    /\ UNCHANGED <<claimed, completionVars>>

takeCompletion ==
    /\ completionReady
    /\ completionReady' = FALSE
    /\ reports' = Append(reports, completion)
    /\ completion' = Blank
    /\ UNCHANGED <<requestVars, posts>>

-----------------------------------------------------------------------------
(* The sensor side.                                                         *)

\* Mutant: the slot is freed before it is read.
claimSlotFree ==
    /\ pendingReady = 2
    /\ pendingReady' = 0
    /\ UNCHANGED <<pending, accepted, claimed, completionVars>>

claimSlot ==
    /\ pendingReady = 2
    /\ pendingReady' = 1
    /\ UNCHANGED <<pending, accepted, claimed, completionVars>>

\* Mutant: the slot is cleared before it is copied.
copyRequestCleared ==
    /\ pending' = Empty
    /\ claimed' = Append(claimed, Empty)
    /\ UNCHANGED <<pendingReady, accepted, completionVars>>

copyRequest ==
    /\ claimed' = Append(claimed, pending)
    /\ UNCHANGED <<pendingReady, pending, accepted, completionVars>>

clearRequest ==
    /\ pending' = Empty
    /\ UNCHANGED <<pendingReady, accepted, claimed, completionVars>>

releaseSlot ==
    /\ pendingReady' = 0
    /\ UNCHANGED <<pending, accepted, claimed, completionVars>>

\* complete() never looks at _completionReady.
copyHead(c) ==
    /\ posts' = Append(posts, c)
    /\ completion' = [completion EXCEPT !.head = c]
    /\ UNCHANGED <<requestVars, completionReady, reports>>

copyReason(c) ==
    /\ completion' = [completion EXCEPT !.reason = c]
    /\ UNCHANGED <<requestVars, completionReady, posts, reports>>

markCompletion ==
    /\ completionReady' = TRUE
    /\ UNCHANGED <<requestVars, completion, posts, reports>>

-----------------------------------------------------------------------------
MailboxTypeOK ==
    /\ pendingReady \in 0 .. 2
    /\ pending \in Actions \cup {Empty}
    /\ completionReady \in BOOLEAN
    /\ completion \in [head : Completions \cup {Empty}, reason : Completions \cup {Empty}]
    /\ accepted \in Seq(Actions) /\ Len(accepted) <= MaxRequests
    /\ claimed \in Seq(Actions)
    /\ posts \in Seq(Completions)
    /\ reports \in Seq([head : Completions \cup {Empty}, reason : Completions \cup {Empty}])
=============================================================================
