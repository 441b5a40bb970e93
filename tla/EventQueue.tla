----------------------------- MODULE EventQueue -----------------------------
(***************************************************************************)
(* What the event bus promises: a bounded first-in first-out queue whose   *)
(* refusals, made only when it is full, are counted.  A Put that overtakes *)
(* another one takes the promise back: what waits may then change to other *)
(* events, and a refusal be made with room left, until the queue has been  *)
(* emptied.                                                                *)
(***************************************************************************)
EXTENDS Naturals, Sequences

CONSTANTS Limit, Event

VARIABLES queue, delivered, dropped, overtaken

vars == <<queue, delivered, dropped, overtaken>>

Init == queue = <<>> /\ delivered = <<>> /\ dropped = 0 /\ overtaken = FALSE

Put ==
    /\ Len(queue) < Limit
    /\ \E e \in Event : queue' = Append(queue, e)
    /\ overtaken' \in {overtaken, TRUE}
    /\ UNCHANGED <<delivered, dropped>>

Refuse ==
    /\ Len(queue) = Limit \/ overtaken
    /\ dropped' = dropped + 1
    /\ UNCHANGED <<queue, delivered, overtaken>>

Take ==
    /\ queue # <<>>
    /\ delivered' = Append(delivered, Head(queue))
    /\ queue' = Tail(queue)
    /\ UNCHANGED <<dropped, overtaken>>

\* The Put that was overtaken ends.
Disturb ==
    /\ overtaken
    /\ queue' \in Seq(Event) /\ Len(queue') <= Limit
    /\ UNCHANGED <<delivered, dropped, overtaken>>

Recover ==
    /\ queue = <<>>
    /\ overtaken' = FALSE
    /\ UNCHANGED <<queue, delivered, dropped>>

Next == Put \/ Refuse \/ Take \/ Disturb \/ Recover

Spec == Init /\ [][Next]_vars
=============================================================================
