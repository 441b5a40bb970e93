---------------------------- MODULE AtomicTopic ----------------------------
(***************************************************************************)
(* What a blackboard topic promises its users: publications and reads take *)
(* effect at one instant.  A snapshot is a function from the words of the  *)
(* published structure to the stamp of the publication that wrote them.    *)
(***************************************************************************)
EXTENDS Naturals

CONSTANTS Words, Readers

VARIABLES
    current,   \* the snapshot a read would return now
    readable,  \* whether the topic has been published at least once
    out        \* out[r]: the last snapshot reader r obtained

vars == <<current, readable, out>>

\* A snapshot all of whose words belong to publication s.
Whole(s) == [w \in Words |-> s]

Init ==
    /\ current = Whole(0)
    /\ readable = FALSE
    /\ out = [r \in Readers |-> Whole(0)]

\* A later publication replaces the current snapshot as a whole.
Publish ==
    /\ current' \in [Words -> Nat]
    /\ \A v, w \in Words : current'[v] = current'[w]
    /\ \A w \in Words : current'[w] > current[w]
    /\ UNCHANGED <<readable, out>>

Expose ==
    /\ readable' = TRUE
    /\ UNCHANGED <<current, out>>

Read(r) ==
    /\ readable
    /\ out' = [out EXCEPT ![r] = current]
    /\ UNCHANGED <<current, readable>>

Next == Publish \/ Expose \/ \E r \in Readers : Read(r)

Spec == Init /\ [][Next]_vars
=============================================================================
