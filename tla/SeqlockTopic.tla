---------------------------- MODULE SeqlockTopic ----------------------------
(***************************************************************************)
(* core/data/SeqlockTopic.h: a one-writer, many-reader topic.  The         *)
(* structure is copied word by word, so a reader on the other core may see *)
(* half of a publication; the sequence number tells it to try again.       *)
(*                                                                         *)
(* A word holds the stamp of the publication that wrote it: the (even)     *)
(* sequence number that publication ends with.  The 32-bit sequence is a   *)
(* natural number here: to repeat within one read attempt it would have to *)
(* be incremented 2^32 times while a structure of a few words is copied.   *)
(***************************************************************************)
EXTENDS Integers

CONSTANTS
    Words,          \* the words of the published structure
    Readers,        \* the tasks that call read()
    Preempting,     \* readers that run above the writer on the writer's core
    MaxAttempts,    \* MAX_READ_ATTEMPTS
    MaxSequence     \* bound: publications stop when the sequence reaches it

ASSUME WordsAssumption == Words # {}
ASSUME ReadersAssumption == Preempting \subseteq Readers
ASSUME AttemptsAssumption == MaxAttempts \in Nat \ {0}
ASSUME SequenceAssumption == MaxSequence \in Nat

VARIABLES
    sequence,   \* _sequence
    published,  \* _published
    value,      \* _value, word by word
    toWrite,    \* words publish() has still to store
    rpc,        \* rpc[r]: where reader r is in read()
    attempt,    \* attempt[r]: the loop counter
    before,     \* before[r]: the sequence loaded before the copy
    toCopy,     \* toCopy[r]: words read() has still to copy
    snapshot,   \* snapshot[r]: the local copy
    out         \* out[r]: the caller's structure, written only on success

writerVars == <<sequence, published, value, toWrite>>
readerVars == <<rpc, attempt, before, toCopy, snapshot, out>>
vars == <<writerVars, readerVars>>

Odd(n) == n % 2 = 1
Whole(s) == [w \in Words |-> s]

Init ==
    /\ sequence = 0
    /\ published = FALSE
    /\ value = Whole(0)
    /\ toWrite = {}
    /\ rpc = [r \in Readers |-> "idle"]
    /\ attempt = [r \in Readers |-> 0]
    /\ before = [r \in Readers |-> 0]
    /\ toCopy = [r \in Readers |-> {}]
    /\ snapshot = [r \in Readers |-> Whole(0)]
    /\ out = [r \in Readers |-> Whole(0)]

-----------------------------------------------------------------------------
(* The writer.  A reader that preempted it keeps it from running.          *)

\* Mutant: the readers on the writer's core have no higher priority.
WriterRunsAnyway == TRUE

WriterRuns == \A r \in Preempting : rpc[r] = "idle"

BeginPublish ==
    /\ WriterRuns
    /\ ~Odd(sequence) /\ sequence < MaxSequence
    /\ published \/ sequence = 0
    /\ sequence' = sequence + 1
    /\ toWrite' = Words
    /\ UNCHANGED <<published, value, readerVars>>

StoreWord(w) ==
    /\ WriterRuns
    /\ Odd(sequence) /\ w \in toWrite
    /\ value' = [value EXCEPT ![w] = sequence + 1]
    /\ toWrite' = toWrite \ {w}
    /\ UNCHANGED <<sequence, published, readerVars>>

\* Mutant: the sequence becomes even before the copy is complete.
EndPublishEarly ==
    /\ WriterRuns
    /\ Odd(sequence)
    /\ sequence' = sequence + 1
    /\ toWrite' = {}
    /\ UNCHANGED <<published, value, readerVars>>

EndPublish ==
    /\ WriterRuns
    /\ Odd(sequence) /\ toWrite = {}
    /\ sequence' = sequence + 1
    /\ UNCHANGED <<published, value, toWrite, readerVars>>

SetPublished ==
    /\ WriterRuns
    /\ ~Odd(sequence) /\ sequence > 0 /\ ~published
    /\ published' = TRUE
    /\ UNCHANGED <<sequence, value, toWrite, readerVars>>

-----------------------------------------------------------------------------
(* The readers.                                                            *)

StartRead(r) ==
    /\ rpc[r] = "idle"
    /\ published
    /\ rpc' = [rpc EXCEPT ![r] = "load"]
    /\ attempt' = [attempt EXCEPT ![r] = 0]
    /\ UNCHANGED <<writerVars, before, toCopy, snapshot, out>>

\* The loop head: give up, skip an attempt during a publication, or copy.
GiveUp(r) ==
    /\ rpc[r] = "load" /\ attempt[r] = MaxAttempts
    /\ rpc' = [rpc EXCEPT ![r] = "idle"]
    /\ UNCHANGED <<writerVars, attempt, before, toCopy, snapshot, out>>

\* Mutant: an attempt that finds a publication in progress is not counted.
SkipOddUncounted(r) ==
    /\ rpc[r] = "load" /\ Odd(sequence)
    /\ UNCHANGED vars

\* Mutant: the loop bound is not tested before an attempt is skipped.
SkipOddUnbounded(r) ==
    /\ rpc[r] = "load" /\ Odd(sequence)
    /\ attempt[r] <= MaxAttempts
    /\ attempt' = [attempt EXCEPT ![r] = @ + 1]
    /\ UNCHANGED <<writerVars, rpc, before, toCopy, snapshot, out>>

SkipOdd(r) ==
    /\ rpc[r] = "load" /\ attempt[r] < MaxAttempts
    /\ Odd(sequence)
    /\ attempt' = [attempt EXCEPT ![r] = @ + 1]
    /\ UNCHANGED <<writerVars, rpc, before, toCopy, snapshot, out>>

LoadBefore(r) ==
    /\ rpc[r] = "load" /\ attempt[r] < MaxAttempts
    /\ ~Odd(sequence)
    /\ before' = [before EXCEPT ![r] = sequence]
    /\ toCopy' = [toCopy EXCEPT ![r] = Words]
    /\ rpc' = [rpc EXCEPT ![r] = "copy"]
    /\ UNCHANGED <<writerVars, attempt, snapshot, out>>

CopyWord(r, w) ==
    /\ rpc[r] = "copy" /\ w \in toCopy[r]
    /\ snapshot' = [snapshot EXCEPT ![r][w] = value[w]]
    /\ toCopy' = [toCopy EXCEPT ![r] = @ \ {w}]
    /\ UNCHANGED <<writerVars, rpc, attempt, before, out>>

\* Mutant: any even sequence after the copy is taken for an unchanged one.
AcceptsEven(r) == ~Odd(sequence)

Accepts(r) == before[r] = sequence

LoadAfter(r) ==
    /\ rpc[r] = "copy" /\ toCopy[r] = {}
    /\ IF Accepts(r)
         THEN /\ out' = [out EXCEPT ![r] = snapshot[r]]
              /\ rpc' = [rpc EXCEPT ![r] = "idle"]
              /\ UNCHANGED attempt
         ELSE /\ attempt' = [attempt EXCEPT ![r] = @ + 1]
              /\ rpc' = [rpc EXCEPT ![r] = "load"]
              /\ UNCHANGED out
    /\ UNCHANGED <<writerVars, before, toCopy, snapshot>>

-----------------------------------------------------------------------------
Writer == BeginPublish \/ EndPublish \/ SetPublished \/ \E w \in Words : StoreWord(w)
InRead(r) == \/ GiveUp(r) \/ SkipOdd(r) \/ LoadBefore(r) \/ LoadAfter(r)
             \/ \E w \in Words : CopyWord(r, w)

Next == Writer \/ \E r \in Readers : StartRead(r) \/ InRead(r)

Spec == Init /\ [][Next]_vars

\* A task that has entered read() is not descheduled for ever.
FairSpec == Spec /\ \A r \in Readers : WF_vars(InRead(r))

-----------------------------------------------------------------------------
TypeOK ==
    /\ sequence \in 0..(MaxSequence + 1)
    /\ published \in BOOLEAN
    /\ value \in [Words -> Nat]
    /\ toWrite \in SUBSET Words
    /\ rpc \in [Readers -> {"idle", "load", "copy"}]
    /\ attempt \in [Readers -> 0..MaxAttempts]
    /\ before \in [Readers -> Nat]
    /\ toCopy \in [Readers -> SUBSET Words]
    /\ snapshot \in [Readers -> [Words -> Nat]]
    /\ out \in [Readers -> [Words -> Nat]]

\* A caller never holds a structure put together from two publications.
NoTornSnapshot == \A r \in Readers : \A v, w \in Words : out[r][v] = out[r][w]

\* A task that preempted the writer sees a frozen topic: once it has loaded an
\* even sequence its first copy is accepted, it never retries on a mismatch.
PreemptingReadIsStable ==
    \A r \in Preempting : rpc[r] = "copy" => before[r] = sequence

\* Successive reads by one task never go back to an older publication.
ReadsNeverGoBack ==
    [][\A r \in Readers : \A w \in Words : out'[r][w] >= out[r][w]]_vars

\* read() returns.  A preempting reader that finds the sequence odd cannot wait
\* for the writer it keeps from running: only the attempt limit ends its loop.
ReadTerminates == \A r \in Readers : []<>(rpc[r] = "idle")

-----------------------------------------------------------------------------
\* A publication takes effect when the sequence becomes even again.
LastPublication == IF Odd(sequence) THEN sequence - 1 ELSE sequence

Topic == INSTANCE AtomicTopic
           WITH current <- Whole(LastPublication), readable <- published

\* The seqlock implements the topic whose reads and publications are atomic.
ImplementsAtomicTopic == Topic!Spec
=============================================================================
