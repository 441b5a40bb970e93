------------------------- MODULE SeqlockTopicProofs -------------------------
(***************************************************************************)
(* SeqlockTopic for every set of words and readers and every bound: types, *)
(* no torn snapshot, reads that never go back, and the refinement of       *)
(* AtomicTopic.                                                            *)
(***************************************************************************)
EXTENDS SeqlockTopic, TLAPS

\* Outside a publication all words carry its stamp; during one, those already
\* stored carry the stamp it will end with.
WriterInv ==
    /\ ~Odd(sequence) => toWrite = {} /\ \A w \in Words : value[w] = sequence
    /\ Odd(sequence) => sequence <= MaxSequence
    /\ Odd(sequence) => \A w \in Words \ toWrite : value[w] = sequence + 1

\* A copy whose sequence still stands consists of words of that publication.
CopyInv ==
    \A r \in Readers :
        rpc[r] = "copy" =>
            /\ attempt[r] < MaxAttempts
            /\ before[r] <= sequence
            /\ before[r] = sequence =>
                 \A w \in Words \ toCopy[r] : snapshot[r][w] = sequence
            /\ ~Odd(before[r])

OutInv ==
    \A r \in Readers :
        /\ \A v, w \in Words : out[r][v] = out[r][w]
        /\ \A w \in Words : out[r][w] <= LastPublication

ReadableInv == \A r \in Readers : rpc[r] # "idle" => published

SeqlockInv ==
    /\ TypeOK
    /\ WriterInv
    /\ CopyInv
    /\ OutInv
    /\ ReadableInv

-----------------------------------------------------------------------------
\* Adding one to a sequence number changes its parity.
LEMMA Parity == \A n \in Nat : Odd(n + 1) <=> ~Odd(n)
  BY DEF Odd

\* A topic nobody has published satisfies the invariant.
LEMMA InitInv == Init => SeqlockInv
  <1> SUFFICES ASSUME Init PROVE SeqlockInv
    OBVIOUS
  <1> USE WordsAssumption, ReadersAssumption, AttemptsAssumption, SequenceAssumption
  <1>0. ~Odd(0)
    BY DEF Odd
  <1>1. TypeOK
    <2>1. Whole(0) \in [Words -> Nat]
      BY DEF Whole
    <2>2. snapshot \in [Readers -> [Words -> Nat]] /\ out \in [Readers -> [Words -> Nat]]
      BY <2>1 DEF Init
    <2>3. value \in [Words -> Nat]
      BY <2>1 DEF Init
    <2>4. 0 \in 0..(MaxSequence + 1) /\ 0 \in 0..MaxAttempts
      OBVIOUS
    <2>5. attempt \in [Readers -> 0..MaxAttempts] /\ before \in [Readers -> Nat]
      BY <2>4 DEF Init
    <2>6. /\ rpc \in [Readers -> {"idle", "load", "copy"}]
          /\ toCopy \in [Readers -> SUBSET Words]
      BY DEF Init
    <2> QED
      BY <2>2, <2>3, <2>4, <2>5, <2>6 DEF Init, TypeOK
  <1>2. WriterInv
    BY <1>0 DEF Init, WriterInv, Whole
  <1>3. CopyInv /\ ReadableInv
    BY DEF Init, CopyInv, ReadableInv
  <1>4. OutInv
    BY <1>0 DEF Init, OutInv, Whole, LastPublication
  <1> QED
    BY <1>1, <1>2, <1>3, <1>4 DEF SeqlockInv

\* The variables keep their types.
LEMMA TypeStep == SeqlockInv /\ [Next]_vars => TypeOK'
  <1> SUFFICES ASSUME SeqlockInv, [Next]_vars PROVE TypeOK'
    OBVIOUS
  <1> USE WordsAssumption, ReadersAssumption, AttemptsAssumption, SequenceAssumption
  <1> USE DEF SeqlockInv, TypeOK, readerVars, writerVars
  <1>1. CASE BeginPublish
    BY <1>1 DEF BeginPublish
  <1>2. ASSUME NEW w \in Words, StoreWord(w) PROVE TypeOK'
    BY <1>2 DEF StoreWord
  <1>3. CASE EndPublish
    BY <1>3 DEF EndPublish, WriterInv
  <1>4. CASE SetPublished
    BY <1>4 DEF SetPublished
  <1>5. ASSUME NEW r \in Readers, StartRead(r) PROVE TypeOK'
    BY <1>5 DEF StartRead
  <1>6. ASSUME NEW r \in Readers, GiveUp(r) \/ SkipOdd(r) \/ LoadBefore(r) PROVE TypeOK'
    <2>1. CASE GiveUp(r)
      BY <2>1 DEF GiveUp
    <2>2. CASE SkipOdd(r)
      BY <2>2 DEF SkipOdd
    <2>3. CASE LoadBefore(r)
      BY <2>3 DEF LoadBefore
    <2> QED
      BY <1>6, <2>1, <2>2, <2>3
  <1>7. ASSUME NEW r \in Readers, NEW w \in Words, CopyWord(r, w) PROVE TypeOK'
    BY <1>7 DEF CopyWord
  <1>8. ASSUME NEW r \in Readers, LoadAfter(r) PROVE TypeOK'
    <2>1. snapshot[r] \in [Words -> Nat] /\ attempt[r] + 1 \in 0..MaxAttempts
      BY <1>8 DEF LoadAfter, CopyInv
    <2>2. CASE Accepts(r)
      <3>1. /\ out' = [out EXCEPT ![r] = snapshot[r]] /\ rpc' = [rpc EXCEPT ![r] = "idle"]
            /\ UNCHANGED <<attempt, writerVars, before, toCopy, snapshot>>
        BY <1>8, <2>2 DEF LoadAfter
      <3> QED
        BY <2>1, <3>1
    <2>3. CASE ~Accepts(r)
      <3>1. /\ attempt' = [attempt EXCEPT ![r] = attempt[r] + 1]
            /\ rpc' = [rpc EXCEPT ![r] = "load"]
            /\ UNCHANGED <<out, writerVars, before, toCopy, snapshot>>
        BY <1>8, <2>3 DEF LoadAfter
      <3> QED
        BY <2>1, <3>1
    <2> QED
      BY <2>2, <2>3
  <1>9. CASE UNCHANGED vars
    BY <1>9 DEF vars
  <1> QED
    BY <1>1, <1>2, <1>3, <1>4, <1>5, <1>6, <1>7, <1>8, <1>9 DEF Next, Writer, InRead

\* The writer stores words only while the sequence is odd.
LEMMA WriterStep == SeqlockInv /\ [Next]_vars => WriterInv'
  <1> SUFFICES ASSUME SeqlockInv, [Next]_vars PROVE WriterInv'
    OBVIOUS
  <1> USE WordsAssumption, SequenceAssumption
  <1> USE DEF SeqlockInv, WriterInv, readerVars, writerVars
  <1>1. CASE BeginPublish
    <2>1. Odd(sequence')
      BY <1>1, Parity DEF BeginPublish, TypeOK
    <2> QED
      BY <1>1, <2>1 DEF BeginPublish, TypeOK
  <1>2. ASSUME NEW w \in Words, StoreWord(w) PROVE WriterInv'
    BY <1>2 DEF StoreWord, TypeOK
  <1>3. CASE EndPublish
    <2>1. ~Odd(sequence')
      BY <1>3, Parity DEF EndPublish, TypeOK
    <2> QED
      BY <1>3, <2>1 DEF EndPublish, TypeOK
  <1>4. CASE SetPublished
    BY <1>4 DEF SetPublished
  <1>5. ASSUME NEW r \in Readers, StartRead(r) \/ InRead(r) PROVE WriterInv'
    BY <1>5 DEF StartRead, InRead, GiveUp, SkipOdd, LoadBefore, LoadAfter, CopyWord
  <1>6. CASE UNCHANGED vars
    BY <1>6 DEF vars
  <1> QED
    BY <1>1, <1>2, <1>3, <1>4, <1>5, <1>6 DEF Next, Writer

\* Words copied under an unchanged even sequence are of its publication.
LEMMA CopyStep == SeqlockInv /\ [Next]_vars => CopyInv'
  <1> SUFFICES ASSUME SeqlockInv, [Next]_vars, NEW r \in Readers, rpc'[r] = "copy"
               PROVE  /\ attempt'[r] < MaxAttempts
                      /\ before'[r] <= sequence'
                      /\ before'[r] = sequence' =>
                           \A w \in Words \ toCopy'[r] : snapshot'[r][w] = sequence'
                      /\ ~Odd(before'[r])
    BY DEF CopyInv
  <1> USE WordsAssumption, ReadersAssumption, AttemptsAssumption, SequenceAssumption
  <1> USE DEF SeqlockInv, readerVars, writerVars
  <1>1. CASE BeginPublish \/ EndPublish
    <2>1. sequence' = sequence + 1 /\ UNCHANGED readerVars
      BY <1>1 DEF BeginPublish, EndPublish
    <2> QED
      BY <2>1 DEF CopyInv, TypeOK
  <1>2. ASSUME SetPublished \/ \E w \in Words : StoreWord(w)
        PROVE  UNCHANGED <<sequence, readerVars>>
    BY <1>2 DEF SetPublished, StoreWord
  <1>3. ASSUME NEW q \in Readers, StartRead(q) \/ GiveUp(q) \/ SkipOdd(q) \/ LoadAfter(q)
        PROVE  UNCHANGED <<sequence, before, toCopy, snapshot, attempt[r], rpc[r]>>
    BY <1>3 DEF StartRead, GiveUp, SkipOdd, LoadAfter, TypeOK
  <1>4. ASSUME NEW q \in Readers, LoadBefore(q)
        PROVE  /\ attempt'[r] < MaxAttempts
               /\ before'[r] <= sequence'
               /\ before'[r] = sequence' =>
                    \A w \in Words \ toCopy'[r] : snapshot'[r][w] = sequence'
               /\ ~Odd(before'[r])
    BY <1>4 DEF LoadBefore, CopyInv, TypeOK
  <1>5. ASSUME NEW q \in Readers, NEW w \in Words, CopyWord(q, w)
        PROVE  /\ attempt'[r] < MaxAttempts
               /\ before'[r] <= sequence'
               /\ before'[r] = sequence' =>
                    \A u \in Words \ toCopy'[r] : snapshot'[r][u] = sequence'
               /\ ~Odd(before'[r])
    BY <1>5 DEF CopyWord, CopyInv, WriterInv, TypeOK
  <1>6. CASE UNCHANGED <<sequence, before, toCopy, snapshot, attempt[r], rpc[r]>>
    BY <1>6 DEF CopyInv
  <1> QED
    BY <1>1, <1>2, <1>3, <1>4, <1>5, <1>6 DEF Next, Writer, InRead, vars

\* The last publication never goes back.
LEMMA PublicationsGrow ==
    ASSUME SeqlockInv, [Next]_vars
    PROVE  /\ LastPublication' >= LastPublication
           /\ LastPublication \in Nat /\ LastPublication' \in Nat
  <1> USE SequenceAssumption DEF SeqlockInv, TypeOK
  <1>1. sequence' = sequence \/ sequence' = sequence + 1
    BY DEF Next, Writer, InRead, vars, writerVars, BeginPublish, StoreWord, EndPublish,
           SetPublished, StartRead, GiveUp, SkipOdd, LoadBefore, CopyWord, LoadAfter
  <1>2. ~Odd(0)
    BY DEF Odd
  <1> QED
    BY <1>1, <1>2, Parity DEF LastPublication

\* The only step that writes a caller's structure stores the current publication.
LEMMA AcceptedIsCurrent ==
    ASSUME SeqlockInv, NEW r \in Readers, LoadAfter(r), Accepts(r)
    PROVE  snapshot[r] = Whole(LastPublication)
  <1>1. ~Odd(sequence)
    BY DEF SeqlockInv, CopyInv, LoadAfter, Accepts
  <1>2. \A w \in Words : snapshot[r][w] = sequence
    BY DEF SeqlockInv, CopyInv, LoadAfter, Accepts
  <1>3. snapshot[r] = [w \in Words |-> snapshot[r][w]]
    BY DEF SeqlockInv, TypeOK
  <1> QED
    BY <1>1, <1>2, <1>3 DEF Whole, LastPublication

\* A caller is handed the last publication or nothing.
LEMMA OutChanges ==
    ASSUME SeqlockInv, [Next]_vars
    PROVE  \/ UNCHANGED out
           \/ \E r \in Readers :
                /\ published
                /\ out' = [out EXCEPT ![r] = Whole(LastPublication)]
                /\ UNCHANGED <<sequence, published>>
  <1>1. ASSUME NEW r \in Readers, LoadAfter(r)
        PROVE  \/ UNCHANGED out
               \/ /\ published
                  /\ out' = [out EXCEPT ![r] = Whole(LastPublication)]
                  /\ UNCHANGED <<sequence, published>>
    BY <1>1, AcceptedIsCurrent DEF LoadAfter, writerVars, SeqlockInv, ReadableInv
  <1>2. CASE ~\E r \in Readers : LoadAfter(r)
    BY <1>2 DEF Next, Writer, InRead, vars, writerVars, readerVars, BeginPublish, StoreWord,
           EndPublish, SetPublished, StartRead, GiveUp, SkipOdd, LoadBefore, CopyWord
  <1> QED
    BY <1>1, <1>2

\* What the callers hold was published.
LEMMA OutStep == SeqlockInv /\ [Next]_vars => OutInv'
  <1> SUFFICES ASSUME SeqlockInv, [Next]_vars PROVE OutInv'
    OBVIOUS
  <1>1. \A r \in Readers, w \in Words : out[r][w] \in Nat
    BY DEF SeqlockInv, TypeOK
  <1>2. LastPublication' \in Nat
    BY PublicationsGrow
  <1>3. CASE UNCHANGED out
    BY <1>1, <1>2, <1>3, PublicationsGrow DEF SeqlockInv, OutInv
  <1>4. ASSUME NEW q \in Readers, out' = [out EXCEPT ![q] = Whole(LastPublication)]
        PROVE  OutInv'
    BY <1>1, <1>2, <1>4, PublicationsGrow DEF SeqlockInv, OutInv, Whole, TypeOK
  <1> QED
    BY <1>3, <1>4, OutChanges

\* A topic stays readable once it is.
LEMMA ReadableStep == SeqlockInv /\ [Next]_vars => ReadableInv'
  BY DEF SeqlockInv, TypeOK, ReadableInv, Next, Writer, InRead, vars, writerVars, readerVars,
         BeginPublish, StoreWord, EndPublish, SetPublished, StartRead, GiveUp, SkipOdd,
         LoadBefore, CopyWord, LoadAfter

\* Every step of a writer or a reader preserves the invariant.
LEMMA InvStep == SeqlockInv /\ [Next]_vars => SeqlockInv'
  BY TypeStep, WriterStep, CopyStep, OutStep, ReadableStep DEF SeqlockInv

\* The strengthened invariant holds in every reachable state.
THEOREM SeqlockInvariant == Spec => []SeqlockInv
  BY InitInv, InvStep, PTL DEF Spec

\* Every variable keeps its type (the counters their bounds).
THEOREM TypeCorrect == Spec => []TypeOK
  BY SeqlockInvariant, PTL DEF SeqlockInv

\* read() never hands its caller a mixture of two publications, whatever the
\* words, the readers and the interleaving.
THEOREM NeverTorn == Spec => []NoTornSnapshot
  <1>1. SeqlockInv => NoTornSnapshot
    BY DEF SeqlockInv, OutInv, NoTornSnapshot
  <1> QED
    BY <1>1, SeqlockInvariant, PTL

\* A task never reads an older publication after a newer one.
THEOREM NeverBack == Spec => ReadsNeverGoBack
  <1>1. SeqlockInv /\ [Next]_vars =>
          [\A r \in Readers : \A w \in Words : out'[r][w] >= out[r][w]]_vars
    <2> SUFFICES ASSUME SeqlockInv, [Next]_vars, NEW r \in Readers, NEW w \in Words
                 PROVE  out'[r][w] >= out[r][w]
      OBVIOUS
    <2>1. out[r][w] \in Nat /\ out[r][w] <= LastPublication
      BY DEF SeqlockInv, TypeOK, OutInv
    <2> QED
      BY <2>1, OutChanges, PublicationsGrow DEF Whole, SeqlockInv, TypeOK
  <1> QED
    BY <1>1, SeqlockInvariant, PTL DEF Spec, ReadsNeverGoBack

\* No reader is in a copy at first.
LEMMA PreemptingInit == Init => PreemptingReadIsStable
  BY ReadersAssumption DEF Init, PreemptingReadIsStable

\* The writer stands still while a reader that preempted it copies.
LEMMA PreemptingStep == TypeOK /\ PreemptingReadIsStable /\ [Next]_vars => PreemptingReadIsStable'
  <1> SUFFICES ASSUME TypeOK, PreemptingReadIsStable, [Next]_vars,
                      NEW r \in Preempting, rpc'[r] = "copy"
               PROVE  before'[r] = sequence'
    BY DEF PreemptingReadIsStable
  <1> USE ReadersAssumption DEF TypeOK, PreemptingReadIsStable, readerVars, writerVars
  <1>1. CASE Writer
    BY <1>1 DEF Writer, WriterRuns, BeginPublish, StoreWord, EndPublish, SetPublished
  <1>2. ASSUME NEW q \in Readers, LoadBefore(q) PROVE before'[r] = sequence'
    BY <1>2 DEF LoadBefore
  <1>3. ASSUME NEW q \in Readers, StartRead(q) \/ InRead(q), ~LoadBefore(q)
        PROVE  before'[r] = sequence'
    BY <1>3 DEF StartRead, InRead, GiveUp, SkipOdd, CopyWord, LoadAfter
  <1>4. CASE UNCHANGED vars
    BY <1>4 DEF vars
  <1> QED
    BY <1>1, <1>2, <1>3, <1>4 DEF Next, InRead

\* A reader that preempted the writer never retries because of a mismatch.
THEOREM PreemptingStable == Spec => []PreemptingReadIsStable
  BY PreemptingInit, PreemptingStep, TypeCorrect, PTL DEF Spec

-----------------------------------------------------------------------------
\* A step of the seqlock is one of the atomic topic or none.
LEMMA StepRefines ==
    ASSUME SeqlockInv, [Next]_vars
    PROVE  [Topic!Next]_(Topic!vars)
  <1> USE SequenceAssumption DEF SeqlockInv, TypeOK
  <1> USE DEF Topic!vars, Topic!Next, Topic!Publish, Topic!Expose, Topic!Read
  <1>0. ~Odd(0)
    BY DEF Odd
  <1>1. CASE BeginPublish
    <2>1. LastPublication' = LastPublication
      BY <1>1, Parity DEF BeginPublish, LastPublication
    <2> QED
      BY <1>1, <2>1 DEF BeginPublish, readerVars, Whole
  <1>2. CASE EndPublish
    <2>1. LastPublication \in Nat /\ LastPublication' \in Nat /\ LastPublication' > LastPublication
      BY <1>2, <1>0, Parity DEF EndPublish, LastPublication
    <2>2. Topic!Publish
      BY <1>2, <2>1 DEF EndPublish, readerVars, Whole
    <2> QED
      BY <2>2
  <1>3. CASE SetPublished
    BY <1>3 DEF SetPublished, LastPublication, readerVars
  <1>4. ASSUME NEW w \in Words, StoreWord(w) PROVE UNCHANGED Topic!vars
    BY <1>4 DEF StoreWord, LastPublication, readerVars, Whole
  <1>5. ASSUME NEW r \in Readers, StartRead(r) \/ InRead(r)
        PROVE  Topic!Read(r) \/ UNCHANGED Topic!vars
    <2>1. UNCHANGED <<sequence, published>>
      BY <1>5 DEF StartRead, InRead, GiveUp, SkipOdd, LoadBefore, LoadAfter, CopyWord, writerVars
    <2>2. UNCHANGED <<Whole(LastPublication), published>>
      BY <2>1 DEF LastPublication, Whole
    <2>3. CASE LoadAfter(r) /\ Accepts(r)
      BY <2>2, <2>3, AcceptedIsCurrent DEF LoadAfter, ReadableInv
    <2>4. CASE ~(LoadAfter(r) /\ Accepts(r))
      BY <1>5, <2>2, <2>4 DEF StartRead, InRead, GiveUp, SkipOdd, LoadBefore, LoadAfter, CopyWord
    <2> QED
      BY <2>3, <2>4
  <1>6. CASE UNCHANGED vars
    BY <1>6 DEF vars, writerVars, readerVars, LastPublication, Whole
  <1> QED
    BY <1>1, <1>2, <1>3, <1>4, <1>5, <1>6 DEF Next, Writer

\* The seqlock implements a topic whose publications and reads are atomic.
THEOREM Refinement == Spec => ImplementsAtomicTopic
  <1>1. Init => Topic!Init
    BY DEF Init, Topic!Init, LastPublication, Whole, Topic!Whole, Odd
  <1> QED
    BY <1>1, StepRefines, SeqlockInvariant, PTL DEF Spec, ImplementsAtomicTopic, Topic!Spec
=============================================================================
