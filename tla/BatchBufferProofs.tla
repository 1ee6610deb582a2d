------------------------- MODULE BatchBufferProofs -------------------------
(***************************************************************************)
(* Proofs about BatchBuffer.tla, for every set of messages and timers,     *)
(* every batch_size and every bound.                                       *)
(***************************************************************************)
EXTENDS BatchBuffer, SequenceTheorems, TLAPS

\* Everything an action may refer to when it is expanded.
USE DEF Goto, Threads, PcState, InFlush, TimerCancelled

----------------------------------------------------------------------------

\* The content of a sequence of messages is a set of messages.
LEMMA RangeOfBatch ==
    ASSUME NEW s \in Seq(Message)
    PROVE  Range(s) \subseteq Message
  BY DEF Range

LEMMA TypeStep == TypeOK /\ [Next]_vars => TypeOK'
<1> SUFFICES ASSUME TypeOK, [Next]_vars
             PROVE  TypeOK'
  OBVIOUS
<1> USE DEF TypeOK, RepoTypeOK, ConnState
<1>1. ASSUME NEW m \in Message, Add(m)
      PROVE  TypeOK'
  BY <1>1 DEF Add, repoVars
<1>2. ASSUME NEW t \in Timers, TimerFires(t)
      PROVE  TypeOK'
  BY <1>2 DEF TimerFires, repoVars
<1>3. ASSUME NEW t \in Threads, FlushStep(t)
      PROVE  TypeOK'
  <2>1. CASE FlushSkip(t)
    BY <2>1 DEF FlushSkip, repoVars
  <2>2. CASE FlushTake(t)
    <3>1. RepoTypeOK'
      BY <2>2 DEF FlushTake, repoVars
    <3>2. batch' \in [Threads -> Seq(Message)] /\ buffer' \in Seq(Message)
      BY <2>2 DEF FlushTake
    <3>3. pc' \in [Threads -> PcState]
      BY <2>2 DEF FlushTake
    <3>4. QED
      BY <2>2, <3>1, <3>2, <3>3 DEF FlushTake
  <2>3. CASE InsertExecutes(t)
    BY <2>3, RangeOfBatch DEF InsertExecutes, ExecuteValues
  <2>4. CASE InsertCommits(t)
    BY <2>4 DEF InsertCommits, Commit
  <2>5. CASE InsertRaises(t)
    <3>1. RepoTypeOK'
      BY <2>5, MaxDbFaultsAssumption
         DEF InsertRaises, ExecuteRaises, CommitRaises, DbFault, repoVars
    <3>2. QED
      BY <2>5, <3>1 DEF InsertRaises
  <2>6. CASE Restore(t)
    BY <2>6 DEF Restore, repoVars
  <2>7. CASE Clear(t)
    BY <2>7 DEF Clear, repoVars
  <2>8. CASE ResetTimer(t)
    <3>1. pc' \in [Threads -> PcState]
      BY <2>8 DEF ResetTimer
    <3>2. QED
      BY <2>8, <3>1 DEF ResetTimer, repoVars
  <2>9. QED
    BY <1>3, <2>1, <2>2, <2>3, <2>4, <2>5, <2>6, <2>7, <2>8 DEF FlushStep
<1>4. ASSUME FinalFlush
      PROVE  TypeOK'
  BY <1>4 DEF FinalFlush, repoVars
<1>5. ASSUME Stop
      PROVE  TypeOK'
  BY <1>5 DEF Stop, repoVars
<1>6. ASSUME UNCHANGED vars
      PROVE  TypeOK'
  BY <1>6 DEF vars, repoVars, bufferVars, localVars
<1>7. QED
  BY <1>1, <1>2, <1>3, <1>4, <1>5, <1>6 DEF Next

LEMMA InitType == Init => TypeOK
<1> SUFFICES ASSUME Init
             PROVE  TypeOK
  OBVIOUS
<1>1. RepoTypeOK
  BY MaxDbFaultsAssumption DEF Init, RepoInit, RepoTypeOK, ConnState
<1>2. pc \in [Threads -> PcState]
  BY DEF Init, BufferInit
<1>3. batch \in [Threads -> Seq(Message)]
  BY DEF Init, BufferInit
<1>4. QED
  BY <1>1, <1>2, <1>3 DEF Init, BufferInit, TypeOK

\* Every variable keeps its type through every step: the arithmetic on
\* positions and the thread table of batch_buffer.py are well defined.
THEOREM TypeCorrect == Spec => []TypeOK
BY InitType, TypeStep, PTL DEF Spec

----------------------------------------------------------------------------

LEMMA FlagStep == TypeOK /\ OneFlushAtATime /\ [Next]_vars => OneFlushAtATime'
<1> SUFFICES ASSUME TypeOK, OneFlushAtATime, [Next]_vars
             PROVE  OneFlushAtATime'
  OBVIOUS
<1> USE DEF TypeOK, OneFlushAtATime
<1>1. ASSUME NEW m \in Message, Add(m)
      PROVE  OneFlushAtATime'
  BY <1>1 DEF Add
<1>2. ASSUME NEW t \in Timers, TimerFires(t)
      PROVE  OneFlushAtATime'
  BY <1>2 DEF TimerFires
<1>3. ASSUME NEW t \in Threads, FlushStep(t)
      PROVE  OneFlushAtATime'
  <2>1. CASE FlushSkip(t)
    BY <2>1 DEF FlushSkip
  <2>2. CASE FlushTake(t)
    BY <2>2 DEF FlushTake
  <2>3. CASE InsertExecutes(t)
    BY <2>3 DEF InsertExecutes
  <2>4. CASE InsertCommits(t)
    BY <2>4 DEF InsertCommits
  <2>5. CASE InsertRaises(t)
    BY <2>5 DEF InsertRaises
  <2>6. CASE Restore(t)
    BY <2>6 DEF Restore
  <2>7. CASE Clear(t)
    BY <2>7 DEF Clear
  <2>8. CASE ResetTimer(t)
    BY <2>8 DEF ResetTimer
  <2>9. QED
    BY <1>3, <2>1, <2>2, <2>3, <2>4, <2>5, <2>6, <2>7, <2>8 DEF FlushStep
<1>4. ASSUME FinalFlush
      PROVE  OneFlushAtATime'
  BY <1>4 DEF FinalFlush
<1>5. ASSUME Stop
      PROVE  OneFlushAtATime'
  BY <1>5 DEF Stop
<1>6. ASSUME UNCHANGED vars
      PROVE  OneFlushAtATime'
  BY <1>6 DEF vars, bufferVars, localVars
<1>7. QED
  BY <1>1, <1>2, <1>3, <1>4, <1>5, <1>6 DEF Next

LEMMA InitFlag == Init => OneFlushAtATime
BY BatchBufferAssumption DEF Init, BufferInit, OneFlushAtATime

\* Flushes exclude each other: the flag read and set under the lock by flush()
\* is enough, although insert_batch runs outside the lock and the finally
\* block takes the lock twice.
THEOREM MutualExclusion == Spec => []OneFlushAtATime
BY InitFlag, FlagStep, TypeCorrect, PTL DEF Spec

LEMMA ArmedTimerStep == TypeOK /\ ArmedTimerIsKnown /\ [Next]_vars => ArmedTimerIsKnown'
<1> SUFFICES ASSUME TypeOK, ArmedTimerIsKnown, [Next]_vars
             PROVE  ArmedTimerIsKnown'
  OBVIOUS
<1> USE DEF TypeOK, ArmedTimerIsKnown
<1>1. ASSUME NEW m \in Message, Add(m)
      PROVE  ArmedTimerIsKnown'
  BY <1>1 DEF Add
<1>2. ASSUME NEW t \in Timers, TimerFires(t)
      PROVE  ArmedTimerIsKnown'
  BY <1>2 DEF TimerFires
<1>3. ASSUME NEW t \in Threads, FlushStep(t)
      PROVE  ArmedTimerIsKnown'
  <2>1. CASE ResetTimer(t)
    BY <2>1 DEF ResetTimer
  <2>2. CASE ~ResetTimer(t)
    <3>1. /\ timer' = timer
          /\ \E loc \in PcState \ {"waiting"} : Goto(t, loc)
      BY <1>3, <2>2 DEF FlushStep, FlushSkip, FlushTake, InsertExecutes,
           InsertCommits, InsertRaises, Restore, Clear
    <3>2. QED
      BY <3>1
  <2>3. QED
    BY <2>1, <2>2
<1>4. ASSUME FinalFlush
      PROVE  ArmedTimerIsKnown'
  BY <1>4 DEF FinalFlush
<1>5. ASSUME Stop
      PROVE  ArmedTimerIsKnown'
  BY <1>5 DEF Stop
<1>6. ASSUME UNCHANGED vars
      PROVE  ArmedTimerIsKnown'
  BY <1>6 DEF vars, bufferVars, localVars
<1>7. QED
  BY <1>1, <1>2, <1>3, <1>4, <1>5, <1>6 DEF Next

LEMMA InitArmedTimer == Init => ArmedTimerIsKnown
BY BatchBufferAssumption DEF Init, BufferInit, ArmedTimerIsKnown

\* stop() and _reset_timer() hold a reference to every timer that is armed,
\* however many threads reset the timer at once.
THEOREM NoForgottenTimer == Spec => []ArmedTimerIsKnown
BY InitArmedTimer, ArmedTimerStep, TypeCorrect, PTL DEF Spec

LEMMA OverloadStep == TypeOK /\ OverloadIsReal /\ [Next]_vars => OverloadIsReal'
<1> SUFFICES ASSUME TypeOK, OverloadIsReal, [Next]_vars
             PROVE  OverloadIsReal'
  OBVIOUS
<1> USE DEF TypeOK, OverloadIsReal
<1>1. ASSUME NEW m \in Message, Add(m)
      PROVE  OverloadIsReal'
  BY <1>1 DEF Add
<1>2. ASSUME NEW t \in Threads, FlushTake(t)
      PROVE  OverloadIsReal'
  BY <1>2 DEF FlushTake
<1>3. ASSUME NEW t \in Threads, Restore(t)
      PROVE  OverloadIsReal'
  <2>1. batch[t] \in Seq(Message) /\ buffer \in Seq(Message)
    OBVIOUS
  <2>2. Len(batch[t] \o buffer) >= Len(buffer)
    BY <2>1
  <2>3. isOverloaded' = isOverloaded /\ buffer' = batch[t] \o buffer
    BY <1>3 DEF Restore
  <2>4. Len(buffer) \in Nat /\ Len(batch[t] \o buffer) \in Nat
    BY <2>1
  <2>5. QED
    BY <2>2, <2>3, <2>4, BatchBufferAssumption
<1>4. ASSUME UNCHANGED <<buffer, isOverloaded>>
      PROVE  OverloadIsReal'
  BY <1>4
<1>5. QED
  <2>1. \/ \E m \in Message : Add(m)
        \/ \E t \in Threads : FlushTake(t) \/ Restore(t)
        \/ UNCHANGED <<buffer, isOverloaded>>
    BY DEF Next, FlushStep, TimerFires, FlushSkip, InsertExecutes, InsertCommits,
       InsertRaises, Clear, ResetTimer, FinalFlush, Stop, vars, bufferVars
  <2>2. QED
    BY <2>1, <1>1, <1>2, <1>3, <1>4

LEMMA InitOverload == Init => OverloadIsReal
BY DEF Init, BufferInit, OverloadIsReal

\* The overload flag is never a false alarm, although add sets it and then
\* releases the lock, and flush clears it while others add.
THEOREM NoFalseAlarm == Spec => []OverloadIsReal
BY InitOverload, OverloadStep, TypeCorrect, PTL DEF Spec

LEMMA FullStep ==
    TypeOK /\ OneFlushAtATime /\ FullIsAttended /\ [Next]_vars => FullIsAttended'
<1> SUFFICES ASSUME TypeOK, OneFlushAtATime, FullIsAttended, [Next]_vars
             PROVE  FullIsAttended'
  OBVIOUS
<1> DEFINE Busy == \E t \in Threads : pc[t] # "idle"
<1> USE DEF FullIsAttended
<1>1. pc \in [Threads -> PcState] /\ Main \in Threads /\ Timers \subseteq Threads
  BY DEF TypeOK, Threads
<1>2. ASSUME NEW m \in Message, Add(m)
      PROVE  FullIsAttended'
  <2>1. pc' = [pc EXCEPT ![Main] = IF Len(buffer') >= BatchSize THEN "flush" ELSE "idle"]
    BY <1>2 DEF Add, Goto
  <2>2. Len(buffer') >= BatchSize => Busy'
    BY <1>1, <2>1
  <2>3. QED
    BY <2>2
<1>3. ASSUME NEW t \in Threads, NEW loc \in PcState \ {"idle"}, Goto(t, loc)
      PROVE  Busy'
  BY <1>1, <1>3 DEF Goto
<1>4. ASSUME NEW t \in Timers, TimerFires(t)
      PROVE  Busy'
  BY <1>1, <1>3, <1>4 DEF TimerFires, PcState
<1>5. ASSUME NEW t \in Threads, FlushStep(t)
      PROVE  FullIsAttended'
  <2>1. CASE FlushSkip(t) /\ flushing
    <3>1. PICK u \in Threads : pc[u] \in InFlush
      BY <2>1 DEF OneFlushAtATime
    <3>2. u # t /\ pc'[u] = pc[u] /\ pc[u] # "idle"
      BY <1>1, <2>1, <3>1 DEF FlushSkip, Goto, InFlush
    <3>3. QED
      BY <3>2
  <2>2. CASE FlushSkip(t) /\ buffer = <<>>
    <3>1. buffer' = <<>> /\ BatchSize \in Nat \ {0}
      BY <2>2, BatchBufferAssumption DEF FlushSkip
    <3>2. QED
      BY <3>1
  <2>3. CASE ResetTimer(t)
    <3>1. PICK u \in Timers : pc' = [TimerCancelled EXCEPT ![t] = "idle", ![u] = "waiting"]
      BY <2>3 DEF ResetTimer
    <3>2. pc'[u] = "waiting" /\ u \in Threads
      BY <1>1, <3>1 DEF TimerCancelled
    <3>3. QED
      BY <3>2
  <2>4. CASE ~FlushSkip(t) /\ ~ResetTimer(t)
    <3>1. \E loc \in PcState \ {"idle"} : Goto(t, loc)
      BY <1>5, <2>4
         DEF FlushStep, FlushTake, InsertExecutes, InsertCommits, InsertRaises, Restore, Clear,
             PcState, InFlush
    <3>2. QED
      BY <1>3, <3>1
  <2>5. QED
    BY <1>5, <2>1, <2>2, <2>3, <2>4 DEF FlushSkip
<1>6. ASSUME FinalFlush
      PROVE  Busy'
  BY <1>1, <1>3, <1>6 DEF FinalFlush, PcState
<1>7. CASE Stop
  BY <1>7 DEF Stop
<1>8. CASE UNCHANGED vars
  BY <1>8 DEF vars, bufferVars, localVars
<1>9. QED
  BY <1>2, <1>4, <1>5, <1>6, <1>7, <1>8 DEF Next

LEMMA InitFull == Init => FullIsAttended
BY BatchBufferAssumption DEF Init, BufferInit, FullIsAttended

\* Until stop() a full buffer has a thread that flushes it, is about to, or is
\* armed to, whatever the flush that add() started runs into.
THEOREM FullIsNeverAlone == Spec => []FullIsAttended
BY InitFull, FullStep, TypeCorrect, MutualExclusion, PTL DEF Spec

----------------------------------------------------------------------------

\* The steps of Next that touch the database or a batch, and the one thing the
\* others can do to a thread: move it between states outside the insert.
InsertStep(t) ==
    \/ FlushTake(t)
    \/ InsertExecutes(t)
    \/ InsertCommits(t)
    \/ InsertRaises(t)
    \/ Restore(t)

InInsert == {"execute", "commit", "restore"}

QuietStep ==
    /\ UNCHANGED <<conn, txn, bronze, batch>>
    /\ \A t \in Threads : pc'[t] = pc[t] \/ {pc[t], pc'[t]} \cap InInsert = {}

LEMMA StepCases ==
    ASSUME TypeOK, [Next]_vars
    PROVE  QuietStep \/ \E t \in Threads : InsertStep(t)
<1> USE DEF TypeOK, InInsert, QuietStep
<1>1. ASSUME NEW m \in Message, Add(m)
      PROVE  QuietStep
  BY <1>1 DEF Add, repoVars
<1>2. ASSUME NEW t \in Timers, TimerFires(t)
      PROVE  QuietStep
  BY <1>2 DEF TimerFires, repoVars
<1>3. ASSUME NEW t \in Threads, FlushStep(t), ~InsertStep(t)
      PROVE  QuietStep
  <2>1. CASE FlushSkip(t)
    BY <2>1 DEF FlushSkip, repoVars
  <2>2. CASE Clear(t)
    BY <2>2 DEF Clear, repoVars
  <2>3. CASE ResetTimer(t)
    BY <2>3 DEF ResetTimer, repoVars
  <2>4. QED
    BY <1>3, <2>1, <2>2, <2>3 DEF FlushStep, InsertStep
<1>4. ASSUME FinalFlush
      PROVE  QuietStep
  BY <1>4 DEF FinalFlush, repoVars
<1>5. ASSUME Stop
      PROVE  QuietStep
  BY <1>5 DEF Stop, repoVars
<1>6. ASSUME UNCHANGED vars
      PROVE  QuietStep
  BY <1>6 DEF vars, repoVars, bufferVars, localVars
<1>7. QED
  BY <1>1, <1>2, <1>3, <1>4, <1>5, <1>6 DEF Next

\* A thread has a batch only inside the insert, and while its commit is
\* pending the open transaction is that batch: the database half of the
\* inductive invariant.
BatchesAreInserts ==
    \A t \in Threads : batch[t] # <<>> => pc[t] \in InInsert

TransactionInv == TransactionIsOneBatch /\ BatchesAreInserts

LEMMA TransactionStep ==
    TypeOK /\ OneFlushAtATime /\ TransactionInv /\ [Next]_vars => TransactionInv'
<1> SUFFICES ASSUME TypeOK, OneFlushAtATime, TransactionInv, [Next]_vars
             PROVE  TransactionInv'
  OBVIOUS
<1> USE DEF TypeOK, TransactionInv, TransactionIsOneBatch, BatchesAreInserts, InInsert
<1>1. CASE QuietStep
  BY <1>1 DEF QuietStep
<1>2. ASSUME NEW t \in Threads, InsertStep(t)
      PROVE  TransactionInv'
  <2> USE DEF OneFlushAtATime
  <2>1. CASE FlushTake(t)
    BY <2>1 DEF FlushTake, repoVars
  <2>2. CASE InsertExecutes(t)
    <3>1. txn = {}
      BY <2>2 DEF InsertExecutes
    <3>2. QED
      BY <2>2, <3>1 DEF InsertExecutes, ExecuteValues
  <2>3. CASE InsertCommits(t)
    BY <2>3 DEF InsertCommits, Commit
  <2>4. CASE InsertRaises(t)
    BY <2>4 DEF InsertRaises, ExecuteRaises, CommitRaises, repoVars
  <2>5. CASE Restore(t)
    BY <2>5 DEF Restore, repoVars
  <2>6. QED
    BY <1>2, <2>1, <2>2, <2>3, <2>4, <2>5 DEF InsertStep
<1>3. QED
  BY <1>1, <1>2, StepCases

LEMMA InitTransaction == Init => TransactionInv
BY DEF TransactionInv, Init, RepoInit, BufferInit, TransactionIsOneBatch, BatchesAreInserts

\* The transaction that a flush commits holds its own rows and no others,
\* after any sequence of failures of the connection.
THEOREM TransactionsDoNotMix == Spec => [](TransactionIsOneBatch /\ BatchesAreInserts)
BY InitTransaction, TransactionStep, TypeCorrect, MutualExclusion, PTL DEF Spec, TransactionInv

----------------------------------------------------------------------------

\* A tail and the sequence it ends may both grow by one element.
LEMMA EndsWithAppend ==
    ASSUME NEW s \in Seq(Message), NEW r \in Seq(Message), NEW m \in Message,
           EndsWith(s, r)
    PROVE  EndsWith(Append(s, m), Append(r, m))
<1>1. /\ Len(Append(r, m)) = Len(r) + 1
      /\ Len(Append(s, m)) = Len(s) + 1
      /\ Len(r) \in Nat /\ Len(s) \in Nat /\ Len(r) <= Len(s)
  BY DEF EndsWith
<1>2. ASSUME NEW i \in 1..Len(Append(r, m))
      PROVE  Append(r, m)[i] = Append(s, m)[Len(Append(s, m)) - Len(Append(r, m)) + i]
  <2>1. CASE i \in 1..Len(r)
    BY <2>1 DEF EndsWith
  <2>2. CASE i = Len(r) + 1
    BY <2>2
  <2>3. QED
    BY <1>1, <2>1, <2>2
<1>3. Len(Append(r, m)) <= Len(Append(s, m))
  BY <1>1
<1>4. QED
  BY <1>2, <1>3 DEF EndsWith

\* Appending after concatenating is appending to the second operand.
LEMMA ConcatAppend ==
    ASSUME NEW b \in Seq(Message), NEW c \in Seq(Message), NEW m \in Message
    PROVE  b \o Append(c, m) = Append(b \o c, m)
<1>1. <<m>> \in Seq(Message) /\ b \o c \in Seq(Message)
  OBVIOUS
<1>2. b \o Append(c, m) = b \o (c \o <<m>>)
  BY AppendIsConcat
<1>3. b \o (c \o <<m>>) = (b \o c) \o <<m>>
  BY <1>1, ConcatAssociative
<1>4. (b \o c) \o <<m>> = Append(b \o c, m)
  BY <1>1, AppendIsConcat
<1>5. QED
  BY <1>2, <1>3, <1>4

\* The second half of a tail is a tail.
LEMMA EndsWithShorter ==
    ASSUME NEW s \in Seq(Message), NEW b \in Seq(Message), NEW c \in Seq(Message),
           EndsWith(s, b \o c)
    PROVE  EndsWith(s, c)
<1>1. Len(c) <= Len(s)
  BY DEF EndsWith
<1>2. ASSUME NEW i \in 1..Len(c)
      PROVE  c[i] = s[Len(s) - Len(c) + i]
  <2>1. Len(b) + i \in 1..Len(b \o c) /\ (b \o c)[Len(b) + i] = c[i]
    OBVIOUS
  <2>2. (b \o c)[Len(b) + i] = s[Len(s) - Len(b \o c) + (Len(b) + i)]
    BY <2>1 DEF EndsWith
  <2>3. Len(s) - Len(b \o c) + (Len(b) + i) = Len(s) - Len(c) + i
    OBVIOUS
  <2>4. QED
    BY <2>1, <2>2, <2>3
<1>3. QED
  BY <1>1, <1>2 DEF EndsWith

\* Of a tail in two halves, the elements before the second are in the first.
LEMMA FirstHalf ==
    ASSUME NEW s \in Seq(Message), NEW b \in Seq(Message), NEW c \in Seq(Message),
           EndsWith(s, b \o c),
           NEW i \in 1..Len(s), i > Len(s) - Len(b \o c), i <= Len(s) - Len(c)
    PROVE  s[i] \in Range(b)
<1> DEFINE j == i - (Len(s) - Len(b \o c))
<1>1. j \in 1..Len(b) /\ j \in 1..Len(b \o c)
  OBVIOUS
<1>2. (b \o c)[j] = s[i]
  BY <1>1 DEF EndsWith
<1>3. (b \o c)[j] = b[j]
  BY <1>1
<1>4. QED
  BY <1>1, <1>2, <1>3 DEF Range

LEMMA NothingLostStep ==
    /\ TypeOK /\ OneFlushAtATime /\ TransactionIsOneBatch /\ BatchesAreInserts
    /\ NothingLost /\ [Next]_vars
    => NothingLost'
<1> SUFFICES ASSUME TypeOK, OneFlushAtATime, TransactionIsOneBatch,
                    BatchesAreInserts, NothingLost, [Next]_vars
             PROVE  NothingLost'
  OBVIOUS
<1>0. /\ buffer \in Seq(Message) /\ accepted \in Seq(Message)
      /\ \A t \in Threads : batch[t] \in Seq(Message) /\ Unsettled(t) \in Seq(Message)
  BY DEF TypeOK, Unsettled
<1>1. ASSUME NEW m \in Message, Add(m)
      PROVE  NothingLost'
  <2>1. /\ accepted' = Append(accepted, m)
        /\ bronze' = bronze
        /\ batch' = batch
        /\ buffer' = Append(buffer, m)
    BY <1>1 DEF Add, repoVars
  <2>2. ASSUME NEW t \in Threads
        PROVE  Unsettled(t)' = Append(Unsettled(t), m)
    BY <2>1, <1>0, ConcatAppend DEF Unsettled
  <2>3. \A t \in Threads : EndsWith(accepted', Unsettled(t)')
    BY <2>1, <2>2, <1>0, EndsWithAppend DEF NothingLost
  <2>4. \A t \in Threads : /\ Len(Unsettled(t)) \in Nat
                            /\ Len(Unsettled(t)') = Len(Unsettled(t)) + 1
    BY <2>2, <1>0
  <2>5. ASSUME NEW i \in 1..Len(accepted')
        PROVE  \/ accepted'[i] \in bronze'
               \/ \E t \in Threads : i > Len(accepted') - Len(Unsettled(t)')
    <3>1. CASE i \in 1..Len(accepted)
      <4>1. accepted'[i] = accepted[i]
        BY <3>1, <2>1, <1>0
      <4>2. \/ accepted[i] \in bronze
            \/ \E t \in Threads : i > Len(accepted) - Len(Unsettled(t))
        BY <3>1 DEF NothingLost
      <4>3. Len(accepted') = Len(accepted) + 1
        BY <2>1, <1>0
      <4>4. ASSUME NEW t \in Threads
            PROVE  Len(accepted') - Len(Unsettled(t)') = Len(accepted) - Len(Unsettled(t))
        <5> DEFINE k == Len(Unsettled(t))
        <5>1. Len(accepted) \in Nat /\ k \in Nat /\ Len(Unsettled(t)') = k + 1
          BY <2>4, <1>0
        <5> HIDE DEF k
        <5>2. (Len(accepted) + 1) - (k + 1) = Len(accepted) - k
          BY <5>1
        <5>3. QED
          BY <4>3, <5>1, <5>2 DEF k
      <4>5. QED
        BY <4>1, <4>2, <4>4, <2>1
    <3>2. CASE i = Len(accepted) + 1
      <4>1. Len(accepted') = i /\ Len(Unsettled(Main)') > 0
        BY <3>2, <2>1, <2>4, <1>0
      <4>2. QED
        BY <4>1, <2>4, <1>0
    <3>3. QED
      BY <3>1, <3>2, <2>1, <1>0
  <2>6. QED
    BY <2>3, <2>5 DEF NothingLost
<1>2. ASSUME NEW t \in Threads, InsertStep(t)
      PROVE  NothingLost'
  <2>0. /\ accepted' = accepted
        /\ bronze \subseteq bronze'
        /\ \A u \in Threads \ {t} : batch'[u] = batch[u] /\ (pc[u] \notin InInsert \/ pc[t] \notin InFlush)
    BY <1>2 DEF InsertStep, FlushTake, InsertExecutes, InsertCommits, InsertRaises,
         Restore, ExecuteValues, ExecuteRaises, Commit, CommitRaises, repoVars,
         TypeOK, OneFlushAtATime, InInsert
  <2>1. CASE FlushTake(t)
    <3>1. \A u \in Threads : batch[u] = <<>>
      BY <2>1 DEF FlushTake, OneFlushAtATime, BatchesAreInserts, InInsert
    <3>2. /\ Unsettled(t)' = Unsettled(t)
          /\ \A u \in Threads \ {t} : Unsettled(u)' = <<>>
      BY <2>1, <3>1, <1>0, ConcatEmptySeq DEF FlushTake, Unsettled, TypeOK
    <3>3. \A u \in Threads : Unsettled(u) = Unsettled(t)
      BY <3>1 DEF Unsettled
    <3>4. QED
      BY <2>0, <3>2, <3>3, <1>0 DEF NothingLost, EndsWith
  <2>2. CASE InsertCommits(t)
    <3>1. /\ \A u \in Threads \ {t} : batch[u] = <<>>
          /\ bronze' = bronze \cup Range(batch[t])
          /\ buffer' = buffer
          /\ \A u \in Threads : batch'[u] = <<>>
      BY <2>2 DEF InsertCommits, Commit, TypeOK, OneFlushAtATime,
           TransactionIsOneBatch, BatchesAreInserts, InInsert
    <3>2. /\ \A u \in Threads : Unsettled(u)' = buffer
          /\ \A u \in Threads \ {t} : Unsettled(u) = buffer
      BY <3>1, <1>0, ConcatEmptySeq DEF Unsettled
    <3>3. EndsWith(accepted, batch[t] \o buffer)
      BY DEF NothingLost, Unsettled
    <3>4. EndsWith(accepted, buffer)
      BY <3>3, <1>0, EndsWithShorter
    <3>5. ASSUME NEW i \in 1..Len(accepted), i <= Len(accepted) - Len(buffer)
          PROVE  accepted[i] \in bronze'
      <4>1. CASE i > Len(accepted) - Len(batch[t] \o buffer)
        BY <4>1, <3>1, <3>3, <3>5, <1>0, FirstHalf
      <4>2. CASE i <= Len(accepted) - Len(batch[t] \o buffer)
        <5>1. \A u \in Threads : ~(i > Len(accepted) - Len(Unsettled(u)))
          BY <4>2, <3>2, <3>5, <1>0 DEF Unsettled
        <5>2. QED
          BY <5>1, <3>1 DEF NothingLost
      <4>3. QED
        BY <4>1, <4>2, <1>0
    <3>6. ASSUME NEW i \in 1..Len(accepted), accepted[i] \notin bronze'
          PROVE  i > Len(accepted) - Len(Unsettled(t)')
      BY <3>2, <3>5, <3>6, <1>0
    <3>7. QED
      BY <2>0, <3>2, <3>4, <3>6 DEF NothingLost
  <2>3. CASE Restore(t)
    <3>1. /\ \A u \in Threads \ {t} : batch[u] = <<>>
          /\ buffer' = Unsettled(t)
          /\ \A u \in Threads : batch'[u] = <<>>
      BY <2>3 DEF Restore, TypeOK, OneFlushAtATime, BatchesAreInserts, InInsert,
           Unsettled
    <3>2. \A u \in Threads : Unsettled(u)' = Unsettled(t)
      BY <3>1, <1>0, ConcatEmptySeq DEF Unsettled
    <3>3. \A u \in Threads : Len(Unsettled(u)) <= Len(Unsettled(t))
      BY <3>1, <1>0 DEF Unsettled
    <3>4. ASSUME NEW i \in 1..Len(accepted), accepted[i] \notin bronze
          PROVE  i > Len(accepted) - Len(Unsettled(t))
      <4>1. PICK u \in Threads : i > Len(accepted) - Len(Unsettled(u))
        BY <3>4 DEF NothingLost
      <4>2. QED
        BY <4>1, <3>3, <1>0
    <3>5. QED
      BY <2>0, <3>2, <3>4 DEF NothingLost
  <2>4. CASE InsertExecutes(t) \/ InsertRaises(t)
    <3>1. batch' = batch /\ buffer' = buffer
      BY <2>4 DEF InsertExecutes, InsertRaises
    <3>2. QED
      BY <2>0, <3>1 DEF NothingLost, Unsettled
  <2>5. QED
    BY <1>2, <2>1, <2>2, <2>3, <2>4 DEF InsertStep
<1>3. CASE UNCHANGED <<accepted, bronze, batch, buffer>>
  BY <1>3 DEF NothingLost, Unsettled
<1>4. QED
  BY <1>1, <1>2, <1>3
     DEF Next, FlushStep, InsertStep, TimerFires, FlushSkip, Clear, ResetTimer,
         FinalFlush, Stop, vars, repoVars, bufferVars, localVars

LEMMA InitNothingLost == Init => NothingLost
<1> SUFFICES ASSUME Init
             PROVE  NothingLost
  OBVIOUS
<1>1. \A t \in Threads : Unsettled(t) = <<>>
  BY DEF Init, BufferInit, Unsettled
<1>2. QED
  BY <1>1 DEF Init, BufferInit, NothingLost, EndsWith

\* Nothing is lost: whatever is accepted is in the table, in the batch of the
\* flush in progress or in the buffer, and in that order.
THEOREM AcceptedIsKept == Spec => []NothingLost
BY InitNothingLost, NothingLostStep, TypeCorrect, MutualExclusion, TransactionsDoNotMix, PTL DEF Spec

----------------------------------------------------------------------------

\* The table is the content of a prefix of what was accepted.
StoredIsPrefix == \E n \in 0..Len(accepted) : bronze = Sink!First(n)

\* A batch whose commit is pending makes durable what was accepted before the
\* messages that are still in the buffer, and nothing else.
LEMMA PendingIsPrefix ==
    ASSUME TypeOK, OneFlushAtATime, BatchesAreInserts, NothingLost,
           NEW t \in Threads, pc[t] = "commit"
    PROVE  LET k == Len(accepted) - Len(buffer) IN
           /\ k \in 0..Len(accepted)
           /\ Range(batch[t]) \subseteq Sink!First(k)
           /\ Sink!First(k) \subseteq bronze \cup Range(batch[t])
<1> DEFINE k == Len(accepted) - Len(buffer)
<1>1. /\ accepted \in Seq(Message) /\ buffer \in Seq(Message) /\ batch[t] \in Seq(Message)
      /\ \A u \in Threads \ {t} : batch[u] = <<>>
  BY DEF TypeOK, OneFlushAtATime, BatchesAreInserts, InInsert
<1>2. EndsWith(accepted, batch[t] \o buffer)
  BY DEF NothingLost, Unsettled
<1>3. k \in 0..Len(accepted)
  BY <1>1, <1>2, EndsWithShorter DEF EndsWith
<1>4. ASSUME NEW i \in 1..k
      PROVE  accepted[i] \in bronze \cup Range(batch[t])
  <2>1. CASE i > Len(accepted) - Len(batch[t] \o buffer)
    BY <2>1, <1>1, <1>2, <1>3, FirstHalf
  <2>2. CASE i <= Len(accepted) - Len(batch[t] \o buffer)
    <3>1. \A u \in Threads \ {t} : Unsettled(u) = buffer
      BY <1>1, ConcatEmptySeq DEF Unsettled
    <3>2. \A u \in Threads : ~(i > Len(accepted) - Len(Unsettled(u)))
      BY <2>2, <3>1, <1>1 DEF Unsettled
    <3>3. i \in 1..Len(accepted)
      BY <1>3, <1>1
    <3>4. QED
      BY <3>2, <3>3 DEF NothingLost
  <2>3. QED
    BY <2>1, <2>2, <1>1
<1>5. ASSUME NEW m \in Range(batch[t])
      PROVE  \E i \in 1..k : m = accepted[i]
  <2>1. PICK j \in 1..Len(batch[t]) : m = batch[t][j]
    BY <1>1 DEF Range
  <2>2. j \in 1..Len(batch[t] \o buffer) /\ (batch[t] \o buffer)[j] = m
    BY <2>1, <1>1
  <2>3. m = accepted[Len(accepted) - Len(batch[t] \o buffer) + j]
    BY <2>2, <1>2 DEF EndsWith
  <2>4. Len(accepted) - Len(batch[t] \o buffer) + j \in 1..k
    BY <2>1, <1>1, <1>2 DEF EndsWith
  <2>5. QED
    BY <2>3, <2>4
<1>6. QED
  BY <1>3, <1>4, <1>5 DEF Sink!First

\* Reported or not, it turns a prefix into a prefix: no failed flush ever left
\* a gap before it.
LEMMA CommitKeepsPrefix ==
    ASSUME TypeOK, OneFlushAtATime, BatchesAreInserts, NothingLost, StoredIsPrefix,
           NEW t \in Threads, pc[t] = "commit"
    PROVE  \E n \in 0..Len(accepted) : bronze \cup Range(batch[t]) = Sink!First(n)
<1> DEFINE k == Len(accepted) - Len(buffer)
<1>1. /\ k \in 0..Len(accepted)
      /\ Range(batch[t]) \subseteq Sink!First(k)
      /\ Sink!First(k) \subseteq bronze \cup Range(batch[t])
  BY PendingIsPrefix
<1>2. PICK n \in 0..Len(accepted) : bronze = Sink!First(n)
  BY DEF StoredIsPrefix
<1>3. Len(accepted) \in Nat /\ n \in Int /\ k \in Int
  BY <1>1, LenProperties DEF TypeOK
<1> HIDE DEF k
<1>4. CASE n <= k
  <2>1. Sink!First(n) \subseteq Sink!First(k)
    BY <1>1, <1>3, <1>4 DEF Sink!First
  <2>2. bronze \cup Range(batch[t]) = Sink!First(k)
    BY <1>1, <1>2, <2>1
  <2>3. QED
    BY <1>1, <2>2
<1>5. CASE n > k
  <2>1. Sink!First(k) \subseteq Sink!First(n)
    BY <1>1, <1>3, <1>5 DEF Sink!First
  <2>2. bronze \cup Range(batch[t]) = Sink!First(n)
    BY <1>1, <1>2, <2>1
  <2>3. QED
    BY <2>2
<1>6. QED
  BY <1>3, <1>4, <1>5

\* What one step does, seen from the abstract sink: the initial states map to
\* initial states, every step to an Accept, a Store or a stutter, and the
\* table stays the content of a prefix.
LEMMA StepIsSinkStep ==
    ASSUME TypeOK, OneFlushAtATime, TransactionIsOneBatch, BatchesAreInserts,
           NothingLost, StoredIsPrefix, [Next]_vars
    PROVE  [Sink!Next]_(Sink!vars) /\ StoredIsPrefix'
<1> USE DEF Sink!Next, Sink!vars, Sink!First
<1>1. ASSUME NEW m \in Message, Add(m)
      PROVE  [Sink!Next]_(Sink!vars) /\ StoredIsPrefix'
  <2>1. accepted' = Append(accepted, m) /\ bronze' = bronze
    BY <1>1 DEF Add, repoVars
  <2>2. accepted \in Seq(Message)
    BY DEF TypeOK
  <2>3. PICK n \in 0..Len(accepted) : bronze = Sink!First(n)
    BY DEF StoredIsPrefix
  <2>4. n \in 0..Len(accepted') /\ Sink!First(n)' = Sink!First(n)
    BY <2>1, <2>2
  <2>5. StoredIsPrefix'
    BY <2>1, <2>3, <2>4 DEF StoredIsPrefix
  <2>6. QED
    BY <2>1, <2>5 DEF Sink!Accept
<1>2. ASSUME NEW t \in Threads, InsertCommits(t) \/ InsertRaises(t)
      PROVE  [Sink!Next]_(Sink!vars) /\ StoredIsPrefix'
  <2>1. accepted' = accepted
    BY <1>2 DEF InsertCommits, InsertRaises
  <2>2. \/ bronze' = bronze
        \/ pc[t] = "commit" /\ bronze' = bronze \cup Range(batch[t])
    BY <1>2 DEF InsertCommits, InsertRaises, Commit, CommitRaises, ExecuteRaises,
         repoVars, TransactionIsOneBatch
  <2>3. PICK n \in 0..Len(accepted) : bronze' = Sink!First(n)
    BY <2>2, CommitKeepsPrefix DEF StoredIsPrefix
  <2>4. bronze \subseteq bronze'
    BY <2>2
  <2>5. StoredIsPrefix'
    BY <2>1, <2>3 DEF StoredIsPrefix
  <2>6. Sink!Store
    BY <2>1, <2>3, <2>4 DEF Sink!Store
  <2>7. QED
    BY <2>5, <2>6
<1>3. CASE UNCHANGED <<accepted, bronze>>
  BY <1>3 DEF StoredIsPrefix
<1>4. QED
  BY <1>1, <1>2, <1>3
     DEF Next, FlushStep, TimerFires, FlushSkip, FlushTake, InsertExecutes,
         ExecuteValues, Restore, Clear, ResetTimer, FinalFlush, Stop,
         vars, repoVars, bufferVars, localVars

\* The buffer and the repository together are an ordered sink.
THEOREM Refinement == Spec => ImplementsOrderedSink
<1>1. Init => Sink!Init /\ StoredIsPrefix
  <2> SUFFICES ASSUME Init
               PROVE  Sink!Init /\ StoredIsPrefix
    OBVIOUS
  <2>1. accepted = <<>> /\ bronze = {}
    BY DEF Init, RepoInit, BufferInit
  <2>2. 0 \in 0..Len(accepted) /\ Sink!First(0) = {}
    BY <2>1 DEF Sink!First
  <2>3. QED
    BY <2>1, <2>2 DEF Sink!Init, StoredIsPrefix
<1>2. /\ TypeOK /\ OneFlushAtATime /\ TransactionIsOneBatch /\ BatchesAreInserts
      /\ NothingLost /\ StoredIsPrefix /\ [Next]_vars
      => [Sink!Next]_(Sink!vars) /\ StoredIsPrefix'
  BY StepIsSinkStep
<1>3. QED
  BY <1>1, <1>2, TypeCorrect, MutualExclusion, TransactionsDoNotMix, AcceptedIsKept, PTL
     DEF Spec, ImplementsOrderedSink, Sink!Spec

============================================================================
