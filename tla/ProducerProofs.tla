--------------------------- MODULE ProducerProofs ---------------------------
(***************************************************************************)
(* Proofs about Producer.tla, for every set of trades and frames, every    *)
(* size of the retry queue, every number of attempts and every delay.      *)
(***************************************************************************)
EXTENDS Producer, PublisherProofs

USE PublisherAssumption, ProducerAssumption, PowerAssumption

\* What the types rest on: the websocket in use is counted among the open
\* ones, and a publish() in progress is one of the first trade of the frame.
StreamInv ==
    /\ ProducerTypeOK
    /\ Current <= sockets
    /\ tries > 0 => Head(frame) \in Clean
    /\ attempt = MaxReconnectAttempts => loc = "draining"

\* The sleeps since the last connection are the rungs of the ladder, as many
\* as attempt says; the loop is left unasked at its top only.
LadderInv ==
    /\ slept = Ladder(attempt)
    /\ loc = "draining" => shutdown \/ attempt = MaxReconnectAttempts

\* No time passes before SIGTERM, none until a backoff in progress ends, and
\* the drain window is the last of it.
WaitInv ==
    /\ ShutdownBound
    /\ ~shutdown \/ loc = "backoff" => waited = 0
    /\ loc # "exited" => waited <= MaxDelay

----------------------------------------------------------------------------
\* Lemmas on delays and frames.

LEMMA BackoffBounded ==
    ASSUME NEW n \in 0..MaxReconnectAttempts
    PROVE  Backoff(n) \in Nat /\ Backoff(n) <= MaxDelay
BY DEF Backoff

\* A rung is added at the top.
LEMMA LadderGrows ==
    ASSUME NEW n \in Nat, n < MaxReconnectAttempts
    PROVE  Append(Ladder(n), Backoff(n)) = Ladder(n + 1)
<1>1. \A i \in 1..(n + 1) : Backoff(i - 1) \in Nat
  BY BackoffBounded
<1>2. Ladder(n) \in Seq(Nat) /\ Len(Ladder(n)) = n
  BY <1>1, IsASeq DEF Ladder
<1>3. Ladder(n + 1) \in Seq(Nat) /\ Len(Ladder(n + 1)) = n + 1
  BY <1>1, IsASeq DEF Ladder
<1>4. /\ Append(Ladder(n), Backoff(n)) \in Seq(Nat)
      /\ Len(Append(Ladder(n), Backoff(n))) = n + 1
      /\ \A i \in 1..n : Append(Ladder(n), Backoff(n))[i] = Ladder(n)[i]
      /\ Append(Ladder(n), Backoff(n))[n + 1] = Backoff(n)
  BY <1>1, <1>2, AppendProperties
<1>5. \A i \in 1..(n + 1) : Append(Ladder(n), Backoff(n))[i] = Ladder(n + 1)[i]
  BY <1>4 DEF Ladder
<1>6. QED
  BY <1>3, <1>4, <1>5, SeqEqual

\* The first trade of a frame or a queue, and the others.
LEMMA HeadAndTail ==
    ASSUME NEW q \in Seq(Trade), q # <<>>
    PROVE  /\ Head(q) \in Trade /\ Tail(q) \in Seq(Trade)
           /\ Len(q) = 1 <=> Tail(q) = <<>>
           /\ Range(q) = {Head(q)} \cup Range(Tail(q))
<1>1. /\ Head(q) \in Trade /\ Tail(q) \in Seq(Trade)
      /\ Len(Tail(q)) = Len(q) - 1
      /\ \A i \in 1..Len(Tail(q)) : Tail(q)[i] = q[i + 1]
      /\ Head(q) = q[1]
  BY HeadTailProperties
<1>2. Len(q) = 1 <=> Tail(q) = <<>>
  <2>1. Len(Tail(q)) = 0 <=> Tail(q) = <<>>
    BY <1>1, EmptySeq
  <2>2. Len(q) \in Nat
    BY LenProperties
  <2>3. QED
    BY <1>1, <2>1, <2>2
<1>3. Range(q) = {Head(q)} \cup Range(Tail(q))
  <2>1. DOMAIN q = 1..Len(q) /\ DOMAIN Tail(q) = 1..Len(Tail(q))
    BY <1>1, LenProperties
  <2>2. \A i \in 1..Len(q) : i = 1 \/ i - 1 \in 1..Len(Tail(q))
    BY <1>1
  <2>3. \A i \in 1..Len(Tail(q)) : i + 1 \in 1..Len(q)
    BY <1>1
  <2>4. 1 \in 1..Len(q)
    BY EmptySeq
  <2>5. ASSUME NEW x \in Range(q) PROVE x \in {Head(q)} \cup Range(Tail(q))
    <3>1. PICK i \in 1..Len(q) : x = q[i]
      BY <2>1 DEF Range
    <3>2. CASE i = 1
      BY <1>1, <3>1, <3>2
    <3>3. CASE i # 1
      <4>1. i - 1 \in 1..Len(Tail(q)) /\ q[i] = Tail(q)[i - 1]
        BY <1>1, <2>2, <3>3
      <4>2. QED
        BY <2>1, <3>1, <4>1 DEF Range
    <3>4. QED
      BY <3>2, <3>3
  <2>6. \A x \in Range(Tail(q)) : x \in Range(q)
    BY <1>1, <2>1, <2>3 DEF Range
  <2>7. Head(q) \in Range(q)
    BY <1>1, <2>1, <2>4 DEF Range
  <2>8. QED
    BY <2>5, <2>6, <2>7
<1>4. QED
  BY <1>1, <1>2, <1>3

----------------------------------------------------------------------------
\* Types.

LEMMA StreamInvInit == ProducerInit => StreamInv
<1> SUFFICES ASSUME ProducerInit
             PROVE  StreamInv
  OBVIOUS
<1>1. PublisherTypeOK
  BY EmptySeq DEF ProducerInit, PublisherInit, PublisherTypeOK
<1>2. <<>> \in Seq(Trade) /\ <<>> \in Seq(Nat)
  OBVIOUS
<1>3. /\ 0 \in 0..MaxReconnectAttempts /\ 0 # MaxReconnectAttempts
      /\ 0 \in 0..MaxSockets /\ 0 \in 0..MaxFrames
  OBVIOUS
<1>4. tries = 0 /\ Current = 0
  BY DEF ProducerInit, PublisherInit, Current
<1>5. shutdown \in BOOLEAN
  BY DEF ProducerInit
<1>6. ProducerTypeOK
  BY <1>1, <1>2, <1>3, <1>4, <1>5 DEF ProducerInit, ProducerTypeOK
<1>7. QED
  BY <1>3, <1>4, <1>6 DEF ProducerInit, StreamInv

\* A step of the coroutine between two frames.
LEMMA StreamStepKeepsStreamInv == StreamInv /\ StreamStep => StreamInv'
<1> SUFFICES ASSUME StreamInv, StreamStep
             PROVE  StreamInv'
  OBVIOUS
<1>1. UNCHANGED publisherVars /\ PublisherTypeOK'
  BY DEF StreamStep, Connects, ConnectFails, FrameArrives, StreamEnds, StreamBreaks,
         StreamInv, ProducerTypeOK, PublisherTypeOK, publisherVars
<1>2. tries = 0 /\ tries' = 0 /\ frame = <<>>
  BY <1>1 DEF StreamStep, Connects, ConnectFails, FrameArrives, StreamEnds, StreamBreaks,
              StreamInv, ProducerTypeOK, PublisherTypeOK, publisherVars
<1> USE DEF StreamInv, ProducerTypeOK
<1>3. CASE Connects
  <2>1. slept' \in Seq(Nat)
    BY <1>3 DEF Connects
  <2>2. QED
    BY <1>1, <1>2, <1>3, <2>1 DEF Connects, Current
<1>4. CASE ConnectFails
  BY <1>1, <1>2, <1>4 DEF ConnectFails, ExceptBlock, Current
<1>5. CASE FrameArrives
  <2>1. CASE shutdown
    BY <1>1, <1>2, <1>5, <2>1 DEF FrameArrives, LoopHead, Current
  <2>2. CASE ~shutdown
    <3>1. frame' \in Seq(Trade) /\ frame' # <<>>
      BY <1>5, <2>2 DEF FrameArrives
    <3>2. frames' \in 0..MaxFrames
      BY <1>5, <2>2 DEF FrameArrives
    <3>3. QED
      BY <1>1, <1>2, <1>5, <2>2, <3>1, <3>2 DEF FrameArrives, Current
  <2>3. QED
    BY <2>1, <2>2
<1>6. CASE StreamEnds
  BY <1>1, <1>2, <1>6 DEF StreamEnds, LoopHead, Current
<1>7. CASE StreamBreaks
  BY <1>1, <1>2, <1>7 DEF StreamBreaks, ExceptBlock, Current
<1>8. QED
  BY <1>3, <1>4, <1>5, <1>6, <1>7 DEF StreamStep

\* A step with the first trade of a frame.
LEMMA TradeStepKeepsStreamInv == StreamInv /\ TradeStep => StreamInv'
<1> SUFFICES ASSUME StreamInv, TradeStep
             PROVE  StreamInv'
  OBVIOUS
<1>1. /\ loc = "frame" /\ frame \in Seq(Trade) /\ frame # <<>>
      /\ PublisherTypeOK /\ tries \in Nat
  BY DEF TradeStep, SkipInvalid, FrameAborts, PublishConfirmed, PublishAttemptFails,
         PublishGivesUp, Handling, StreamInv, ProducerTypeOK, PublisherTypeOK
<1>2. /\ Head(frame) \in Trade /\ Tail(frame) \in Seq(Trade)
      /\ Len(frame) = 1 <=> Tail(frame) = <<>>
  BY <1>1, HeadAndTail
<1> USE DEF StreamInv, ProducerTypeOK
<1>3. ASSUME NextTrade, tries' = 0, PublisherTypeOK' PROVE StreamInv'
  BY <1>1, <1>2, <1>3 DEF NextTrade, Current
<1>4. CASE SkipInvalid
  <2>1. UNCHANGED publisherVars /\ Head(frame) \notin Clean
    BY <1>4 DEF SkipInvalid, Handling, Clean
  <2>2. tries' = 0 /\ PublisherTypeOK'
    BY <1>1, <2>1 DEF publisherVars, PublisherTypeOK
  <2>3. QED
    BY <1>3, <1>4, <2>2 DEF SkipInvalid
<1>5. CASE FrameAborts
  <2>1. UNCHANGED publisherVars /\ Head(frame) \notin Clean
    BY <1>5 DEF FrameAborts, Handling, Clean
  <2>2. tries' = 0 /\ PublisherTypeOK'
    BY <1>1, <2>1 DEF publisherVars, PublisherTypeOK
  <2>3. QED
    BY <1>1, <1>5, <2>2 DEF FrameAborts, ExceptBlock, Current
<1>6. CASE PublishConfirmed
  <2>1. tries' = 0 /\ PublisherTypeOK'
    BY <1>1, <1>2, <1>6, PublisherKeepsType DEF PublishConfirmed, Confirmed
  <2>2. QED
    BY <1>3, <1>6, <2>1 DEF PublishConfirmed
<1>7. CASE PublishAttemptFails
  <2>1. PublisherTypeOK' /\ UNCHANGED streamVars /\ Head(frame) \in Clean
    BY <1>1, <1>2, <1>7, PublisherKeepsType
       DEF PublishAttemptFails, AttemptFails, Handling
  <2>2. QED
    BY <1>1, <2>1 DEF streamVars, Current
<1>8. CASE PublishGivesUp
  <2>1. tries' = 0 /\ PublisherTypeOK'
    BY <1>1, <1>2, <1>8, PublisherKeepsType DEF PublishGivesUp, GivesUp
  <2>2. QED
    BY <1>3, <1>8, <2>1 DEF PublishGivesUp
<1>9. QED
  BY <1>4, <1>5, <1>6, <1>7, <1>8 DEF TradeStep

\* Every other step, and stuttering.
LEMMA StreamInvStep == StreamInv /\ [ProducerNext]_producerVars => StreamInv'
<1> SUFFICES ASSUME StreamInv, [ProducerNext]_producerVars
             PROVE  StreamInv'
  OBVIOUS
<1>1. PublisherTypeOK
  BY DEF StreamInv, ProducerTypeOK
<1> USE DEF StreamInv, ProducerTypeOK
<1>2. ASSUME UNCHANGED publisherVars PROVE PublisherTypeOK' /\ tries' = tries
  BY <1>1, <1>2 DEF publisherVars, PublisherTypeOK
<1>3. CASE StreamStep
  BY <1>3, StreamStepKeepsStreamInv
<1>4. CASE TradeStep
  BY <1>4, TradeStepKeepsStreamInv
<1>5. CASE LeakedSocketCloses
  <2>1. sockets' \in 0..MaxSockets /\ Current' <= sockets'
    BY <1>5 DEF LeakedSocketCloses, Current
  <2>2. QED
    BY <1>2, <1>5, <2>1 DEF LeakedSocketCloses
<1>6. CASE Wake
  <2>1. /\ attempt \in Nat /\ attempt + 1 <= MaxReconnectAttempts
        /\ Backoff(attempt) \in Nat
    BY <1>6, BackoffBounded DEF Wake
  <2>2. attempt' \in 0..MaxReconnectAttempts /\ slept' \in Seq(Nat) /\ waited' \in Nat
    <3>1. waited' \in Nat
      <4>1. CASE shutdown
        BY <1>6, <2>1, <4>1 DEF Wake
      <4>2. CASE ~shutdown
        BY <1>6, <2>1, <4>2 DEF Wake
      <4>3. QED
        BY <4>1, <4>2
    <3>2. QED
      BY <1>6, <2>1, <3>1 DEF Wake
  <2>3. loc' \in {"connecting", "draining"} /\ (attempt' = MaxReconnectAttempts => loc' = "draining")
    BY <1>6, <2>1 DEF Wake, LoopHead
  <2>4. frame' = <<>> /\ tries = 0 /\ UNCHANGED <<sockets, frames, frame>> /\ shutdown' \in BOOLEAN
    BY <1>1, <1>6 DEF Wake, PublisherTypeOK
  <2>5. QED
    BY <1>2, <1>6, <2>2, <2>3, <2>4 DEF Wake, Current
<1>7. CASE Sigterm
  BY <1>2, <1>7 DEF Sigterm, Current
<1>8. CASE Ends /\ waited' \in Nat
  <2>1. PublisherTypeOK' /\ tries' = 0
    BY <1>1, <1>8, PublisherRestartKeepsType DEF Ends, PublisherEnds
  <2>2. <<>> \in Seq(Trade) /\ <<>> \in Seq(Nat)
    OBVIOUS
  <2>3. QED
    BY <1>8, <2>1, <2>2 DEF Ends, Current
<1>9. CASE DrainAndExit
  <2>1. waited' \in Nat
    BY <1>9 DEF DrainAndExit
  <2>2. QED
    BY <1>8, <1>9, <2>1 DEF DrainAndExit
<1>10. CASE Crash
  BY <1>8, <1>10 DEF Crash
<1>11. CASE Restart
  <2>1. PublisherTypeOK' /\ tries' = tries
    BY <1>1, <1>11, PublisherRestartKeepsType DEF Restart, PublisherStarts
  <2>2. QED
    BY <1>11, <2>1 DEF Restart, Current
<1>12. CASE UNCHANGED producerVars
  BY <1>2, <1>12 DEF producerVars, streamVars, Current
<1>13. QED
  BY <1>3, <1>4, <1>5, <1>6, <1>7, <1>9, <1>10, <1>11, <1>12 DEF ProducerNext

----------------------------------------------------------------------------
\* The ladder of backoffs.

LEMMA LadderInvStep == StreamInv /\ LadderInv /\ [ProducerNext]_producerVars => LadderInv'
<1> SUFFICES ASSUME StreamInv, LadderInv, [ProducerNext]_producerVars
             PROVE  LadderInv'
  OBVIOUS
<1>1. Ladder(0) = <<>>
  BY DEF Ladder
<1>2. ASSUME UNCHANGED <<attempt, slept>>, loc' = "draining" => shutdown'
      PROVE  LadderInv'
  BY <1>2 DEF LadderInv, Ladder
<1>3. ASSUME UNCHANGED <<attempt, slept, shutdown, loc>>
      PROVE  LadderInv'
  BY <1>3 DEF LadderInv, Ladder
<1>4. ASSUME slept' = <<>>, attempt' = 0, loc' # "draining"
      PROVE  LadderInv'
  BY <1>1, <1>4 DEF LadderInv
<1>5. CASE Connects
  BY <1>4, <1>5 DEF Connects
<1>6. CASE ConnectFails \/ FrameArrives \/ StreamEnds \/ StreamBreaks
  BY <1>2, <1>6 DEF ConnectFails, FrameArrives, StreamEnds, StreamBreaks, LoopHead, ExceptBlock
<1>7. CASE TradeStep
  BY <1>2, <1>7 DEF TradeStep, SkipInvalid, FrameAborts, PublishConfirmed,
                    PublishAttemptFails, PublishGivesUp, NextTrade, ExceptBlock,
                    Handling, streamVars
<1>8. CASE LeakedSocketCloses \/ UNCHANGED producerVars
  BY <1>3, <1>8 DEF LeakedSocketCloses, producerVars, streamVars
<1>9. CASE Wake
  <2>1. attempt \in Nat /\ attempt < MaxReconnectAttempts
    BY <1>9 DEF Wake, StreamInv, ProducerTypeOK
  <2>2. slept' = Ladder(attempt + 1) /\ attempt' = attempt + 1
    BY <1>9, <2>1, LadderGrows DEF Wake, LadderInv
  <2>3. slept' = Ladder(attempt')
    BY <2>2
  <2>4. loc' = "draining" => shutdown' \/ attempt' = MaxReconnectAttempts
    BY <1>9, <2>1 DEF Wake, LoopHead
  <2>5. QED
    BY <2>3, <2>4 DEF LadderInv, Ladder
<1>10. CASE Sigterm
  <2>1. UNCHANGED <<attempt, slept>> /\ shutdown'
    BY <1>10 DEF Sigterm
  <2>2. QED
    BY <1>2, <2>1
<1>11. CASE DrainAndExit \/ Crash
  BY <1>4, <1>11 DEF DrainAndExit, Crash, Ends
<1>12. CASE Restart
  BY <1>2, <1>12 DEF Restart
<1>13. QED
  BY <1>5, <1>6, <1>7, <1>8, <1>9, <1>10, <1>11, <1>12 DEF ProducerNext, StreamStep

----------------------------------------------------------------------------
\* The time a shutdown takes.

LEMMA WaitInvStep == StreamInv /\ WaitInv /\ [ProducerNext]_producerVars => WaitInv'
<1> SUFFICES ASSUME StreamInv, WaitInv, [ProducerNext]_producerVars
             PROVE  WaitInv'
  OBVIOUS
<1>1. waited \in Nat /\ MaxDelay \in Nat /\ DrainTimeout \in Nat
  BY DEF StreamInv, ProducerTypeOK
<1> USE DEF WaitInv, ShutdownBound
<1>2. ASSUME UNCHANGED <<waited, shutdown>>, loc # "exited",
             loc' = "backoff" => loc = "backoff" \/ ~shutdown
      PROVE  WaitInv'
  BY <1>1, <1>2
<1>3. CASE StreamStep
  BY <1>2, <1>3 DEF StreamStep, Connects, ConnectFails, FrameArrives, StreamEnds,
                    StreamBreaks, LoopHead, ExceptBlock
<1>4. CASE TradeStep
  BY <1>2, <1>4 DEF TradeStep, SkipInvalid, FrameAborts, PublishConfirmed,
                    PublishAttemptFails, PublishGivesUp, NextTrade, ExceptBlock,
                    Handling, streamVars
<1>5. CASE LeakedSocketCloses
  BY <1>2, <1>5 DEF LeakedSocketCloses
<1>6. CASE Wake
  <2>1. Backoff(attempt) \in Nat /\ Backoff(attempt) <= MaxDelay
    BY BackoffBounded DEF StreamInv, ProducerTypeOK
  <2>2. waited = 0 /\ loc' # "backoff" /\ shutdown' = shutdown
    BY <1>6 DEF Wake, LoopHead
  <2>3. CASE shutdown
    BY <1>1, <1>6, <2>1, <2>2, <2>3 DEF Wake
  <2>4. CASE ~shutdown
    BY <1>1, <1>6, <2>2, <2>4 DEF Wake
  <2>5. QED
    BY <2>3, <2>4
<1>7. CASE Sigterm
  BY <1>1, <1>7 DEF Sigterm
<1>8. CASE DrainAndExit
  <2>1. loc' = "exited" /\ waited <= MaxDelay /\ shutdown' = shutdown
    BY <1>8 DEF DrainAndExit, Ends
  <2>2. CASE shutdown /\ retryQueue # <<>>
    BY <1>1, <1>8, <2>1, <2>2 DEF DrainAndExit
  <2>3. CASE ~(shutdown /\ retryQueue # <<>>)
    BY <1>1, <1>8, <2>1, <2>3 DEF DrainAndExit
  <2>4. QED
    BY <2>2, <2>3
<1>9. CASE Crash
  BY <1>1, <1>9 DEF Crash, Ends
<1>10. CASE Restart
  BY <1>1, <1>10 DEF Restart
<1>11. CASE UNCHANGED producerVars
  BY <1>11 DEF producerVars, streamVars
<1>12. QED
  BY <1>3, <1>4, <1>5, <1>6, <1>7, <1>8, <1>9, <1>10, <1>11 DEF ProducerNext

----------------------------------------------------------------------------

LEMMA HistoryInvInit == ProducerInit => LadderInv /\ WaitInv
<1> SUFFICES ASSUME ProducerInit
             PROVE  LadderInv /\ WaitInv
  OBVIOUS
<1>1. slept = Ladder(attempt)
  BY DEF ProducerInit, Ladder
<1>2. QED
  BY <1>1 DEF ProducerInit, LadderInv, WaitInv, ShutdownBound

\* The inductive invariant holds in every state of every execution of the
\* producer.
THEOREM ProducerInvariant == ProducerSpec => [](StreamInv /\ LadderInv /\ WaitInv)
<1>1. StreamInv /\ LadderInv /\ WaitInv /\ [ProducerNext]_producerVars =>
        (StreamInv /\ LadderInv /\ WaitInv)'
  BY StreamInvStep, LadderInvStep, WaitInvStep
<1>2. QED
  BY <1>1, StreamInvInit, HistoryInvInit, PTL DEF ProducerSpec

\* Type correctness of the producer; in particular the retry queue never
\* exceeds its maximum.
THEOREM ProducerTypeCorrect == ProducerSpec => []ProducerTypeOK
<1>1. StreamInv => ProducerTypeOK
  BY DEF StreamInv
<1>2. QED
  BY <1>1, ProducerInvariant, PTL

\* The producer gives up only after the whole ladder of backoffs.
THEOREM GivesUpOnlyAfterOutage == ProducerSpec => []OutlastsOutage
<1>1. LadderInv => OutlastsOutage
  BY DEF LadderInv, OutlastsOutage
<1>2. QED
  BY <1>1, ProducerInvariant, PTL

\* A shutdown takes one backoff and one drain window at most.
THEOREM ShutdownIsBounded == ProducerSpec => []ShutdownBound
<1>1. WaitInv => ShutdownBound
  BY DEF WaitInv
<1>2. QED
  BY <1>1, ProducerInvariant, PTL

----------------------------------------------------------------------------
\* Losses.

\* publish() keeps the message, and displaces the oldest of a full queue only.
LEMMA PublishKeeps ==
    ASSUME PublisherTypeOK, NEW m \in Trade, NEW t \in Range(retryQueue) \cup routed \cup {m}
    PROVE  /\ Confirmed(m) => t \in Range(retryQueue') \cup routed'
           /\ GivesUp(m) => \/ t \in Range(retryQueue') \cup routed'
                            \/ Len(retryQueue) = RetryQueueMax /\ t = Head(retryQueue)
<1>1. Confirmed(m) => t \in Range(retryQueue') \cup routed'
  BY DEF Confirmed
<1>2. ASSUME GivesUp(m)
      PROVE  \/ t \in Range(retryQueue') \cup routed'
             \/ Len(retryQueue) = RetryQueueMax /\ t = Head(retryQueue)
  <2>1. \A q \in Seq(Trade) : Range(Append(q, m)) = Range(q) \cup {m}
    BY RangeOfAppend
  <2>2. routed' = routed /\ retryQueue \in Seq(Trade)
    BY <1>2 DEF GivesUp, PublisherTypeOK
  <2>3. CASE Len(retryQueue) < RetryQueueMax
    BY <1>2, <2>1, <2>2, <2>3 DEF GivesUp, Pushed
  <2>4. CASE ~(Len(retryQueue) < RetryQueueMax)
    <3>1. Len(retryQueue) = RetryQueueMax /\ retryQueue # <<>>
      BY <2>4 DEF PublisherTypeOK
    <3>2. /\ Tail(retryQueue) \in Seq(Trade)
          /\ Range(retryQueue) = {Head(retryQueue)} \cup Range(Tail(retryQueue))
      BY <2>2, <3>1, HeadAndTail
    <3>3. Range(retryQueue') = Range(Tail(retryQueue)) \cup {m}
      BY <1>2, <2>1, <2>4, <3>2 DEF GivesUp, Pushed
    <3>4. QED
      BY <2>2, <3>1, <3>2, <3>3
  <2>5. QED
    BY <2>3, <2>4
<1>3. QED
  BY <1>1, <1>2

\* A step that takes a clean trade out of hand is one of the three.
LEMMA LossStep ==
    ASSUME StreamInv, [ProducerNext]_producerVars, NEW t \in InHand \ InHand'
    PROVE  \/ loc' = "exited"
           \/ Len(retryQueue) = RetryQueueMax /\ t = Head(retryQueue)
           \/ loc = "frame" /\ Head(frame) \in Odd
<1>1. PublisherTypeOK /\ frame \in Seq(Trade) /\ (loc = "frame" <=> frame # <<>>)
  BY DEF StreamInv, ProducerTypeOK
<1>2. /\ t \in Clean /\ t \in Range(frame) \cup Range(retryQueue) \cup routed
      /\ t \notin Range(frame') \cup Range(retryQueue') \cup routed'
  BY DEF InHand, Clean
<1>3. ~(UNCHANGED <<frame, publisherVars>>)
  BY <1>2 DEF publisherVars
<1>4. CASE StreamStep
  <2>1. UNCHANGED publisherVars /\ loc # "frame"
    BY <1>4 DEF StreamStep, Connects, ConnectFails, FrameArrives, StreamEnds, StreamBreaks
  <2>2. Range(frame) = {}
    BY <1>1, <2>1 DEF Range
  <2>3. QED
    BY <1>2, <2>1, <2>2 DEF publisherVars
<1>5. CASE TradeStep
  <2>1. loc = "frame" /\ frame # <<>>
    BY <1>1, <1>5 DEF TradeStep, SkipInvalid, FrameAborts, PublishConfirmed,
                      PublishAttemptFails, PublishGivesUp, Handling
  <2>2. /\ Head(frame) \in Trade
        /\ Range(frame) = {Head(frame)} \cup Range(Tail(frame))
    BY <1>1, <2>1, HeadAndTail
  <2>3. CASE SkipInvalid
    <3>1. UNCHANGED publisherVars /\ frame' = Tail(frame) /\ Head(frame) \notin Clean
      BY <2>3 DEF SkipInvalid, NextTrade, Handling, Clean
    <3>2. QED
      BY <1>2, <2>2, <3>1 DEF publisherVars
  <2>4. CASE FrameAborts
    BY <2>1, <2>4 DEF FrameAborts, Handling
  <2>5. CASE PublishConfirmed
    <3>1. Confirmed(Head(frame)) /\ frame' = Tail(frame)
      BY <2>5 DEF PublishConfirmed, NextTrade
    <3>2. QED
      BY <1>1, <1>2, <2>2, <3>1, PublishKeeps
  <2>6. CASE PublishAttemptFails
    <3>1. UNCHANGED <<frame, retryQueue>> /\ routed \subseteq routed'
      BY <2>6 DEF PublishAttemptFails, AttemptFails, AttemptRefused, AttemptUnconfirmed,
                  streamVars
    <3>2. QED
      BY <1>2, <3>1
  <2>7. CASE PublishGivesUp
    <3>1. GivesUp(Head(frame)) /\ frame' = Tail(frame)
      BY <2>7 DEF PublishGivesUp, NextTrade
    <3>2. QED
      BY <1>1, <1>2, <2>2, <3>1, PublishKeeps
  <2>8. QED
    BY <1>5, <2>3, <2>4, <2>5, <2>6, <2>7 DEF TradeStep
<1>6. CASE LeakedSocketCloses \/ Wake \/ Sigterm \/ UNCHANGED producerVars
  BY <1>3, <1>6 DEF LeakedSocketCloses, Wake, Sigterm, producerVars, streamVars
<1>7. CASE DrainAndExit \/ Crash
  BY <1>7 DEF DrainAndExit, Crash, Ends
<1>8. CASE Restart
  BY <1>2, <1>8 DEF Restart, PublisherStarts
<1>9. QED
  BY <1>4, <1>5, <1>6, <1>7, <1>8 DEF ProducerNext

\* A clean trade is lost in three ways only.
THEOREM LossesAreKnown == ProducerSpec => LossIsKnown
<1>1. StreamInv /\ [ProducerNext]_producerVars =>
        [\A t \in InHand \ InHand' :
           \/ loc' = "exited"
           \/ Len(retryQueue) = RetryQueueMax /\ t = Head(retryQueue)
           \/ loc = "frame" /\ Head(frame) \in Odd]_producerVars
  BY LossStep
<1>2. QED
  BY <1>1, StreamInvInit, StreamInvStep, PTL DEF ProducerSpec, LossIsKnown

=============================================================================
