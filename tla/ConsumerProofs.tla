--------------------------- MODULE ConsumerProofs ---------------------------
(***************************************************************************)
(* Proofs about Consumer.tla, for every set of messages and timers, every  *)
(* size of the queue, of the prefetch window and of a batch.  What          *)
(* BatchBufferProofs shows of a step of the buffer is used of the steps in *)
(* which the process lives on; the rest is about the steps in which it     *)
(* dies or begins, and about where a message can be.                       *)
(***************************************************************************)
EXTENDS Consumer, BatchBufferProofs

USE BrokerAssumption, ConsumerAssumption

----------------------------------------------------------------------------
\* Sequences of messages.

LEMMA RangeIs ==
    ASSUME NEW q \in Seq(Message)
    PROVE  Range(q) = {q[i] : i \in 1..Len(q)}
BY LenProperties DEF Range

LEMMA HeadAndTail ==
    ASSUME NEW q \in Seq(Message), q # <<>>
    PROVE  /\ Head(q) \in Message /\ Tail(q) \in Seq(Message)
           /\ Len(Tail(q)) = Len(q) - 1 /\ Len(q) \in Nat \ {0}
           /\ Range(q) = {Head(q)} \cup Range(Tail(q))
<1>1. /\ Head(q) \in Message /\ Tail(q) \in Seq(Message) /\ Len(Tail(q)) = Len(q) - 1
      /\ Len(q) \in Nat \ {0} /\ Head(q) = q[1]
      /\ \A i \in 1..Len(Tail(q)) : Tail(q)[i] = q[i + 1]
  BY HeadTailProperties, LenProperties, EmptySeq
<1> DEFINE tail == Tail(q)
<1>2. Range(tail) = {tail[i] : i \in 1..Len(tail)}
  BY <1>1, RangeIs
<1>3. ASSUME NEW m \in Range(q) PROVE m \in {Head(q)} \cup Range(Tail(q))
  <2>1. PICK i \in 1..Len(q) : q[i] = m
    BY RangeIs
  <2>2. CASE i = 1
    BY <1>1, <2>1, <2>2
  <2>3. CASE i # 1
    <3>1. i - 1 \in 1..Len(Tail(q)) /\ (i - 1) + 1 = i
      BY <1>1, <2>3
    <3>2. Tail(q)[i - 1] = m
      BY <1>1, <2>1, <3>1
    <3>3. QED
      BY <1>1, <3>1, <3>2, RangeIs
  <2>4. QED
    BY <2>2, <2>3
<1>4. ASSUME NEW m \in {Head(q)} \cup Range(Tail(q)) PROVE m \in Range(q)
  <2>1. CASE m = Head(q)
    <3>1. 1 \in 1..Len(q)
      BY <1>1
    <3>2. QED
      BY <1>1, <2>1, <3>1, RangeIs
  <2>2. CASE m \in Range(Tail(q))
    <3>1. PICK i \in 1..Len(Tail(q)) : Tail(q)[i] = m
      BY <1>2, <2>2
    <3>2. i + 1 \in 1..Len(q)
      BY <1>1
    <3>3. QED
      BY <1>1, <3>1, <3>2, RangeIs
  <2>3. QED
    BY <2>1, <2>2
<1>5. QED
  BY <1>1, <1>3, <1>4

LEMMA RangeOfBoth ==
    ASSUME NEW p \in Seq(Message), NEW q \in Seq(Message)
    PROVE  /\ p \o q \in Seq(Message) /\ Range(p \o q) = Range(p) \cup Range(q)
<1>1. \A u, v \in Seq(Message) : Range(u \o v) = Range(u) \cup Range(v)
  BY RangeConcatenation
<1>2. QED
  BY <1>1

LEMMA RangeOfAppended ==
    ASSUME NEW q \in Seq(Message), NEW m \in Message
    PROVE  /\ Append(q, m) \in Seq(Message) /\ Len(Append(q, m)) = Len(q) + 1
           /\ Range(Append(q, m)) = Range(q) \cup {m}
<1>1. <<m>> \in Seq(Message) /\ Append(q, m) = q \o <<m>>
  OBVIOUS
<1>2. Range(<<m>>) = {m}
  BY DEF Range
<1>3. Range(q \o <<m>>) = Range(q) \cup Range(<<m>>)
  BY <1>1, RangeOfBoth
<1>4. QED
  BY <1>1, <1>2, <1>3

\* A queue that overflows keeps its newest messages, and dead-letters the rest.
LEMMA QueueBecomesIs ==
    ASSUME NEW q \in Seq(Message), QueueBecomes(q), dlq \subseteq Message
    PROVE  /\ queue' \in Seq(Message) /\ Len(queue') <= MaxQueue
           /\ dlq \subseteq dlq' /\ dlq' \subseteq Message
           /\ Range(queue') \cup dlq' = Range(q) \cup dlq
<1> DEFINE e == IF Len(q) > MaxQueue THEN Len(q) - MaxQueue ELSE 0
           old == SubSeq(q, 1, e)
           new == SubSeq(q, e + 1, Len(q))
<1>1. Len(q) \in Nat /\ MaxQueue \in Nat /\ e \in 0..Len(q) /\ Len(q) - e <= MaxQueue
  BY LenProperties
<1>2. queue' = new /\ dlq' = dlq \cup Range(old)
  BY DEF QueueBecomes
<1> HIDE DEF e
<1>3. \A i \in 1..Len(q) : q[i] \in Message
  BY ElementOfSeq
<1>4. /\ old \in Seq(Message) /\ Len(old) = e
      /\ \A i \in 1..e : old[i] = q[i]
  <2>1. \A i \in 1..e : q[i] \in Message
    BY <1>1, <1>3
  <2>2. QED
    BY <1>1, <2>1, SubSeqProperties
<1>5. /\ new \in Seq(Message) /\ Len(new) = Len(q) - e
      /\ \A i \in 1..(Len(q) - e) : new[i] = q[e + i]
  <2>1. \A i \in (e + 1)..Len(q) : q[i] \in Message
    BY <1>1, <1>3
  <2>2. QED
    BY <1>1, <2>1, SubSeqProperties
<1> HIDE DEF old, new
<1>6. Range(old) = {q[i] : i \in 1..e}
  BY <1>4, RangeIs
<1>7. Range(new) = {q[e + i] : i \in 1..(Len(q) - e)}
  BY <1>5, RangeIs
<1>8. Range(q) = Range(old) \cup Range(new)
  <2>1. ASSUME NEW m \in Range(q) PROVE m \in Range(old) \cup Range(new)
    <3>1. PICK i \in 1..Len(q) : q[i] = m
      BY RangeIs
    <3>2. CASE i <= e
      BY <1>1, <1>6, <3>1, <3>2
    <3>3. CASE i > e
      <4>1. i - e \in 1..(Len(q) - e) /\ e + (i - e) = i
        BY <1>1, <3>3
      <4>2. QED
        BY <1>7, <3>1, <4>1
    <3>4. QED
      BY <1>1, <3>2, <3>3
  <2>2. \A i \in 1..e : i \in 1..Len(q)
    BY <1>1
  <2>3. \A i \in 1..(Len(q) - e) : e + i \in 1..Len(q)
    BY <1>1
  <2>4. QED
    BY <1>6, <1>7, <2>1, <2>2, <2>3, RangeIs
<1>9. Range(old) \subseteq Message
  BY <1>4, RangeOfBatch
<1>10. QED
  BY <1>1, <1>2, <1>5, <1>8, <1>9

----------------------------------------------------------------------------
\* The broker.

BrokerTypeOK ==
    /\ queue \in Seq(Message) /\ Len(queue) <= MaxQueue
    /\ inbox \in Seq(Message) /\ Len(inbox) <= Prefetch
    /\ dlq \subseteq Message
    /\ link \in {"up", "lost", "down"}

\* What the broker has and what the process has of it.
AtBroker == Range(queue) \cup Range(inbox) \cup dlq
Requeued == link # "up" => Range(inbox) \subseteq Range(queue) \cup dlq

BrokerInv == BrokerTypeOK /\ Requeued

LEMMA EnqueueIs ==
    ASSUME BrokerInv, NEW m \in Message, Enqueue(m)
    PROVE  BrokerInv' /\ AtBroker \subseteq AtBroker' /\ UNCHANGED inbox
<1>1. /\ Append(queue, m) \in Seq(Message) /\ Range(Append(queue, m)) = Range(queue) \cup {m}
      /\ dlq \subseteq Message
  BY RangeOfAppended DEF BrokerInv, BrokerTypeOK
<1>2. QueueBecomes(Append(queue, m)) /\ UNCHANGED <<inbox, link>>
  BY DEF Enqueue
<1>3. /\ queue' \in Seq(Message) /\ Len(queue') <= MaxQueue
      /\ dlq \subseteq dlq' /\ dlq' \subseteq Message
      /\ Range(queue') \cup dlq' = Range(Append(queue, m)) \cup dlq
  BY <1>1, <1>2, QueueBecomesIs
<1>4. QED
  BY <1>1, <1>2, <1>3 DEF BrokerInv, BrokerTypeOK, Requeued, AtBroker

LEMMA ExpireIs ==
    ASSUME BrokerInv, Expire
    PROVE  BrokerInv' /\ AtBroker \subseteq AtBroker' /\ UNCHANGED inbox
<1>1. queue \in Seq(Message) /\ queue # <<>>
  BY DEF BrokerInv, BrokerTypeOK, Expire
<1>2. /\ Head(queue) \in Message /\ Tail(queue) \in Seq(Message)
      /\ Len(Tail(queue)) = Len(queue) - 1 /\ Len(queue) \in Nat \ {0}
      /\ Range(queue) = {Head(queue)} \cup Range(Tail(queue))
  BY <1>1, HeadAndTail
<1>3. /\ queue' = Tail(queue) /\ dlq' = dlq \cup {Head(queue)}
      /\ UNCHANGED <<inbox, link>>
  BY DEF Expire
<1>4. Len(Tail(queue)) <= MaxQueue
  BY <1>2 DEF BrokerInv, BrokerTypeOK
<1>5. QED
  BY <1>2, <1>3, <1>4 DEF BrokerInv, BrokerTypeOK, Requeued, AtBroker

LEMMA DeliverIs ==
    ASSUME BrokerInv, Deliver
    PROVE  /\ BrokerInv' /\ AtBroker \subseteq AtBroker'
           /\ inbox # <<>> => inbox' # <<>> /\ Head(inbox') = Head(inbox)
<1>1. queue \in Seq(Message) /\ queue # <<>> /\ inbox \in Seq(Message)
  BY DEF BrokerInv, BrokerTypeOK, Deliver
<1>2. /\ Head(queue) \in Message /\ Tail(queue) \in Seq(Message)
      /\ Len(Tail(queue)) = Len(queue) - 1 /\ Len(queue) \in Nat \ {0}
      /\ Range(queue) = {Head(queue)} \cup Range(Tail(queue))
  BY <1>1, HeadAndTail
<1>3. /\ queue' = Tail(queue) /\ inbox' = Append(inbox, Head(queue)) /\ link = "up"
      /\ UNCHANGED <<dlq, link>> /\ Len(inbox) < Prefetch
  BY DEF Deliver
<1>4. /\ inbox' \in Seq(Message) /\ Len(inbox') = Len(inbox) + 1
      /\ Range(inbox') = Range(inbox) \cup {Head(queue)}
  BY <1>1, <1>2, <1>3, RangeOfAppended
<1>5. Len(Tail(queue)) <= MaxQueue /\ Len(inbox') <= Prefetch
  BY <1>1, <1>2, <1>3, <1>4, LenProperties DEF BrokerInv, BrokerTypeOK
<1>6. inbox # <<>> => inbox' # <<>> /\ Head(inbox') = Head(inbox)
  BY <1>1, <1>2, <1>3
<1>7. QED
  BY <1>2, <1>3, <1>4, <1>5, <1>6 DEF BrokerInv, BrokerTypeOK, Requeued, AtBroker

LEMMA LoseLinkIs ==
    ASSUME BrokerInv, LoseLink
    PROVE  BrokerInv' /\ AtBroker \subseteq AtBroker' /\ UNCHANGED inbox
<1>1. /\ inbox \o queue \in Seq(Message) /\ dlq \subseteq Message
      /\ Range(inbox \o queue) = Range(inbox) \cup Range(queue)
  BY RangeOfBoth DEF BrokerInv, BrokerTypeOK
<1>2. QueueBecomes(inbox \o queue) /\ link' = "lost" /\ UNCHANGED inbox
  BY DEF LoseLink
<1>3. /\ queue' \in Seq(Message) /\ Len(queue') <= MaxQueue
      /\ dlq \subseteq dlq' /\ dlq' \subseteq Message
      /\ Range(queue') \cup dlq' = Range(inbox \o queue) \cup dlq
  BY <1>1, <1>2, QueueBecomesIs
<1>4. QED
  BY <1>1, <1>2, <1>3 DEF BrokerInv, BrokerTypeOK, Requeued, AtBroker

LEMMA BasicAckIs ==
    ASSUME BrokerInv, inbox # <<>>, BasicAck
    PROVE  BrokerInv' /\ AtBroker \subseteq AtBroker' \cup {Head(inbox)}
<1>1. inbox \in Seq(Message)
  BY DEF BrokerInv, BrokerTypeOK
<1>2. /\ Head(inbox) \in Message /\ Tail(inbox) \in Seq(Message)
      /\ Len(Tail(inbox)) = Len(inbox) - 1 /\ Len(inbox) \in Nat \ {0}
      /\ Range(inbox) = {Head(inbox)} \cup Range(Tail(inbox))
  BY <1>1, HeadAndTail
<1>3. inbox' = Tail(inbox) /\ UNCHANGED <<queue, dlq, link>>
  BY DEF BasicAck
<1>4. Len(Tail(inbox)) <= Prefetch
  BY <1>2 DEF BrokerInv, BrokerTypeOK
<1>5. QED
  BY <1>2, <1>3, <1>4 DEF BrokerInv, BrokerTypeOK, Requeued, AtBroker

\* On a lost link the rejected message is back in the queue already.
LEMMA BasicNackIs ==
    ASSUME BrokerInv, inbox # <<>>, BasicNack
    PROVE  BrokerInv' /\ AtBroker \subseteq AtBroker'
<1>1. inbox \in Seq(Message)
  BY DEF BrokerInv, BrokerTypeOK
<1>2. /\ Head(inbox) \in Message /\ Tail(inbox) \in Seq(Message)
      /\ Len(Tail(inbox)) = Len(inbox) - 1 /\ Len(inbox) \in Nat \ {0}
      /\ Range(inbox) = {Head(inbox)} \cup Range(Tail(inbox))
  BY <1>1, HeadAndTail
<1>3. /\ inbox' = Tail(inbox) /\ UNCHANGED <<queue, link>>
      /\ dlq' = IF link = "up" THEN dlq \cup {Head(inbox)} ELSE dlq
  BY DEF BasicNack
<1>4. Len(Tail(inbox)) <= Prefetch
  BY <1>2 DEF BrokerInv, BrokerTypeOK
<1>5. QED
  BY <1>2, <1>3, <1>4 DEF BrokerInv, BrokerTypeOK, Requeued, AtBroker

LEMMA DisconnectIs ==
    ASSUME BrokerInv, Disconnect
    PROVE  BrokerInv' /\ AtBroker \subseteq AtBroker' /\ inbox' = <<>> /\ link' = "down"
<1> DEFINE q == IF link = "up" THEN inbox \o queue ELSE queue
<1>1. /\ inbox \in Seq(Message) /\ queue \in Seq(Message) /\ dlq \subseteq Message
      /\ inbox \o queue \in Seq(Message)
      /\ Range(inbox \o queue) = Range(inbox) \cup Range(queue)
  BY RangeOfBoth DEF BrokerInv, BrokerTypeOK
<1>2. QueueBecomes(q) /\ link' = "down" /\ inbox' = <<>>
  BY DEF Disconnect
<1>3. q \in Seq(Message) /\ Range(q) \cup dlq = AtBroker
  BY <1>1 DEF BrokerInv, Requeued, AtBroker
<1>4. /\ queue' \in Seq(Message) /\ Len(queue') <= MaxQueue
      /\ dlq \subseteq dlq' /\ dlq' \subseteq Message
      /\ Range(queue') \cup dlq' = Range(q) \cup dlq
  BY <1>1, <1>2, <1>3, QueueBecomesIs
<1>5. inbox' \in Seq(Message) /\ Len(inbox') = 0 /\ Range(inbox') = {}
  BY <1>2, EmptySeq DEF Range
<1>6. QED
  BY <1>2, <1>3, <1>4, <1>5 DEF BrokerInv, BrokerTypeOK, Requeued, AtBroker

LEMMA ConnectIs ==
    ASSUME BrokerInv, Connect
    PROVE  BrokerInv' /\ AtBroker' = AtBroker /\ UNCHANGED inbox
BY DEF Connect, BrokerInv, BrokerTypeOK, Requeued, AtBroker

----------------------------------------------------------------------------
\* The buffer.

BufferInv == TypeOK /\ OneFlushAtATime /\ TransactionInv /\ NothingLost

\* Nothing of the buffer is left in a process that is down.
Gone ==
    /\ buffer = <<>> /\ ~flushing /\ accepted = <<>> /\ txn = {} /\ conn = "closed"
    /\ \A t \in Threads : pc[t] = "idle" /\ batch[t] = <<>>

LEMMA InMemoryIs ==
    \A m : m \in InMemory <=> m \in Range(buffer) \/ \E t \in Threads : m \in Range(batch[t])
BY DEF InMemory

LEMMA EmptyIs == Range(<<>>) = {}
BY DEF Range

LEMMA BufferInvStep == BufferInv /\ [Next]_vars => BufferInv'
BY TypeStep, FlagStep, TransactionStep, NothingLostStep DEF BufferInv, TransactionInv

LEMMA AddIs ==
    ASSUME BufferInv, NEW m \in Message, Add(m)
    PROVE  InMemory' = InMemory \cup {m} /\ UNCHANGED bronze
<1>1. /\ buffer' = Append(buffer, m) /\ UNCHANGED <<batch, bronze>> /\ buffer \in Seq(Message)
  BY DEF Add, repoVars, BufferInv, TypeOK
<1>2. Range(buffer') = Range(buffer) \cup {m}
  BY <1>1, RangeOfAppended
<1>3. QED
  BY <1>1, <1>2 DEF InMemory

\* Memory only shrinks when a commit takes what it loses.
LEMMA FlushKeeps ==
    ASSUME BufferInv, NEW t \in Threads, FlushStep(t)
    PROVE  /\ bronze \subseteq bronze' /\ InMemory' \subseteq InMemory
           /\ InMemory \subseteq InMemory' \cup bronze'
<1>1. /\ buffer \in Seq(Message) /\ batch \in [Threads -> Seq(Message)]
      /\ batch[t] \in Seq(Message) /\ Range(<<>>) = {}
  BY EmptyIs DEF BufferInv, TypeOK
<1>2. CASE FlushTake(t)
  <2>1. batch[t] = <<>>
    BY <1>2 DEF FlushTake, BufferInv, TransactionInv, BatchesAreInserts, InInsert
  <2>2. /\ batch' = [batch EXCEPT ![t] = buffer] /\ buffer' = <<>> /\ bronze' = bronze
    BY <1>2 DEF FlushTake, repoVars
  <2>3. batch'[t] = buffer /\ \A u \in Threads \ {t} : batch'[u] = batch[u]
    BY <1>1, <2>2
  <2>4. \A m : m \in InMemory' <=> m \in InMemory
    <3>1. \A m : m \in InMemory' <=>
             m \in Range(buffer') \/ \E u \in Threads : m \in Range(batch'[u])
      BY DEF InMemory
    <3>2. QED
      BY <1>1, <2>1, <2>2, <2>3, <3>1, InMemoryIs
  <2>5. QED
    BY <2>2, <2>4
<1>3. CASE InsertCommits(t)
  <2>1. txn = Range(batch[t])
    BY <1>3 DEF InsertCommits, Commit, BufferInv, TransactionInv, TransactionIsOneBatch
  <2>2. /\ batch' = [batch EXCEPT ![t] = <<>>] /\ buffer' = buffer
        /\ bronze' = bronze \cup Range(batch[t])
    BY <1>3, <2>1 DEF InsertCommits, Commit
  <2>3. batch'[t] = <<>> /\ \A u \in Threads \ {t} : batch'[u] = batch[u]
    BY <1>1, <2>2
  <2>4. \A m : m \in InMemory' <=>
             m \in Range(buffer') \/ \E u \in Threads : m \in Range(batch'[u])
    BY DEF InMemory
  <2>5. QED
    BY <1>1, <2>2, <2>3, <2>4, InMemoryIs
<1>4. CASE Restore(t)
  <2>1. /\ batch' = [batch EXCEPT ![t] = <<>>] /\ buffer' = batch[t] \o buffer
        /\ bronze' = bronze
    BY <1>4 DEF Restore, repoVars
  <2>2. Range(buffer') = Range(batch[t]) \cup Range(buffer)
    BY <1>1, <2>1, RangeOfBoth
  <2>3. batch'[t] = <<>> /\ \A u \in Threads \ {t} : batch'[u] = batch[u]
    BY <1>1, <2>1
  <2>4. \A m : m \in InMemory' <=>
             m \in Range(buffer') \/ \E u \in Threads : m \in Range(batch'[u])
    BY DEF InMemory
  <2>5. QED
    BY <1>1, <2>1, <2>2, <2>3, <2>4, InMemoryIs
<1>5. CASE InsertExecutes(t) \/ InsertRaises(t)
  <2>1. UNCHANGED <<buffer, batch>> /\ bronze \subseteq bronze'
    BY <1>5 DEF InsertExecutes, ExecuteValues, InsertRaises, ExecuteRaises, CommitRaises, repoVars
  <2>2. QED
    BY <2>1 DEF InMemory
<1>6. CASE FlushSkip(t) \/ Clear(t) \/ ResetTimer(t)
  <2>1. UNCHANGED <<buffer, batch, bronze>>
    BY <1>6 DEF FlushSkip, Clear, ResetTimer, repoVars
  <2>2. QED
    BY <2>1 DEF InMemory
<1>7. QED
  BY <1>2, <1>3, <1>4, <1>5, <1>6 DEF FlushStep

\* The process dies: its memory is gone, committed rows are not.
LEMMA MemoryLostIs ==
    ASSUME TypeOK, MemoryLost
    PROVE  BufferInv' /\ Gone' /\ InMemory' = {} /\ bronze \subseteq bronze'
<1>1. Gone'
  BY DEF MemoryLost, Gone
<1>2. TypeOK'
  <2>1. pc' \in [Threads -> PcState]
    BY DEF MemoryLost, PcState
  <2>2. batch' \in [Threads -> Seq(Message)]
    BY EmptySeq DEF MemoryLost
  <2>3. RepoTypeOK'
    BY DEF MemoryLost, TypeOK, RepoTypeOK, ConnState
  <2>4. /\ buffer' \in Seq(Message) /\ accepted' \in Seq(Message)
        /\ timer' \in Timers \cup {NoTimer} /\ phase' \in {"running", "draining", "stopped"}
    BY EmptySeq DEF MemoryLost
  <2>5. isOverloaded' \in BOOLEAN /\ flushing' \in BOOLEAN
    BY DEF MemoryLost
  <2>6. QED
    BY <2>1, <2>2, <2>3, <2>4, <2>5 DEF TypeOK
<1>3. OneFlushAtATime' /\ TransactionInv'
  BY <1>1 DEF Gone, InFlush, OneFlushAtATime, TransactionInv, TransactionIsOneBatch,
              BatchesAreInserts
<1>4. NothingLost'
  <2>1. \A t \in Threads : Unsettled(t)' = <<>>
    BY <1>1 DEF Gone, Unsettled
  <2>2. QED
    BY <1>1, <2>1 DEF Gone, NothingLost, EndsWith
<1>5. InMemory' = {}
  BY <1>1, EmptyIs DEF Gone, InMemory
<1>6. QED
  BY <1>1, <1>2, <1>3, <1>4, <1>5 DEF BufferInv, MemoryLost

LEMMA CloseDbIs ==
    ASSUME BufferInv, DbClose, UNCHANGED bufferVars
    PROVE  BufferInv' /\ UNCHANGED <<bronze, InMemory>>
<1>1. /\ conn' = "closed" /\ txn' = {} /\ UNCHANGED <<bronze, dbFaults>>
      /\ UNCHANGED <<buffer, isOverloaded, flushing, timer, pc, batch, phase, accepted>>
  BY DEF DbClose, bufferVars, localVars
<1>2. TypeOK'
  BY <1>1 DEF BufferInv, TypeOK, RepoTypeOK, ConnState
<1>3. OneFlushAtATime'
  BY <1>1 DEF BufferInv, OneFlushAtATime
<1>4. TransactionInv'
  BY <1>1 DEF BufferInv, TransactionInv, TransactionIsOneBatch, BatchesAreInserts
<1>5. NothingLost'
  BY <1>1 DEF BufferInv, NothingLost, Unsettled
<1>6. QED
  BY <1>1, <1>2, <1>3, <1>4, <1>5 DEF BufferInv, InMemory

LEMMA RestartIs ==
    ASSUME BufferInv, Gone, DbConnect, NewBuffer
    PROVE  BufferInv' /\ UNCHANGED <<bronze, InMemory>>
<1>1. /\ conn' = "idle" /\ txn' = {} /\ UNCHANGED <<bronze, dbFaults>>
      /\ UNCHANGED <<buffer, isOverloaded, flushing, batch, accepted>>
      /\ phase' = "running" /\ timer' \in Timers
  BY DEF DbConnect, NewBuffer
<1>2. PICK u \in Timers : pc' = [pc EXCEPT ![u] = "waiting"]
  BY DEF NewBuffer
<1>3. \A t \in Threads : pc'[t] \in {"idle", "waiting"} /\ batch[t] = <<>>
  BY <1>2 DEF Gone, BufferInv, TypeOK
<1>4. TypeOK'
  BY <1>1, <1>2 DEF BufferInv, TypeOK, RepoTypeOK, ConnState, Threads, PcState
<1>5. OneFlushAtATime' /\ TransactionInv'
  BY <1>1, <1>3 DEF Gone, InFlush, OneFlushAtATime, TransactionInv, TransactionIsOneBatch,
                    BatchesAreInserts
<1>6. NothingLost'
  BY <1>1 DEF BufferInv, NothingLost, Unsettled
<1>7. QED
  BY <1>1, <1>4, <1>5, <1>6 DEF BufferInv, InMemory

----------------------------------------------------------------------------
\* The process.

ProcessTypeOK ==
    /\ proc \in {"up", "closing", "exiting", "down"}
    /\ handling \in {"none", "ack", "nack"}
    /\ stopRequested \in BOOLEAN
    /\ acked \subseteq Message
    /\ publishes \in 0..MaxPublishes
    /\ crashes \in 0..MaxCrashes
    /\ linkLosses \in 0..MaxLinkLosses

\* on_message is at the head of inbox, and when it comes to acknowledge it,
\* the message is in the buffer or went on from there.
Owes ==
    /\ phase # "running" => handling = "none"
    /\ handling # "none" => inbox # <<>>
    /\ handling = "ack" => Head(inbox) \in InMemory \cup bronze

\* What is in memory and was not acknowledged, the broker still has.
Backed == InMemory \subseteq acked \cup AtBroker

ConsumerInv ==
    /\ BufferInv /\ BrokerInv /\ ProcessTypeOK
    /\ proc = "down" => Gone
    /\ Owes /\ Backed

\* No message disappears, unless with the memory of the process.
Kept == \A m \in Held \ Held' : m \in acked /\ m \in InMemory /\ proc' = "down"

\* A step that leaves the buffer alone.
LEMMA BufferUnchanged ==
    ASSUME ConsumerInv, UNCHANGED vars
    PROVE  BufferInv' /\ UNCHANGED <<InMemory, bronze, phase, Gone>>
<1>1. BufferInv'
  BY BufferInvStep DEF ConsumerInv
<1>2. UNCHANGED <<buffer, batch, bronze, phase, pc, flushing, accepted, txn, conn>>
  BY DEF vars, bufferVars, localVars, repoVars
<1>3. QED
  BY <1>1, <1>2 DEF InMemory, Gone

\* A step of the broker's.
LEMMA BrokerStepIs ==
    ASSUME ConsumerInv, UNCHANGED <<vars, proc, handling, acked>>, ProcessTypeOK',
           BrokerInv', AtBroker \subseteq AtBroker',
           inbox # <<>> => inbox' # <<>> /\ Head(inbox') = Head(inbox)
    PROVE  ConsumerInv' /\ Kept
<1>1. BufferInv' /\ UNCHANGED <<InMemory, bronze, phase, Gone>>
  BY BufferUnchanged
<1>2. Owes'
  BY <1>1 DEF ConsumerInv, Owes
<1>3. Backed'
  BY <1>1 DEF ConsumerInv, Backed
<1>4. Held \subseteq Held'
  BY <1>1 DEF Held, AtBroker
<1>5. QED
  BY <1>1, <1>2, <1>3, <1>4 DEF ConsumerInv, Kept

LEMMA BrokerSteps ==
    ASSUME ConsumerInv,
           (\E m \in Message : Publish(m)) \/ MessageExpires \/ MessageDelivered \/ LinkLost
    PROVE  ConsumerInv' /\ Kept
<1>1. BrokerInv /\ ProcessTypeOK
  BY DEF ConsumerInv
<1>2. CASE \E m \in Message : Publish(m)
  <2>1. PICK m \in Message : Publish(m)
    BY <1>2
  <2>2. BrokerInv' /\ AtBroker \subseteq AtBroker' /\ UNCHANGED inbox
    BY <1>1, <2>1, EnqueueIs DEF Publish
  <2>3. UNCHANGED <<vars, proc, handling, acked>> /\ ProcessTypeOK'
    BY <1>1, <2>1 DEF Publish, ProcessTypeOK
  <2>4. QED
    BY <2>2, <2>3, BrokerStepIs
<1>3. CASE MessageExpires
  <2>1. BrokerInv' /\ AtBroker \subseteq AtBroker' /\ UNCHANGED inbox
    BY <1>1, <1>3, ExpireIs DEF MessageExpires
  <2>2. UNCHANGED <<vars, proc, handling, acked>> /\ ProcessTypeOK'
    BY <1>1, <1>3 DEF MessageExpires, ProcessTypeOK, consumerVars
  <2>3. QED
    BY <2>1, <2>2, BrokerStepIs
<1>4. CASE MessageDelivered
  <2>1. /\ BrokerInv' /\ AtBroker \subseteq AtBroker'
        /\ inbox # <<>> => inbox' # <<>> /\ Head(inbox') = Head(inbox)
    BY <1>1, <1>4, DeliverIs DEF MessageDelivered
  <2>2. UNCHANGED <<vars, proc, handling, acked>> /\ ProcessTypeOK'
    BY <1>1, <1>4 DEF MessageDelivered, ProcessTypeOK, consumerVars
  <2>3. QED
    BY <2>1, <2>2, BrokerStepIs
<1>5. CASE LinkLost
  <2>1. BrokerInv' /\ AtBroker \subseteq AtBroker' /\ UNCHANGED inbox
    BY <1>1, <1>5, LoseLinkIs DEF LinkLost
  <2>2. UNCHANGED <<vars, proc, handling, acked>> /\ ProcessTypeOK'
    BY <1>1, <1>5 DEF LinkLost, ProcessTypeOK
  <2>3. QED
    BY <2>1, <2>2, BrokerStepIs
<1>6. QED
  BY <1>2, <1>3, <1>4, <1>5

\* The broker sees nothing of it.
LEMMA BrokerUnchanged ==
    ASSUME BrokerInv, UNCHANGED brokerVars
    PROVE  BrokerInv' /\ UNCHANGED <<AtBroker, inbox>>
BY DEF brokerVars, BrokerInv, BrokerTypeOK, Requeued, AtBroker

\* A flush, or a timer that fires, anywhere in the process.
LEMMA ThreadSteps ==
    ASSUME ConsumerInv,
           \/ \E t \in Threads : ThreadStep(t)
           \/ \E t \in Timers : TimerStep(t)
           \/ StopBuffer
    PROVE  ConsumerInv' /\ Kept
<1>1. UNCHANGED <<brokerVars, proc, handling, stopRequested, acked, publishes, crashes, linkLosses>>
  BY DEF ThreadStep, TimerStep, StopBuffer, consumerVars
<1>2. BufferInv' /\ BrokerInv' /\ UNCHANGED <<AtBroker, inbox>> /\ ProcessTypeOK'
  <2>1. [Next]_vars
    BY DEF ThreadStep, TimerStep, StopBuffer, Next
  <2>2. BufferInv'
    BY <2>1, BufferInvStep DEF ConsumerInv
  <2>3. BrokerInv' /\ UNCHANGED <<AtBroker, inbox>>
    BY <1>1, BrokerUnchanged DEF ConsumerInv
  <2>4. QED
    BY <1>1, <2>2, <2>3 DEF ConsumerInv, ProcessTypeOK
<1>3. /\ bronze \subseteq bronze' /\ InMemory' \subseteq InMemory
      /\ InMemory \subseteq InMemory' \cup bronze'
      /\ phase' = phase \/ phase # "running"
  <2>1. CASE \E t \in Threads : ThreadStep(t)
    <3>1. PICK t \in Threads : FlushStep(t)
      BY <2>1 DEF ThreadStep
    <3>2. phase' = phase
      BY <3>1 DEF FlushStep, FlushSkip, FlushTake, InsertExecutes, InsertCommits,
                  InsertRaises, Restore, Clear, ResetTimer
    <3>3. QED
      BY <3>1, <3>2, FlushKeeps DEF ConsumerInv
  <2>2. CASE (\E t \in Timers : TimerStep(t)) \/ StopBuffer
    <3>1. UNCHANGED <<buffer, batch, bronze>> /\ (phase' = phase \/ phase # "running")
      BY <2>2 DEF TimerStep, TimerFires, StopBuffer, Stop, repoVars
    <3>2. QED
      BY <3>1 DEF InMemory
  <2>3. QED
    BY <2>1, <2>2
<1>4. proc # "down"
  <2>1. CASE StopBuffer
    BY <2>1 DEF StopBuffer
  <2>2. ASSUME ~StopBuffer, Gone PROVE FALSE
    <3>1. \A t \in Threads : pc[t] = "idle"
      BY <2>2 DEF Gone
    <3>2. QED
      BY <2>2, <3>1
         DEF ThreadStep, TimerStep, TimerFires, FlushStep, FlushSkip, FlushTake,
             InsertExecutes, InsertCommits, InsertRaises, Restore, Clear, ResetTimer, Threads
  <2>3. QED
    BY <2>1, <2>2 DEF ConsumerInv
<1>5. Owes'
  BY <1>1, <1>2, <1>3 DEF ConsumerInv, Owes
<1>6. Backed'
  BY <1>1, <1>2, <1>3 DEF ConsumerInv, Backed
<1>7. Held \subseteq Held'
  BY <1>2, <1>3 DEF Held, AtBroker
<1>8. QED
  BY <1>1, <1>2, <1>4, <1>5, <1>6, <1>7 DEF ConsumerInv, Kept

LEMMA MainSteps ==
    ASSUME ConsumerInv, OnMessage \/ OnPoison \/ Ack \/ Nack \/ ConsumingRaises
    PROVE  ConsumerInv' /\ Kept
<1>1. /\ BufferInv /\ BrokerInv /\ ProcessTypeOK /\ Owes /\ Backed
      /\ proc = "up" /\ UNCHANGED <<proc, stopRequested, publishes, crashes, linkLosses>>
  BY DEF ConsumerInv, OnMessage, OnPoison, Ack, Nack, ConsumingRaises, Consuming
<1>2. inbox # <<>> => Head(inbox) \in Message /\ Head(inbox) \in AtBroker
  <2>1. inbox \in Seq(Message)
    BY <1>1 DEF BrokerInv, BrokerTypeOK
  <2>2. QED
    BY <2>1, HeadAndTail DEF AtBroker
<1>3. CASE OnMessage
  <2>1. /\ Add(Head(inbox)) /\ inbox # <<>> /\ handling' = "ack"
        /\ UNCHANGED <<brokerVars, acked>>
    BY <1>3 DEF OnMessage
  <2>2. PICK m \in Message : m = Head(inbox)
    BY <1>2, <2>1
  <2>3. BufferInv' /\ InMemory' = InMemory \cup {m} /\ UNCHANGED bronze
    <3>1. [Next]_vars
      BY <2>1, <2>2 DEF Next
    <3>2. QED
      BY <1>1, <2>1, <2>2, <3>1, BufferInvStep, AddIs
  <2>4. BrokerInv' /\ UNCHANGED <<AtBroker, inbox>>
    BY <1>1, <2>1, BrokerUnchanged
  <2>5. ProcessTypeOK'
    BY <1>1, <2>1 DEF ProcessTypeOK
  <2>6. phase' = "running"
    BY <2>1 DEF Add
  <2>7. Owes'
    BY <2>1, <2>2, <2>3, <2>4, <2>6 DEF Owes
  <2>8. Backed'
    BY <1>1, <1>2, <2>1, <2>2, <2>3, <2>4 DEF Backed
  <2>9. Held \subseteq Held'
    BY <2>3, <2>4 DEF Held, AtBroker
  <2>10. QED
    BY <1>1, <2>3, <2>4, <2>5, <2>7, <2>8, <2>9 DEF ConsumerInv, Kept
<1>4. CASE OnPoison
  <2>1. BufferInv' /\ UNCHANGED <<InMemory, bronze, phase>>
    BY <1>4, BufferUnchanged DEF OnPoison
  <2>2. BrokerInv' /\ UNCHANGED <<AtBroker, inbox>>
    BY <1>1, <1>4, BrokerUnchanged DEF OnPoison
  <2>3. /\ inbox # <<>> /\ handling' = "nack" /\ phase = "running" /\ acked' = acked
    BY <1>4 DEF OnPoison, Consuming
  <2>4. ProcessTypeOK' /\ Owes' /\ Backed'
    BY <1>1, <2>1, <2>2, <2>3 DEF ProcessTypeOK, Owes, Backed
  <2>5. Held \subseteq Held'
    BY <2>1, <2>2 DEF Held, AtBroker
  <2>6. QED
    BY <1>1, <2>1, <2>2, <2>4, <2>5 DEF ConsumerInv, Kept
<1>5. CASE Ack
  <2>1. BufferInv' /\ UNCHANGED <<InMemory, bronze, phase>>
    BY <1>5, BufferUnchanged DEF Ack
  <2>2. /\ handling = "ack" /\ handling' = "none" /\ inbox # <<>> /\ BasicAck
        /\ acked' = acked \cup {Head(inbox)} /\ Head(inbox) \in InMemory \cup bronze
    BY <1>1, <1>5 DEF Ack, Owes
  <2>3. BrokerInv' /\ AtBroker \subseteq AtBroker' \cup {Head(inbox)}
    BY <1>1, <2>2, BasicAckIs
  <2>4. ProcessTypeOK' /\ Owes'
    BY <1>1, <1>2, <2>2 DEF ProcessTypeOK, Owes
  <2>5. Backed'
    BY <1>1, <2>1, <2>2, <2>3 DEF Backed
  <2>6. Held \subseteq Held'
    BY <2>1, <2>2, <2>3 DEF Held, AtBroker
  <2>7. QED
    BY <1>1, <2>1, <2>3, <2>4, <2>5, <2>6 DEF ConsumerInv, Kept
<1>6. CASE Nack
  <2>1. BufferInv' /\ UNCHANGED <<InMemory, bronze, phase>>
    BY <1>6, BufferUnchanged DEF Nack
  <2>2. /\ handling = "nack" /\ handling' = "none" /\ inbox # <<>> /\ BasicNack
        /\ acked' = acked
    BY <1>1, <1>6 DEF Nack, Owes
  <2>3. BrokerInv' /\ AtBroker \subseteq AtBroker'
    BY <1>1, <2>2, BasicNackIs
  <2>4. ProcessTypeOK' /\ Owes' /\ Backed'
    BY <1>1, <2>1, <2>2, <2>3 DEF ProcessTypeOK, Owes, Backed
  <2>5. Held \subseteq Held'
    BY <2>1, <2>3 DEF Held, AtBroker
  <2>6. QED
    BY <1>1, <2>1, <2>3, <2>4, <2>5 DEF ConsumerInv, Kept
<1>7. CASE ConsumingRaises
  <2>1. /\ FinalFlush /\ handling' = "none" /\ UNCHANGED <<brokerVars, acked>>
    BY <1>7 DEF ConsumingRaises
  <2>2. BufferInv'
    <3>1. [Next]_vars
      BY <2>1 DEF Next
    <3>2. QED
      BY <1>1, <3>1, BufferInvStep
  <2>3. UNCHANGED <<InMemory, bronze>>
    BY <2>1 DEF FinalFlush, repoVars, InMemory
  <2>4. BrokerInv' /\ UNCHANGED <<AtBroker, inbox>>
    BY <1>1, <2>1, BrokerUnchanged
  <2>5. ProcessTypeOK' /\ Owes' /\ Backed'
    BY <1>1, <2>1, <2>3, <2>4 DEF ProcessTypeOK, Owes, Backed
  <2>6. Held \subseteq Held'
    BY <2>3, <2>4 DEF Held, AtBroker
  <2>7. QED
    BY <1>1, <2>2, <2>4, <2>5, <2>6 DEF ConsumerInv, Kept
<1>8. QED
  BY <1>3, <1>4, <1>5, <1>6, <1>7

LEMMA DiesIs ==
    ASSUME ConsumerInv, Dies, UNCHANGED <<stopRequested, acked, publishes, linkLosses>>,
           crashes' \in 0..MaxCrashes
    PROVE  ConsumerInv' /\ Kept
<1>1. BufferInv' /\ Gone' /\ InMemory' = {} /\ bronze \subseteq bronze'
  BY MemoryLostIs DEF ConsumerInv, BufferInv, Dies
<1>2. BrokerInv' /\ AtBroker \subseteq AtBroker'
  BY DisconnectIs DEF ConsumerInv, Dies
<1>3. proc' = "down" /\ handling' = "none"
  BY DEF Dies
<1>4. ProcessTypeOK' /\ Owes' /\ Backed'
  BY <1>1, <1>3 DEF ConsumerInv, ProcessTypeOK, Owes, Backed
<1>5. ASSUME NEW m \in Held \ Held' PROVE m \in acked /\ m \in InMemory
  <2>1. m \notin AtBroker /\ m \notin bronze
    BY <1>1, <1>2 DEF Held, AtBroker
  <2>2. m \in InMemory
    BY <2>1 DEF Held, AtBroker
  <2>3. QED
    BY <2>1, <2>2 DEF ConsumerInv, Backed
<1>6. QED
  BY <1>1, <1>2, <1>3, <1>4, <1>5 DEF ConsumerInv, Kept

LEMMA LifeSteps ==
    ASSUME ConsumerInv,
           CloseConsumer \/ CloseDb \/ Exit \/ Crash \/ Sigterm \/ GraceOver \/ Restart
    PROVE  ConsumerInv' /\ Kept
<1>1. BufferInv /\ BrokerInv /\ ProcessTypeOK /\ Owes /\ Backed
  BY DEF ConsumerInv
<1>2. CASE CloseConsumer
  <2>1. BufferInv' /\ UNCHANGED <<InMemory, bronze, phase>>
    BY <1>2, BufferUnchanged DEF CloseConsumer
  <2>2. /\ proc' = "closing" /\ phase = "stopped" /\ Disconnect
        /\ UNCHANGED <<handling, stopRequested, acked, publishes, crashes, linkLosses>>
    BY <1>2 DEF CloseConsumer
  <2>3. BrokerInv' /\ AtBroker \subseteq AtBroker'
    BY <1>1, <2>2, DisconnectIs
  <2>4. ProcessTypeOK' /\ Owes' /\ Backed'
    BY <1>1, <2>1, <2>2, <2>3 DEF ProcessTypeOK, Owes, Backed
  <2>5. Held \subseteq Held'
    BY <2>1, <2>3 DEF Held, AtBroker
  <2>6. QED
    BY <2>1, <2>2, <2>3, <2>4, <2>5 DEF ConsumerInv, Kept
<1>3. CASE CloseDb
  <2>1. BufferInv' /\ UNCHANGED <<bronze, InMemory, phase>>
    BY <1>1, <1>3, CloseDbIs DEF CloseDb, bufferVars
  <2>2. /\ proc' = "exiting"
        /\ UNCHANGED <<brokerVars, handling, stopRequested, acked, publishes, crashes, linkLosses>>
    BY <1>3 DEF CloseDb
  <2>3. BrokerInv' /\ UNCHANGED <<AtBroker, inbox>>
    BY <1>1, <2>2, BrokerUnchanged
  <2>4. ProcessTypeOK' /\ Owes' /\ Backed'
    BY <1>1, <2>1, <2>2, <2>3 DEF ProcessTypeOK, Owes, Backed
  <2>5. Held \subseteq Held'
    BY <2>1, <2>3 DEF Held, AtBroker
  <2>6. QED
    BY <2>1, <2>2, <2>3, <2>4, <2>5 DEF ConsumerInv, Kept
<1>4. CASE Exit \/ Crash \/ GraceOver
  <2>1. /\ Dies /\ UNCHANGED <<stopRequested, acked, publishes, linkLosses>>
        /\ crashes' \in 0..MaxCrashes
    BY <1>1, <1>4 DEF Exit, Crash, GraceOver, ProcessTypeOK
  <2>2. QED
    BY <2>1, DiesIs
<1>5. CASE Sigterm
  <2>1. BufferInv' /\ UNCHANGED <<InMemory, bronze, phase, Gone>>
    BY <1>5, BufferUnchanged DEF Sigterm
  <2>2. /\ stopRequested' = TRUE
        /\ UNCHANGED <<brokerVars, proc, handling, acked, publishes, crashes, linkLosses>>
    BY <1>5 DEF Sigterm
  <2>3. BrokerInv' /\ UNCHANGED <<AtBroker, inbox>>
    BY <1>1, <2>2, BrokerUnchanged
  <2>4. ProcessTypeOK' /\ Owes' /\ Backed'
    BY <1>1, <2>1, <2>2, <2>3 DEF ProcessTypeOK, Owes, Backed
  <2>5. Held \subseteq Held'
    BY <2>1, <2>3 DEF Held, AtBroker
  <2>6. QED
    BY <2>1, <2>2, <2>3, <2>4, <2>5 DEF ConsumerInv, Kept
<1>6. CASE Restart
  <2>1. Gone
    BY <1>6 DEF Restart, ConsumerInv
  <2>2. BufferInv' /\ UNCHANGED <<bronze, InMemory>> /\ phase' = "running"
    BY <1>1, <1>6, <2>1, RestartIs DEF Restart, NewBuffer
  <2>3. /\ proc' = "up"
        /\ UNCHANGED <<handling, stopRequested, acked, publishes, crashes, linkLosses>>
    BY <1>6 DEF Restart
  <2>4. BrokerInv' /\ AtBroker' = AtBroker /\ UNCHANGED inbox
    BY <1>1, <1>6, ConnectIs DEF Restart
  <2>5. ProcessTypeOK' /\ Owes' /\ Backed'
    BY <1>1, <2>2, <2>3, <2>4 DEF ProcessTypeOK, Owes, Backed
  <2>6. Held \subseteq Held'
    BY <2>2, <2>4 DEF Held, AtBroker
  <2>7. QED
    BY <2>2, <2>3, <2>4, <2>5, <2>6 DEF ConsumerInv, Kept
<1>7. QED
  BY <1>2, <1>3, <1>4, <1>5, <1>6

LEMMA ConsumerInvInit == ConsumerInit => ConsumerInv
<1> SUFFICES ASSUME ConsumerInit
             PROVE  ConsumerInv
  OBVIOUS
<1>1. Init /\ BrokerInit /\ proc = "up" /\ handling = "none"
  BY DEF ConsumerInit
<1>2. BufferInv
  BY <1>1, InitType, InitFlag, InitTransaction, InitNothingLost DEF BufferInv
<1>3. BrokerInv
  <2>1. queue \in Seq(Message) /\ Len(queue) = 0 /\ inbox \in Seq(Message) /\ Len(inbox) = 0
    BY <1>1, EmptySeq DEF BrokerInit
  <2>2. QED
    BY <1>1, <2>1 DEF BrokerInit, BrokerInv, BrokerTypeOK, Requeued
<1>4. ProcessTypeOK /\ Owes
  <2>1. ProcessTypeOK
    <3>1. MaxPublishes \in Nat /\ MaxCrashes \in Nat /\ MaxLinkLosses \in Nat
      BY DEF ConsumerAssumption
    <3>2. publishes \in 0..MaxPublishes /\ crashes \in 0..MaxCrashes
          /\ linkLosses \in 0..MaxLinkLosses
      BY <3>1 DEF ConsumerInit
    <3>3. stopRequested \in BOOLEAN /\ acked \subseteq Message
      BY DEF ConsumerInit
    <3>4. QED
      BY <1>1, <3>2, <3>3 DEF ProcessTypeOK
  <2>2. Owes
    BY <1>1 DEF Init, BufferInit, Owes
  <2>3. QED
    BY <2>1, <2>2
<1>5. InMemory = {}
  BY <1>1, EmptyIs DEF Init, BufferInit, InMemory
<1>6. QED
  BY <1>1, <1>2, <1>3, <1>4, <1>5 DEF ConsumerInv, Backed

LEMMA ConsumerInvStep == ConsumerInv /\ [ConsumerNext]_allVars => ConsumerInv' /\ [Kept]_allVars
<1> SUFFICES ASSUME ConsumerInv, [ConsumerNext]_allVars
             PROVE  ConsumerInv' /\ [Kept]_allVars
  OBVIOUS
<1>1. CASE UNCHANGED allVars
  <2>1. UNCHANGED <<vars, brokerVars, proc, handling, stopRequested, acked, publishes, crashes,
                    linkLosses>>
    BY <1>1 DEF allVars, consumerVars
  <2>2. BufferInv' /\ UNCHANGED <<InMemory, bronze, phase, Gone>>
    BY <2>1, BufferUnchanged
  <2>3. BrokerInv' /\ UNCHANGED <<AtBroker, inbox>>
    BY <2>1, BrokerUnchanged DEF ConsumerInv
  <2>4. ProcessTypeOK' /\ Owes' /\ Backed'
    BY <2>1, <2>2, <2>3 DEF ConsumerInv, ProcessTypeOK, Owes, Backed
  <2>5. QED
    BY <1>1, <2>1, <2>2, <2>3, <2>4 DEF ConsumerInv
<1>2. QED
  BY <1>1, BrokerSteps, ThreadSteps, MainSteps, LifeSteps DEF ConsumerNext, MainStep

LEMMA ConsumerInvHolds == ConsumerSpec => []ConsumerInv
BY ConsumerInvInit, ConsumerInvStep, PTL DEF ConsumerSpec

\* The consumer, the buffer it owns and the queue it reads keep their types
\* through crashes, restarts and lost links; the queue stays within
\* x-max-length and the unacknowledged deliveries within the prefetch window.
THEOREM ConsumerTypeCorrect == ConsumerSpec => []ConsumerTypeOK
<1>1. ConsumerInv => ConsumerTypeOK
  BY DEF ConsumerInv, BufferInv, BrokerInv, BrokerTypeOK, ProcessTypeOK, ConsumerTypeOK
<1>2. QED
  BY <1>1, ConsumerInvHolds, PTL

\* What BatchBufferProofs shows of the buffer and its transactions holds of the
\* buffer in the process as well, across its deaths.
THEOREM BufferInProcess == ConsumerSpec => [](TransactionIsOneBatch /\ NothingLost)
<1>1. ConsumerInv => TransactionIsOneBatch /\ NothingLost
  BY DEF ConsumerInv, BufferInv, TransactionInv
<1>2. QED
  BY <1>1, ConsumerInvHolds, PTL

\* A message leaves the system in one way only: the process dies and has it in
\* memory and had acknowledged it; for every number of crashes, lost links and
\* failures of the database, and every size of the queue and of a batch.
THEOREM UnackedIsKept == ConsumerSpec => UnackedIsNeverLost
<1>1. [Kept]_allVars =>
        [\A m \in Held \ Held' : m \in acked /\ m \in InMemory /\ proc' = "down"]_allVars
  BY DEF Kept
<1>2. QED
  BY <1>1, ConsumerInvHolds, ConsumerInvStep, PTL DEF ConsumerSpec, UnackedIsNeverLost

----------------------------------------------------------------------------
\* One life after the other.

\* What on_message is about to acknowledge was accepted by the buffer of this
\* process.
HandledIsAccepted ==
    handling = "ack" => \E i \in 1..Len(accepted) : accepted[i] = Head(inbox)

\* The steps of the process that neither take nor keep a message.
Aside == UNCHANGED <<accepted, bronze, acked>>

LEMMA StoreNothing == Len(accepted) \in Nat => 0 \in 0..Len(accepted) /\ Mortal!First(0) = {}
BY DEF Mortal!First

\* A commit that takes effect stores the first messages this life accepted.
LEMMA CommitStores ==
    ASSUME BufferInv, NEW t \in Threads, pc[t] = "commit",
           bronze' \in {bronze, bronze \cup txn}
    PROVE  Mortal!StoreMore
<1>1. Len(accepted) \in Nat
  BY LenProperties DEF BufferInv, TypeOK
<1>2. CASE bronze' = bronze
  BY <1>1, <1>2, StoreNothing DEF Mortal!StoreMore
<1>3. CASE bronze' = bronze \cup Range(batch[t])
  <2> DEFINE k == Len(accepted) - Len(buffer)
  <2>1. /\ k \in 0..Len(accepted)
        /\ Range(batch[t]) \subseteq Sink!First(k)
        /\ Sink!First(k) \subseteq bronze \cup Range(batch[t])
    BY PendingIsPrefix DEF BufferInv, TransactionInv
  <2>2. Sink!First(k) = Mortal!First(k)
    BY DEF Sink!First, Mortal!First
  <2> HIDE DEF k
  <2>3. bronze' = bronze \cup Mortal!First(k)
    BY <1>3, <2>1, <2>2
  <2>4. QED
    BY <2>1, <2>3 DEF Mortal!StoreMore
<1>4. QED
  BY <1>2, <1>3 DEF BufferInv, TransactionInv, TransactionIsOneBatch

\* The rows of a transaction are those of the thread that is at its commit; so
\* with nobody there, a process that dies stores nothing.
LEMMA DeathStores ==
    ASSUME BufferInv, MemoryLost
    PROVE  Mortal!StoreMore
<1>1. bronze' \in {bronze, bronze \cup txn}
  BY DEF MemoryLost
<1>2. CASE txn = {}
  <2>1. bronze' = bronze /\ Len(accepted) \in Nat
    BY <1>1, <1>2, LenProperties DEF BufferInv, TypeOK
  <2>2. QED
    BY <2>1, StoreNothing DEF Mortal!StoreMore
<1>3. CASE txn # {}
  <2>1. PICK t \in Threads : pc[t] = "commit"
    BY <1>3 DEF BufferInv, TransactionInv, TransactionIsOneBatch
  <2>2. QED
    BY <1>1, <2>1, CommitStores
<1>4. QED
  BY <1>2, <1>3

LEMMA FlushIsSinkStep ==
    ASSUME BufferInv, NEW t \in Threads, FlushStep(t), UNCHANGED acked
    PROVE  UNCHANGED accepted /\ (Aside \/ Mortal!Keep)
<1>1. CASE InsertCommits(t) \/ (InsertRaises(t) /\ pc[t] = "commit")
  <2>1. /\ pc[t] = "commit" /\ UNCHANGED accepted
        /\ bronze' \in {bronze, bronze \cup txn}
    BY <1>1 DEF InsertCommits, InsertRaises, Commit, CommitRaises, repoVars
  <2>2. QED
    BY <2>1, CommitStores DEF Mortal!Keep
<1>2. CASE InsertRaises(t) /\ pc[t] # "commit"
  BY <1>2 DEF InsertRaises, ExecuteRaises, Aside
<1>3. CASE FlushSkip(t) \/ FlushTake(t) \/ InsertExecutes(t) \/ Restore(t) \/ Clear(t)
           \/ ResetTimer(t)
  BY <1>3 DEF FlushSkip, FlushTake, InsertExecutes, ExecuteValues, Restore, Clear,
              ResetTimer, repoVars, Aside
<1>4. QED
  BY <1>1, <1>2, <1>3 DEF FlushStep

LEMMA AsideIs == Aside => UNCHANGED Mortal!mortalVars
BY DEF Aside, Mortal!mortalVars, Mortal!vars

\* Every step of the consumer, seen from the sink.
LEMMA SinkStep ==
    ASSUME ConsumerInv, HandledIsAccepted, [ConsumerNext]_allVars
    PROVE  [Mortal!MortalNext]_(Mortal!mortalVars)
<1>1. BufferInv /\ BrokerInv /\ inbox \in Seq(Message)
  BY DEF ConsumerInv, BrokerInv, BrokerTypeOK
<1>2. inbox # <<>> => Head(inbox) \in Message
  BY <1>1, HeadAndTail
<1>3. CASE \/ \E m \in Message : Publish(m)
           \/ MessageExpires \/ MessageDelivered \/ LinkLost
           \/ OnPoison \/ Nack \/ ConsumingRaises \/ StopBuffer \/ CloseConsumer \/ CloseDb
           \/ \E t \in Timers : TimerStep(t)
           \/ Sigterm \/ Restart \/ UNCHANGED allVars
  <2>1. Aside
    BY <1>3
       DEF Aside, Publish, MessageExpires, MessageDelivered, LinkLost, OnPoison, Nack,
           ConsumingRaises, FinalFlush, StopBuffer, Stop, CloseConsumer, CloseDb, DbClose,
           TimerStep, TimerFires, Sigterm, Restart, DbConnect, NewBuffer, allVars, vars,
           bufferVars, repoVars, consumerVars
  <2>2. QED
    BY <2>1, AsideIs
<1>4. CASE OnMessage
  <2>1. PICK m \in Message : m = Head(inbox) /\ Add(m) /\ UNCHANGED acked
    BY <1>2, <1>4 DEF OnMessage
  <2>2. Mortal!Accept(m)
    BY <2>1 DEF Add, repoVars, Mortal!Accept
  <2>3. QED
    BY <2>1, <2>2 DEF Mortal!MortalNext
<1>5. CASE Ack
  <2>1. /\ handling = "ack" /\ inbox # <<>> /\ acked' = acked \cup {Head(inbox)}
        /\ UNCHANGED vars
    BY <1>5 DEF Ack, ConsumerInv, Owes
  <2>2. PICK m \in Message : m = Head(inbox)
    BY <1>2, <2>1
  <2>3. m \in Mortal!First(Len(accepted))
    BY <2>1, <2>2 DEF HandledIsAccepted, Mortal!First
  <2>4. UNCHANGED <<accepted, bronze>>
    BY <2>1 DEF vars, bufferVars, repoVars
  <2>5. Mortal!Acknowledge(m)
    BY <2>1, <2>2, <2>3, <2>4 DEF Mortal!Acknowledge, Mortal!vars
  <2>6. QED
    BY <2>5 DEF Mortal!MortalNext
<1>6. CASE \E t \in Threads : ThreadStep(t)
  <2>1. PICK t \in Threads : FlushStep(t) /\ UNCHANGED acked
    BY <1>6 DEF ThreadStep, consumerVars
  <2>2. QED
    BY <1>1, <2>1, FlushIsSinkStep, AsideIs DEF Mortal!MortalNext
<1>7. CASE Exit \/ Crash \/ GraceOver
  <2>1. MemoryLost /\ UNCHANGED acked
    BY <1>7 DEF Exit, Crash, GraceOver, Dies
  <2>2. Mortal!Die
    BY <1>1, <2>1, DeathStores DEF MemoryLost, Mortal!Die
  <2>3. QED
    BY <2>2 DEF Mortal!MortalNext
<1>8. QED
  BY <1>3, <1>4, <1>5, <1>6, <1>7 DEF ConsumerNext, MainStep

LEMMA HandledStays ==
    ASSUME ConsumerInv, HandledIsAccepted, [ConsumerNext]_allVars
    PROVE  HandledIsAccepted'
<1>1. BufferInv /\ BrokerInv /\ accepted \in Seq(Message) /\ Owes
  BY DEF ConsumerInv, BufferInv, TypeOK
<1>2. ASSUME UNCHANGED <<handling, accepted>>,
             handling # "none" => Head(inbox') = Head(inbox)
      PROVE  HandledIsAccepted'
  BY <1>2 DEF HandledIsAccepted
<1>3. CASE \/ \E m \in Message : Publish(m)
           \/ MessageExpires \/ LinkLost \/ Sigterm \/ StopBuffer \/ CloseDb \/ Restart
           \/ \E t \in Timers : TimerStep(t)
           \/ UNCHANGED allVars
  <2>1. UNCHANGED <<handling, accepted, inbox>>
    BY <1>3
       DEF Publish, Enqueue, MessageExpires, Expire, LinkLost, LoseLink, Sigterm, StopBuffer,
           Stop, CloseDb, Restart, NewBuffer, Connect, TimerStep, TimerFires, allVars, vars,
           bufferVars, brokerVars, consumerVars
  <2>2. QED
    BY <1>2, <2>1
<1>4. CASE MessageDelivered
  <2>1. UNCHANGED <<handling, accepted>>
    BY <1>4 DEF MessageDelivered, vars, bufferVars, consumerVars
  <2>2. handling # "none" => Head(inbox') = Head(inbox)
    BY <1>1, <1>4, DeliverIs DEF MessageDelivered, Owes
  <2>3. QED
    BY <1>2, <2>1, <2>2
<1>5. CASE OnMessage
  <2>1. /\ accepted' = Append(accepted, Head(inbox)) /\ UNCHANGED inbox
        /\ inbox # <<>>
    BY <1>5 DEF OnMessage, Add, brokerVars
  <2>2. Head(inbox) \in Message
    BY <1>1, <2>1, HeadAndTail DEF BrokerInv, BrokerTypeOK
  <2>3. /\ Len(accepted') = Len(accepted) + 1 /\ Len(accepted) \in Nat
        /\ accepted'[Len(accepted) + 1] = Head(inbox)
    BY <1>1, <2>1, <2>2, AppendProperties, LenProperties
  <2>4. QED
    BY <2>1, <2>3 DEF HandledIsAccepted
<1>6. CASE OnPoison \/ Ack \/ Nack \/ ConsumingRaises \/ Exit \/ Crash \/ GraceOver
  BY <1>6 DEF OnPoison, Ack, Nack, ConsumingRaises, Exit, Crash, GraceOver, Dies,
              HandledIsAccepted
<1>7. CASE CloseConsumer
  BY <1>1, <1>7 DEF CloseConsumer, Owes, HandledIsAccepted
<1>8. CASE \E t \in Threads : ThreadStep(t)
  <2>1. PICK t \in Threads : FlushStep(t) /\ UNCHANGED <<acked, handling, inbox>>
    BY <1>8 DEF ThreadStep, consumerVars, brokerVars
  <2>2. UNCHANGED accepted
    BY <1>1, <2>1, FlushIsSinkStep
  <2>3. QED
    BY <1>2, <2>1, <2>2
<1>9. QED
  BY <1>3, <1>4, <1>5, <1>6, <1>7, <1>8 DEF ConsumerNext, MainStep

\* The consumer process, through its deaths and restarts, implements the mortal
\* sink: what a death takes are the last messages that the life accepted.
THEOREM ConsumerIsMortalSink == ConsumerSpec => ImplementsMortalSink
<1>1. ConsumerInit => Mortal!MortalInit /\ HandledIsAccepted
  BY DEF ConsumerInit, Init, RepoInit, BufferInit, Mortal!MortalInit, Mortal!Init,
         HandledIsAccepted
<1>2. /\ ConsumerInv /\ HandledIsAccepted /\ [ConsumerNext]_allVars
      => [Mortal!MortalNext]_(Mortal!mortalVars) /\ HandledIsAccepted'
  BY SinkStep, HandledStays
<1>3. QED
  BY <1>1, <1>2, ConsumerInvHolds, PTL
     DEF ConsumerSpec, ImplementsMortalSink, Mortal!MortalSpec


----------------------------------------------------------------------------
\* The timers and the overload flag, from one process to the next.

TimersInv == ArmedTimerIsKnown /\ OverloadIsReal /\ FullIsAttended

\* What a death leaves, and what a new process begins with.
LEMMA NewLifeTimers ==
    ASSUME BufferInv,
           MemoryLost \/ (Gone /\ NewBuffer /\ ~isOverloaded)
    PROVE  TimersInv' /\ ~isOverloaded'
<1>1. CASE MemoryLost
  BY <1>1 DEF MemoryLost, TimersInv, ArmedTimerIsKnown, OverloadIsReal, FullIsAttended, Threads
<1>2. CASE Gone /\ NewBuffer /\ ~isOverloaded
  <2>1. PICK u \in Timers : timer' = u /\ pc' = [pc EXCEPT ![u] = "waiting"]
    BY <1>2 DEF NewBuffer
  <2>2. \A t \in Timers \ {u} : pc'[t] = "idle"
    BY <1>2, <2>1 DEF Gone, Threads, BufferInv, TypeOK
  <2>3. ~isOverloaded'
    BY <1>2 DEF NewBuffer
  <2>4. u \in Threads /\ pc'[u] = "waiting"
    BY <2>1 DEF Threads, BufferInv, TypeOK
  <2>5. QED
    BY <2>1, <2>2, <2>3, <2>4 DEF TimersInv, ArmedTimerIsKnown, OverloadIsReal, FullIsAttended
<1>3. QED
  BY <1>1, <1>2

\* Nothing overloads a buffer that is gone.
GoneIsQuiet == proc = "down" => ~isOverloaded

LEMMA TimersStay ==
    ASSUME ConsumerInv, TimersInv, GoneIsQuiet, [ConsumerNext]_allVars
    PROVE  TimersInv' /\ GoneIsQuiet'
<1>1. BufferInv /\ BrokerInv /\ inbox \in Seq(Message) /\ TypeOK
  BY DEF ConsumerInv, BrokerInv, BrokerTypeOK, BufferInv
<1>2. inbox # <<>> => Head(inbox) \in Message
  BY <1>1, HeadAndTail
<1>3. ASSUME [Next]_vars PROVE TimersInv'
  BY <1>1, <1>3, ArmedTimerStep, OverloadStep, FullStep DEF TimersInv, BufferInv
<1>4. CASE \/ \E m \in Message : Publish(m)
           \/ MessageExpires \/ MessageDelivered \/ LinkLost
           \/ OnPoison \/ Ack \/ Nack \/ CloseConsumer \/ Sigterm
           \/ UNCHANGED allVars
  <2>1. UNCHANGED vars
    BY <1>4 DEF Publish, MessageExpires, MessageDelivered, LinkLost, OnPoison, Ack, Nack,
                CloseConsumer, Sigterm, allVars
  <2>2. proc' = "down" => proc = "down"
    BY <1>4 DEF Publish, MessageExpires, MessageDelivered, LinkLost, OnPoison, Ack, Nack,
                CloseConsumer, Sigterm, allVars, consumerVars
  <2>3. QED
    BY <1>3, <2>1, <2>2 DEF GoneIsQuiet, vars, bufferVars
<1>5. CASE \/ OnMessage \/ ConsumingRaises \/ StopBuffer
  <2>1. [Next]_vars /\ proc' # "down"
    BY <1>2, <1>5 DEF OnMessage, ConsumingRaises, Consuming, StopBuffer, Next, consumerVars
  <2>2. QED
    BY <1>3, <2>1 DEF GoneIsQuiet
<1>6. CASE (\E t \in Timers : TimerStep(t)) \/ (\E t \in Threads : ThreadStep(t))
  <2>1. [Next]_vars /\ proc' = proc
    BY <1>6 DEF TimerStep, ThreadStep, Next, consumerVars
  <2>2. proc = "down" => isOverloaded' = isOverloaded
    BY <1>6 DEF ConsumerInv, Gone, Threads, TimerStep, TimerFires, ThreadStep, FlushStep,
                FlushSkip, FlushTake, InsertExecutes, InsertCommits, InsertRaises, Restore,
                Clear, ResetTimer
  <2>3. QED
    BY <1>3, <2>1, <2>2 DEF GoneIsQuiet
<1>7. CASE CloseDb
  BY <1>7 DEF CloseDb, bufferVars, localVars, TimersInv, ArmedTimerIsKnown, OverloadIsReal,
              FullIsAttended, GoneIsQuiet
<1>8. CASE Exit \/ Crash \/ GraceOver
  <2>1. MemoryLost
    BY <1>8 DEF Exit, Crash, GraceOver, Dies
  <2>2. QED
    BY <1>1, <2>1, NewLifeTimers DEF GoneIsQuiet
<1>9. CASE Restart
  BY <1>1, <1>9, NewLifeTimers DEF Restart, ConsumerInv, GoneIsQuiet
<1>10. QED
  BY <1>4, <1>5, <1>6, <1>7, <1>8, <1>9 DEF ConsumerNext, MainStep

\* Flushes exclude each other, no timer is forgotten, the overload flag is no
\* false alarm and no full buffer is left alone in the process too: no thread
\* or flag of a process that died reaches the next one, and the new timer is
\* the only one.
THEOREM TimersInProcess ==
    ConsumerSpec => [](OneFlushAtATime /\ ArmedTimerIsKnown /\ OverloadIsReal /\ FullIsAttended)
<1>1. ConsumerInit => TimersInv /\ GoneIsQuiet
  BY InitArmedTimer, InitOverload, InitFull DEF ConsumerInit, TimersInv, GoneIsQuiet
<1>2. ConsumerInv => OneFlushAtATime
  BY DEF ConsumerInv, BufferInv
<1>3. TimersInv => ArmedTimerIsKnown /\ OverloadIsReal /\ FullIsAttended
  BY DEF TimersInv
<1>4. QED
  BY <1>1, <1>2, <1>3, TimersStay, ConsumerInvHolds, PTL DEF ConsumerSpec
=============================================================================
