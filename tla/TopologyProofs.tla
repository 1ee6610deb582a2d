--------------------------- MODULE TopologyProofs ---------------------------
(***************************************************************************)
(* Proofs about Topology.tla, for every set of operators and trades, every *)
(* limit of the queue and every number of attempts.                        *)
(***************************************************************************)
EXTENDS Topology, PublisherProofs

USE PublisherAssumption, BrokerAssumption, TopologyAssumption

\* The inductive invariant: each run has declared its first count[o] steps, so
\* the binding of the queue, which is the last, has the one of the dead-letter
\* queue before it; and nothing is in the queue before it is bound.
TopologyInv ==
    /\ TopologyTypeOK
    /\ RoutedIsKept
    /\ BootSucceedsOnlyWhole
    /\ \A o \in Operator : boot[o] = "declaring" =>
         \A i \in 1..count[o] : Steps[i] \in declared
    /\ Routable => "dlq_binding" \in declared
    /\ queue # <<>> => Routable

----------------------------------------------------------------------------
\* The queue.

\* Cutting a sequence in two loses nothing.
LEMMA CutKeeps ==
    ASSUME NEW q \in Seq(Trade), NEW n \in 0..Len(q)
    PROVE  /\ SubSeq(q, 1, n) \in Seq(Trade)
           /\ SubSeq(q, n + 1, Len(q)) \in Seq(Trade)
           /\ Len(SubSeq(q, n + 1, Len(q))) = Len(q) - n
           /\ Range(q) = Range(SubSeq(q, 1, n)) \cup Range(SubSeq(q, n + 1, Len(q)))
<1>1. n \in Int /\ n + 1 \in Int /\ Len(q) \in Int /\ n <= Len(q)
  OBVIOUS
<1>2. \A i \in 1..n : q[i] \in Trade
  BY <1>1
<1>3. \A i \in (n + 1)..Len(q) : q[i] \in Trade
  BY <1>1
<1>4. SubSeq(q, 1, n) \in Seq(Trade)
  BY <1>1, <1>2, SubSeqProperties
<1>5. /\ SubSeq(q, n + 1, Len(q)) \in Seq(Trade)
      /\ Len(SubSeq(q, n + 1, Len(q))) =
           IF n + 1 <= Len(q) THEN Len(q) - (n + 1) + 1 ELSE 0
  BY <1>1, <1>3, SubSeqProperties
<1>6. SubSeq(q, 1, n) \o SubSeq(q, n + 1, Len(q)) = q
  <2>1. 1 \in 1..(Len(q) + 1) /\ n \in (1 - 1)..Len(q) /\ Len(q) \in n..Len(q)
    BY <1>1
  <2>2. SubSeq(q, 1, n) \o SubSeq(q, n + 1, Len(q)) = SubSeq(q, 1, Len(q))
    BY <2>1, ConcatAdjacentSubSeq
  <2>3. QED
    BY <2>2, SubSeqFull
<1>7. Range(SubSeq(q, 1, n) \o SubSeq(q, n + 1, Len(q))) =
        Range(SubSeq(q, 1, n)) \cup Range(SubSeq(q, n + 1, Len(q)))
  <2>1. \A s, t \in Seq(Trade) : Range(s \o t) = Range(s) \cup Range(t)
    BY RangeConcatenation
  <2>2. QED
    BY <1>4, <1>5, <2>1, Zenon
<1>8. Len(SubSeq(q, n + 1, Len(q))) = Len(q) - n
  BY <1>1, <1>5
<1>9. QED
  BY <1>4, <1>5, <1>6, <1>7, <1>8

\* The queue may be cut at its head, and what is cut is dead-lettered.
LEMMA CutIsDeadLettered ==
    ASSUME NEW q \in Seq(Trade), queue \in Seq(Trade), dlq \subseteq Trade, QueueBecomes(q)
    PROVE  /\ queue' \in Seq(Trade) /\ Len(queue') <= MaxQueue
           /\ dlq' \subseteq Trade
           /\ Range(q) \cup dlq = Range(queue') \cup dlq'
<1>1. PICK n \in 0..Len(q) :
        /\ Len(q) - n <= MaxQueue
        /\ queue' = SubSeq(q, n + 1, Len(q))
        /\ dlq' = dlq \cup Range(SubSeq(q, 1, n))
  <2>1. CASE Len(q) > MaxQueue
    <3>1. Len(q) - MaxQueue \in 0..Len(q)
      BY <2>1
    <3>2. QED
      BY <2>1, <3>1 DEF QueueBecomes
  <2>2. CASE ~(Len(q) > MaxQueue)
    <3>1. 0 \in 0..Len(q)
      OBVIOUS
    <3>2. QED
      BY <2>2, <3>1 DEF QueueBecomes
  <2>3. QED
    BY <2>1, <2>2
<1>2. Range(SubSeq(q, 1, n)) \subseteq Trade
  BY CutKeeps, RangeOfSeq
<1>3. QED
  BY <1>1, <1>2, CutKeeps

\* A message that is routed is in the queue or dead-lettered, and so is
\* everything that was there.
LEMMA EnqueueKeeps ==
    ASSUME NEW m \in Trade, queue \in Seq(Trade), dlq \subseteq Trade, Enqueue(m)
    PROVE  /\ queue' \in Seq(Trade) /\ Len(queue') <= MaxQueue
           /\ dlq' \subseteq Trade
           /\ Range(queue') \cup dlq' = Range(queue) \cup dlq \cup {m}
<1>1. Range(Append(queue, m)) = Range(queue) \cup {m}
  BY RangeOfAppend
<1>2. Append(queue, m) \in Seq(Trade) /\ QueueBecomes(Append(queue, m))
  BY DEF Enqueue
<1>3. QED
  BY <1>1, <1>2, CutIsDeadLettered

LEMMA ExpireKeeps ==
    ASSUME queue \in Seq(Trade), Len(queue) <= MaxQueue, dlq \subseteq Trade, Expire
    PROVE  /\ queue' \in Seq(Trade) /\ Len(queue') <= MaxQueue
           /\ dlq' \subseteq Trade
           /\ Range(queue') \cup dlq' = Range(queue) \cup dlq
<1>1. Len(queue) \in Nat \ {0}
  BY EmptySeq DEF Expire
<1>2. Tail(queue) \in Seq(Trade) /\ Len(Tail(queue)) = Len(queue) - 1
  BY HeadTailProperties DEF Expire
<1>3. Tail(queue) = SubSeq(queue, 2, Len(queue))
  BY TailIsSubSeq DEF Expire
<1>4. 1 \in 0..Len(queue) /\ 1 + 1 = 2
  BY <1>1
<1>5. Range(queue) = Range(SubSeq(queue, 1, 1)) \cup Range(Tail(queue))
  <2>1. /\ SubSeq(queue, 1 + 1, Len(queue)) = Tail(queue)
        /\ Range(queue) = Range(SubSeq(queue, 1, 1))
                            \cup Range(SubSeq(queue, 1 + 1, Len(queue)))
    BY <1>3, <1>4, CutKeeps
  <2>2. QED
    BY <2>1, Zenon
<1>6. Range(SubSeq(queue, 1, 1)) = {Head(queue)} /\ Head(queue) \in Trade
  <2>1. Head(queue) = queue[1] /\ \A i \in 1..1 : queue[i] \in Trade
    BY <1>1
  <2>2. /\ SubSeq(queue, 1, 1) \in Seq(Trade) /\ Len(SubSeq(queue, 1, 1)) = 1
        /\ \A i \in 1..1 : SubSeq(queue, 1, 1)[i] = queue[1 + i - 1]
    BY <2>1, SubSeqProperties
  <2>3. SubSeq(queue, 1, 1)[1] = queue[1]
    BY <2>2
  <2>4. Range(SubSeq(queue, 1, 1)) = {SubSeq(queue, 1, 1)[i] : i \in 1..1}
    BY <2>2, RangeEquality
  <2>5. QED
    BY <2>1, <2>3, <2>4
<1>7. queue' = Tail(queue) /\ dlq' = dlq \cup {Head(queue)}
  BY DEF Expire
<1>8. Range(queue') \cup dlq' = Range(queue) \cup dlq
  BY <1>5, <1>6, <1>7, Zenon
<1>9. QED
  BY <1>1, <1>2, <1>6, <1>7, <1>8

----------------------------------------------------------------------------
\* The two halves of the system: a step of the bootstrap leaves the publisher
\* and the queue alone, and a step of the publisher the topology.

LEMMA StepsAreFive ==
    /\ Len(Steps) = 5
    /\ \A i \in 1..5 : Steps[i] \in Range(Steps)
    /\ Range(Steps) = {Steps[i] : i \in 1..5}
    /\ Steps[3] = "dlq_binding" /\ Steps[5] = "queue_binding"
    /\ \A i \in 1..4 : Steps[i] # "queue_binding"
  BY DEF Steps, Range

\* A declaration keeps what the invariant says of the topology.
LEMMA DeclarationKeepsOrder ==
    ASSUME TopologyInv, NEW o \in Operator, boot[o] = "declaring", count[o] < Len(Steps),
           declared' = declared \cup {Steps[count[o] + 1]}
    PROVE  /\ declared' \subseteq Range(Steps)
           /\ declared = Range(Steps) => declared' = declared
           /\ Routable' => "dlq_binding" \in declared'
           /\ Routable => Routable'
<1>1. count[o] \in 0..4 /\ \A i \in 1..count[o] : Steps[i] \in declared
  BY StepsAreFive DEF TopologyInv, TopologyTypeOK
<1>2. Steps[count[o] + 1] \in Range(Steps)
  BY <1>1, StepsAreFive
<1>3. CASE count[o] = 4
  <2>1. "dlq_binding" \in declared
    BY <1>1, <1>3, StepsAreFive
  <2>2. QED
    BY <1>2, <2>1 DEF TopologyInv, TopologyTypeOK, Routable
<1>4. CASE count[o] # 4
  <2>1. Steps[count[o] + 1] # "queue_binding"
    BY <1>1, <1>4, StepsAreFive
  <2>2. QED
    BY <1>2, <2>1 DEF TopologyInv, TopologyTypeOK, Routable
<1>5. QED
  BY <1>3, <1>4

LEMMA BootKeepsInv ==
    ASSUME TopologyInv, NEW o \in Operator, BootStep(o)
    PROVE  TopologyInv'
<1>1. UNCHANGED pubVars
  BY DEF BootStep, Bootstraps, SetupConnects, ConnectFails, Declares, SetupSucceeds, SetupFails
<1>2. PublisherTypeOK' /\ RoutedIsKept'
  BY <1>1 DEF TopologyInv, TopologyTypeOK, PublisherTypeOK, RoutedIsKept, pubVars,
              publisherVars, brokerVars
<1>3. UNCHANGED <<queue, dlq, todo, message>>
  BY <1>1 DEF pubVars, brokerVars
<1> USE DEF TopologyInv, TopologyTypeOK, BootSucceedsOnlyWhole, BootGoes
<1>4. CASE Bootstraps(o)
  BY <1>2, <1>3, <1>4 DEF Bootstraps, Routable
<1>5. CASE SetupConnects(o)
  BY <1>2, <1>3, <1>5, StepsAreFive DEF SetupConnects, Routable
<1>6. CASE ConnectFails(o)
  <2>1. boot[o] = "connecting" /\ count[o] < ConnectRetries /\ UNCHANGED declared
    BY <1>6 DEF ConnectFails
  <2>2. CASE count[o] + 1 < ConnectRetries
    <3>1. UNCHANGED boot /\ count' = [count EXCEPT ![o] = @ + 1]
      BY <1>6, <2>2 DEF ConnectFails
    <3>2. QED
      BY <1>2, <1>3, <2>1, <2>2, <3>1 DEF Routable
  <2>3. CASE ~(count[o] + 1 < ConnectRetries)
    <3>1. BootGoes(o, "failed")
      BY <1>6, <2>3 DEF ConnectFails
    <3>2. QED
      BY <1>2, <1>3, <2>1, <3>1 DEF Routable
  <2>4. QED
    BY <2>2, <2>3
<1>7. CASE Declares(o)
  <2>1. /\ declared' \subseteq Range(Steps)
        /\ declared = Range(Steps) => declared' = declared
        /\ Routable' => "dlq_binding" \in declared'
        /\ Routable => Routable'
    BY <1>7, DeclarationKeepsOrder DEF Declares
  <2>2. \A i \in 1..(count[o] + 1) : Steps[i] \in declared'
    BY <1>7 DEF Declares
  <2>3. QED
    BY <1>2, <1>3, <1>7, <2>1, <2>2, StepsAreFive DEF Declares
<1>8. CASE SetupSucceeds(o)
  <2>1. declared = Range(Steps)
    BY <1>8, StepsAreFive DEF SetupSucceeds
  <2>2. QED
    BY <1>2, <1>3, <1>8, <2>1 DEF SetupSucceeds, Routable
<1>9. CASE SetupFails(o)
  <2>1. /\ declared' \subseteq Range(Steps)
        /\ declared = Range(Steps) => declared' = declared
        /\ declared \subseteq declared'
        /\ Routable' => "dlq_binding" \in declared'
        /\ Routable => Routable'
    BY <1>9, DeclarationKeepsOrder DEF SetupFails, Routable
  <2>2. QED
    BY <1>2, <1>3, <1>9, <2>1 DEF SetupFails
<1>10. QED
  BY <1>4, <1>5, <1>6, <1>7, <1>8, <1>9 DEF BootStep

----------------------------------------------------------------------------
\* The publisher and the queue.

\* A step that leaves the topology alone keeps the invariant, if it keeps the
\* types of the rest and what is routed, and the queue is filled when bound.
LEMMA PublishingKeepsInv ==
    ASSUME TopologyInv, UNCHANGED bootVars,
           PublisherTypeOK', queue' \in Seq(Trade), Len(queue') <= MaxQueue,
           dlq' \subseteq Trade, todo' \subseteq Trade, message' \subseteq Trade,
           RoutedIsKept', queue' # <<>> => Routable
    PROVE  TopologyInv'
  BY DEF TopologyInv, TopologyTypeOK, BootSucceedsOnlyWhole, Routable, bootVars

LEMMA PublishKeepsInv ==
    ASSUME TopologyInv, NEW m \in Trade, PublishStep(m)
    PROVE  TopologyInv' /\ (dlq' # dlq => Routable) /\ UNCHANGED declared
<1>1. TopologyTypeOK /\ PublisherTypeOK /\ RoutedIsKept /\ (queue # <<>> => Routable)
  BY DEF TopologyInv, TopologyTypeOK
<1>2. queue \in Seq(Trade) /\ dlq \subseteq Trade /\ todo \subseteq Trade /\ message \subseteq Trade
  BY <1>1 DEF TopologyTypeOK
<1>3. CASE Takes(m)
  <2>1. UNCHANGED bootVars /\ UNCHANGED <<queue, dlq>>
    BY <1>3 DEF Takes, brokerVars
  <2>2. PublisherTypeOK' /\ RoutedIsKept'
    BY <1>1, <1>3 DEF Takes, PublisherTypeOK, RoutedIsKept, publisherVars, brokerVars
  <2>3. message' \subseteq Trade /\ todo' \subseteq Trade
    BY <1>2, <1>3 DEF Takes
  <2>4. TopologyInv'
    BY <1>1, <2>1, <2>2, <2>3, PublishingKeepsInv DEF TopologyTypeOK
  <2>5. QED
    BY <2>1, <2>4 DEF bootVars
<1>4. CASE PublishConfirmed(m) \/ PublishUnconfirmed(m)
  <2>1. Routable /\ Enqueue(m) /\ UNCHANGED bootVars
    BY <1>4 DEF PublishConfirmed, PublishUnconfirmed
  <2>2. PublisherTypeOK' /\ routed' = routed \cup {m}
    BY <1>1, <1>4, PublisherKeepsType DEF PublishConfirmed, PublishUnconfirmed
  <2>3. /\ queue' \in Seq(Trade) /\ Len(queue') <= MaxQueue
        /\ dlq' \subseteq Trade
        /\ Range(queue') \cup dlq' = Range(queue) \cup dlq \cup {m}
    BY <1>2, <2>1, EnqueueKeeps
  <2>4. RoutedIsKept'
    BY <1>1, <2>2, <2>3 DEF RoutedIsKept
  <2>5. message' \subseteq Trade /\ todo' \subseteq Trade
    BY <1>2, <1>4 DEF PublishConfirmed, PublishUnconfirmed
  <2>6. TopologyInv'
    BY <2>1, <2>2, <2>3, <2>4, <2>5, PublishingKeepsInv
  <2>7. QED
    BY <2>1, <2>6 DEF bootVars
<1>5. CASE PublishRefused(m) \/ PublishGivesUp(m)
  <2>1. UNCHANGED brokerVars /\ UNCHANGED bootVars /\ UNCHANGED todo
    BY <1>5 DEF PublishRefused, PublishGivesUp
  <2>2. PublisherTypeOK' /\ routed' = routed
    <3>1. CASE PublishGivesUp(m) \/ AttemptRefused
      BY <1>1, <1>5, <3>1, PublisherKeepsType DEF PublishGivesUp
    <3>2. CASE ~(PublishGivesUp(m) \/ AttemptRefused)
      <4>1. /\ tries < MaxAttempts /\ tries' = tries + 1
            /\ channel' \in {"open", "dead"}
            /\ UNCHANGED <<retryQueue, routed, amqpFaults>>
        BY <1>5, <3>2 DEF PublishRefused
      <4>2. QED
        BY <1>1, <4>1 DEF PublisherTypeOK
    <3>3. QED
      BY <3>1, <3>2
  <2>3. message' \subseteq Trade
    BY <1>2, <1>5 DEF PublishRefused, PublishGivesUp
  <2>4. RoutedIsKept' /\ UNCHANGED <<queue, dlq>>
    BY <1>1, <2>1, <2>2 DEF RoutedIsKept, brokerVars
  <2>5. TopologyInv'
    BY <1>1, <1>2, <2>1, <2>2, <2>3, <2>4, PublishingKeepsInv DEF TopologyTypeOK
  <2>6. QED
    BY <2>1, <2>4, <2>5 DEF bootVars
<1>6. QED
  BY <1>3, <1>4, <1>5 DEF PublishStep

LEMMA OtherKeepsInv ==
    ASSUME TopologyInv, ProducerRestarts \/ TradeExpires
    PROVE  TopologyInv' /\ (dlq' # dlq => Routable) /\ UNCHANGED declared
<1>1. TopologyTypeOK /\ PublisherTypeOK /\ RoutedIsKept /\ (queue # <<>> => Routable)
  BY DEF TopologyInv, TopologyTypeOK
<1>2. UNCHANGED bootVars /\ UNCHANGED todo /\ message' \subseteq Trade
  BY <1>1 DEF ProducerRestarts, TradeExpires, TopologyTypeOK
<1>3. PublisherTypeOK' /\ routed' = routed
  <2>1. CASE ProducerRestarts
    <3>1. retryQueue' \in Seq(Trade) /\ Len(retryQueue') = 0
      BY <2>1, EmptySeq DEF ProducerRestarts
    <3>2. QED
      BY <1>1, <2>1, <3>1 DEF ProducerRestarts, PublisherTypeOK
  <2>2. CASE TradeExpires
    BY <1>1, <2>2 DEF TradeExpires, PublisherTypeOK, publisherVars
  <2>3. QED
    BY <2>1, <2>2
<1>4. CASE ProducerRestarts
  <2>1. UNCHANGED <<queue, dlq>>
    BY <1>4 DEF ProducerRestarts, brokerVars
  <2>2. RoutedIsKept'
    BY <1>1, <1>3, <2>1 DEF RoutedIsKept
  <2>3. TopologyInv'
    BY <1>1, <1>2, <1>3, <2>1, <2>2, PublishingKeepsInv DEF TopologyTypeOK
  <2>4. QED
    BY <1>2, <2>1, <2>3 DEF bootVars
<1>5. CASE TradeExpires
  <2>1. Expire
    BY <1>5 DEF TradeExpires
  <2>2. /\ queue' \in Seq(Trade) /\ Len(queue') <= MaxQueue
        /\ dlq' \subseteq Trade
        /\ Range(queue') \cup dlq' = Range(queue) \cup dlq
    BY <1>1, <2>1, ExpireKeeps DEF TopologyTypeOK
  <2>3. RoutedIsKept' /\ Routable
    BY <1>1, <1>3, <2>1, <2>2 DEF RoutedIsKept, Expire
  <2>4. TopologyInv'
    BY <1>1, <1>2, <1>3, <2>2, <2>3, PublishingKeepsInv DEF TopologyTypeOK
  <2>5. QED
    BY <1>2, <2>3, <2>4 DEF bootVars
<1>6. QED
  BY <1>4, <1>5

----------------------------------------------------------------------------

LEMMA TopologyInvInit == TopologyInit => TopologyInv
<1> SUFFICES ASSUME TopologyInit
             PROVE  TopologyInv
  OBVIOUS
<1> USE DEF TopologyInit, PublisherInit, BrokerInit
<1>1. PublisherTypeOK
  BY EmptySeq DEF PublisherTypeOK
<1>2. queue \in Seq(Trade) /\ Len(queue) <= MaxQueue
  BY EmptySeq
<1>3. TopologyTypeOK
  BY <1>1, <1>2 DEF TopologyTypeOK
<1>4. QED
  BY <1>3 DEF TopologyInv, RoutedIsKept, BootSucceedsOnlyWhole, Routable

\* One step: the invariant is kept, and a message is dead-lettered only when
\* the binding of the dead-letter queue is there.
LEMMA TopologyInvStep ==
    TopologyInv /\ [TopologyNext]_topologyVars =>
      TopologyInv' /\ (dlq' # dlq => "dlq_binding" \in declared)
<1> SUFFICES ASSUME TopologyInv, [TopologyNext]_topologyVars
             PROVE  TopologyInv' /\ (dlq' # dlq => "dlq_binding" \in declared)
  OBVIOUS
<1>1. Routable => "dlq_binding" \in declared
  BY DEF TopologyInv
<1>2. ASSUME NEW o \in Operator, BootStep(o)
      PROVE  TopologyInv' /\ UNCHANGED dlq
  <2>1. UNCHANGED dlq
    BY <1>2 DEF BootStep, Bootstraps, SetupConnects, ConnectFails, Declares,
                SetupSucceeds, SetupFails, pubVars, brokerVars
  <2>2. QED
    BY <1>2, <2>1, BootKeepsInv
<1>3. CASE UNCHANGED topologyVars
  <2>1. /\ UNCHANGED <<queue, dlq, todo, message, bootVars>>
        /\ UNCHANGED <<channel, retryQueue, tries, routed, amqpFaults>>
    BY <1>3 DEF topologyVars, bootVars, brokerVars, publisherVars
  <2>2. PublisherTypeOK' /\ RoutedIsKept'
    BY <2>1 DEF TopologyInv, TopologyTypeOK, PublisherTypeOK, RoutedIsKept
  <2>3. QED
    BY <2>1, <2>2, PublishingKeepsInv DEF TopologyInv, TopologyTypeOK
<1>4. QED
  BY <1>1, <1>2, <1>3, PublishKeepsInv, OtherKeepsInv DEF TopologyNext

\* The inductive invariant holds in every state of every execution.
THEOREM TopologyInvariant == TopologySpec => []TopologyInv
  BY TopologyInvInit, TopologyInvStep, PTL DEF TopologySpec

\* Type correctness of the bootstrap, the publisher and the queue.
THEOREM TopologyTypeCorrect == TopologySpec => []TopologyTypeOK
<1>1. TopologyInv => TopologyTypeOK
  BY DEF TopologyInv
<1>2. QED
  BY <1>1, TopologyInvariant, PTL

\* No trade the broker has taken disappears, for any queue limit and however
\* publishing interleaves with the bootstrap.
THEOREM NothingRoutedIsLost == TopologySpec => []RoutedIsKept
<1>1. TopologyInv => RoutedIsKept
  BY DEF TopologyInv
<1>2. QED
  BY <1>1, TopologyInvariant, PTL

\* The exit status 0 of rabbitmq_setup.py can be relied on.
THEOREM BootStatusIsHonest == TopologySpec => []BootSucceedsOnlyWhole
<1>1. TopologyInv => BootSucceedsOnlyWhole
  BY DEF TopologyInv
<1>2. QED
  BY <1>1, TopologyInvariant, PTL

\* A dead letter always finds the dead-letter queue bound, in every overlap of
\* bootstraps and after every failure.
THEOREM DeadLettersArrive == TopologySpec => DeadLettersHaveTarget
<1>1. TopologyInv /\ [TopologyNext]_topologyVars
        => [dlq' # dlq => "dlq_binding" \in declared]_topologyVars
  BY TopologyInvStep
<1>2. QED
  BY <1>1, TopologyInvariant, PTL DEF TopologySpec, DeadLettersHaveTarget

=============================================================================
