-------------------------- MODULE PublisherProofs --------------------------
(***************************************************************************)
(* Lemmas about Publisher.tla, used for the bootstrap (Topology.tla) and   *)
(* for the producer process (Producer.tla).                                *)
(***************************************************************************)
EXTENDS Publisher, SequenceTheorems, TLAPS

USE PublisherAssumption

LEMMA RangeOfAppend ==
    ASSUME NEW q \in Seq(Trade), NEW m \in Trade
    PROVE  Range(Append(q, m)) = Range(q) \cup {m}
<1>1. <<m>> \in Seq(Trade) /\ Append(q, m) = q \o <<m>>
  OBVIOUS
<1>2. Range(<<m>>) = {m}
  BY DEF Range
<1>3. \A s, t \in Seq(Trade) : Range(s \o t) = Range(s) \cup Range(t)
  BY RangeConcatenation
<1>4. QED
  BY <1>1, <1>2, <1>3

\* publish() keeps its types, whatever a message meets; routed grows by that
\* message, and only in a step in which the broker takes it.
LEMMA PublisherKeepsType ==
    ASSUME PublisherTypeOK, NEW m \in Trade
    PROVE  /\ Confirmed(m) => PublisherTypeOK' /\ routed' = routed \cup {m}
           /\ AttemptUnconfirmed(m) => PublisherTypeOK' /\ routed' = routed \cup {m}
           /\ AttemptRefused => PublisherTypeOK' /\ routed' = routed
           /\ GivesUp(m) => PublisherTypeOK' /\ routed' = routed
<1> USE DEF PublisherTypeOK
<1>1. ASSUME Confirmed(m) PROVE PublisherTypeOK' /\ routed' = routed \cup {m}
  BY <1>1 DEF Confirmed
<1>2. ASSUME AttemptUnconfirmed(m) PROVE PublisherTypeOK' /\ routed' = routed \cup {m}
  BY <1>2 DEF AttemptUnconfirmed
<1>3. ASSUME AttemptRefused PROVE PublisherTypeOK' /\ routed' = routed
  BY <1>3 DEF AttemptRefused
<1>4. ASSUME GivesUp(m) PROVE PublisherTypeOK' /\ routed' = routed
  <2>1. CASE Len(retryQueue) < RetryQueueMax
    BY <1>4, <2>1 DEF GivesUp, Pushed
  <2>2. CASE ~(Len(retryQueue) < RetryQueueMax)
    <3>1. retryQueue # <<>>
      BY <2>2
    <3>2. Tail(retryQueue) \in Seq(Trade) /\ Len(Tail(retryQueue)) = Len(retryQueue) - 1
      BY <3>1, HeadTailProperties
    <3>3. QED
      BY <1>4, <2>2, <3>2 DEF GivesUp, Pushed
  <2>3. QED
    BY <2>1, <2>2
<1>5. QED
  BY <1>1, <1>2, <1>3, <1>4

\* A process that ends or starts keeps what is routed.
LEMMA PublisherRestartKeepsType ==
    ASSUME PublisherTypeOK, PublisherEnds \/ PublisherStarts
    PROVE  PublisherTypeOK' /\ routed' = routed
<1>1. CASE PublisherEnds
  <2>1. retryQueue' = <<>> /\ <<>> \in Seq(Trade) /\ Len(<<>>) = 0
    BY <1>1, EmptySeq DEF PublisherEnds
  <2>2. QED
    BY <1>1, <2>1 DEF PublisherTypeOK, PublisherEnds
<1>2. CASE PublisherStarts
  BY <1>2 DEF PublisherTypeOK, PublisherStarts
<1>3. QED
  BY <1>1, <1>2

=============================================================================
