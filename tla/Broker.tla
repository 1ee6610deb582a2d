------------------------------- MODULE Broker -------------------------------
(***************************************************************************)
(* The RabbitMQ queue crypto.trades.queue, with the arguments that         *)
(* infra/rabbitmq_setup.py declares it with, its dead-letter queue and the *)
(* one consumer attached to it.  The broker is not part of the repository: *)
(* this is what the consumer relies on.                                    *)
(*                                                                         *)
(* Deliveries sit in inbox from basic_deliver to basic_ack or basic_nack.  *)
(* While the link is up, inbox is also what the broker holds as            *)
(* unacknowledged; when the link is lost the broker puts these messages    *)
(* back at the front of the queue, and the process, which has not noticed, *)
(* still has its copies.                                                   *)
(***************************************************************************)
EXTENDS Naturals, Sequences, Functions

CONSTANTS
    MaxQueue,   \* x-max-length
    Prefetch    \* CONSUMER_PREFETCH

ASSUME BrokerAssumption ==
    /\ MaxQueue \in Nat \ {0}
    /\ Prefetch \in Nat \ {0}

VARIABLES
    queue,   \* the messages that are ready, oldest first
    dlq,     \* the messages in crypto.trades.dlq
    inbox,   \* deliveries the process has neither acknowledged nor rejected
    link     \* the AMQP connection: "up", "lost" (unnoticed) or "down"

brokerVars == <<queue, dlq, inbox, link>>

BrokerInit ==
    /\ queue = <<>>
    /\ dlq = {}
    /\ inbox = <<>>
    /\ link = "up"

\* The queue becomes q, except that the oldest messages above x-max-length
\* are dead-lettered (overflow is drop-head, and the DLX is set).
QueueBecomes(q) ==
    LET excess == IF Len(q) > MaxQueue THEN Len(q) - MaxQueue ELSE 0
    IN  /\ queue' = SubSeq(q, excess + 1, Len(q))
        /\ dlq' = dlq \cup Range(SubSeq(q, 1, excess))

\* A publisher's message is routed to the queue.
Enqueue(m) ==
    /\ QueueBecomes(Append(queue, m))
    /\ UNCHANGED <<inbox, link>>

\* x-message-ttl: the oldest message expires and is dead-lettered.
Expire ==
    /\ queue # <<>>
    /\ dlq' = dlq \cup {Head(queue)}
    /\ queue' = Tail(queue)
    /\ UNCHANGED <<inbox, link>>

\* basic_deliver, within the prefetch window.
Deliver ==
    /\ link = "up"
    /\ queue # <<>>
    /\ Len(inbox) < Prefetch
    /\ inbox' = Append(inbox, Head(queue))
    /\ queue' = Tail(queue)
    /\ UNCHANGED <<dlq, link>>

\* The connection breaks (missed heartbeat, network, broker restart).
LoseLink ==
    /\ link = "up"
    /\ link' = "lost"
    /\ QueueBecomes(inbox \o queue)
    /\ UNCHANGED inbox

\* basic_ack and basic_nack(requeue=False) of the oldest delivery.  On a link
\* that is lost, the frame may still be written to the socket and go nowhere.
BasicAck ==
    /\ inbox' = Tail(inbox)
    /\ UNCHANGED <<queue, dlq, link>>

BasicNack ==
    /\ inbox' = Tail(inbox)
    /\ dlq' = IF link = "up" THEN dlq \cup {Head(inbox)} ELSE dlq
    /\ UNCHANGED <<queue, link>>

\* The process closes its connection or dies.
Disconnect ==
    /\ link' = "down"
    /\ QueueBecomes(IF link = "up" THEN inbox \o queue ELSE queue)
    /\ inbox' = <<>>

\* basic_consume on a new connection.
Connect ==
    /\ link' = "up"
    /\ UNCHANGED <<queue, dlq, inbox>>

=============================================================================
