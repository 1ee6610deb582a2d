------------------------------ MODULE Topology ------------------------------
(***************************************************************************)
(* infra/rabbitmq_setup.py, the bootstrap that declares the exchange, the  *)
(* queues and their bindings, run by any number of operators at a time and *)
(* again after a failure; composed with the publisher of Publisher.tla,    *)
(* which docker compose starts without waiting for it, and with the queue  *)
(* of Broker.tla.  What is declared is durable and redeclaring it changes  *)
(* nothing, so a broker that restarts is a connection that breaks.         *)
(***************************************************************************)
EXTENDS Publisher, Broker

CONSTANTS
    Operator,         \* who runs the script
    ConnectRetries    \* CONNECT_RETRIES

ASSUME TopologyAssumption == ConnectRetries \in Nat \ {0}

VARIABLES
    declared,   \* what the broker has
    boot,       \* each run: "off", "connecting", "declaring", "ok" or "failed"
    count,      \* its connection attempts that failed, then its steps done
    todo,       \* trades the producer has not taken yet
    message     \* the trades it is publishing: one at most

topologyVars == <<publisherVars, brokerVars, declared, boot, count, todo, message>>

\* Mutant: the main queue first, then its dead-letter target.
StepsQueueFirst == <<"exchange", "queue", "queue_binding", "dlq", "dlq_binding">>

\* declare_topology.
Steps == <<"exchange", "dlq", "dlq_binding", "queue", "queue_binding">>

TopologyTypeOK ==
    /\ PublisherTypeOK
    /\ queue \in Seq(Trade) /\ Len(queue) <= MaxQueue
    /\ dlq \subseteq Trade
    /\ declared \subseteq Range(Steps)
    /\ boot \in [Operator -> {"off", "connecting", "declaring", "ok", "failed"}]
    /\ count \in [Operator -> Nat]
    /\ \A o \in Operator : boot[o] = "connecting" => count[o] < ConnectRetries
    /\ \A o \in Operator : boot[o] = "declaring" => count[o] <= Len(Steps)
    /\ todo \subseteq Trade /\ message \subseteq Trade

TopologyInit ==
    /\ PublisherInit
    /\ BrokerInit
    /\ declared = {}
    /\ boot = [o \in Operator |-> "off"]
    /\ count = [o \in Operator |-> 0]
    /\ todo = Trade
    /\ message = {}

----------------------------------------------------------------------------
\* The bootstrap.

bootVars == <<declared, boot, count>>
pubVars  == <<publisherVars, brokerVars, todo, message>>

BootGoes(o, place) ==
    /\ boot' = [boot EXCEPT ![o] = place]
    /\ count' = [count EXCEPT ![o] = 0]

Bootstraps(o) ==
    /\ boot[o] \in {"off", "ok", "failed"}
    /\ BootGoes(o, "connecting")
    /\ UNCHANGED <<declared, pubVars>>

SetupConnects(o) ==
    /\ boot[o] = "connecting"
    /\ BootGoes(o, "declaring")
    /\ UNCHANGED <<declared, pubVars>>

\* An attempt raises AMQPConnectionError: sleep and try again, or exit with 1.
ConnectFails(o) ==
    /\ boot[o] = "connecting"
    /\ IF count[o] + 1 < ConnectRetries
       THEN /\ count' = [count EXCEPT ![o] = @ + 1]
            /\ UNCHANGED boot
       ELSE BootGoes(o, "failed")
    /\ UNCHANGED <<declared, pubVars>>

Declares(o) ==
    /\ boot[o] = "declaring"
    /\ count[o] < Len(Steps)
    /\ declared' = declared \cup {Steps[count[o] + 1]}
    /\ count' = [count EXCEPT ![o] = @ + 1]
    /\ UNCHANGED <<boot, pubVars>>

SetupSucceeds(o) ==
    /\ boot[o] = "declaring"
    /\ count[o] = Len(Steps)
    /\ BootGoes(o, "ok")
    /\ UNCHANGED <<declared, pubVars>>

\* Mutant: the error is reported, and the exit status is 0.
SetupFailsQuietly(o) ==
    /\ boot[o] \in {"connecting", "declaring"}
    /\ BootGoes(o, "ok")
    /\ UNCHANGED <<declared, pubVars>>

\* An AMQPError, or the script is killed, before or after the broker has
\* executed the declaration it was sent.
SetupFails(o) ==
    /\ boot[o] \in {"connecting", "declaring"}
    /\ BootGoes(o, "failed")
    /\ \/ UNCHANGED declared
       \/ /\ boot[o] = "declaring" /\ count[o] < Len(Steps)
          /\ declared' = declared \cup {Steps[count[o] + 1]}
    /\ UNCHANGED pubVars

----------------------------------------------------------------------------
\* The producer publishes its trades one by one; publish() tries three times.

Takes(m) ==
    /\ message = {} /\ m \in todo
    /\ message' = {m}
    /\ todo' = todo \ {m}
    /\ UNCHANGED <<publisherVars, brokerVars, bootVars>>

\* mandatory=True: the broker confirms what it has routed to a queue.
Routable == "queue_binding" \in declared

\* Mutant: mandatory=False: what cannot be routed is dropped, and confirmed.
PublishConfirmedDropped(m) ==
    /\ m \in message /\ "exchange" \in declared
    /\ Confirmed(m)
    /\ IF Routable THEN Enqueue(m) ELSE UNCHANGED brokerVars
    /\ message' = {}
    /\ UNCHANGED <<todo, bootVars>>

PublishConfirmed(m) ==
    /\ m \in message /\ Routable
    /\ Confirmed(m)
    /\ Enqueue(m)
    /\ message' = {}
    /\ UNCHANGED <<todo, bootVars>>

\* The broker has the message, and the connection breaks before its confirm.
PublishUnconfirmed(m) ==
    /\ m \in message /\ Routable
    /\ AttemptUnconfirmed(m)
    /\ Enqueue(m)
    /\ UNCHANGED <<todo, message, bootVars>>

\* No exchange: 404, which closes the channel.  Nothing bound: the message is
\* returned as unroutable.  Otherwise the broker refuses it, or is not reached.
PublishRefused(m) ==
    /\ m \in message
    /\ \/ AttemptRefused
       \/ /\ channel = "open" /\ tries < MaxAttempts /\ ~Routable
          /\ tries' = tries + 1
          /\ channel' = IF "exchange" \in declared THEN "open" ELSE "dead"
          /\ UNCHANGED <<retryQueue, routed, amqpFaults>>
    /\ UNCHANGED <<brokerVars, todo, message, bootVars>>

PublishGivesUp(m) ==
    /\ m \in message
    /\ GivesUp(m)
    /\ message' = {}
    /\ UNCHANGED <<brokerVars, todo, bootVars>>

\* The producer process ends, and docker starts it again.
ProducerRestarts ==
    /\ channel' = "open" /\ retryQueue' = <<>> /\ tries' = 0
    /\ message' = {}
    /\ UNCHANGED <<routed, amqpFaults, brokerVars, todo, bootVars>>

\* x-message-ttl runs out.
TradeExpires == Expire /\ UNCHANGED <<publisherVars, todo, message, bootVars>>

----------------------------------------------------------------------------

BootStep(o) ==
    \/ Bootstraps(o)
    \/ SetupConnects(o)
    \/ ConnectFails(o)
    \/ Declares(o)
    \/ SetupSucceeds(o)
    \/ SetupFails(o)

PublishStep(m) ==
    \/ Takes(m)
    \/ PublishConfirmed(m)
    \/ PublishUnconfirmed(m)
    \/ PublishRefused(m)
    \/ PublishGivesUp(m)

TopologyNext ==
    \/ \E o \in Operator : BootStep(o)
    \/ \E m \in Trade : PublishStep(m)
    \/ ProducerRestarts
    \/ TradeExpires

TopologySpec == TopologyInit /\ [][TopologyNext]_topologyVars

----------------------------------------------------------------------------

\* "Without an explicit DLQ routing key ... messages are silently dropped",
\* rabbitmq_setup.py:89-91: whenever the queue dead-letters a message, by
\* expiry or overflow, its target is bound, even when runs of the bootstrap
\* overlap or stop half-way while the producer publishes.
DeadLettersHaveTarget == [][dlq' # dlq => "dlq_binding" \in declared]_topologyVars

\* "No silent data loss", publisher.py:6: a trade that the broker has taken is
\* in the queue or dead-lettered, whatever was declared when it was published.
RoutedIsKept == routed \subseteq Range(queue) \cup dlq

\* "Exits 0 on success, 1 on failure", rabbitmq_setup.py:11: after exit 0 the
\* whole topology is there, and it stays.
BootSucceedsOnlyWhole ==
    \A o \in Operator : boot[o] = "ok" => declared = Range(Steps)

=============================================================================
