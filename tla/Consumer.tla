------------------------------ MODULE Consumer ------------------------------
(***************************************************************************)
(* The consumer process: consumer/main.py starts the database connection,  *)
(* the BatchBuffer and the TradeConsumer of consumer/consumer.py, whose    *)
(* repository is the buffer.  This module composes BatchBuffer.tla and     *)
(* Broker.tla, and adds the life of the process: crashes, docker stop, the *)
(* finally block of main(), and the restart by docker.                     *)
(*                                                                         *)
(* The main thread handles one delivery at a time: on_message parses it,   *)
(* adds it to the buffer (which may flush), then acknowledges it.          *)
(***************************************************************************)
EXTENDS BatchBuffer, Broker

CONSTANTS
    Poison,        \* messages whose body on_message cannot parse
    MaxPublishes,  \* bound: messages published
    MaxCrashes,    \* bound: deaths of the process other than by its own exit
    MaxLinkLosses  \* bound: AMQP connections lost

ASSUME ConsumerAssumption ==
    /\ Poison \subseteq Message
    /\ MaxPublishes \in Nat /\ MaxCrashes \in Nat /\ MaxLinkLosses \in Nat

VARIABLES
    proc,            \* the process: "up", "closing", "exiting" or "down"
    handling,        \* what on_message still owes the head of inbox
    stopRequested,   \* docker stop was called (_shutdown_requested is set)
    acked,           \* history: messages acknowledged
    publishes, crashes, linkLosses   \* counters for the bounds

consumerVars == <<proc, handling, stopRequested, acked, publishes, crashes, linkLosses>>
allVars      == <<vars, brokerVars, consumerVars>>

ConsumerTypeOK ==
    /\ TypeOK
    /\ queue \in Seq(Message) /\ Len(queue) <= MaxQueue
    /\ inbox \in Seq(Message) /\ Len(inbox) <= Prefetch
    /\ dlq \subseteq Message
    /\ link \in {"up", "lost", "down"}
    /\ proc \in {"up", "closing", "exiting", "down"}
    /\ handling \in {"none", "ack", "nack"}
    /\ stopRequested \in BOOLEAN
    /\ acked \subseteq Message
    /\ publishes \in 0..MaxPublishes
    /\ crashes \in 0..MaxCrashes
    /\ linkLosses \in 0..MaxLinkLosses

ConsumerInit ==
    /\ Init
    /\ BrokerInit
    /\ proc = "up"
    /\ handling = "none"
    /\ stopRequested = FALSE
    /\ acked = {}
    /\ publishes = 0 /\ crashes = 0 /\ linkLosses = 0

----------------------------------------------------------------------------
\* The broker and its other clients.

Publish(m) ==
    /\ publishes < MaxPublishes
    /\ publishes' = publishes + 1
    /\ Enqueue(m)
    /\ UNCHANGED <<vars, proc, handling, stopRequested, acked, crashes, linkLosses>>

MessageExpires == Expire /\ UNCHANGED <<vars, consumerVars>>

MessageDelivered == Deliver /\ UNCHANGED <<vars, consumerVars>>

LinkLost ==
    /\ linkLosses < MaxLinkLosses
    /\ linkLosses' = linkLosses + 1
    /\ LoseLink
    /\ UNCHANGED <<vars, proc, handling, stopRequested, acked, publishes, crashes>>

----------------------------------------------------------------------------
\* on_message, called by start_consuming for the oldest delivery.

\* The main thread is inside start_consuming.
Consuming == proc = "up" /\ phase = "running" /\ pc[Main] = "idle"

\* json.loads and message.get succeed: repository.insert_one is buffer.add.
OnMessage ==
    /\ Consuming
    /\ handling = "none"
    /\ inbox # <<>>
    /\ Head(inbox) \notin Poison
    /\ Add(Head(inbox))
    /\ handling' = "ack"
    /\ UNCHANGED <<brokerVars, proc, stopRequested, acked, publishes, crashes, linkLosses>>

\* Mutant: a message that cannot be parsed is acknowledged.
OnPoisonAcks ==
    /\ Consuming
    /\ handling = "none"
    /\ inbox # <<>>
    /\ Head(inbox) \in Poison
    /\ handling' = "ack"
    /\ UNCHANGED <<vars, brokerVars, proc, stopRequested, acked, publishes, crashes, linkLosses>>

\* They raise: the except block rejects the message.
OnPoison ==
    /\ Consuming
    /\ handling = "none"
    /\ inbox # <<>>
    /\ Head(inbox) \in Poison
    /\ handling' = "nack"
    /\ UNCHANGED <<vars, brokerVars, proc, stopRequested, acked, publishes, crashes, linkLosses>>

\* add() has returned, whatever became of the flush it may have made.
Ack ==
    /\ Consuming
    /\ handling = "ack"
    /\ acked' = acked \cup {Head(inbox)}
    /\ BasicAck
    /\ handling' = "none"
    /\ UNCHANGED <<vars, proc, stopRequested, publishes, crashes, linkLosses>>

\* Mutant: requeue=True.
NackRequeues ==
    /\ Consuming
    /\ handling = "nack"
    /\ inbox' = Tail(inbox)
    /\ QueueBecomes(<<Head(inbox)>> \o queue)
    /\ handling' = "none"
    /\ UNCHANGED <<vars, link, proc, stopRequested, acked, publishes, crashes, linkLosses>>

Nack ==
    /\ Consuming
    /\ handling = "nack"
    /\ BasicNack
    /\ handling' = "none"
    /\ UNCHANGED <<vars, proc, stopRequested, acked, publishes, crashes, linkLosses>>

\* The lost link is noticed: by start_consuming between two callbacks, or in
\* a callback, where basic_ack raises and the basic_nack of the except block
\* raises again.  The exception leaves start() and main() runs its finally
\* block, which begins with buffer.flush().
ConsumingRaises ==
    /\ Consuming
    /\ link = "lost"
    /\ FinalFlush
    /\ handling' = "none"
    /\ UNCHANGED <<brokerVars, proc, stopRequested, acked, publishes, crashes, linkLosses>>

----------------------------------------------------------------------------
\* The rest of the finally block, after buffer.flush().

StopBuffer ==
    /\ proc = "up"
    /\ Stop
    /\ UNCHANGED <<brokerVars, consumerVars>>

CloseConsumer ==
    /\ proc = "up"
    /\ phase = "stopped"
    /\ proc' = "closing"
    /\ Disconnect
    /\ UNCHANGED <<vars, handling, stopRequested, acked, publishes, crashes, linkLosses>>

CloseDb ==
    /\ proc = "closing"
    /\ proc' = "exiting"
    /\ DbClose
    /\ UNCHANGED <<bufferVars, brokerVars, handling, stopRequested, acked,
                   publishes, crashes, linkLosses>>

----------------------------------------------------------------------------
\* The life of the process.

\* Memory and threads are gone.  The server rolls back the open transaction,
\* unless the commit had been sent.
MemoryLost ==
    /\ buffer' = <<>>
    /\ isOverloaded' = FALSE
    /\ flushing' = FALSE
    /\ timer' = NoTimer
    /\ pc' = [t \in Threads |-> "idle"]
    /\ batch' = [t \in Threads |-> <<>>]
    /\ phase' = "stopped"
    /\ accepted' = <<>>
    /\ conn' = "closed"
    /\ txn' = {}
    /\ bronze' \in {bronze, bronze \cup txn}
    /\ UNCHANGED dbFaults

Dies ==
    /\ proc' = "down"
    /\ handling' = "none"
    /\ MemoryLost
    /\ Disconnect

\* main() returns or its exception ends the interpreter; the timer threads are
\* daemons and end with it.
Exit ==
    /\ proc = "exiting"
    /\ Dies
    /\ UNCHANGED <<stopRequested, acked, publishes, crashes, linkLosses>>

\* The process is killed at any point (out of memory, host failure).
Crash ==
    /\ proc # "down"
    /\ crashes < MaxCrashes
    /\ crashes' = crashes + 1
    /\ Dies
    /\ UNCHANGED <<stopRequested, acked, publishes, linkLosses>>

\* docker stop: the handler of SIGTERM sets a flag that nothing reads.
Sigterm ==
    /\ proc # "down"
    /\ ~stopRequested
    /\ stopRequested' = TRUE
    /\ UNCHANGED <<vars, brokerVars, proc, handling, acked, publishes, crashes, linkLosses>>

\* stop_grace_period is over and main() is still consuming: SIGKILL.
GraceOver ==
    /\ stopRequested
    /\ proc = "up" /\ phase = "running"
    /\ Dies
    /\ UNCHANGED <<stopRequested, acked, publishes, crashes, linkLosses>>

\* BatchBuffer.__init__ in the new process (BufferInit, as an action).
NewBuffer ==
    /\ timer' \in Timers
    /\ pc' = [pc EXCEPT ![timer'] = "waiting"]
    /\ phase' = "running"
    /\ UNCHANGED <<buffer, isOverloaded, flushing, batch, accepted>>

\* restart: unless-stopped.
Restart ==
    /\ proc = "down"
    /\ ~stopRequested
    /\ proc' = "up"
    /\ DbConnect
    /\ NewBuffer
    /\ Connect
    /\ UNCHANGED <<handling, stopRequested, acked, publishes, crashes, linkLosses>>

----------------------------------------------------------------------------

TimerStep(t) ==
    /\ TimerFires(t)
    /\ UNCHANGED <<brokerVars, consumerVars>>

ThreadStep(t) ==
    /\ FlushStep(t)
    /\ UNCHANGED <<brokerVars, consumerVars>>

MainStep ==
    \/ OnMessage
    \/ OnPoison
    \/ Ack
    \/ Nack
    \/ ConsumingRaises
    \/ StopBuffer
    \/ CloseConsumer
    \/ CloseDb
    \/ Exit

ConsumerNext ==
    \/ \E m \in Message : Publish(m)
    \/ MessageExpires
    \/ MessageDelivered
    \/ LinkLost
    \/ MainStep
    \/ \E t \in Timers : TimerStep(t)
    \/ \E t \in Threads : ThreadStep(t)
    \/ Crash
    \/ Sigterm
    \/ GraceOver
    \/ Restart

\* The threads run, the broker delivers, docker restarts the process and ends
\* the grace period.  Nothing makes messages arrive or expire, and no failure
\* has to happen.
ConsumerFairness ==
    /\ WF_allVars(MessageDelivered)
    /\ WF_allVars(MainStep)
    /\ \A t \in Timers : WF_allVars(TimerStep(t))
    /\ \A t \in Threads : WF_allVars(ThreadStep(t))
    /\ WF_allVars(GraceOver)
    /\ WF_allVars(Restart)

ConsumerSpec     == ConsumerInit /\ [][ConsumerNext]_allVars
FairConsumerSpec == ConsumerSpec /\ ConsumerFairness

----------------------------------------------------------------------------

\* Everywhere a message can be.
InMemory == Range(buffer) \cup UNION {Range(batch[t]) : t \in Threads}
Held     == Range(queue) \cup Range(inbox) \cup dlq \cup bronze \cup InMemory

\* A message disappears from the system in one way only: the process dies
\* holding it in memory, and it had acknowledged it.  "Consumer crash: manual
\* ACK, unacknowledged messages requeued automatically" (README.md:290), and
\* in every other step, through link losses, expiry, overflow, failed flushes
\* and the shutdown sequence, every message is kept somewhere.
UnackedIsNeverLost ==
    [][\A m \in Held \ Held' : m \in acked /\ m \in InMemory /\ proc' = "down"]_allVars

\* However the process dies and begins again, what it makes durable of the
\* messages it took since it began is in the order in which it took them, so
\* that only the last of them can be lost with it; and it acknowledges none
\* that its buffer has not taken (MortalSink.tla).
Mortal == INSTANCE MortalSink WITH stored <- bronze

ImplementsMortalSink == Mortal!MortalSpec

\* Whatever takes place in the process, a message it cannot parse ends in the
\* dead-letter queue, unless docker stop ends the consumer first.
PoisonReachesDlq ==
    \A m \in Poison : (m \in Range(queue)) ~> (m \in dlq \/ stopRequested)

\* "ACK is sent AFTER the DB insert succeeds", consumer.py:8.
AckImpliesPersisted == acked \subseteq bronze

\* "Flushes remaining buffer to Postgres", main.py:16: with a database that
\* never fails, no acknowledged message is left in memory, and nowhere else,
\* when the connections are closed.
DrainedOnExit ==
    proc = "exiting" /\ dbFaults = 0 => acked \cap InMemory \subseteq bronze

=============================================================================
