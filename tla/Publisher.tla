----------------------------- MODULE Publisher -----------------------------
(***************************************************************************)
(* producer/publisher.py: publish() with confirms, three attempts on one   *)
(* channel, and the in-memory retry queue.                                 *)
(*                                                                         *)
(* An attempt is one blocking basic_publish; it is the unit of failure and *)
(* a step of its own.  The channel is opened once, in __init__: after an   *)
(* exception that closed it, every later attempt raises.                   *)
(***************************************************************************)
EXTENDS Naturals, Sequences, Functions

CONSTANTS
    Trade,           \* the trades that arrive, each standing for its trade_id
    MaxAttempts,     \* MAX_ATTEMPTS
    RetryQueueMax,   \* RETRY_QUEUE_MAX
    MaxAmqpFaults    \* bound: returned, rejected or failed publishes

ASSUME PublisherAssumption ==
    /\ MaxAttempts \in Nat \ {0}
    /\ RetryQueueMax \in Nat \ {0}
    /\ MaxAmqpFaults \in Nat

VARIABLES
    channel,      \* "open" or "dead"
    retryQueue,   \* self.retry_queue
    tries,        \* failed attempts of the publish() in progress
    routed,       \* messages the broker has put in the queue
    amqpFaults    \* failures so far

publisherVars == <<channel, retryQueue, tries, routed, amqpFaults>>

PublisherTypeOK ==
    /\ channel \in {"open", "dead"}
    /\ retryQueue \in Seq(Trade) /\ Len(retryQueue) <= RetryQueueMax
    /\ tries \in 0..MaxAttempts
    /\ routed \subseteq Trade
    /\ amqpFaults \in 0..MaxAmqpFaults

PublisherInit ==
    /\ channel = "open"
    /\ retryQueue = <<>>
    /\ tries = 0
    /\ routed = {}
    /\ amqpFaults = 0

\* An attempt is confirmed: publish() returns True.
Confirmed(m) ==
    /\ channel = "open"
    /\ tries < MaxAttempts
    /\ routed' = routed \cup {m}
    /\ tries' = 0
    /\ UNCHANGED <<channel, retryQueue, amqpFaults>>

\* An attempt fails and the broker has not taken the message: the channel was
\* dead; or the broker returns or rejects the message, and the channel stays
\* open; or the connection breaks.
AttemptRefused ==
    /\ tries < MaxAttempts
    /\ tries' = tries + 1
    /\ \/ /\ channel = "dead"
          /\ UNCHANGED <<channel, amqpFaults>>
       \/ /\ channel = "open"
          /\ amqpFaults < MaxAmqpFaults
          /\ amqpFaults' = amqpFaults + 1
          /\ channel' \in {"open", "dead"}
    /\ UNCHANGED <<retryQueue, routed>>

\* The connection breaks after the broker has taken the message.
AttemptUnconfirmed(m) ==
    /\ channel = "open"
    /\ tries < MaxAttempts
    /\ tries' = tries + 1
    /\ amqpFaults < MaxAmqpFaults
    /\ amqpFaults' = amqpFaults + 1
    /\ channel' = "dead"
    /\ routed' = routed \cup {m}
    /\ UNCHANGED retryQueue

AttemptFails(m) == AttemptRefused \/ AttemptUnconfirmed(m)

\* Mutant: deque() without maxlen.
PushedUnbounded(q, m) == Append(q, m)

\* deque(maxlen): the oldest element makes room for a new one.
Pushed(q, m) ==
    IF Len(q) < RetryQueueMax THEN Append(q, m) ELSE Append(Tail(q), m)

\* Mutant: publish() returns False and keeps nothing.
GivesUpForgets(m) ==
    /\ tries = MaxAttempts
    /\ tries' = 0
    /\ UNCHANGED <<channel, retryQueue, routed, amqpFaults>>

\* All attempts failed: publish() returns False.
GivesUp(m) ==
    /\ tries = MaxAttempts
    /\ retryQueue' = Pushed(retryQueue, m)
    /\ tries' = 0
    /\ UNCHANGED <<channel, routed, amqpFaults>>

\* The process ends: what is in memory is gone, what is routed is not.
PublisherEnds ==
    /\ channel' = "dead"
    /\ retryQueue' = <<>>
    /\ tries' = 0
    /\ UNCHANGED <<routed, amqpFaults>>

\* __init__ in a new process.
PublisherStarts ==
    /\ channel' = "open"
    /\ UNCHANGED <<retryQueue, tries, routed, amqpFaults>>

============================================================================
