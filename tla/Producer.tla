------------------------------ MODULE Producer ------------------------------
(***************************************************************************)
(* The producer process, producer/main.py: one coroutine that connects to  *)
(* Coinbase, takes frames from the websocket, validates the trades of a    *)
(* frame and publishes them one by one; reconnects with exponential        *)
(* backoff; and on SIGTERM leaves the loop, waits for the retry queue and  *)
(* exits.  The coroutine is at one of these places:                        *)
(*                                                                         *)
(*   connecting  in client.connect or client.subscribe                     *)
(*   listening   waiting for the next frame                                *)
(*   frame       handling the trades of a frame, the first of them now     *)
(*   backoff     in asyncio.sleep(delay), in the except block              *)
(*   draining    in _drain_retry_queue                                     *)
(*   exited      the process has ended                                     *)
(*                                                                         *)
(* Time is counted where the code counts on it: the seconds slept since    *)
(* the last successful connection, and those that pass after SIGTERM.      *)
(***************************************************************************)
EXTENDS Publisher

CONSTANTS
    Invalid,               \* trades that raise ValidationError
    Odd,                   \* trades that raise anything else (side = null)
    Frames,                \* the market_trades frames, sequences of trades (a
                           \* malformed frame is one of a single odd trade)
    MaxReconnectAttempts,  \* MAX_RECONNECT_ATTEMPTS
    DrainTimeout,          \* DRAIN_TIMEOUT_SECONDS
    MaxDelay,              \* max_delay of exponential_backoff, base being 1
    MaxFrames,             \* bound: frames handled
    MaxSockets             \* bound: websockets open

ASSUME ProducerAssumption ==
    /\ Invalid \subseteq Trade /\ Odd \subseteq Trade
    /\ Invalid \cap Odd = {}
    /\ Frames \subseteq Seq(Trade) \ {<<>>}
    /\ MaxReconnectAttempts \in Nat \ {0}
    /\ {DrainTimeout, MaxDelay, MaxFrames, MaxSockets} \subseteq Nat

\* No prover knows that a power of a natural number is one; TLC does.
ASSUME PowerAssumption == \A n \in 0..MaxReconnectAttempts : 2^n \in Nat

VARIABLES
    loc,        \* where the coroutine is
    attempt,    \* attempt
    frame,      \* the trades of the frame that are not handled yet
    sockets,    \* websockets that are open, the current one included
    shutdown,   \* _shutdown_requested
    slept,      \* history: the sleeps since the last connection, in seconds
    waited,     \* history: seconds since SIGTERM, as far as the code sleeps
    frames      \* counter for MaxFrames

streamVars   == <<loc, attempt, frame, sockets, shutdown, slept, waited, frames>>
producerVars == <<publisherVars, streamVars>>

\* producer/utils.py: exponential_backoff.
Backoff(n) == IF 2^n < MaxDelay THEN 2^n ELSE MaxDelay

ProducerTypeOK ==
    /\ PublisherTypeOK
    /\ loc \in {"connecting", "listening", "frame", "backoff", "draining", "exited"}
    /\ attempt \in 0..MaxReconnectAttempts
    /\ frame \in Seq(Trade)
    /\ sockets \in 0..MaxSockets
    /\ shutdown \in BOOLEAN
    /\ slept \in Seq(Nat) /\ waited \in Nat
    /\ frames \in 0..MaxFrames
    /\ loc = "frame" <=> frame # <<>>
    /\ tries > 0 => loc = "frame"

ProducerInit ==
    /\ PublisherInit
    /\ loc = "connecting"
    /\ attempt = 0
    /\ frame = <<>>
    /\ sockets = 0
    /\ shutdown = FALSE
    /\ slept = <<>> /\ waited = 0 /\ frames = 0

----------------------------------------------------------------------------

\* Mutant: while True.
LoopHeadForever == "connecting"

\* while not _shutdown_requested
LoopHead == IF shutdown THEN "draining" ELSE "connecting"

\* The first lines of the except block: leave the loop, or sleep.
ExceptBlock == IF shutdown THEN "draining" ELSE "backoff"

\* The coroutine holds a websocket from connect() to the next iteration.
Current == IF loc \in {"listening", "frame"} THEN 1 ELSE 0

\* Mutant: attempt = 0 is missing.
ConnectsUnreset ==
    /\ loc = "connecting"
    /\ sockets < MaxSockets
    /\ sockets' = sockets + 1
    /\ loc' = "listening"
    /\ slept' = <<>>
    /\ UNCHANGED <<publisherVars, attempt, frame, shutdown, waited, frames>>

Connects ==
    /\ loc = "connecting"
    /\ sockets < MaxSockets
    /\ sockets' = sockets + 1
    /\ loc' = "listening"
    /\ attempt' = 0
    /\ slept' = <<>>
    /\ UNCHANGED <<publisherVars, frame, shutdown, waited, frames>>

\* connect or subscribe raises; no websocket is left open.
ConnectFails ==
    /\ loc = "connecting"
    /\ loc' = ExceptBlock
    /\ UNCHANGED <<publisherVars, attempt, frame, sockets, shutdown, slept, waited, frames>>

\* A frame of the channel market_trades, or, after SIGTERM, a frame of any
\* channel: the flag is looked at first, and the loop is left with the
\* websocket open.  Other frames before SIGTERM change nothing.
FrameArrives ==
    /\ loc = "listening"
    /\ IF shutdown
       THEN /\ loc' = LoopHead
            /\ UNCHANGED <<frame, frames>>
       ELSE /\ frames < MaxFrames
            /\ frames' = frames + 1
            /\ frame' \in Frames
            /\ loc' = "frame"
    /\ UNCHANGED <<publisherVars, attempt, sockets, shutdown, slept, waited>>

\* Coinbase closes the stream cleanly: the iteration ends, no backoff.
StreamEnds ==
    /\ loc = "listening"
    /\ sockets' = sockets - 1
    /\ loc' = LoopHead
    /\ UNCHANGED <<publisherVars, attempt, frame, shutdown, slept, waited, frames>>

\* The connection drops: the iteration raises.
StreamBreaks ==
    /\ loc = "listening"
    /\ sockets' = sockets - 1
    /\ loc' = ExceptBlock
    /\ UNCHANGED <<publisherVars, attempt, frame, shutdown, slept, waited, frames>>

\* A websocket that nobody reads any more is closed by its keepalive timeout.
LeakedSocketCloses ==
    /\ loc # "exited"
    /\ sockets > Current
    /\ sockets' = sockets - 1
    /\ UNCHANGED <<publisherVars, loc, attempt, frame, shutdown, slept, waited, frames>>

----------------------------------------------------------------------------
\* The trades of a frame.

Handling(kind) == loc = "frame" /\ Head(frame) \in kind

\* The first trade of the frame is done with.
NextTrade ==
    /\ frame' = Tail(frame)
    /\ loc' = IF Len(frame) = 1 THEN "listening" ELSE "frame"
    /\ UNCHANGED <<attempt, sockets, shutdown, slept, waited, frames>>

Clean == Trade \ (Invalid \cup Odd)

\* ValidationError: the message is skipped.
SkipInvalid ==
    /\ Handling(Invalid)
    /\ NextTrade
    /\ UNCHANGED publisherVars

\* Any other exception leaves the whole frame and reaches the except block;
\* the websocket is left open.
FrameAborts ==
    /\ Handling(Odd)
    /\ frame' = <<>>
    /\ loc' = ExceptBlock
    /\ UNCHANGED <<publisherVars, attempt, sockets, shutdown, slept, waited, frames>>

PublishConfirmed ==
    /\ Handling(Clean)
    /\ Confirmed(Head(frame))
    /\ NextTrade

PublishAttemptFails ==
    /\ Handling(Clean)
    /\ AttemptFails(Head(frame))
    /\ UNCHANGED streamVars

PublishGivesUp ==
    /\ Handling(Clean)
    /\ GivesUp(Head(frame))
    /\ NextTrade

----------------------------------------------------------------------------
\* Backoff and shutdown.

\* Mutant: the flag is not looked at when the sleep is over.
WakeIgnoresFlag ==
    /\ loc = "backoff"
    /\ attempt' = attempt + 1
    /\ slept' = Append(slept, Backoff(attempt))
    /\ waited' = IF shutdown THEN waited + Backoff(attempt) ELSE waited
    /\ loc' = IF attempt + 1 >= MaxReconnectAttempts THEN "draining" ELSE "backoff"
    /\ UNCHANGED <<publisherVars, frame, sockets, shutdown, frames>>

\* The sleep is over; the signal, if it came, came when it began (a signal
\* that comes when it ends is a Sigterm after this step).
Wake ==
    /\ loc = "backoff"
    /\ attempt' = attempt + 1
    /\ slept' = Append(slept, Backoff(attempt))
    /\ waited' = IF shutdown THEN waited + Backoff(attempt) ELSE waited
    /\ loc' = IF attempt + 1 >= MaxReconnectAttempts THEN "draining" ELSE LoopHead
    /\ UNCHANGED <<publisherVars, frame, sockets, shutdown, frames>>

Sigterm ==
    /\ loc # "exited"
    /\ ~shutdown
    /\ shutdown' = TRUE
    /\ UNCHANGED <<publisherVars, loc, attempt, frame, sockets, slept, waited, frames>>

\* The memory of the process is gone.
Ends ==
    /\ loc' = "exited"
    /\ attempt' = 0
    /\ frame' = <<>>
    /\ sockets' = 0
    /\ slept' = <<>>
    /\ PublisherEnds
    /\ UNCHANGED <<shutdown, frames>>

\* _drain_retry_queue returns at once if there is nothing to wait for, and
\* otherwise after the timeout: nothing publishes from the queue or removes
\* from it.  Then publisher.close(), and the process exits.
DrainAndExit ==
    /\ loc = "draining"
    /\ waited' = IF shutdown /\ retryQueue # <<>> THEN waited + DrainTimeout ELSE waited
    /\ Ends

\* The process is killed.
Crash ==
    /\ loc # "exited"
    /\ UNCHANGED waited
    /\ Ends

\* restart: unless-stopped.
Restart ==
    /\ loc = "exited"
    /\ ~shutdown
    /\ loc' = "connecting"
    /\ PublisherStarts
    /\ UNCHANGED <<attempt, frame, sockets, shutdown, slept, waited, frames>>

----------------------------------------------------------------------------

StreamStep ==
    \/ Connects
    \/ ConnectFails
    \/ FrameArrives
    \/ StreamEnds
    \/ StreamBreaks

TradeStep ==
    \/ SkipInvalid
    \/ FrameAborts
    \/ PublishConfirmed
    \/ PublishAttemptFails
    \/ PublishGivesUp

ProducerNext ==
    \/ StreamStep
    \/ TradeStep
    \/ LeakedSocketCloses
    \/ Wake
    \/ Sigterm
    \/ DrainAndExit
    \/ Crash
    \/ Restart

\* Every await and every blocking call returns; a stream that is open brings
\* another frame or ends (Coinbase sends market_trades all the time); docker
\* restarts the process.  Nobody has to stop it.
ProducerFairness ==
    /\ WF_producerVars(StreamStep)
    /\ WF_producerVars(TradeStep)
    /\ WF_producerVars(Wake)
    /\ WF_producerVars(LeakedSocketCloses)
    /\ WF_producerVars(DrainAndExit)
    /\ WF_producerVars(Restart)

ProducerSpec     == ProducerInit /\ [][ProducerNext]_producerVars
FairProducerSpec == ProducerSpec /\ ProducerFairness

----------------------------------------------------------------------------

\* The clean trades the producer is answerable for.
InHand == (Range(frame) \cup Range(retryQueue) \cup routed) \cap Clean

\* A clean trade that was taken from the websocket is lost in three ways only:
\* it is the oldest of a retry queue that is full, the frame it is in is
\* abandoned because of another trade, or the process ends.
LossIsKnown ==
    [][\A t \in InHand \ InHand' :
         \/ loc' = "exited"
         \/ Len(retryQueue) = RetryQueueMax /\ t = Head(retryQueue)
         \/ loc = "frame" /\ Head(frame) \in Odd]_producerVars

\* The producer gives up only after a connection outage through which it
\* slept the whole ladder of backoffs, in this order, whatever connections
\* succeeded before.
Ladder(n) == [i \in 1..n |-> Backoff(i - 1)]

OutlastsOutage ==
    loc = "draining" /\ ~shutdown => slept = Ladder(MaxReconnectAttempts)

\* After SIGTERM the process exits, whatever the state of the broker, of the
\* websocket and of the retry queue.
SigtermEndsProducer == shutdown ~> loc = "exited"

\* SIGTERM costs the process at most one backoff and one drain window: it
\* never begins another sleep.  (The grace period of docker is 35 s, main.py:21
\* and docker-compose.yml; the bound with the real constants is 90 s.)
ShutdownBound == waited <= MaxDelay + DrainTimeout

\* "Either confirmed delivered (ACK) or explicitly retried. No silent data
\* loss", publisher.py:5-6: a clean trade stays in hand while the process runs.
NoSilentLoss == [][\A t \in InHand \ InHand' : loc' = "exited"]_producerVars

=============================================================================
