---------------------------- MODULE BatchBuffer ----------------------------
(***************************************************************************)
(* consumer/batch_buffer.py: the buffer between the AMQP callbacks and the *)
(* database, flushed by size (the main thread, inside add) or by time (a   *)
(* one-shot threading.Timer, re-armed at the end of a flush).              *)
(*                                                                         *)
(* Every `with self.lock` block is one atomic step.  Between two of them   *)
(* the thread is at the next program counter and any other thread may run: *)
(*                                                                         *)
(*   flush    about to enter the first critical section of flush()         *)
(*   execute  in insert_batch, at execute_values, outside the lock         *)
(*   commit   in insert_batch, at conn.commit()                            *)
(*   restore  in the except block: put the batch back                      *)
(*   clear    in the finally block: _flushing = False                      *)
(*   reset    in _reset_timer: cancel the timer, start a new one           *)
(*                                                                         *)
(* The main thread is "idle" when it runs code of the caller; a timer      *)
(* thread is "waiting" from start() until it is cancelled or fires, and    *)
(* "idle" when it has returned or was never started.                       *)
(***************************************************************************)
EXTENDS TradeRepository

CONSTANTS
    Main,        \* the thread of consumer/main.py
    Timers,      \* bound: the timer threads that can be alive at a time
    NoTimer,     \* _timer is None
    BatchSize,   \* batch_size
    MaxAdds      \* bound: the length of accepted

ASSUME BatchBufferAssumption ==
    /\ Main \notin Timers
    /\ NoTimer \notin Timers
    /\ BatchSize \in Nat \ {0}
    /\ MaxAdds \in Nat

VARIABLES
    buffer,         \* self.buffer
    isOverloaded,   \* self.is_overloaded
    flushing,       \* self._flushing
    timer,          \* self._timer, the last timer started, or NoTimer
    pc,             \* where each thread is
    batch,          \* the local variable batch of each thread's flush
    phase,          \* how far the owner of the buffer is
    accepted        \* history: the messages passed to add, in order

localVars  == <<pc, batch>>
bufferVars == <<buffer, isOverloaded, flushing, timer, localVars, phase, accepted>>
vars       == <<repoVars, bufferVars>>

Threads == {Main} \cup Timers

\* The states of a thread in which it holds _flushing.
InFlush == {"execute", "commit", "restore", "clear"}

PcState == {"idle", "waiting", "flush", "reset"} \cup InFlush

TypeOK ==
    /\ RepoTypeOK
    /\ buffer \in Seq(Message)
    /\ isOverloaded \in BOOLEAN
    /\ flushing \in BOOLEAN
    /\ timer \in Timers \cup {NoTimer}
    /\ pc \in [Threads -> PcState]
    /\ batch \in [Threads -> Seq(Message)]
    /\ phase \in {"running", "draining", "stopped"}
    /\ accepted \in Seq(Message)

\* __init__: an empty buffer and a timer that is armed.
BufferInit ==
    /\ buffer = <<>>
    /\ isOverloaded = FALSE
    /\ flushing = FALSE
    /\ timer \in Timers
    /\ pc = [t \in Threads |-> IF t = timer THEN "waiting" ELSE "idle"]
    /\ batch = [t \in Threads |-> <<>>]
    /\ phase = "running"
    /\ accepted = <<>>

Init == RepoInit /\ BufferInit

----------------------------------------------------------------------------

Goto(t, loc) == pc' = [pc EXCEPT ![t] = loc]

\* add(m): append and set the overload flag under the lock; then, outside it,
\* flush if the buffer has reached batch_size.
Add(m) ==
    /\ phase = "running"
    /\ pc[Main] = "idle"
    /\ Len(accepted) < MaxAdds
    /\ buffer' = Append(buffer, m)
    /\ accepted' = Append(accepted, m)
    /\ isOverloaded' = (Len(buffer') > 2 * BatchSize)
    /\ Goto(Main, IF Len(buffer') >= BatchSize THEN "flush" ELSE "idle")
    /\ UNCHANGED <<repoVars, flushing, timer, batch, phase>>

\* timeout_s elapses and the timer, not cancelled, calls flush.
\* Bound: it waits for a spare timer, so that _reset_timer always finds one.
TimerFires(t) ==
    /\ pc[t] = "waiting"
    /\ \E u \in Timers : pc[u] = "idle"
    /\ Goto(t, "flush")
    /\ UNCHANGED <<repoVars, buffer, isOverloaded, flushing, timer, batch, phase, accepted>>

\* flush(), the early return: somebody else is flushing, or there is nothing
\* to flush.  It does not pass through the finally block: no timer is armed.
FlushSkip(t) ==
    /\ pc[t] = "flush"
    /\ flushing \/ buffer = <<>>
    /\ Goto(t, "idle")
    /\ UNCHANGED <<repoVars, buffer, isOverloaded, flushing, timer, batch, phase, accepted>>

\* Mutant: _flushing is not tested under the lock.
FlushTakeUntested(t) ==
    /\ pc[t] = "flush"
    /\ buffer # <<>>
    /\ flushing' = TRUE
    /\ batch' = [batch EXCEPT ![t] = buffer]
    /\ buffer' = <<>>
    /\ isOverloaded' = FALSE
    /\ Goto(t, "execute")
    /\ UNCHANGED <<repoVars, timer, phase, accepted>>

\* Mutant: _flushing is tested but never set.
FlushTakeUnmarked(t) ==
    /\ pc[t] = "flush"
    /\ ~flushing
    /\ buffer # <<>>
    /\ batch' = [batch EXCEPT ![t] = buffer]
    /\ buffer' = <<>>
    /\ isOverloaded' = FALSE
    /\ Goto(t, "execute")
    /\ UNCHANGED <<repoVars, flushing, timer, phase, accepted>>

\* Mutant: the overload flag outlives the buffer it described.
FlushTakeStaleFlag(t) ==
    /\ pc[t] = "flush"
    /\ ~flushing
    /\ buffer # <<>>
    /\ flushing' = TRUE
    /\ batch' = [batch EXCEPT ![t] = buffer]
    /\ buffer' = <<>>
    /\ Goto(t, "execute")
    /\ UNCHANGED <<repoVars, isOverloaded, timer, phase, accepted>>

\* flush(), the first critical section: take the whole buffer.
FlushTake(t) ==
    /\ pc[t] = "flush"
    /\ ~flushing
    /\ buffer # <<>>
    /\ flushing' = TRUE
    /\ batch' = [batch EXCEPT ![t] = buffer]
    /\ buffer' = <<>>
    /\ isOverloaded' = FALSE
    /\ Goto(t, "execute")
    /\ UNCHANGED <<repoVars, timer, phase, accepted>>

\* insert_batch, the statement.
InsertExecutes(t) ==
    /\ pc[t] = "execute"
    /\ ExecuteValues(Range(batch[t]))
    /\ Goto(t, "commit")
    /\ UNCHANGED <<buffer, isOverloaded, flushing, timer, batch, phase, accepted>>

\* Mutant: conn.commit() is forgotten.
InsertUncommitted(t) ==
    /\ pc[t] = "commit"
    /\ batch' = [batch EXCEPT ![t] = <<>>]
    /\ Goto(t, "clear")
    /\ UNCHANGED <<repoVars, buffer, isOverloaded, flushing, timer, phase, accepted>>

\* insert_batch, the commit, and the return to flush().
InsertCommits(t) ==
    /\ pc[t] = "commit"
    /\ Commit
    /\ batch' = [batch EXCEPT ![t] = <<>>]
    /\ Goto(t, "clear")
    /\ UNCHANGED <<buffer, isOverloaded, flushing, timer, phase, accepted>>

\* insert_batch raises, from either of its calls.
InsertRaises(t) ==
    /\ \/ pc[t] = "execute" /\ ExecuteRaises
       \/ pc[t] = "commit" /\ CommitRaises
    /\ Goto(t, "restore")
    /\ UNCHANGED <<buffer, isOverloaded, flushing, timer, batch, phase, accepted>>

\* Mutant: the batch is returned as one element, self.buffer.insert(0, batch).
RestoreNested(t) ==
    /\ pc[t] = "restore"
    /\ buffer' = <<batch[t]>> \o buffer
    /\ batch' = [batch EXCEPT ![t] = <<>>]
    /\ Goto(t, "clear")
    /\ UNCHANGED <<repoVars, isOverloaded, flushing, timer, phase, accepted>>

\* Mutant: the batch is returned to the back, self.buffer += batch.
RestoreToBack(t) ==
    /\ pc[t] = "restore"
    /\ buffer' = buffer \o batch[t]
    /\ batch' = [batch EXCEPT ![t] = <<>>]
    /\ Goto(t, "clear")
    /\ UNCHANGED <<repoVars, isOverloaded, flushing, timer, phase, accepted>>

\* flush(), the except block.
Restore(t) ==
    /\ pc[t] = "restore"
    /\ buffer' = batch[t] \o buffer
    /\ batch' = [batch EXCEPT ![t] = <<>>]
    /\ Goto(t, "clear")
    /\ UNCHANGED <<repoVars, isOverloaded, flushing, timer, phase, accepted>>

\* flush(), the critical section of the finally block.
Clear(t) ==
    /\ pc[t] = "clear"
    /\ flushing' = FALSE
    /\ Goto(t, "reset")
    /\ UNCHANGED <<repoVars, buffer, isOverloaded, timer, batch, phase, accepted>>

\* Where the threads are after self._timer.cancel(), which stops a timer that
\* is still waiting and has no effect on one that has fired.
TimerCancelled ==
    [t \in Threads |-> IF t = timer /\ pc[t] = "waiting" THEN "idle" ELSE pc[t]]

\* Mutant: the timer that is armed is not cancelled.
ResetTimerUncancelled(t) ==
    /\ pc[t] = "reset"
    /\ \E u \in Timers :
         /\ pc[u] = "idle"
         /\ timer' = u
         /\ pc' = [pc EXCEPT ![t] = "idle", ![u] = "waiting"]
    /\ UNCHANGED <<repoVars, buffer, isOverloaded, flushing, batch, phase, accepted>>

\* Mutant: the timer is cancelled and no other is started.
ResetTimerUnarmed(t) ==
    /\ pc[t] = "reset"
    /\ timer' = NoTimer
    /\ pc' = [TimerCancelled EXCEPT ![t] = "idle"]
    /\ UNCHANGED <<repoVars, buffer, isOverloaded, flushing, batch, phase, accepted>>

\* _reset_timer(): whether stop() was called or not, a new timer is armed.
ResetTimer(t) ==
    /\ pc[t] = "reset"
    /\ \E u \in Timers :
         /\ TimerCancelled[u] = "idle"
         /\ timer' = u
         /\ pc' = [TimerCancelled EXCEPT ![t] = "idle", ![u] = "waiting"]
    /\ UNCHANGED <<repoVars, buffer, isOverloaded, flushing, batch, phase, accepted>>

\* The owner stops adding and makes its final flush().
FinalFlush ==
    /\ phase = "running"
    /\ pc[Main] = "idle"
    /\ phase' = "draining"
    /\ Goto(Main, "flush")
    /\ UNCHANGED <<repoVars, buffer, isOverloaded, flushing, timer, batch, accepted>>

\* stop(), called when the final flush has returned.
Stop ==
    /\ phase = "draining"
    /\ pc[Main] = "idle"
    /\ phase' = "stopped"
    /\ pc' = TimerCancelled
    /\ timer' = NoTimer
    /\ UNCHANGED <<repoVars, buffer, isOverloaded, flushing, batch, accepted>>

----------------------------------------------------------------------------

\* One step of a thread inside flush().
FlushStep(t) ==
    \/ FlushSkip(t)
    \/ FlushTake(t)
    \/ InsertExecutes(t)
    \/ InsertCommits(t)
    \/ InsertRaises(t)
    \/ Restore(t)
    \/ Clear(t)
    \/ ResetTimer(t)

Next ==
    \/ \E m \in Message : Add(m)
    \/ \E t \in Timers : TimerFires(t)
    \/ \E t \in Threads : FlushStep(t)
    \/ FinalFlush
    \/ Stop

\* The operating system runs every thread that can run, the clock makes every
\* armed timer expire, every call on the connection returns or raises, and
\* main.py goes from flush() to stop().  Nothing makes messages arrive, and
\* nothing makes the owner shut down.
Fairness ==
    /\ \A t \in Timers : WF_vars(TimerFires(t))
    /\ \A t \in Threads : WF_vars(FlushStep(t))
    /\ WF_vars(Stop)

Spec     == Init /\ [][Next]_vars
FairSpec == Spec /\ Fairness

----------------------------------------------------------------------------

\* Two flushes never overlap: the flag _flushing is up exactly while one
\* thread, and one only, is between taking a batch and the finally block
\* ("prevents a double-flush race condition", batch_buffer.py).  The two
\* threads share one connection and one transaction, so an overlap would
\* commit or lose the rows of the other flush.
OneFlushAtATime ==
    /\ flushing <=> \E t \in Threads : pc[t] \in InFlush
    /\ \A t, u \in Threads : pc[t] \in InFlush /\ pc[u] \in InFlush => t = u

\* The rows of the open transaction are the rows of the batch whose commit is
\* pending, whatever happened to the connection before: a flush never commits
\* rows that another flush left behind.
TransactionIsOneBatch ==
    /\ txn # {} => \E t \in Threads : pc[t] = "commit"
    /\ \A t \in Threads : pc[t] = "commit" =>
         \/ conn = "intrans" /\ txn = Range(batch[t])
         \/ conn = "closed" /\ txn = {}

\* At most one timer is armed, and it is the one stop() and _reset_timer would
\* cancel: no timer is forgotten, by whatever interleaving of resets.
ArmedTimerIsKnown == \A t \in Timers : pc[t] = "waiting" => timer = t

\* is_overloaded is never a false alarm: it is up only while the buffer really
\* holds more than 2 * batch_size messages.
OverloadIsReal == isOverloaded => Len(buffer) > 2 * BatchSize

\* The batch being flushed followed by the buffer is the tail of what was
\* accepted, in the order of arrival, and everything before that tail is in
\* the table.  This is "the batch is returned to the front ... no data is
\* lost" under every interleaving of failures, adds and flushes.
EndsWith(s, tail) ==
    /\ Len(tail) <= Len(s)
    /\ \A i \in 1..Len(tail) : tail[i] = s[Len(s) - Len(tail) + i]

Unsettled(t) == batch[t] \o buffer

NothingLost ==
    /\ \A t \in Threads : EndsWith(accepted, Unsettled(t))
    /\ \A i \in 1..Len(accepted) :
         \/ accepted[i] \in bronze
         \/ \E t \in Threads : i > Len(accepted) - Len(Unsettled(t))

\* The table is always the content of a prefix of what was accepted, and it
\* only grows: a later message is never durable while an earlier one is not,
\* whichever flush failed in between (OrderedSink.tla).
Sink == INSTANCE OrderedSink WITH stored <- bronze

ImplementsOrderedSink == Sink!Spec

\* "Size: when buffer reaches batch_size", batch_buffer.py:46: until stop(), a
\* full buffer is never left alone, though add() flushes it only once and that
\* flush may find another in progress, or fail and put its batch back.
FullIsAttended ==
    Len(buffer) >= BatchSize /\ phase # "stopped" => \E t \in Threads : pc[t] # "idle"

\* While the buffer runs, a message in it is taken by a flush as long as some
\* thread is active or a timer is armed: neither a flush that finds another in
\* progress nor a failed insert leaves it behind.
FlushFollows ==
    (buffer # <<>> /\ \E t \in Threads : pc[t] # "idle")
        ~> (buffer = <<>> \/ phase # "running")

\* "Time: when timeout_ms elapses since last flush", batch_buffer.py:47: a
\* buffered message is flushed in the end, whether more messages come or not.
TimeoutFlushes == (buffer # <<>>) ~> (buffer = <<>> \/ phase # "running")

\* "returned to the front of the buffer so it will be retried on the next
\* flush", batch_buffer.py:92-93: if flushes are attempted again and again, an
\* accepted message reaches the table.
RetrySucceeds ==
    ([](phase = "running") /\ []<>(\E t \in Threads : pc[t] = "execute"))
        => \A m \in Message : (m \in Range(accepted)) ~> (m \in bronze)

============================================================================
