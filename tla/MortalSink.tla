----------------------------- MODULE MortalSink -----------------------------
(***************************************************************************)
(* What the consumer process promises to the queue it reads, when it may   *)
(* die at any instant and begin again with an empty memory: an ordered     *)
(* sink of which one life after the other accepts messages.  A life makes  *)
(* durable what it accepted in the order in which it accepted it, so that  *)
(* what is lost with it are the last messages that it accepted; and it     *)
(* acknowledges nothing that it has not accepted.                          *)
(*                                                                         *)
(* It does not promise that what is acknowledged is durable: what is lost  *)
(* may have been acknowledged.                                             *)
(***************************************************************************)
EXTENDS OrderedSink

VARIABLE acked   \* the messages acknowledged

mortalVars == <<vars, acked>>

MortalInit == Init /\ acked = {}

\* The first messages that this life accepted are durable, and what was before.
StoreMore == \E n \in 0..Len(accepted) : stored' = stored \cup First(n)

Keep ==
    /\ StoreMore
    /\ UNCHANGED <<accepted, acked>>

Acknowledge(m) ==
    /\ m \in First(Len(accepted))
    /\ acked' = acked \cup {m}
    /\ UNCHANGED vars

\* A last transaction may be committed, and the next life begins.
Die ==
    /\ StoreMore
    /\ accepted' = <<>>
    /\ UNCHANGED acked

MortalNext ==
    \/ \E m \in Message : Accept(m) /\ UNCHANGED acked
    \/ \E m \in Message : Acknowledge(m)
    \/ Keep
    \/ Die

MortalSpec == MortalInit /\ [][MortalNext]_mortalVars

=============================================================================
