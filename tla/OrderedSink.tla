---------------------------- MODULE OrderedSink ----------------------------
(***************************************************************************)
(* What the consumer's buffer promises to the one who calls add: a sink    *)
(* that makes durable what it accepted, in the order in which it accepted  *)
(* it, some time later and in steps of any size.                           *)
(*                                                                         *)
(* It does not promise that the rest ever becomes durable: with a          *)
(* connection that is never rolled back, batch_buffer.py does not.         *)
(***************************************************************************)
EXTENDS Naturals, Sequences

CONSTANT Message

VARIABLES
    accepted,   \* the messages accepted, in order
    stored      \* the messages that are durable

vars == <<accepted, stored>>

\* The messages among the first n that were accepted.
First(n) == {accepted[i] : i \in 1..n}

Init ==
    /\ accepted = <<>>
    /\ stored = {}

Accept(m) ==
    /\ accepted' = Append(accepted, m)
    /\ UNCHANGED stored

Store ==
    /\ \E n \in 0..Len(accepted) : stored' = First(n)
    /\ stored \subseteq stored'
    /\ UNCHANGED accepted

Next ==
    \/ \E m \in Message : Accept(m)
    \/ Store

Spec == Init /\ [][Next]_vars

============================================================================
