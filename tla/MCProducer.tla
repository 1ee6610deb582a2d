----------------------------- MODULE MCProducer -----------------------------
(***************************************************************************)
(* Instances of Producer for TLC.                                          *)
(***************************************************************************)
EXTENDS Producer

\* Every frame of one or two trades.
ShortFrames == UNION {[1..n -> Trade] : n \in 1..2}

=============================================================================
