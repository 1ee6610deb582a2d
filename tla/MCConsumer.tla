----------------------------- MODULE MCConsumer -----------------------------
(***************************************************************************)
(* Instances of Consumer for TLC: model values for trades and timers, and  *)
(* small budgets of failures.                                              *)
(***************************************************************************)
EXTENDS Consumer, TLC

\* Timers are interchangeable, and so are the trades that can be parsed.
Symmetry == Permutations(Message \ Poison) \cup Permutations(Timers)

=============================================================================
