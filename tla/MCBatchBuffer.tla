--------------------------- MODULE MCBatchBuffer ---------------------------
(***************************************************************************)
(* Instances of BatchBuffer for TLC.  Trades and timers are model values;  *)
(* nothing distinguishes one from another, and the safety runs use that.   *)
(***************************************************************************)
EXTENDS BatchBuffer, TLC

\* Swapping trades or timers maps behaviours to behaviours.
Symmetry == Permutations(Message) \cup Permutations(Timers)

============================================================================
