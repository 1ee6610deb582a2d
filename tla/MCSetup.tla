------------------------------ MODULE MCSetup ------------------------------
(***************************************************************************)
(* Instances of Setup for TLC.                                             *)
(***************************************************************************)
EXTENDS Setup, TLC

\* Operators, runners and trades are interchangeable.
Symmetry ==
    Permutations(Operator) \cup Permutations(Runner \ Operator) \cup Permutations(Trade)

============================================================================
