---------------------------- MODULE MCLakehouse ----------------------------
(***************************************************************************)
(* Instances of Lakehouse for TLC.                                         *)
(***************************************************************************)
EXTENDS Lakehouse, TLC

\* No run of the DAG is told from another.
Symmetry == Permutations(DagRun)

=============================================================================
