------------------------------ MODULE MCMemory ------------------------------
(* Memory, for three tasks. *)
EXTENDS Memory, TLC

Symmetry == Permutations(Tasks)
=============================================================================
