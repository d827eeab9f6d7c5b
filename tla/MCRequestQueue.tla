--------------------------- MODULE MCRequestQueue ---------------------------
(* RequestQueue on small instances. *)
EXTENDS RequestQueue

Symmetry == Permutations(Callers) \cup Permutations(BufferHeads)
=============================================================================
