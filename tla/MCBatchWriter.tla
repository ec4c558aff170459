--------------------------- MODULE MCBatchWriter ---------------------------
(* Instances of BatchWriter for TLC. *)
EXTENDS BatchWriter, TLC

Symmetry == Permutations(Points)
=============================================================================
