--------------------------- MODULE MCWebOperations ---------------------------
(* Instances of WebOperations for TLC. *)
EXTENDS WebOperations, TLC

Symmetry == Permutations(Ops)
=============================================================================
