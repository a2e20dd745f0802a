----------------------------- MODULE MCUserPages -----------------------------
(* Instances of UserPages for TLC. *)
EXTENDS UserPages, TLC

Symmetry == Permutations(Workers)
=============================================================================
