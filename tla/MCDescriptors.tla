---------------------------- MODULE MCDescriptors ----------------------------
(* Finite instances of Descriptors. *)
EXTENDS Descriptors, TLC

Symmetry == Permutations(Services)
=============================================================================
