----------------------------- MODULE MCRegistry -----------------------------
(* Finite instances of Registry. *)
EXTENDS Registry, TLC

Symmetry == Permutations(Workers) \cup Permutations(Names)
=============================================================================
