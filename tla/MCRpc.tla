-------------------------------- MODULE MCRpc --------------------------------
(* Finite instances of Rpc. *)
EXTENDS Rpc, TLC

Symmetry == Permutations(Coroutines) \cup Permutations(Services)
=============================================================================
