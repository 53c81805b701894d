--------------------------- MODULE MCHookDispatch ---------------------------
(* Instances of HookDispatch for TLC. *)
EXTENDS HookDispatch, TLC

Symmetry == Permutations(Threads) \cup Permutations(Sites)
=============================================================================
