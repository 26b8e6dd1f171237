------------------------------ MODULE MCSwaps ------------------------------
(* Model checking of Swaps, as MCActor does of Actor. *)
EXTENDS Swaps, TLC

Symmetry == Permutations(Clients) \cup Permutations(Fetchers) \cup Permutations(Funcs)
=============================================================================
