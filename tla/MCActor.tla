------------------------------ MODULE MCActor ------------------------------
(* Model checking of Actor: the goroutines are model values. *)
EXTENDS Actor, TLC

\* Clients, fetch goroutines and FrameFuncs are interchangeable.
Symmetry == Permutations(Clients) \cup Permutations(Fetchers) \cup Permutations(Funcs)
=============================================================================
