---------------------------- MODULE MCJustStart ----------------------------
(* Model checking of JustStart, with the FrameFuncs of Frames. *)
EXTENDS JustStart

Symmetry == Permutations(Contexts)
=============================================================================
