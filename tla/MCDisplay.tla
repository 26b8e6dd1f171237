----------------------------- MODULE MCDisplay -----------------------------
(* Model checking of Display. *)
EXTENDS Display, TLC

\* The texts of frames are only compared.
Symmetry == Permutations(Frames)
=============================================================================
