------------------------------ MODULE MCResize ------------------------------
(* Model checking of Resize, with the width sources of Width. *)
EXTENDS Resize
=============================================================================
