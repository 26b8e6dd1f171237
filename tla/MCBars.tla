------------------------------- MODULE MCBars -------------------------------
(* Model checking of Bars: the styles of the runs. *)
EXTENDS Bars

\* Every kind and direction, glyphs of one and of two columns, brackets or
\* none, a divider or none, and the eight dividers of the default bar.
MCStyles ==
  {[kind |-> "bar", left |-> l, unit |-> u, divider |-> d, edges |-> 2, levels |-> 0] :
     l \in BOOLEAN, u \in {1, 2}, d \in {0, 1}}
  \cup {[kind |-> "smooth", left |-> l, unit |-> u, divider |-> 0, edges |-> e, levels |-> n] :
     l \in BOOLEAN, u \in {1, 2}, e \in {0, 1}, n \in {1, 4, 8}}

MCWidths == {0, 3, 7, 12}

\* DefaultSmoothBarOptions.
DefaultSmooth ==
  {[kind |-> "smooth", left |-> FALSE, unit |-> 1, divider |-> 0, edges |-> 0, levels |-> 8]}
=============================================================================
