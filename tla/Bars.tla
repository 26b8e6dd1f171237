-------------------------------- MODULE Bars --------------------------------
(***************************************************************************)
(* A progress bar as a FrameFunc: Progress (frame.go) over a DynamicRender *)
(* of BarRender or SmoothBarRender joined with PercentRender and           *)
(* FractRender (progress-render.go).  The width of the terminal changes    *)
(* between calls; each call reads a (current, total) and rebuilds the      *)
(* renderer when the width is not the one it was built for.                *)
(*                                                                         *)
(* A cell is a number: Empty, the level of a sub-cell divider, or Full.    *)
(* The code computes in float64; FloorOfProduct is what that gives for     *)
(* whole numbers up to Largest.  That bounds the totals and the widths,    *)
(* and with them what is proved: the code takes any int, and float64 does  *)
(* not hold every int above 2^53, so that 2^54 - 1 of 2^54 is drawn there  *)
(* as a full bar and 100%.                                                 *)
(***************************************************************************)
EXTENDS Integers, FiniteSets, Sequences, SequencesExt

CONSTANTS Styles,   \* options of the bar: see StyleType
          Widths,   \* what getWidth may report
          Totals    \* totals of the readings

StyleType ==
  [kind : {"bar", "smooth"},
   left : BOOLEAN,      \* Direction
   unit : {1, 2},       \* columns of the Full, Empty and Dividers glyphs
   divider : Nat,       \* columns of BarRender's Divider
   edges : Nat,         \* columns of Start and End together
   levels : 0 .. 8]     \* how many Dividers SmoothBarRender has

\* Up to here FloorOfProduct is exact and Digits counts every digit.
Largest == 9999

ASSUME StylesAssumption == Styles \subseteq StyleType
ASSUME WidthsAssumption == \A w \in Widths : w \in Int /\ w <= Largest
ASSUME TotalsAssumption == Totals \subseteq 0 .. Largest

Empty   == 0
Full    == 8      \* above the level of any divider
Divider == -1     \* BarRender's Divider

VARIABLES style, width, builtFor, shown, result
vars == <<style, width, builtFor, shown, result>>

-----------------------------------------------------------------------------
(* float64: int(a * (n / t)) for a, n and t up to Largest, each operation  *)
(* rounded to nearest.  Only a product that is a whole number k can come   *)
(* out wrong: when n / t was rounded down, a * (n / t) falls short of k,   *)
(* and by more than half the distance from k to the float before it, it    *)
(* truncates to k - 1.  A quotient that is whole is exact.                 *)

\* 2^e <= n / t, for any sign of e.
AtLeastPow2(n, t, e) == IF e >= 0 THEN n >= t * 2^e ELSE n * 2^(-e) >= t

\* The e with 2^e <= n / t < 2^(e + 1).
Exponent(n, t) ==
  CHOOSE e \in -14 .. 14 : AtLeastPow2(n, t, e) /\ ~AtLeastPow2(n, t, e + 1)

\* (n * 2^e) % t, within 32 bits.
ShiftedMod(n, t, e) ==
  LET rest[i \in 0 .. e] == IF i = 0 THEN n % t ELSE (2 * rest[i - 1]) % t
  IN rest[e]

FloorOfProduct(a, n, t) ==
  LET k    == (a * n) \div t
      lost == ShiftedMod(n, t, 52 - Exponent(n, t))   \* what n / t loses, in t-ths of an ulp
      log  == Exponent(k, 1)
      half == log - 1 - Exponent(n, t) - (IF k = 2^log THEN 1 ELSE 0)
  IN IF /\ k # 0 /\ (a * n) % t = 0 /\ n % t # 0
        /\ lost # 0 /\ 2 * lost < t
        /\ a * lost > t * 2^half
       THEN k - 1
       ELSE k

-----------------------------------------------------------------------------
(* The renderers. *)

Repeat(cell, n) == [i \in 1 .. n |-> cell]

\* SmoothBarRender with fewer than two dividers is a BarRender without one.
Plain(s) == s.kind = "bar" \/ s.levels < 2
DividerColumns(s) == IF s.kind = "bar" THEN s.divider ELSE 0

\* The columns left for the bar itself, the cells they hold, and whether the
\* constructor gives a renderer at all (or NoopRender).
Inner(s, w)   == w - s.edges - (IF Plain(s) THEN DividerColumns(s) ELSE 0)
Cells(s, w)   == Inner(s, w) \div s.unit
Renders(s, w) == Inner(s, w) > 0 /\ s.unit <= Inner(s, w)

\* scaledDone, rounded up instead of truncated.
DoneUp(s, w, c, t) == (Inner(s, w) * c + t * s.unit - 1) \div (t * s.unit)

\* scaledDone: the cells that are full.
Done(s, w, c, t) == FloorOfProduct(c, Inner(s, w), t) \div s.unit

\* PlainBar, without the Divider that follows the last cell.
PlainBarOpen(s, w, c, t) ==
  LET cells == Cells(s, w)
      done  == Done(s, w, c, t)
      at    == IF s.left THEN cells - done ELSE done
  IN Repeat(IF s.left THEN Empty ELSE Full, at)
       \o (IF at = cells THEN <<>> ELSE <<Divider>>)
       \o Repeat(IF s.left THEN Full ELSE Empty, cells - at)

\* BarRender: the Divider stands between the two parts.
PlainBar(s, w, c, t) ==
  LET cells == Cells(s, w)
      done  == Done(s, w, c, t)
      at    == IF s.left THEN cells - done ELSE done
  IN Repeat(IF s.left THEN Empty ELSE Full, at) \o <<Divider>>
       \o Repeat(IF s.left THEN Full ELSE Empty, cells - at)

\* Levels, with the Dividers in the other order for Left.
LevelsTurned(s, w, c, t) ==
  LET part == s.levels * (c * Inner(s, w) - Done(s, w, c, t) * t * s.unit)
      lvl  == part \div (t * s.unit)
      low  == IF lvl < s.levels THEN lvl ELSE s.levels - 1
  IN {IF s.left THEN s.levels - 1 - low ELSE low}

\* divIdx.  When the part of the cell that is done is a whole number of
\* levels the rounding of three float operations decides between two.
Levels(s, w, c, t) ==
  LET part  == s.levels * (c * Inner(s, w) - Done(s, w, c, t) * t * s.unit)
      exact == part \div (t * s.unit)
      below == IF part % (t * s.unit) = 0 /\ part > 0 THEN {exact - 1} ELSE {}
  IN IF c = t THEN {s.levels - 1}
     ELSE {IF lvl < s.levels THEN lvl ELSE s.levels - 1 : lvl \in {exact} \cup below}

\* SmoothBar, where Left does not step over the divider's own cell.
SmoothBarShifted(s, w, c, t, level) ==
  LET done == Done(s, w, c, t)
      at   == IF s.left THEN Cells(s, w) - done ELSE done
  IN [i \in 1 .. Cells(s, w) |->
        IF i <= at THEN IF s.left THEN Empty ELSE Full
        ELSE IF i = at + 1 THEN level
        ELSE IF s.left THEN Full ELSE Empty]

\* SmoothBarRender: the divider takes the place of the cell at the boundary.
SmoothBar(s, w, c, t, level) ==
  LET done == Done(s, w, c, t)
      at   == IF s.left THEN Cells(s, w) - done - 1 ELSE done
  IN [i \in 1 .. Cells(s, w) |->
        IF i <= at THEN IF s.left THEN Empty ELSE Full
        ELSE IF i = at + 1 THEN level
        ELSE IF s.left THEN Full ELSE Empty]

\* The bars a renderer built for width w may draw.
Bar(s, w, c, t) ==
  IF ~Renders(s, w) THEN {<<>>}
  ELSE IF Plain(s) THEN {PlainBar(s, w, c, t)}
  ELSE {SmoothBar(s, w, c, t, level) : level \in Levels(s, w, c, t)}

\* PercentRender rounding to the nearest percent.
PercentNearest(c, t) == (200 * c + t) \div (2 * t)

Percent(c, t) == FloorOfProduct(100, c, t)

\* The digits of a number up to Largest.
Digits(n) == IF n < 10 THEN 1 ELSE IF n < 100 THEN 2 ELSE IF n < 1000 THEN 3 ELSE 4

\* PercentRender and FractRender: the columns of "padding percent %" and of
\* "padding current / total".
PercentColumns(c, t) ==
  LET p == Percent(c, t)
  IN (IF p < 100 THEN 1 ELSE 0) + (IF p < 10 THEN 1 ELSE 0) + Digits(p) + 1

FractColumns(c, t) ==
  LET padding == IF Digits(t) > Digits(c) THEN Digits(t) - Digits(c) ELSE 0
  IN padding + Digits(c) + 1 + Digits(t)

-----------------------------------------------------------------------------
Frame(w, c, t, bar) ==
  [width |-> w, current |-> c, total |-> t, bar |-> bar,
   percent |-> Percent(c, t), text |-> PercentColumns(c, t) + FractColumns(c, t)]

Nothing == [total |-> 0, bar |-> <<>>]

\* DynamicRender builds its first renderer when it is made.
Init ==
  /\ style \in Styles /\ width \in Widths /\ builtFor = width
  /\ shown = Nothing /\ result = "none"

\* The terminal is resized.
Resize ==
  /\ width' \in Widths \ {width}
  /\ UNCHANGED <<style, builtFor, shown, result>>

\* DynamicRender, rebuilding for a wider terminal only.
RebuildWider == builtFor' = IF width > builtFor THEN width ELSE builtFor

\* DynamicRender rebuilds when the width is another one.
Rebuild == builtFor' = IF width # builtFor THEN width ELSE builtFor

\* Refused, one reading late.
RefusedLate(c, t) == c > t + 1 \/ t <= 0

\* The readings Progress answers with ErrNoFrame, without a call of render.
Refused(c, t) == c > t \/ t <= 0

Refuse(c, t) ==
  /\ Refused(c, t)
  /\ result' = "none"
  /\ UNCHANGED <<style, width, builtFor, shown>>

Render(c, t) ==
  /\ ~Refused(c, t)
  /\ Rebuild
  /\ \E bar \in Bar(style, builtFor', c, t) : shown' = Frame(width, c, t, bar)
  /\ result' = "frame"
  /\ UNCHANGED <<style, width>>

Next ==
  \/ Resize
  \/ \E t \in Totals : \E c \in 0 .. t + 1 : Refuse(c, t) \/ Render(c, t)

Spec == Init /\ [][Next]_vars

-----------------------------------------------------------------------------
(* Properties. *)

\* The columns a bar takes on the row.  NoopRender draws not even the edges.
Columns(s, bar) ==
  LET dividers == Cardinality({i \in DOMAIN bar : bar[i] = Divider})
  IN IF bar = <<>> THEN 0
     ELSE s.edges + dividers * DividerColumns(s) + (Len(bar) - dividers) * s.unit

\* How far the bar has come, in levels.
Fill(bar) ==
  LET full == {i \in DOMAIN bar : bar[i] = Full}
      part == {bar[i] : i \in {j \in DOMAIN bar : bar[j] \notin {Full, Empty, Divider}}}
  IN Full * Cardinality(full) + (IF part = {} THEN 0 ELSE CHOOSE l \in part : TRUE)

Drawn == shown # Nothing

\* The types of the state.
TypeOK ==
  /\ style \in Styles /\ width \in Widths /\ builtFor \in Widths
  /\ result \in {"none", "frame"}
  /\ Drawn => /\ shown.total \in Totals \ {0} /\ shown.current \in 0 .. shown.total
              /\ shown.bar \in Seq({Divider} \cup (Empty .. Full))
              /\ shown.percent \in 0 .. 100

\* A bar never takes more columns than the terminal had when it was drawn,
\* whatever widths went before: a frame that wraps could not be cleared.
FitsTerminal ==
  Drawn => Columns(style, shown.bar) <= IF shown.width > 0 THEN shown.width ELSE 0

\* For one total and one width every level of progress takes the same columns,
\* percentage and fraction included: what is joined after the bar stays put.
ConstantWidth ==
  Drawn => \A c \in 0 .. shown.total :
    /\ PercentColumns(c, shown.total) + FractColumns(c, shown.total) = shown.text
    /\ \A bar \in Bar(style, shown.width, c, shown.total) :
         Columns(style, bar) = Columns(style, shown.bar)

\* Left is the mirror image of Right at every level of progress.
LeftMirrorsRight ==
  Drawn => Reverse(shown.bar) \in
             Bar([style EXCEPT !.left = ~@], shown.width, shown.current, shown.total)

\* A bar without an empty or a part-filled cell says that everything is done,
\* when the glyphs fill the length (see the README for when they do not).
FullMeansDone ==
  Drawn /\ shown.bar # <<>> /\ Inner(style, shown.width) % style.unit = 0
    /\ (\A i \in DOMAIN shown.bar : shown.bar[i] \in {Full, Divider})
  => shown.current = shown.total

\* The percentage never says more than is done, lags behind by less than two
\* percent, and is 100 at the end and only there.
PercentHonest ==
  Drawn => /\ shown.percent * shown.total <= 100 * shown.current
           /\ (shown.percent + 2) * shown.total > 100 * shown.current
           /\ shown.percent = 100 <=> shown.current = shown.total

\* While the width and the total stay, progress never moves the bar, or the
\* percentage, backwards.
NeverBackwards ==
  [][Drawn /\ shown'.total = shown.total /\ shown'.width = shown.width
       /\ shown'.current > shown.current
     => /\ Fill(shown.bar) <= Fill(shown'.bar)
        /\ shown.percent <= shown'.percent]_vars

\* What the documentation of SmoothBarRender promises, and the code does not:
\* at exactly 100% Full fills every cell.
FullAt100 ==
  Drawn /\ shown.current = shown.total
    => \A i \in DOMAIN shown.bar : shown.bar[i] \in {Full, Divider}
=============================================================================
