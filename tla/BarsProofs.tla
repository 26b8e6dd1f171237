----------------------------- MODULE BarsProofs -----------------------------
(***************************************************************************)
(* What holds of a progress bar for every style, and every width and total *)
(* up to Largest, where FloorOfProduct and Digits are what the code gives. *)
(*                                                                         *)
(* All that the bars need of the float64 product is in FloorBounds: it is  *)
(* never above the true product, and below it by no more than one whole.   *)
(* The invariant (BarInv) is that what is shown is a bar of the renderer   *)
(* for the width the terminal had, since Render rebuilds before it draws.  *)
(***************************************************************************)
EXTENDS Bars, FiniteSetTheorems, TLAPS

\* Widths are integers, and totals natural numbers.
LEMMA WholeNumbers == Widths \subseteq Int /\ Totals \subseteq Nat
BY WidthsAssumption, TotalsAssumption

USE StylesAssumption, WholeNumbers

-----------------------------------------------------------------------------
(* Whole numbers. *)

\* A quotient is within one of the true one.
LEMMA Division ==
  ASSUME NEW x \in Int, NEW t \in Nat \ {0}
  PROVE  x \div t \in Int /\ (x \div t) * t <= x /\ x < (x \div t) * t + t
OBVIOUS

\* What leaves no remainder is a multiple.
LEMMA Multiple ==
  ASSUME NEW x \in Int, NEW t \in Nat \ {0}, x % t = 0
  PROVE  x = (x \div t) * t
OBVIOUS

\* Comparing multiples.
LEMMA Factor ==
  ASSUME NEW x \in Int, NEW y \in Int, NEW t \in Nat \ {0}
  PROVE  /\ x * t < y * t <=> x < y
         /\ x * t <= y * t <=> x <= y
OBVIOUS

\* A quotient and a multiple of the divisor.
LEMMA DivisionBelow ==
  ASSUME NEW x \in Int, NEW q \in Int, NEW t \in Nat \ {0}
  PROVE  /\ q * t <= x => q <= x \div t
         /\ x < q * t => x \div t < q
         /\ x \div t < q => x < q * t
BY Division

\* A larger number has no smaller quotient.
LEMMA DivisionMono ==
  ASSUME NEW x \in Int, NEW y \in Int, NEW t \in Nat \ {0}, x <= y
  PROVE  x \div t <= y \div t
BY Division

-----------------------------------------------------------------------------
(* The float64 product. *)

\* The product is the truncated one, or one less when that is a whole number
\* and the quotient is not.
LEMMA FloorCases ==
  ASSUME NEW a, NEW n, NEW t
  PROVE  \/ FloorOfProduct(a, n, t) = (a * n) \div t
         \/ /\ FloorOfProduct(a, n, t) = (a * n) \div t - 1
            /\ (a * n) \div t # 0 /\ (a * n) % t = 0 /\ n % t # 0
BY Zenon DEF FloorOfProduct

\* It is never above the product, and at most one whole below it.
LEMMA FloorBounds ==
  ASSUME NEW a \in Nat, NEW n \in Nat, NEW t \in Nat \ {0}
  PROVE  /\ FloorOfProduct(a, n, t) \in Nat
         /\ FloorOfProduct(a, n, t) * t <= a * n
         /\ a * n <= (FloorOfProduct(a, n, t) + 1) * t
<1> DEFINE k == (a * n) \div t
<1>1. a * n \in Nat
  OBVIOUS
<1>2. k \in Nat /\ k * t <= a * n /\ a * n < (k + 1) * t
  BY <1>1
<1>3. (a * n) % t = 0 => a * n = k * t
  BY <1>1, Multiple
<1>4. CASE FloorOfProduct(a, n, t) = k
  <2> HIDE DEF k
  <2> QED BY <1>1, <1>2, <1>4
<1>5. CASE FloorOfProduct(a, n, t) = k - 1 /\ k # 0 /\ (a * n) % t = 0
  <2>1. a * n = k * t /\ k - 1 \in Nat
    BY <1>2, <1>3, <1>5
  <2> HIDE DEF k
  <2>2. (k - 1) * t <= k * t /\ (k - 1) + 1 = k
    BY <2>1, <1>2
  <2> QED BY <1>5, <2>1, <2>2
<1> QED BY <1>4, <1>5, FloorCases

\* A larger product is not truncated to less.
LEMMA FloorMono ==
  ASSUME NEW a \in Nat, NEW n \in Nat, NEW b \in Nat, NEW m \in Nat,
         NEW t \in Nat \ {0}, a * n < b * m
  PROVE  FloorOfProduct(a, n, t) <= FloorOfProduct(b, m, t)
<1> DEFINE f == FloorOfProduct(a, n, t)
           g == FloorOfProduct(b, m, t)
<1>1. f \in Nat /\ g \in Nat /\ f * t <= a * n /\ b * m <= (g + 1) * t
  BY FloorBounds
<1> HIDE DEF f, g
<1>2. f * t < (g + 1) * t
  BY <1>1
<1>3. f < g + 1
  BY <1>1, <1>2, Factor
<1> QED BY <1>1, <1>3 DEF f, g

-----------------------------------------------------------------------------
(* The percentage. *)

\* The percentage is honest, and 100 of the whole only.
LEMMA PercentBounds ==
  ASSUME NEW t \in Nat \ {0}, NEW c \in 0 .. t
  PROVE  /\ Percent(c, t) \in 0 .. 100
         /\ Percent(c, t) * t <= 100 * c /\ (Percent(c, t) + 2) * t > 100 * c
         /\ Percent(c, t) = 100 <=> c = t
<1> DEFINE p == Percent(c, t)
<1>1. p \in Nat /\ p * t <= 100 * c /\ 100 * c <= (p + 1) * t
  BY FloorBounds DEF Percent
<1>2. c = t => p = 100
  <2> SUFFICES ASSUME c = t PROVE p = 100
    OBVIOUS
  <2>1. t % t = 0 /\ (100 * t) \div t = 100
    OBVIOUS
  <2> QED BY <2>1, FloorCases DEF Percent
<1> HIDE DEF p
<1>3. p <= 100
  <2>1. p * t <= 100 * t
    BY <1>1
  <2> QED BY <1>1, <2>1, Factor
<1>4. (p + 2) * t > 100 * c
  BY <1>1
<1>5. p = 100 => c = t
  BY <1>1
<1> QED BY <1>1, <1>2, <1>3, <1>4, <1>5 DEF p

\* More done is never a smaller percentage.
LEMMA PercentMono ==
  ASSUME NEW t \in Nat \ {0}, NEW c \in 0 .. t, NEW d \in 0 .. t, c < d
  PROVE  Percent(c, t) <= Percent(d, t)
<1>1. 100 \in Nat /\ c \in Nat /\ d \in Nat /\ 100 * c < 100 * d
  OBVIOUS
<1> QED BY <1>1, FloorMono DEF Percent

\* The percentage always takes four columns.
LEMMA PercentWidth ==
  ASSUME NEW t \in Nat \ {0}, NEW c \in 0 .. t
  PROVE  PercentColumns(c, t) = 4
<1>1. Percent(c, t) \in 0 .. 100
  BY PercentBounds
<1> QED BY <1>1 DEF PercentColumns, Digits

\* The fraction takes the columns of its total twice.
LEMMA FractWidth ==
  ASSUME NEW t \in Nat \ {0}, NEW c \in 0 .. t
  PROVE  FractColumns(c, t) = 2 * Digits(t) + 1
BY DEF FractColumns, Digits

-----------------------------------------------------------------------------
(* The cells of a bar: so many of one kind, one at the boundary, the rest  *)
(* of the other kind.                                                      *)

Cut(length, at, before, mid, after) ==
  [i \in 1 .. length |-> IF i <= at THEN before ELSE IF i = at + 1 THEN mid ELSE after]

Before(s) == IF s.left THEN Empty ELSE Full
After(s)  == IF s.left THEN Full ELSE Empty

\* The cells in front of the boundary, for a divider of its own and for one
\* in the place of a cell.
PlainAt(s, w, c, t)  == IF s.left THEN Cells(s, w) - Done(s, w, c, t) ELSE Done(s, w, c, t)
SmoothAt(s, w, c, t) == IF s.left THEN Cells(s, w) - Done(s, w, c, t) - 1 ELSE Done(s, w, c, t)

\* The parts of a bar with a divider of its own.
Parts(n, x, d, m, y) == Repeat(x, n) \o <<d>> \o Repeat(y, m)

\* Put together, they are cut at the boundary.
LEMMA RepeatCut ==
  ASSUME NEW n \in Nat, NEW m \in Nat, NEW length, length = n + m + 1, NEW x, NEW d, NEW y
  PROVE  Parts(n, x, d, m, y) = Cut(length, n, x, d, y)
<1> DEFINE b == Repeat(x, n) \o <<d>> \o Repeat(y, m)
<1>1. /\ Repeat(x, n) \in Seq({x}) /\ Len(Repeat(x, n)) = n
      /\ Repeat(y, m) \in Seq({y}) /\ Len(Repeat(y, m)) = m
      /\ \A i \in 1 .. n : Repeat(x, n)[i] = x
      /\ \A i \in 1 .. m : Repeat(y, m)[i] = y
  BY DEF Repeat
<1>2. /\ Repeat(x, n) \o <<d>> \in Seq({x, d}) /\ Len(Repeat(x, n) \o <<d>>) = n + 1
      /\ \A i \in 1 .. n : (Repeat(x, n) \o <<d>>)[i] = x
      /\ (Repeat(x, n) \o <<d>>)[n + 1] = d
  BY <1>1
<1>3. /\ b \in Seq({x, d, y}) /\ Len(b) = n + m + 1
      /\ \A i \in 1 .. n + m + 1 : b[i] = IF i <= n THEN x ELSE IF i = n + 1 THEN d ELSE y
  BY <1>1, <1>2
<1>4. b = [i \in 1 .. n + m + 1 |-> b[i]]
  BY <1>3
<1> QED BY <1>3, <1>4 DEF Cut, Parts

\* The numbers of a style, and what its renderer has to fill.
LEMMA CellsType ==
  ASSUME NEW s \in StyleType, NEW w \in Int
  PROVE  /\ s.unit \in {1, 2} /\ s.left \in BOOLEAN /\ s.levels \in 0 .. 8
         /\ s.edges \in Nat /\ DividerColumns(s) \in Nat
         /\ Inner(s, w) \in Int /\ Inner(s, w) <= w
         /\ Cells(s, w) \in Int /\ Cells(s, w) * s.unit <= Inner(s, w)
         /\ Inner(s, w) < (Cells(s, w) + 1) * s.unit
         /\ Renders(s, w) => Inner(s, w) \in Nat \ {0} /\ Cells(s, w) \in Nat \ {0}
<1>1. /\ s.unit \in {1, 2} /\ s.left \in BOOLEAN /\ s.levels \in 0 .. 8
      /\ s.edges \in Nat /\ s.divider \in Nat
  BY DEF StyleType
<1>2. DividerColumns(s) \in Nat
  BY <1>1 DEF DividerColumns
<1>3. Inner(s, w) \in Int /\ Inner(s, w) <= w
  BY <1>1, <1>2 DEF Inner
<1>4. /\ Cells(s, w) \in Int /\ Cells(s, w) * s.unit <= Inner(s, w)
      /\ Inner(s, w) < (Cells(s, w) + 1) * s.unit
  BY <1>1, <1>3, Division DEF Cells
<1>5. Renders(s, w) => Inner(s, w) \in Nat \ {0} /\ Cells(s, w) \in Nat \ {0}
  BY <1>1, <1>3, <1>4 DEF Renders
<1> QED BY <1>1, <1>2, <1>3, <1>4, <1>5

\* No more cells are full than there are, and no more than is done.
LEMMA DoneBounds ==
  ASSUME NEW s \in StyleType, NEW w \in Int, Renders(s, w),
         NEW t \in Nat \ {0}, NEW c \in 0 .. t
  PROVE  /\ Done(s, w, c, t) \in 0 .. Cells(s, w)
         /\ Done(s, w, c, t) * s.unit * t <= c * Inner(s, w)
<1> DEFINE f == FloorOfProduct(c, Inner(s, w), t)
<1>1. /\ Inner(s, w) \in Nat \ {0} /\ s.unit \in {1, 2} /\ c \in Nat
  BY CellsType
<1>2. f \in Nat /\ f * t <= c * Inner(s, w)
  BY <1>1, FloorBounds
<1>3. c * Inner(s, w) <= Inner(s, w) * t
  BY <1>1
<1> HIDE DEF f
<1>4. f <= Inner(s, w)
  BY <1>1, <1>2, <1>3, Factor
<1>5. f \div s.unit \in Nat /\ (f \div s.unit) * s.unit <= f /\ f \div s.unit <= Cells(s, w)
  <2>1. f \div s.unit \in Int /\ (f \div s.unit) * s.unit <= f
    BY <1>1, <1>2, Division
  <2>2. 0 <= f \div s.unit
    BY <1>1, <1>2, DivisionBelow
  <2>3. f \div s.unit <= Inner(s, w) \div s.unit
    BY <1>1, <1>2, <1>4, DivisionMono
  <2> QED BY <2>1, <2>2, <2>3 DEF Cells
<1>6. Done(s, w, c, t) = f \div s.unit
  BY DEF Done, f
<1>7. (f \div s.unit) * s.unit * t <= f * t
  BY <1>1, <1>2, <1>5
<1>8. Cells(s, w) \in Int
  BY CellsType
<1> QED BY <1>1, <1>2, <1>5, <1>6, <1>7, <1>8

\* The boundary cell of a smooth bar is one of its dividers.
LEMMA LevelsType ==
  ASSUME NEW s \in StyleType, ~Plain(s), NEW w \in Int, Renders(s, w),
         NEW t \in Nat \ {0}, NEW c \in 0 .. t
  PROVE  Levels(s, w, c, t) \subseteq 0 .. s.levels - 1
<1> DEFINE part  == s.levels * (c * Inner(s, w) - Done(s, w, c, t) * t * s.unit)
           whole == t * s.unit
<1>1. /\ s.levels \in 2 .. 8 /\ s.unit \in {1, 2} /\ Inner(s, w) \in Nat /\ whole \in Nat \ {0}
  BY CellsType DEF Plain, StyleType
<1>2. /\ Done(s, w, c, t) \in Nat /\ Done(s, w, c, t) * s.unit * t <= c * Inner(s, w)
  BY DoneBounds, CellsType
<1>3. Done(s, w, c, t) * t * s.unit = Done(s, w, c, t) * s.unit * t
  BY <1>1, <1>2
<1>4. part \in Nat
  <2> DEFINE rest == c * Inner(s, w) - Done(s, w, c, t) * t * s.unit
  <2>1. rest \in Nat
    BY <1>1, <1>2, <1>3
  <2> HIDE DEF rest
  <2>2. s.levels * rest \in Nat
    BY <1>1, <2>1
  <2> QED BY <2>2 DEF rest
<1>5. part \div whole \in Nat
  <2> HIDE DEF part, whole
  <2> QED BY <1>1, <1>4, DivisionBelow
<1>6. part % whole = 0 /\ part > 0 => part \div whole - 1 \in Nat
  <2> HIDE DEF part, whole
  <2> QED BY <1>1, <1>4, <1>5, Multiple
<1>7. Levels(s, w, c, t) \subseteq
        {s.levels - 1}
        \cup {IF lvl < s.levels THEN lvl ELSE s.levels - 1 :
                lvl \in {part \div whole}
                        \cup IF part % whole = 0 /\ part > 0 THEN {part \div whole - 1} ELSE {}}
  BY DEF Levels
<1> HIDE DEF part, whole
<1> QED BY <1>1, <1>5, <1>6, <1>7
-----------------------------------------------------------------------------
(* What every bar of a style and a width has in common. *)

\* A bar is cut in two at the boundary.
Shape(s, w, c, t, mid) ==
  IF Plain(s) THEN Cut(Cells(s, w) + 1, PlainAt(s, w, c, t), Before(s), Divider, After(s))
  ELSE Cut(Cells(s, w), SmoothAt(s, w, c, t), Before(s), mid, After(s))

\* Every bar has that shape.
LEMMA BarShape ==
  ASSUME NEW s \in StyleType, NEW w \in Int, Renders(s, w),
         NEW t \in Nat \ {0}, NEW c \in 0 .. t, NEW bar \in Bar(s, w, c, t)
  PROVE  \E mid \in 0 .. 7 : (~Plain(s) => mid \in Levels(s, w, c, t)) /\ bar = Shape(s, w, c, t, mid)
<1>1. CASE Plain(s)
  <2> DEFINE at   == PlainAt(s, w, c, t)
             rest == Cells(s, w) - PlainAt(s, w, c, t)
  <2>1. at \in Nat /\ rest \in Nat /\ at + rest + 1 = Cells(s, w) + 1
    BY DoneBounds, CellsType DEF PlainAt
  <2>2. bar = PlainBar(s, w, c, t)
    BY <1>1 DEF Bar
  <2>3. PlainBar(s, w, c, t) = Parts(at, Before(s), Divider, rest, After(s))
    BY Zenon DEF PlainBar, PlainAt, Before, After, Parts
  <2> HIDE DEF at, rest
  <2>4. Parts(at, Before(s), Divider, rest, After(s))
          = Cut(Cells(s, w) + 1, at, Before(s), Divider, After(s))
    BY <2>1, RepeatCut
  <2>5. bar = Shape(s, w, c, t, 0)
    BY <1>1, <2>2, <2>3, <2>4 DEF Shape, at
  <2> QED BY <1>1, <2>5
<1>2. CASE ~Plain(s)
  <2>1. PICK mid \in Levels(s, w, c, t) : bar = SmoothBar(s, w, c, t, mid)
    BY <1>2 DEF Bar
  <2>2. SmoothBar(s, w, c, t, mid) = Shape(s, w, c, t, mid)
    BY <1>2, Zenon DEF SmoothBar, Shape, Cut, SmoothAt, Before, After
  <2>3. mid \in 0 .. 7
    <3>1. Levels(s, w, c, t) \subseteq 0 .. s.levels - 1
      BY <1>2, LevelsType
    <3>2. s.levels \in 0 .. 8
      BY CellsType
    <3> QED BY <3>1, <3>2
  <2> QED BY <1>2, <2>1, <2>2, <2>3
<1> QED BY <1>1, <1>2

\* And every bar of that shape may be drawn.
LEMMA ShapeIsBar ==
  ASSUME NEW s \in StyleType, NEW w \in Int, Renders(s, w),
         NEW t \in Nat \ {0}, NEW c \in 0 .. t, NEW mid, ~Plain(s) => mid \in Levels(s, w, c, t)
  PROVE  Shape(s, w, c, t, mid) \in Bar(s, w, c, t)
<1>1. CASE Plain(s)
  <2>1. PICK bar \in Bar(s, w, c, t) : bar = PlainBar(s, w, c, t)
    BY <1>1 DEF Bar
  <2>2. PICK any \in 0 .. 7 : bar = Shape(s, w, c, t, any)
    BY <2>1, BarShape
  <2>3. Shape(s, w, c, t, any) = Shape(s, w, c, t, mid)
    BY <1>1 DEF Shape
  <2> QED BY <2>1, <2>2, <2>3
<1>2. CASE ~Plain(s)
  <2>1. SmoothBar(s, w, c, t, mid) = Shape(s, w, c, t, mid)
    BY <1>2, Zenon DEF SmoothBar, Shape, Cut, SmoothAt, Before, After
  <2> QED BY <1>2, <2>1 DEF Bar
<1> QED BY <1>1, <1>2

\* Where the renderer gives no bar, every bar is the empty one.
LEMMA NoBar ==
  ASSUME NEW s, NEW w, NEW c, NEW t, ~Renders(s, w), NEW bar \in Bar(s, w, c, t)
  PROVE  bar = <<>>
BY DEF Bar

\* The columns of a bar, whatever has been done.
BarColumns(s, w) ==
  IF Renders(s, w)
  THEN s.edges + (IF Plain(s) THEN DividerColumns(s) ELSE 0) + Cells(s, w) * s.unit
  ELSE 0

\* The cells of what is cut in two.
LEMMA CutCells ==
  ASSUME NEW n \in Nat, NEW at \in Int, NEW x, NEW m, NEW y
  PROVE  /\ DOMAIN Cut(n, at, x, m, y) = 1 .. n
         /\ Len(Cut(n, at, x, m, y)) = n
         /\ Cut(n, at, x, m, y) \in Seq({x, m, y})
         /\ \A i \in 1 .. n : Cut(n, at, x, m, y)[i] =
                                IF i <= at THEN x ELSE IF i = at + 1 THEN m ELSE y
BY DEF Cut

\* A divider of its own stands at the boundary and nowhere else.
LEMMA CutDivider ==
  ASSUME NEW n \in Nat, NEW at \in 0 .. n, NEW x, NEW d, NEW y, x # d, y # d,
         NEW bar, bar = Cut(n + 1, at, x, d, y)
  PROVE  /\ DOMAIN bar = 1 .. n + 1 /\ Len(bar) = n + 1
         /\ {i \in DOMAIN bar : bar[i] = d} = {at + 1}
BY DEF Cut

\* Otherwise it stands nowhere.
LEMMA CutSmooth ==
  ASSUME NEW n \in Nat, NEW at \in Int, NEW x, NEW m, NEW y,
         x # Divider, m # Divider, y # Divider, NEW bar, bar = Cut(n, at, x, m, y)
  PROVE  /\ DOMAIN bar = 1 .. n /\ Len(bar) = n
         /\ {i \in DOMAIN bar : bar[i] = Divider} = {}
BY DEF Cut

\* So every bar of a renderer takes the same columns.
LEMMA ColumnsOfBar ==
  ASSUME NEW s \in StyleType, NEW w \in Int,
         NEW t \in Nat \ {0}, NEW c \in 0 .. t, NEW bar \in Bar(s, w, c, t)
  PROVE  Columns(s, bar) = BarColumns(s, w)
<1>1. CASE ~Renders(s, w)
  BY <1>1, NoBar DEF Columns, BarColumns
<1>2. CASE Renders(s, w)
  <2> DEFINE dividers == {i \in DOMAIN bar : bar[i] = Divider}
  <2>1. PICK mid \in 0 .. 7 : bar = Shape(s, w, c, t, mid)
    BY <1>2, BarShape
  <2>2. /\ Cells(s, w) \in Nat \ {0} /\ s.unit \in {1, 2} /\ s.edges \in Nat
        /\ DividerColumns(s) \in Nat /\ Done(s, w, c, t) \in 0 .. Cells(s, w)
        /\ s.left \in BOOLEAN
    BY <1>2, CellsType, DoneBounds
  <2>3. CASE Plain(s)
    <3>1. PlainAt(s, w, c, t) \in 0 .. Cells(s, w)
      BY <2>2 DEF PlainAt
    <3>2. bar = Cut(Cells(s, w) + 1, PlainAt(s, w, c, t), Before(s), Divider, After(s))
      BY <2>1, <2>3 DEF Shape
    <3>3. /\ DOMAIN bar = 1 .. Cells(s, w) + 1 /\ Len(bar) = Cells(s, w) + 1
          /\ dividers = {PlainAt(s, w, c, t) + 1}
      <4>1. Before(s) # Divider /\ After(s) # Divider /\ Cells(s, w) \in Nat
        BY <2>2 DEF Before, After, Empty, Full, Divider
      <4> QED BY <3>1, <3>2, <4>1, CutDivider
    <3>5. Cardinality(dividers) = 1
      BY <3>3, FS_Singleton
    <3>6. bar # <<>>
      BY <2>2, <3>3
    <3>7. Columns(s, bar) = s.edges + 1 * DividerColumns(s) + ((Cells(s, w) + 1) - 1) * s.unit
      BY <3>3, <3>5, <3>6, Zenon DEF Columns
    <3> QED BY <1>2, <2>2, <2>3, <3>7 DEF BarColumns
  <2>4. CASE ~Plain(s)
    <3>1. SmoothAt(s, w, c, t) \in Int
      BY <2>2 DEF SmoothAt
    <3>2. bar = Cut(Cells(s, w), SmoothAt(s, w, c, t), Before(s), mid, After(s))
      BY <2>1, <2>4 DEF Shape
    <3>3. /\ DOMAIN bar = 1 .. Cells(s, w) /\ Len(bar) = Cells(s, w)
          /\ dividers = {}
      <4>1. /\ Before(s) # Divider /\ After(s) # Divider /\ mid # Divider
            /\ Cells(s, w) \in Nat
        BY <2>2 DEF Before, After, Empty, Full, Divider
      <4> QED BY <3>1, <3>2, <4>1, CutSmooth
    <3>4. Cardinality(dividers) = 0
      BY <3>3, FS_EmptySet
    <3>5. bar # <<>>
      BY <2>2, <3>3
    <3>6. Columns(s, bar) = s.edges + 0 * DividerColumns(s) + (Cells(s, w) - 0) * s.unit
      BY <3>3, <3>4, <3>5, Zenon DEF Columns
    <3> QED BY <1>2, <2>2, <2>4, <3>6 DEF BarColumns
  <2> QED BY <2>3, <2>4
<1> QED BY <1>1, <1>2

\* A renderer never takes more columns than it was built for.
LEMMA ColumnsFit ==
  ASSUME NEW s \in StyleType, NEW w \in Int
  PROVE  BarColumns(s, w) <= IF w > 0 THEN w ELSE 0
<1>1. CASE Renders(s, w)
  <2>1. /\ Inner(s, w) > 0 /\ Inner(s, w) <= w /\ Cells(s, w) * s.unit <= Inner(s, w)
        /\ s.edges \in Nat /\ DividerColumns(s) \in Nat /\ Inner(s, w) \in Int
        /\ Cells(s, w) * s.unit \in Int
    BY <1>1, CellsType DEF Renders
  <2> DEFINE n == Cells(s, w) * s.unit
             d == IF Plain(s) THEN DividerColumns(s) ELSE 0
  <2>2. Inner(s, w) = w - s.edges - d /\ d \in Nat
    BY <2>1 DEF Inner
  <2>3. BarColumns(s, w) = s.edges + d + n
    BY <1>1 DEF BarColumns
  <2> HIDE DEF n, d
  <2>4. n \in Int /\ n <= Inner(s, w)
    BY <2>1 DEF n
  <2> QED BY <2>1, <2>2, <2>3, <2>4
<1>2. CASE ~Renders(s, w)
  BY <1>2 DEF BarColumns
<1> QED BY <1>1, <1>2
-----------------------------------------------------------------------------
(* The other direction. *)

Turned(s) == [s EXCEPT !.left = ~@]

\* Turning a style changes nothing but the side.
LEMMA TurnedStyle ==
  ASSUME NEW s \in StyleType, NEW w \in Int, NEW t, NEW c
  PROVE  /\ Turned(s) \in StyleType /\ Turned(s).left = ~s.left
         /\ Plain(Turned(s)) = Plain(s) /\ Inner(Turned(s), w) = Inner(s, w)
         /\ Cells(Turned(s), w) = Cells(s, w) /\ Renders(Turned(s), w) = Renders(s, w)
         /\ Done(Turned(s), w, c, t) = Done(s, w, c, t)
         /\ Levels(Turned(s), w, c, t) = Levels(s, w, c, t)
         /\ Before(Turned(s)) = After(s) /\ After(Turned(s)) = Before(s)
<1>1. /\ Turned(s) \in StyleType /\ Turned(s).left = ~s.left /\ s.left \in BOOLEAN
      /\ Turned(s).kind = s.kind /\ Turned(s).unit = s.unit /\ Turned(s).divider = s.divider
      /\ Turned(s).edges = s.edges /\ Turned(s).levels = s.levels
  BY DEF Turned, StyleType
<1>2. Plain(Turned(s)) = Plain(s) /\ DividerColumns(Turned(s)) = DividerColumns(s)
  BY <1>1 DEF Plain, DividerColumns
<1>3. Inner(Turned(s), w) = Inner(s, w)
  BY <1>1, <1>2 DEF Inner
<1>4. Cells(Turned(s), w) = Cells(s, w) /\ Renders(Turned(s), w) = Renders(s, w)
  BY <1>1, <1>3 DEF Cells, Renders
<1>5. Done(Turned(s), w, c, t) = Done(s, w, c, t)
  BY <1>1, <1>3 DEF Done
<1>6. Levels(Turned(s), w, c, t) = Levels(s, w, c, t)
  BY <1>1, <1>3, <1>5, Zenon DEF Levels
<1>7. Before(Turned(s)) = After(s) /\ After(Turned(s)) = Before(s)
  BY <1>1 DEF Before, After
<1> QED BY <1>1, <1>2, <1>3, <1>4, <1>5, <1>6, <1>7

\* What is cut in front of the boundary one way is cut behind it the other.
LEMMA ReverseCut ==
  ASSUME NEW n \in Nat, NEW at \in Int, NEW to \in Int, at + to = n - 1,
         NEW x, NEW m, NEW y
  PROVE  Reverse(Cut(n, at, x, m, y)) = Cut(n, to, y, m, x)
BY DEF Reverse, Cut

\* What is in front of the boundary for both directions together.
LEMMA PlainAtTurned ==
  ASSUME NEW s \in StyleType, NEW w \in Int, NEW t, NEW c,
         Cells(s, w) \in Int, Done(s, w, c, t) \in Int
  PROVE  /\ PlainAt(s, w, c, t) \in Int /\ PlainAt(Turned(s), w, c, t) \in Int
         /\ PlainAt(s, w, c, t) + PlainAt(Turned(s), w, c, t) = Cells(s, w)
<1> DEFINE done  == Done(s, w, c, t)
           cells == Cells(s, w)
<1>1. /\ Turned(s).left = ~s.left /\ s.left \in BOOLEAN
      /\ Cells(Turned(s), w) = cells /\ Done(Turned(s), w, c, t) = done
  BY TurnedStyle DEF StyleType
<1>2. \/ PlainAt(s, w, c, t) = cells - done /\ PlainAt(Turned(s), w, c, t) = done
      \/ PlainAt(s, w, c, t) = done /\ PlainAt(Turned(s), w, c, t) = cells - done
  BY <1>1, Zenon DEF PlainAt
<1> HIDE DEF done, cells
<1> QED BY <1>2 DEF done, cells

\* The same for a divider in the place of a cell.
LEMMA SmoothAtTurned ==
  ASSUME NEW s \in StyleType, NEW w \in Int, NEW t, NEW c,
         Cells(s, w) \in Int, Done(s, w, c, t) \in Int
  PROVE  /\ SmoothAt(s, w, c, t) \in Int /\ SmoothAt(Turned(s), w, c, t) \in Int
         /\ SmoothAt(s, w, c, t) + SmoothAt(Turned(s), w, c, t) = Cells(s, w) - 1
<1> DEFINE done  == Done(s, w, c, t)
           cells == Cells(s, w)
<1>1. /\ Turned(s).left = ~s.left /\ s.left \in BOOLEAN
      /\ Cells(Turned(s), w) = cells /\ Done(Turned(s), w, c, t) = done
  BY TurnedStyle DEF StyleType
<1>2. \/ SmoothAt(s, w, c, t) = cells - done - 1 /\ SmoothAt(Turned(s), w, c, t) = done
      \/ SmoothAt(s, w, c, t) = done /\ SmoothAt(Turned(s), w, c, t) = cells - done - 1
  BY <1>1, Zenon DEF SmoothAt
<1> HIDE DEF done, cells
<1> QED BY <1>2 DEF done, cells

\* The mirror image of a bar is a bar of the other direction.
LEMMA BarTurned ==
  ASSUME NEW s \in StyleType, NEW w \in Int,
         NEW t \in Nat \ {0}, NEW c \in 0 .. t, NEW bar \in Bar(s, w, c, t)
  PROVE  Reverse(bar) \in Bar(Turned(s), w, c, t)
<1>1. CASE ~Renders(s, w)
  <2>1. bar = <<>> /\ <<>> \in Bar(Turned(s), w, c, t)
    BY <1>1, NoBar, TurnedStyle DEF Bar
  <2>2. Reverse(<<>>) = <<>>
    BY DEF Reverse
  <2> QED BY <2>1, <2>2
<1>2. CASE Renders(s, w)
  <2>1. PICK mid \in 0 .. 7 :
          (~Plain(s) => mid \in Levels(s, w, c, t)) /\ bar = Shape(s, w, c, t, mid)
    BY <1>2, BarShape
  <2>2. /\ Cells(s, w) \in Nat \ {0} /\ Done(s, w, c, t) \in 0 .. Cells(s, w) /\ s.left \in BOOLEAN
    BY <1>2, CellsType, DoneBounds
  <2>3. Reverse(bar) = Shape(Turned(s), w, c, t, mid)
    <3>0. /\ Turned(s).left = ~s.left /\ Cells(Turned(s), w) = Cells(s, w)
          /\ Done(Turned(s), w, c, t) = Done(s, w, c, t)
      BY TurnedStyle
    <3>1. CASE Plain(s)
      <4>1. /\ PlainAt(s, w, c, t) \in Int /\ PlainAt(Turned(s), w, c, t) \in Int
            /\ PlainAt(s, w, c, t) + PlainAt(Turned(s), w, c, t) = (Cells(s, w) + 1) - 1
        BY <2>2, <3>0, PlainAtTurned
      <4>2. Reverse(Cut(Cells(s, w) + 1, PlainAt(s, w, c, t), Before(s), Divider, After(s)))
              = Cut(Cells(s, w) + 1, PlainAt(Turned(s), w, c, t), After(s), Divider, Before(s))
        BY <2>2, <4>1, ReverseCut
      <4> QED BY <2>1, <3>1, <4>2, TurnedStyle DEF Shape
    <3>2. CASE ~Plain(s)
      <4>1. /\ SmoothAt(s, w, c, t) \in Int /\ SmoothAt(Turned(s), w, c, t) \in Int
            /\ SmoothAt(s, w, c, t) + SmoothAt(Turned(s), w, c, t) = Cells(s, w) - 1
        BY <2>2, <3>0, SmoothAtTurned
      <4>2. Reverse(Cut(Cells(s, w), SmoothAt(s, w, c, t), Before(s), mid, After(s)))
              = Cut(Cells(s, w), SmoothAt(Turned(s), w, c, t), After(s), mid, Before(s))
        BY <2>2, <4>1, ReverseCut
      <4> QED BY <2>1, <3>2, <4>2, TurnedStyle DEF Shape
    <3> QED BY <3>1, <3>2
  <2>4. Shape(Turned(s), w, c, t, mid) \in Bar(Turned(s), w, c, t)
    BY <1>2, <2>1, ShapeIsBar, TurnedStyle
  <2> QED BY <2>3, <2>4
<1> QED BY <1>1, <1>2
-----------------------------------------------------------------------------
(* How far a bar has come. *)

\* The columns and the parts of its length that a bar has filled.
LEMMA FillOfBar ==
  ASSUME NEW s \in StyleType, NEW w \in Int, Renders(s, w),
         NEW t \in Nat \ {0}, NEW c \in 0 .. t, NEW mid \in 0 .. 7,
         NEW bar, bar = Shape(s, w, c, t, mid)
  PROVE  Fill(bar) = 8 * Done(s, w, c, t)
                       + IF ~Plain(s) /\ Done(s, w, c, t) < Cells(s, w) THEN mid ELSE 0
<1> DEFINE full  == {i \in DOMAIN bar : bar[i] = Full}
           parts == {bar[i] : i \in {j \in DOMAIN bar : bar[j] \notin {Full, Empty, Divider}}}
           done  == Done(s, w, c, t)
           cells == Cells(s, w)
<1>1. cells \in Nat \ {0} /\ done \in 0 .. cells /\ s.left \in BOOLEAN
  BY CellsType, DoneBounds
<1>2. Fill(bar) = 8 * Cardinality(full) + (IF parts = {} THEN 0 ELSE CHOOSE l \in parts : TRUE)
  BY Zenon DEF Fill, Full
<1>3. \E a, b \in Int : full = a .. b /\ b - a + 1 = done
  <2>1. CASE Plain(s) /\ s.left
    <3>1. bar = Cut(cells + 1, cells - done, Empty, Divider, Full)
      BY <2>1 DEF Shape, PlainAt, Before, After
    <3>2. full = cells - done + 2 .. cells + 1
      <4> HIDE DEF done, cells
      <4> QED BY <1>1, <3>1 DEF Cut, Empty, Full, Divider
    <3> HIDE DEF done, cells, full
    <3> QED BY <1>1, <3>2
  <2>2. CASE Plain(s) /\ ~s.left
    <3>1. bar = Cut(cells + 1, done, Full, Divider, Empty)
      BY <2>2 DEF Shape, PlainAt, Before, After
    <3>2. full = 1 .. done
      <4> HIDE DEF done, cells
      <4> QED BY <1>1, <3>1 DEF Cut, Empty, Full, Divider
    <3> HIDE DEF done, cells, full
    <3> QED BY <1>1, <3>2
  <2>3. CASE ~Plain(s) /\ s.left
    <3>1. bar = Cut(cells, cells - done - 1, Empty, mid, Full)
      BY <2>3 DEF Shape, SmoothAt, Before, After
    <3>2. full = cells - done + 1 .. cells
      <4> HIDE DEF done, cells
      <4> QED BY <1>1, <3>1 DEF Cut, Empty, Full
    <3> HIDE DEF done, cells, full
    <3> QED BY <1>1, <3>2
  <2>4. CASE ~Plain(s) /\ ~s.left
    <3>1. bar = Cut(cells, done, Full, mid, Empty)
      BY <2>4 DEF Shape, SmoothAt, Before, After
    <3>2. full = 1 .. done
      <4> HIDE DEF done, cells
      <4> QED BY <1>1, <3>1 DEF Cut, Empty, Full
    <3> HIDE DEF done, cells, full
    <3> QED BY <1>1, <3>2
  <2> QED BY <1>1, <2>1, <2>2, <2>3, <2>4
<1>4. Cardinality(full) = done
  <2> PICK a, b \in Int : full = a .. b /\ b - a + 1 = done
    BY <1>3
  <2>1. Cardinality(a .. b) = IF a > b THEN 0 ELSE b - a + 1
    BY FS_Interval
  <2> HIDE DEF full, done
  <2> QED BY <1>1, <2>1
<1>5. parts = IF ~Plain(s) /\ done < cells /\ mid # Empty THEN {mid} ELSE {}
  <2>1. CASE Plain(s)
    <3>1. bar = Cut(cells + 1, PlainAt(s, w, c, t), Before(s), Divider, After(s))
      BY <2>1 DEF Shape
    <3>2. \A i \in DOMAIN bar : bar[i] \in {Full, Empty, Divider}
      BY <3>1 DEF Cut, Before, After
    <3> QED BY <2>1, <3>2
  <2>2. CASE ~Plain(s)
    <3> DEFINE at == SmoothAt(s, w, c, t)
    <3>1. bar = Cut(cells, at, Before(s), mid, After(s))
      BY <2>2 DEF Shape
    <3>2. at \in Int /\ (at + 1 \in 1 .. cells <=> done < cells)
      BY <1>1 DEF SmoothAt
    <3>3. Before(s) \in {Full, Empty} /\ After(s) \in {Full, Empty}
      BY DEF Before, After
    <3> HIDE DEF at, cells, done
    <3>4. /\ DOMAIN bar = 1 .. cells
          /\ \A i \in DOMAIN bar : i # at + 1 => bar[i] \in {Full, Empty}
          /\ at + 1 \in DOMAIN bar => bar[at + 1] = mid
      BY <1>1, <3>1, <3>2, <3>3 DEF Cut
    <3>5. mid \notin {Full, Divider}
      BY DEF Full, Divider
    <3> QED BY <2>2, <3>2, <3>4, <3>5
  <2> QED BY <2>1, <2>2
<1> HIDE DEF full, parts, done, cells
<1>6. (CHOOSE l \in {mid} : TRUE) = mid
  OBVIOUS
<1> QED BY <1>2, <1>4, <1>5, <1>6 DEF done, cells, Empty
\* More done is never fewer full cells.
LEMMA DoneMono ==
  ASSUME NEW s \in StyleType, NEW w \in Int, Renders(s, w),
         NEW t \in Nat \ {0}, NEW c \in 0 .. t, NEW d \in 0 .. t, c < d
  PROVE  Done(s, w, c, t) <= Done(s, w, d, t)
<1>1. /\ Inner(s, w) \in Nat \ {0} /\ s.unit \in Nat \ {0} /\ c \in Nat /\ d \in Nat
  BY CellsType
<1>2. c * Inner(s, w) < d * Inner(s, w)
  BY <1>1, Factor
<1> DEFINE f == FloorOfProduct(c, Inner(s, w), t)
           g == FloorOfProduct(d, Inner(s, w), t)
<1>3. f \in Nat /\ g \in Nat /\ f <= g
  BY <1>1, <1>2, FloorBounds, FloorMono
<1> HIDE DEF f, g
<1>4. f \div s.unit <= g \div s.unit
  BY <1>1, <1>3, DivisionMono
<1> QED BY <1>4 DEF Done, f, g

\* The level of the cell at the boundary grows while the boundary stays.
LEMMA LevelsGrow ==
  ASSUME NEW s \in StyleType, ~Plain(s), NEW w \in Int, Renders(s, w),
         NEW t \in Nat \ {0}, NEW c \in 0 .. t, NEW d \in 0 .. t, c < d,
         Done(s, w, c, t) = Done(s, w, d, t),
         NEW x \in Levels(s, w, c, t), NEW y \in Levels(s, w, d, t)
  PROVE  x <= y
<1>1. /\ s.levels \in 2 .. 8 /\ s.unit \in {1, 2} /\ Inner(s, w) \in Nat \ {0}
      /\ x \in 0 .. s.levels - 1 /\ y \in 0 .. s.levels - 1
      /\ Done(s, w, c, t) \in Nat
  <2>1. s.levels \in 2 .. 8 /\ s.unit \in {1, 2} /\ Inner(s, w) \in Nat \ {0}
    BY CellsType DEF Plain, StyleType
  <2>2. x \in 0 .. s.levels - 1 /\ y \in 0 .. s.levels - 1
    BY LevelsType
  <2>3. Done(s, w, c, t) \in Nat
    BY DoneBounds, CellsType
  <2> QED BY <2>1, <2>2, <2>3
<1>2. CASE d = t
  <2>1. y = s.levels - 1
    BY <1>2 DEF Levels
  <2> QED BY <1>1, <2>1
<1>3. CASE d # t
  <2> DEFINE whole == t * s.unit
             done  == Done(s, w, c, t) * t * s.unit
             now   == s.levels * (c * Inner(s, w) - done)
             then  == s.levels * (d * Inner(s, w) - done)
  <2>1. whole \in Nat \ {0} /\ now \in Int /\ then \in Int /\ now < then
    <3>1. c * Inner(s, w) \in Int /\ d * Inner(s, w) \in Int /\ c * Inner(s, w) < d * Inner(s, w)
      BY <1>1, Factor
    <3>2. done \in Int /\ whole \in Nat \ {0}
      BY <1>1
    <3> DEFINE a == c * Inner(s, w) - done
               b == d * Inner(s, w) - done
    <3> HIDE DEF done
    <3>3. a \in Int /\ b \in Int /\ a < b
      BY <3>1, <3>2
    <3> HIDE DEF a, b
    <3>4. s.levels * a < s.levels * b /\ s.levels * a \in Int /\ s.levels * b \in Int
      BY <1>1, <3>3
    <3> QED BY <3>2, <3>4 DEF a, b
  <2>2. x <= now \div whole
    <3>1. \E lvl \in Int : lvl <= now \div whole /\ x = IF lvl < s.levels THEN lvl ELSE s.levels - 1
      <4>1. now \div whole \in Int
        BY <2>1, Division
      <4>2. x \in {IF lvl < s.levels THEN lvl ELSE s.levels - 1 :
                     lvl \in {now \div whole}
                       \cup IF now % whole = 0 /\ now > 0 THEN {now \div whole - 1} ELSE {}}
        BY <1>3 DEF Levels
      <4> HIDE DEF now, whole
      <4> QED BY <4>1, <4>2
    <3> QED BY <1>1, <3>1
  <2>3. \/ y = IF then \div whole < s.levels THEN then \div whole ELSE s.levels - 1
        \/ /\ then % whole = 0
           /\ y = IF then \div whole - 1 < s.levels THEN then \div whole - 1 ELSE s.levels - 1
    BY <1>3 DEF Levels
  <2> HIDE DEF whole, now, then
  <2>4. now \div whole \in Int /\ then \div whole \in Int /\ now \div whole <= then \div whole
    BY <2>1, Division, DivisionMono
  <2>5. then % whole = 0 => now \div whole <= then \div whole - 1
    <3> SUFFICES ASSUME then % whole = 0 PROVE now \div whole < then \div whole
      BY <2>4
    <3>1. now < (then \div whole) * whole
      BY <2>1, Multiple
    <3> QED BY <2>1, <2>4, <3>1, DivisionBelow
  <2> QED BY <1>1, <2>2, <2>3, <2>4, <2>5
<1> QED BY <1>2, <1>3

\* More done is never a bar with less in it.
LEMMA FillGrows ==
  ASSUME NEW s \in StyleType, NEW w \in Int,
         NEW t \in Nat \ {0}, NEW c \in 0 .. t, NEW d \in 0 .. t, c < d,
         NEW less \in Bar(s, w, c, t), NEW more \in Bar(s, w, d, t)
  PROVE  Fill(less) <= Fill(more)
<1>1. CASE ~Renders(s, w)
  <2>1. less = more
    BY <1>1, NoBar
  <2>2. Fill(less) = 0
    <3>1. less = <<>>
      BY <1>1, NoBar
    <3>2. {i \in DOMAIN less : less[i] = Full} = {}
      BY <3>1
    <3>3. {less[i] : i \in {j \in DOMAIN less : less[j] \notin {Full, Empty, Divider}}} = {}
      BY <3>1
    <3>4. Cardinality({}) = 0
      BY FS_EmptySet
    <3>5. Fill(less) = Full * 0 + 0
      BY <3>2, <3>3, <3>4, Zenon DEF Fill
    <3> QED BY <3>5 DEF Full
  <2> QED BY <2>1, <2>2
<1>2. CASE Renders(s, w)
  <2>1. PICK low \in 0 .. 7 :
          (~Plain(s) => low \in Levels(s, w, c, t)) /\ less = Shape(s, w, c, t, low)
    BY <1>2, BarShape
  <2>2. PICK high \in 0 .. 7 :
          (~Plain(s) => high \in Levels(s, w, d, t)) /\ more = Shape(s, w, d, t, high)
    BY <1>2, BarShape
  <2> DEFINE was == Done(s, w, c, t)
             is  == Done(s, w, d, t)
             cells == Cells(s, w)
  <2>3. Fill(less) = 8 * was + IF ~Plain(s) /\ was < cells THEN low ELSE 0
    BY <1>2, <2>1, FillOfBar
  <2>4. Fill(more) = 8 * is + IF ~Plain(s) /\ is < cells THEN high ELSE 0
    BY <1>2, <2>2, FillOfBar
  <2>5. was \in Nat /\ is \in Nat /\ was <= is /\ cells \in Nat
    BY <1>2, CellsType, DoneBounds, DoneMono
  <2>6. ~Plain(s) /\ was = is => low <= high
    BY <1>2, <2>1, <2>2, LevelsGrow
  <2> HIDE DEF was, is, cells
  <2> QED BY <2>3, <2>4, <2>5, <2>6
<1> QED BY <1>1, <1>2

-----------------------------------------------------------------------------
(* A bar that looks full. *)

\* When the glyphs fill the length, only the whole fills every cell.
LEMMA FullIsDone ==
  ASSUME NEW s \in StyleType, NEW w \in Int, Renders(s, w), Inner(s, w) % s.unit = 0,
         NEW t \in Nat \ {0}, NEW c \in 0 .. t, NEW bar \in Bar(s, w, c, t),
         \A i \in DOMAIN bar : bar[i] \in {Full, Divider}
  PROVE  c = t
<1> DEFINE done  == Done(s, w, c, t)
           cells == Cells(s, w)
<1>1. PICK mid \in 0 .. 7 : bar = Shape(s, w, c, t, mid)
  BY BarShape
<1>2. /\ cells \in Nat \ {0} /\ done \in 0 .. cells /\ s.left \in BOOLEAN
      /\ s.unit \in {1, 2} /\ Inner(s, w) \in Nat \ {0}
      /\ done * s.unit * t <= c * Inner(s, w)
  BY CellsType, DoneBounds
<1>3. Empty \notin {Full, Divider} /\ mid \notin {Full, Divider}
  BY DEF Empty, Full, Divider
<1>4. done = cells
  <2>1. CASE Plain(s) /\ s.left
    <3>1. bar = Cut(cells + 1, cells - done, Empty, Divider, Full)
      BY <1>1, <2>1 DEF Shape, PlainAt, Before, After
    <3> HIDE DEF done, cells
    <3>2. 1 \in DOMAIN bar /\ (1 <= cells - done => bar[1] = Empty)
      BY <1>2, <3>1 DEF Cut
    <3> QED BY <1>2, <1>3, <3>2
  <2>2. CASE Plain(s) /\ ~s.left
    <3>1. bar = Cut(cells + 1, done, Full, Divider, Empty)
      BY <1>1, <2>2 DEF Shape, PlainAt, Before, After
    <3> HIDE DEF done, cells
    <3>2. cells + 1 \in DOMAIN bar /\ (done < cells => bar[cells + 1] = Empty)
      BY <1>2, <3>1 DEF Cut
    <3> QED BY <1>2, <1>3, <3>2
  <2>3. CASE ~Plain(s) /\ s.left
    <3>1. bar = Cut(cells, cells - done - 1, Empty, mid, Full)
      BY <1>1, <2>3 DEF Shape, SmoothAt, Before, After
    <3> HIDE DEF done, cells
    <3>2. done < cells => cells - done \in DOMAIN bar /\ bar[cells - done] = mid
      BY <1>2, <3>1 DEF Cut
    <3> QED BY <1>2, <1>3, <3>2
  <2>4. CASE ~Plain(s) /\ ~s.left
    <3>1. bar = Cut(cells, done, Full, mid, Empty)
      BY <1>1, <2>4 DEF Shape, SmoothAt, Before, After
    <3> HIDE DEF done, cells
    <3>2. done < cells => done + 1 \in DOMAIN bar /\ bar[done + 1] = mid
      BY <1>2, <3>1 DEF Cut
    <3> QED BY <1>2, <1>3, <3>2
  <2> QED BY <1>2, <2>1, <2>2, <2>3, <2>4
<1>5. Inner(s, w) = cells * s.unit
  BY <1>2, Multiple DEF Cells
<1>6. Inner(s, w) * t <= c * Inner(s, w)
  BY <1>2, <1>4, <1>5
<1>7. t * Inner(s, w) <= c * Inner(s, w)
  BY <1>2, <1>6
<1>8. t <= c
  BY <1>2, <1>7, Factor
<1> QED BY <1>8
-----------------------------------------------------------------------------
(* The invariant. *)

\* What is shown: a bar of the renderer for the width of the terminal when it
\* was drawn, and the texts of the same reading.
ShownInv ==
  Drawn => /\ shown.width \in Widths /\ shown.total \in Totals \ {0}
           /\ shown.current \in 0 .. shown.total
           /\ shown.bar \in Bar(style, shown.width, shown.current, shown.total)
           /\ shown.percent = Percent(shown.current, shown.total)
           /\ shown.text = PercentColumns(shown.current, shown.total)
                             + FractColumns(shown.current, shown.total)

BarInv ==
  /\ style \in Styles /\ width \in Widths /\ builtFor \in Widths
  /\ result \in {"none", "frame"}
  /\ ShownInv

\* A reading that is rendered is drawn for the width the terminal has.
LEMMA RenderDraws ==
  ASSUME BarInv, NEW t \in Totals, NEW c \in 0 .. t + 1, Render(c, t)
  PROVE  /\ BarInv' /\ style' = style
         /\ shown'.width = width /\ shown'.current = c /\ shown'.total = t
<1>1. t \in Nat \ {0} /\ c \in 0 .. t /\ style \in Styles /\ width \in Widths /\ builtFor \in Widths
  BY DEF Render, Refused, BarInv
<1>2. builtFor' = width /\ style' = style /\ width' = width /\ result' = "frame"
  BY DEF Render, Rebuild
<1>3. PICK bar \in Bar(style, width, c, t) : shown' = Frame(width, c, t, bar)
  BY <1>2 DEF Render
<1>4. /\ shown'.width = width /\ shown'.current = c /\ shown'.total = t /\ shown'.bar = bar
      /\ shown'.percent = Percent(c, t) /\ shown'.text = PercentColumns(c, t) + FractColumns(c, t)
  BY <1>3, Zenon DEF Frame
<1>5. ShownInv'
  BY <1>1, <1>2, <1>3, <1>4 DEF ShownInv
<1> QED BY <1>1, <1>2, <1>4, <1>5 DEF BarInv

\* Nothing else touches what is shown.
LEMMA OthersKeep ==
  ASSUME BarInv, NEW c, NEW t, Resize \/ Refuse(c, t) \/ UNCHANGED vars
  PROVE  BarInv' /\ shown' = shown
<1>1. /\ style' = style /\ shown' = shown
      /\ width' \in Widths /\ builtFor' \in Widths /\ result' \in {"none", "frame"}
  BY DEF Resize, Refuse, vars, BarInv
<1>2. ShownInv'
  BY <1>1 DEF BarInv, ShownInv, Drawn, Nothing
<1> QED BY <1>1, <1>2 DEF BarInv

\* Every step keeps the invariant.
LEMMA BarStep ==
  BarInv /\ [Next]_vars => BarInv'
<1> SUFFICES ASSUME BarInv, [Next]_vars PROVE BarInv'
  OBVIOUS
<1>1. CASE Resize \/ UNCHANGED vars
  BY <1>1, OthersKeep
<1>2. ASSUME NEW t \in Totals, NEW c \in 0 .. t + 1, Refuse(c, t) PROVE BarInv'
  BY <1>2, OthersKeep
<1>3. ASSUME NEW t \in Totals, NEW c \in 0 .. t + 1, Render(c, t) PROVE BarInv'
  BY <1>3, RenderDraws
<1> QED BY <1>1, <1>2, <1>3 DEF Next

\* What is shown is always a bar of the renderer for the width it was drawn at.
THEOREM Invariance == Spec => []BarInv
<1>1. Init => BarInv
  BY DEF Init, BarInv, ShownInv, Drawn
<1> QED BY <1>1, BarStep, PTL DEF Spec

\* The types of what is shown.
LEMMA DrawnTypes ==
  ASSUME BarInv, Drawn
  PROVE  /\ style \in StyleType /\ shown.width \in Int /\ shown.total \in Nat \ {0}
         /\ shown.current \in 0 .. shown.total
         /\ shown.bar \in Bar(style, shown.width, shown.current, shown.total)
BY DEF BarInv, ShownInv

\* The cells of a bar are empty, full, a divider's level or the divider.
LEMMA BarType ==
  ASSUME NEW s \in StyleType, NEW w \in Int,
         NEW t \in Nat \ {0}, NEW c \in 0 .. t, NEW bar \in Bar(s, w, c, t)
  PROVE  bar \in Seq({Divider} \cup (Empty .. Full))
<1>1. CASE ~Renders(s, w)
  <2>1. bar = <<>>
    BY <1>1, NoBar
  <2> QED BY <2>1
<1>2. CASE Renders(s, w)
  <2>1. PICK mid \in 0 .. 7 : bar = Shape(s, w, c, t, mid)
    BY <1>2, BarShape
  <2>2. \E n \in Nat, at \in Int : \E x, m, y \in {Divider} \cup (Empty .. Full) :
          bar = Cut(n, at, x, m, y)
    <3>1. /\ Before(s) \in Empty .. Full /\ After(s) \in Empty .. Full /\ mid \in Empty .. Full
      BY DEF Before, After, Empty, Full
    <3>2. /\ Cells(s, w) \in Nat /\ Cells(s, w) + 1 \in Nat
          /\ PlainAt(s, w, c, t) \in Int /\ SmoothAt(s, w, c, t) \in Int
      BY <1>2, CellsType, DoneBounds DEF PlainAt, SmoothAt
    <3> QED BY <2>1, <3>1, <3>2, Zenon DEF Shape
  <2> QED BY <2>2 DEF Cut
<1> QED BY <1>1, <1>2

-----------------------------------------------------------------------------
(* What a reader may rely on. *)

\* The state always has the types the renderers expect.
THEOREM TypeCorrect == Spec => []TypeOK
<1>1. BarInv => TypeOK
  <2> SUFFICES ASSUME BarInv PROVE TypeOK
    OBVIOUS
  <2>1. ASSUME Drawn
        PROVE  /\ shown.total \in Totals \ {0} /\ shown.current \in 0 .. shown.total
               /\ shown.bar \in Seq({Divider} \cup (Empty .. Full))
               /\ shown.percent \in 0 .. 100
    <3>1. shown.bar \in Seq({Divider} \cup (Empty .. Full))
      BY <2>1, DrawnTypes, BarType
    <3>2. shown.percent \in 0 .. 100
      <4>1. shown.percent = Percent(shown.current, shown.total)
        BY <2>1 DEF BarInv, ShownInv
      <4>2. shown.total \in Nat \ {0} /\ shown.current \in 0 .. shown.total
        BY <2>1, DrawnTypes
      <4>3. \A t \in Nat \ {0} : \A c \in 0 .. t : Percent(c, t) \in 0 .. 100
        BY PercentBounds
      <4> QED BY <4>1, <4>2, <4>3
    <3> QED BY <2>1, <3>1, <3>2 DEF BarInv, ShownInv
  <2> QED BY <2>1 DEF BarInv, TypeOK
<1> QED BY <1>1, Invariance, PTL

\* A bar never takes more columns than the terminal had when it was drawn.
THEOREM NeverWraps == Spec => []FitsTerminal
<1>1. BarInv => FitsTerminal
  <2> SUFFICES ASSUME BarInv, Drawn
               PROVE  Columns(style, shown.bar) <= IF shown.width > 0 THEN shown.width ELSE 0
    BY DEF FitsTerminal
  <2>1. Columns(style, shown.bar) = BarColumns(style, shown.width)
    BY DrawnTypes, ColumnsOfBar
  <2> QED BY <2>1, DrawnTypes, ColumnsFit
<1> QED BY <1>1, Invariance, PTL

\* Every level of progress takes the same columns for one total and one width,
\* totals of four digits and less.
THEOREM StaysPut == Spec => []ConstantWidth
<1>1. BarInv => ConstantWidth
  <2> SUFFICES ASSUME BarInv, Drawn, NEW c \in 0 .. shown.total
      PROVE  /\ PercentColumns(c, shown.total) + FractColumns(c, shown.total) = shown.text
             /\ \A bar \in Bar(style, shown.width, c, shown.total) :
                  Columns(style, bar) = Columns(style, shown.bar)
    BY DEF ConstantWidth
  <2>1. /\ PercentColumns(c, shown.total) = PercentColumns(shown.current, shown.total)
        /\ FractColumns(c, shown.total) = FractColumns(shown.current, shown.total)
    BY DrawnTypes, PercentWidth, FractWidth
  <2>2. shown.text = PercentColumns(shown.current, shown.total)
                       + FractColumns(shown.current, shown.total)
    BY DEF BarInv, ShownInv
  <2>3. ASSUME NEW bar \in Bar(style, shown.width, c, shown.total)
        PROVE  Columns(style, bar) = Columns(style, shown.bar)
    BY DrawnTypes, ColumnsOfBar
  <2> QED BY <2>1, <2>2, <2>3
<1> QED BY <1>1, Invariance, PTL

\* Left is the mirror image of Right.
THEOREM Mirrored == Spec => []LeftMirrorsRight
<1>1. BarInv => LeftMirrorsRight
  <2> SUFFICES ASSUME BarInv, Drawn PROVE LeftMirrorsRight
    BY DEF LeftMirrorsRight
  <2>1. Reverse(shown.bar) \in Bar(Turned(style), shown.width, shown.current, shown.total)
    BY DrawnTypes, BarTurned
  <2> QED BY <2>1 DEF LeftMirrorsRight, Turned
<1> QED BY <1>1, Invariance, PTL

\* A bar that looks full is of something that is done, for totals and widths
\* up to Largest.
THEOREM FullIsHonest == Spec => []FullMeansDone
<1>1. BarInv => FullMeansDone
  <2> SUFFICES ASSUME BarInv, Drawn, shown.bar # <<>>,
                      Inner(style, shown.width) % style.unit = 0,
                      \A i \in DOMAIN shown.bar : shown.bar[i] \in {Full, Divider}
               PROVE  shown.current = shown.total
    BY DEF FullMeansDone
  <2>1. Renders(style, shown.width)
    BY DrawnTypes, NoBar
  <2> QED BY <2>1, DrawnTypes, FullIsDone
<1> QED BY <1>1, Invariance, PTL

\* The percentage never says more than is done, nor two percent less, for
\* totals up to Largest.
THEOREM PercentIsHonest == Spec => []PercentHonest
<1>1. BarInv => PercentHonest
  <2> SUFFICES ASSUME BarInv, Drawn PROVE PercentHonest
    BY DEF PercentHonest
  <2>1. shown.percent = Percent(shown.current, shown.total)
    BY DEF BarInv, ShownInv
  <2> QED BY <2>1, DrawnTypes, PercentBounds DEF PercentHonest
<1> QED BY <1>1, Invariance, PTL

\* While the width and the total stay, progress never moves a bar backwards,
\* for totals and widths up to Largest.
THEOREM OnlyForwards == Spec => NeverBackwards
<1>1. ASSUME BarInv, [Next]_vars, Drawn, shown'.total = shown.total,
             shown'.width = shown.width, shown'.current > shown.current
      PROVE  Fill(shown.bar) <= Fill(shown'.bar) /\ shown.percent <= shown'.percent
  <2>1. CASE shown' = shown
    <3>1. shown.current \in Int /\ shown'.current = shown.current
      BY <1>1, <2>1, DrawnTypes
    <3> QED BY <1>1, <3>1
  <2>2. ASSUME NEW t \in Totals, NEW c \in 0 .. t + 1, Render(c, t)
        PROVE  Fill(shown.bar) <= Fill(shown'.bar) /\ shown.percent <= shown'.percent
    <3>1. PICK bar \in Bar(style, width, c, t) : shown' = Frame(width, c, t, bar)
      BY <2>2 DEF Render, Rebuild
    <3>2. /\ shown'.width = width /\ shown'.current = c /\ shown'.total = t /\ shown'.bar = bar
          /\ shown'.percent = Percent(c, t)
      BY <3>1, Zenon DEF Frame
    <3>3. /\ t \in Nat \ {0} /\ c \in 0 .. t /\ shown.current \in 0 .. t /\ shown.current < c
          /\ style \in StyleType /\ width \in Int
          /\ shown.bar \in Bar(style, width, shown.current, t)
      <4>1. /\ style \in StyleType /\ shown.width \in Int /\ shown.total \in Nat \ {0}
            /\ shown.current \in 0 .. shown.total
            /\ shown.bar \in Bar(style, shown.width, shown.current, shown.total)
        BY <1>1, DrawnTypes
      <4>2. c <= t
        BY <2>2 DEF Render, Refused
      <4> QED BY <1>1, <3>2, <4>1, <4>2
    <3>4. Fill(shown.bar) <= Fill(bar)
      BY <3>3, FillGrows
    <3>5. Percent(shown.current, t) <= Percent(c, t)
      BY <3>3, PercentMono
    <3>6. shown.percent = Percent(shown.current, t)
      BY <1>1, <3>2 DEF BarInv, ShownInv
    <3> QED BY <3>2, <3>4, <3>5, <3>6
  <2> QED BY <1>1, <2>1, <2>2, OthersKeep DEF Next
<1>2. BarInv /\ [Next]_vars
        => [Drawn /\ shown'.total = shown.total /\ shown'.width = shown.width
              /\ shown'.current > shown.current
            => /\ Fill(shown.bar) <= Fill(shown'.bar)
               /\ shown.percent <= shown'.percent]_vars
  BY <1>1
<1> QED BY <1>2, Invariance, PTL DEF Spec, NeverBackwards
=============================================================================
