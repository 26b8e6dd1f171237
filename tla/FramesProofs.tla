---------------------------- MODULE FramesProofs ----------------------------
(***************************************************************************)
(* What holds of the FrameFuncs for frames of any length and any number of *)
(* leaves, states and calls.                                               *)
(*                                                                         *)
(* The provers know nothing of induction.  Here it comes from the theorem  *)
(* that a set of naturals which is not empty has a least member (Least):   *)
(* the members are the counterexamples to what is proved.                  *)
(***************************************************************************)
EXTENDS Frames, WellFoundedInduction, FiniteSetTheorems, TLAPS

-----------------------------------------------------------------------------
(* Induction. *)

Less == {p \in Nat \X Nat : p[1] < p[2]}

\* A set of naturals that is not empty has a least member.
LEMMA Least ==
  ASSUME NEW T, T \subseteq Nat, T # {}
  PROVE  \E x \in T : \A y \in T : x <= y
<1>1. IsWellFoundedOn(Less, Nat)
  BY NatLessThanWellFounded DEF OpToRel, Less
<1>2. PICK x \in T : \A y \in T : <<y, x>> \notin Less
  BY <1>1, WFMin
<1>3. \A y \in T : y \in Nat /\ x \in Nat /\ ~(y < x)
  BY <1>2 DEF Less
<1> QED BY <1>3

\* What is true of 0, and of a number when of the one before it.
LEMMA Induction ==
  ASSUME NEW n \in Nat, NEW P, 0 \in P, \A i \in 1 .. n : i - 1 \in P => i \in P
  PROVE  \A i \in 0 .. n : i \in P
<1> SUFFICES ASSUME {i \in 0 .. n : i \notin P} # {} PROVE FALSE
  OBVIOUS
<1>1. PICK x \in {i \in 0 .. n : i \notin P} : \A y \in {i \in 0 .. n : i \notin P} : x <= y
  <2> DEFINE T == {i \in 0 .. n : i \notin P}
  <2>1. T \subseteq Nat /\ T # {}
    OBVIOUS
  <2> HIDE DEF T
  <2>2. \E x \in T : \A y \in T : x <= y
    BY <2>1, Least
  <2> QED BY <2>2 DEF T
<1>2. x \in 1 .. n /\ x \notin P
  BY <1>1
<1>3. x - 1 \in 0 .. n /\ ~(x <= x - 1)
  BY <1>2
<1>4. x - 1 \in P
  BY <1>1, <1>3
<1> QED BY <1>2, <1>4

\* The steps of a recursion to n, and what they make of the first value.
Steps(n, S) == [1 .. n -> [S -> S]]
Unfolds(F, n, S, a, h) ==
  F \in [0 .. n -> S] /\ F[0] = a /\ \A i \in 1 .. n : F[i] = h[i][F[i - 1]]

\* A function on 0 .. n is given by its first value and its steps.
LEMMA Recursion ==
  ASSUME NEW n \in Nat, NEW S, NEW a \in S, NEW h, h \in Steps(n, S)
  PROVE  \E F : Unfolds(F, n, S, a, h)
<1> USE DEF Steps
<1> DEFINE Good(m, F) == F[0] = a /\ \A i \in 1 .. m : F[i] = h[i][F[i - 1]]
           P == {m \in 0 .. n : \E F \in [0 .. m -> S] : Good(m, F)}
<1>1. 0 \in P
  <2> DEFINE F == [i \in 0 .. 0 |-> a]
  <2>1. F \in [0 .. 0 -> S] /\ F[0] = a /\ 0 \in 0 .. n
    OBVIOUS
  <2> HIDE DEF F
  <2>2. Good(0, F)
    BY <2>1
  <2> QED BY <2>1, <2>2, Zenon
<1>2. ASSUME NEW m \in 1 .. n, m - 1 \in P PROVE m \in P
  <2>1. PICK F \in [0 .. m - 1 -> S] : Good(m - 1, F)
    BY <1>2
  <2> DEFINE G == [i \in 0 .. m |-> IF i < m THEN F[i] ELSE h[m][F[m - 1]]]
  <2>2. F[m - 1] \in S /\ m \in 1 .. n
    OBVIOUS
  <2>3. h[m][F[m - 1]] \in S
    BY <2>2
  <2>4. G \in [0 .. m -> S]
    BY <2>3
  <2>5. G[0] = a
    BY <2>1
  <2>6. ASSUME NEW i \in 1 .. m PROVE G[i] = h[i][G[i - 1]]
    <3>1. G[i - 1] = F[i - 1]
      OBVIOUS
    <3>2. CASE i < m
      BY <2>1, <3>1, <3>2
    <3>3. CASE i = m
      <4>1. G[m] = h[m][F[m - 1]]
        OBVIOUS
      <4> QED BY <3>1, <3>3, <4>1, Zenon
    <3> QED BY <3>2, <3>3
  <2>7. m \in 0 .. n
    OBVIOUS
  <2> HIDE DEF G
  <2> QED BY <2>4, <2>5, <2>6, <2>7, Zenon
<1> HIDE DEF P
<1>3. \A m \in 0 .. n : m \in P
  BY <1>1, <1>2, Induction
<1> QED BY <1>3 DEF P, Unfolds
-----------------------------------------------------------------------------
(* The columns of a frame. *)

Glyph == Names \X Nat
Frame == Seq(Glyph)

\* An error is no frame.
LEMMA NoFrameIsNone == NoFrame \notin Frame
BY FramesAssumption DEF Frame, Glyph

LEMMA TakesType == \A g : Takes(g) \in 0 .. 2
BY DEF Takes

\* The function Columns is defined with.
ColumnsTo(frame) ==
  CHOOSE upTo : upTo = [n \in 0 .. Len(frame) |->
                          IF n = 0 THEN 0 ELSE upTo[n - 1] + Takes(frame[n])]

LEMMA ColumnsToDef ==
  ASSUME NEW frame \in Frame
  PROVE  /\ Columns(frame) = ColumnsTo(frame)[Len(frame)]
         /\ ColumnsTo(frame) \in [0 .. Len(frame) -> Nat]
         /\ ColumnsTo(frame)[0] = 0
         /\ \A n \in 1 .. Len(frame) :
              ColumnsTo(frame)[n] = ColumnsTo(frame)[n - 1] + Takes(frame[n])
<1> DEFINE len == Len(frame)
           Eq(F) == F = [n \in 0 .. len |-> IF n = 0 THEN 0 ELSE F[n - 1] + Takes(frame[n])]
           h == [i \in 1 .. len |-> [v \in Nat |-> v + Takes(frame[i])]]
           C == ColumnsTo(frame)
<1>1. Columns(frame) = C[len]
  BY Zenon DEF Columns, ColumnsTo
<1>2. len \in Nat
  BY DEF Frame
<1>3. \E F : Eq(F)
  <2> HIDE DEF len
  <2>1. h \in [1 .. len -> [Nat -> Nat]]
    BY TakesType
  <2>2. \A v \in Nat, i \in 1 .. len : h[i][v] = v + Takes(frame[i])
    OBVIOUS
  <2> DEFINE S == Nat
             a == 0
  <2>3. a \in S /\ h \in Steps(len, S)
    BY <2>1 DEF Steps
  <2> HIDE DEF h, S, a
  <2>4. PICK F : Unfolds(F, len, S, a, h)
    BY <1>2, <2>3, Recursion
  <2>5. F \in [0 .. len -> Nat] /\ F[0] = 0 /\ \A i \in 1 .. len : F[i] = h[i][F[i - 1]]
    BY <2>4 DEF Unfolds, S, a
  <2>6. \A i \in 1 .. len : F[i] = F[i - 1] + Takes(frame[i])
    <3> SUFFICES ASSUME NEW i \in 1 .. len PROVE F[i] = F[i - 1] + Takes(frame[i])
      OBVIOUS
    <3>1. F[i - 1] \in Nat
      BY <1>2, <2>5
    <3> QED BY <2>2, <2>5, <3>1
  <2>7. Eq(F)
    BY <1>2, <2>5, <2>6
  <2> QED BY <2>7
<1>4. Eq(C)
  BY <1>3, Zenon DEF ColumnsTo
<1> HIDE DEF C, len
<1>5. /\ DOMAIN C = 0 .. len /\ C[0] = 0
      /\ \A n \in 1 .. len : C[n] = C[n - 1] + Takes(frame[n])
  BY <1>2, <1>4
<1>6. \A n \in 0 .. len : C[n] \in Nat
  <2> DEFINE P == {n \in 0 .. len : C[n] \in Nat}
  <2>1. 0 \in P
    BY <1>2, <1>5
  <2>2. ASSUME NEW n \in 1 .. len, n - 1 \in P PROVE n \in P
    BY <1>2, <1>5, <2>2, TakesType
  <2> HIDE DEF P
  <2>3. \A n \in 0 .. len : n \in P
    BY <1>2, <2>1, <2>2, Induction
  <2> QED BY <2>3 DEF P
<1>7. C \in [0 .. len -> Nat]
  BY <1>4, <1>5, <1>6
<1> QED BY <1>1, <1>5, <1>7 DEF C, len

\* What comes later does not change the columns so far.
LEMMA ColumnsToPrefix ==
  ASSUME NEW s \in Frame, NEW u \in Frame, Len(s) <= Len(u),
         \A i \in 1 .. Len(s) : u[i] = s[i]
  PROVE  \A n \in 0 .. Len(s) : ColumnsTo(u)[n] = ColumnsTo(s)[n]
<1> DEFINE C == ColumnsTo(s)
           D == ColumnsTo(u)
           P == {n \in 0 .. Len(s) : D[n] = C[n]}
<1>1. /\ Len(s) \in Nat /\ Len(u) \in Nat /\ C[0] = 0 /\ D[0] = 0
      /\ \A n \in 1 .. Len(s) : C[n] = C[n - 1] + Takes(s[n])
      /\ \A n \in 1 .. Len(u) : D[n] = D[n - 1] + Takes(u[n])
  BY ColumnsToDef DEF Frame
<1> HIDE DEF C, D
<1>2. 0 \in P
  BY <1>1
<1>3. ASSUME NEW n \in 1 .. Len(s), n - 1 \in P PROVE n \in P
  BY <1>1, <1>3
<1> HIDE DEF P
<1>4. \A n \in 0 .. Len(s) : n \in P
  BY <1>1, <1>2, <1>3, Induction
<1> QED BY <1>4 DEF P, C, D

\* One glyph more.
LEMMA ColumnsAppend ==
  ASSUME NEW s \in Frame, NEW g \in Glyph
  PROVE  /\ Append(s, g) \in Frame /\ Columns(s) \in Nat
         /\ Columns(Append(s, g)) = Columns(s) + Takes(g)
<1> DEFINE u == Append(s, g)
<1>1. /\ u \in Frame /\ Len(s) \in Nat /\ Len(u) = Len(s) + 1 /\ u[Len(s) + 1] = g
      /\ \A i \in 1 .. Len(s) : u[i] = s[i]
  BY DEF Frame
<1> HIDE DEF u
<1>2. ColumnsTo(u)[Len(s)] = ColumnsTo(s)[Len(s)]
  BY <1>1, ColumnsToPrefix
<1>3. Columns(u) = ColumnsTo(u)[Len(s) + 1] /\ Columns(s) = ColumnsTo(s)[Len(s)]
  BY <1>1, ColumnsToDef
<1>4. ColumnsTo(s)[Len(s)] \in Nat
  BY <1>1, ColumnsToDef
<1>5. ColumnsTo(u)[Len(s) + 1] = ColumnsTo(u)[Len(s)] + Takes(u[Len(s) + 1])
  <2>1. Len(s) + 1 \in 1 .. Len(u) /\ (Len(s) + 1) - 1 = Len(s)
    BY <1>1
  <2>2. ColumnsTo(u)[Len(s) + 1] = ColumnsTo(u)[(Len(s) + 1) - 1] + Takes(u[Len(s) + 1])
    BY <1>1, <2>1, ColumnsToDef
  <2> QED BY <2>1, <2>2
<1> QED BY <1>1, <1>2, <1>3, <1>4, <1>5 DEF u

LEMMA ColumnsEmpty == <<>> \in Frame /\ Columns(<<>>) = 0
<1>1. <<>> \in Frame /\ Len(<<>>) = 0
  BY DEF Frame
<1> QED BY <1>1, ColumnsToDef
-----------------------------------------------------------------------------
(* The escape sequences of a frame. *)

Escapes(s) == Cardinality({i \in DOMAIN s : s[i][1] = "escape"})

LEMMA EscapesEmpty == Escapes(<<>>) = 0
<1>1. {i \in DOMAIN <<>> : <<>>[i][1] = "escape"} = {}
  OBVIOUS
<1> QED BY <1>1, FS_EmptySet, Zenon DEF Escapes

\* One glyph more.
LEMMA EscapesAppend ==
  ASSUME NEW s \in Frame, NEW g \in Glyph
  PROVE  /\ Escapes(s) \in Nat
         /\ Escapes(Append(s, g)) = Escapes(s) + IF g[1] = "escape" THEN 1 ELSE 0
<1> DEFINE u == Append(s, g)
           E == {i \in DOMAIN s : s[i][1] = "escape"}
           E1 == {i \in DOMAIN u : u[i][1] = "escape"}
           n == Len(s)
<1>1. /\ DOMAIN s = 1 .. n /\ n \in Nat /\ DOMAIN u = 1 .. n + 1
      /\ u[n + 1] = g /\ \A i \in 1 .. n : u[i] = s[i]
  BY DEF Frame
<1>2. IsFiniteSet(E) /\ Cardinality(E) \in Nat
  <2>1. IsFiniteSet(1 .. n) /\ E \subseteq 1 .. n
    BY <1>1, FS_Interval
  <2> HIDE DEF E, n
  <2>2. IsFiniteSet(E)
    BY <2>1, FS_Subset
  <2> QED BY <2>2, FS_CardinalityType
<1>3. E1 = IF g[1] = "escape" THEN E \cup {n + 1} ELSE E
  <2> HIDE DEF u, n
  <2> QED BY <1>1
<1>4. n + 1 \notin E
  BY <1>1
<1> HIDE DEF E, E1, n, u
<1>5. Cardinality(E \cup {n + 1}) = Cardinality(E) + 1
  BY <1>2, <1>4, FS_AddElement
<1>6. Escapes(s) = Cardinality(E) /\ Escapes(u) = Cardinality(E1)
  BY Zenon DEF Escapes, E, E1
<1> QED BY <1>2, <1>3, <1>5, <1>6 DEF u

-----------------------------------------------------------------------------
(* Crop. *)

Cropped == [out : Frame, more : BOOLEAN]

LEMMA CropStepType ==
  ASSUME NEW w \in Nat, NEW c \in Cropped, NEW g \in Glyph
  PROVE  CropStep(w, c, g) \in Cropped
<1>1. Append(c.out, g) \in Frame /\ c.out \in Frame /\ c.more \in BOOLEAN
  BY ColumnsAppend DEF Cropped
<1> QED BY <1>1 DEF CropStep, Cropped

\* The function Crop is defined with.
CropTo(w, frame) ==
  CHOOSE upTo : upTo = [n \in 0 .. Len(frame) |->
                          IF n = 0 THEN [out |-> <<>>, more |-> TRUE]
                          ELSE CropStep(w, upTo[n - 1], frame[n])]

LEMMA CropToDef ==
  ASSUME NEW w \in Nat, NEW frame \in Frame
  PROVE  /\ Crop(w, frame) = CropTo(w, frame)[Len(frame)].out
         /\ CropTo(w, frame) \in [0 .. Len(frame) -> Cropped]
         /\ CropTo(w, frame)[0] = [out |-> <<>>, more |-> TRUE]
         /\ \A n \in 1 .. Len(frame) :
              CropTo(w, frame)[n] = CropStep(w, CropTo(w, frame)[n - 1], frame[n])
<1> DEFINE len == Len(frame)
           a == [out |-> <<>>, more |-> TRUE]
           Eq(F) == F = [n \in 0 .. len |-> IF n = 0 THEN a ELSE CropStep(w, F[n - 1], frame[n])]
           h == [i \in 1 .. len |-> [c \in Cropped |-> CropStep(w, c, frame[i])]]
           C == CropTo(w, frame)
<1>1. Crop(w, frame) = C[len].out
  BY Zenon DEF Crop, CropTo
<1>2. len \in Nat /\ \A i \in 1 .. len : frame[i] \in Glyph
  BY DEF Frame
<1>3. a \in Cropped
  BY ColumnsEmpty DEF Cropped
<1>4. \E F : Eq(F)
  <2> HIDE DEF len, a
  <2>1. h \in Steps(len, Cropped)
    BY <1>2, CropStepType DEF Steps
  <2>2. \A c \in Cropped, i \in 1 .. len : h[i][c] = CropStep(w, c, frame[i])
    OBVIOUS
  <2> HIDE DEF h
  <2>3. PICK F : Unfolds(F, len, Cropped, a, h)
    BY <1>2, <1>3, <2>1, Recursion
  <2>4. /\ F \in [0 .. len -> Cropped] /\ F[0] = a
        /\ \A i \in 1 .. len : F[i] = h[i][F[i - 1]]
    BY <2>3 DEF Unfolds
  <2>5. \A i \in 1 .. len : F[i] = CropStep(w, F[i - 1], frame[i])
    <3> SUFFICES ASSUME NEW i \in 1 .. len PROVE F[i] = CropStep(w, F[i - 1], frame[i])
      OBVIOUS
    <3>1. F[i - 1] \in Cropped
      BY <1>2, <2>4
    <3> QED BY <2>2, <2>4, <3>1
  <2>6. Eq(F)
    BY <1>2, <2>4, <2>5
  <2> QED BY <2>6
<1>5. Eq(C)
  BY <1>4, Zenon DEF CropTo
<1> HIDE DEF C, len, a
<1>6. /\ DOMAIN C = 0 .. len /\ C[0] = a
      /\ \A n \in 1 .. len : C[n] = CropStep(w, C[n - 1], frame[n])
  BY <1>2, <1>5
<1>7. \A n \in 0 .. len : C[n] \in Cropped
  <2> DEFINE P == {n \in 0 .. len : C[n] \in Cropped}
  <2>1. 0 \in P
    BY <1>2, <1>3, <1>6
  <2>2. ASSUME NEW n \in 1 .. len, n - 1 \in P PROVE n \in P
    BY <1>2, <1>6, <2>2, CropStepType
  <2> HIDE DEF P
  <2>3. \A n \in 0 .. len : n \in P
    BY <1>2, <2>1, <2>2, Induction
  <2> QED BY <2>3 DEF P
<1>8. C \in [0 .. len -> Cropped]
  BY <1>5, <1>6, <1>7
<1> QED BY <1>1, <1>6, <1>8 DEF C, len, a

\* What is kept of the glyphs so far.
CropGood(w, all, c) ==
  /\ Columns(c.out) <= w
  /\ Escapes(c.out) = Escapes(all)
  /\ c.more => c.out = all
  /\ ~c.more => Columns(c.out) + 2 > w

LEMMA CropStepGood ==
  ASSUME NEW w \in Nat, NEW all \in Frame, NEW c \in Cropped, NEW g \in Glyph,
         CropGood(w, all, c)
  PROVE  CropGood(w, Append(all, g), CropStep(w, c, g))
<1> DEFINE fits == Takes(g) = 0 \/ (c.more /\ Columns(c.out) + Takes(g) <= w)
           d == CropStep(w, c, g)
<1>1. /\ c.out \in Frame /\ c.more \in BOOLEAN /\ Takes(g) \in 0 .. 2
      /\ (g[1] = "escape" => Takes(g) = 0)
  BY TakesType DEF Cropped, Takes
<1>2. d.out = (IF fits THEN Append(c.out, g) ELSE c.out) /\ d.more = (c.more /\ fits)
  BY Zenon DEF CropStep
<1>3. /\ Columns(c.out) \in Nat /\ Columns(Append(c.out, g)) = Columns(c.out) + Takes(g)
  BY <1>1, ColumnsAppend
<1>4. /\ Escapes(c.out) \in Nat
      /\ Escapes(Append(c.out, g)) = Escapes(c.out) + IF g[1] = "escape" THEN 1 ELSE 0
      /\ Escapes(Append(all, g)) = Escapes(all) + IF g[1] = "escape" THEN 1 ELSE 0
  BY <1>1, EscapesAppend
<1> HIDE DEF d
<1>5. CASE fits
  <2>1. d.out = Append(c.out, g) /\ d.more = c.more
    BY <1>1, <1>2, <1>5
  <2>2. Columns(d.out) <= w
    BY <1>1, <1>3, <1>5, <2>1 DEF CropGood
  <2>3. Escapes(d.out) = Escapes(Append(all, g))
    BY <1>4, <2>1 DEF CropGood
  <2>4. d.more => d.out = Append(all, g)
    BY <2>1 DEF CropGood
  <2>5. ~d.more => Columns(d.out) + 2 > w
    BY <1>1, <1>3, <2>1 DEF CropGood
  <2> QED BY <2>2, <2>3, <2>4, <2>5 DEF CropGood, d
<1>6. CASE ~fits
  <2>1. d.out = c.out /\ d.more = FALSE
    BY <1>1, <1>2, <1>6
  <2>2. g[1] # "escape"
    BY <1>1, <1>6
  <2>3. Columns(c.out) + 2 > w
    BY <1>1, <1>3, <1>6 DEF CropGood
  <2> QED BY <1>3, <1>4, <2>1, <2>2, <2>3 DEF CropGood, d
<1> QED BY <1>5, <1>6

\* A cropped frame fits, keeps every escape sequence, and is cut only for want
\* of a column.
LEMMA CropFits ==
  ASSUME NEW w \in Nat, NEW frame \in Frame
  PROVE  /\ Crop(w, frame) \in Frame
         /\ Columns(Crop(w, frame)) <= w
         /\ Escapes(Crop(w, frame)) = Escapes(frame)
         /\ Crop(w, frame) = frame \/ Columns(Crop(w, frame)) + 2 > w
<1> DEFINE len == Len(frame)
           C == CropTo(w, frame)
           FirstOf(n) == SubSeq(frame, 1, n)
           P == {n \in 0 .. len : CropGood(w, FirstOf(n), C[n])}
<1>1. /\ len \in Nat /\ FirstOf(0) = <<>> /\ FirstOf(len) = frame
      /\ \A n \in 1 .. len : /\ FirstOf(n - 1) \in Frame /\ frame[n] \in Glyph
                             /\ FirstOf(n) = Append(FirstOf(n - 1), frame[n])
  BY DEF Frame
<1>2. /\ Crop(w, frame) = C[len].out /\ \A n \in 0 .. len : C[n] \in Cropped
      /\ C[0] = [out |-> <<>>, more |-> TRUE]
      /\ \A n \in 1 .. len : C[n] = CropStep(w, C[n - 1], frame[n])
  BY <1>1, CropToDef
<1> HIDE DEF C, FirstOf, len
<1>3. 0 \in P
  <2>1. C[0].out = <<>> /\ C[0].more = TRUE
    BY <1>2
  <2> QED BY <1>1, <2>1, ColumnsEmpty DEF CropGood
<1>4. ASSUME NEW n \in 1 .. len, n - 1 \in P PROVE n \in P
  <2>1. C[n - 1] \in Cropped /\ n \in 0 .. len /\ n - 1 \in 0 .. len
    BY <1>1, <1>2
  <2>2. CropGood(w, FirstOf(n - 1), C[n - 1])
    BY <1>4
  <2>3. CropGood(w, Append(FirstOf(n - 1), frame[n]), CropStep(w, C[n - 1], frame[n]))
    BY <1>1, <2>1, <2>2, CropStepGood
  <2> QED BY <1>1, <1>2, <2>1, <2>3
<1> HIDE DEF P
<1>5. \A n \in 0 .. len : n \in P
  BY <1>1, <1>3, <1>4, Induction
<1>6. CropGood(w, frame, C[len]) /\ C[len] \in Cropped
  BY <1>1, <1>2, <1>5 DEF P
<1>7. C[len].out \in Frame /\ C[len].more \in BOOLEAN
  BY <1>6 DEF Cropped
<1> QED BY <1>2, <1>6, <1>7 DEF CropGood
-----------------------------------------------------------------------------
(* Join. *)

\* The function Joined is defined with, for the divider d.
JoinedTo(pieces, d) ==
  CHOOSE upTo : upTo = [n \in 0 .. Len(pieces) |->
                          IF n = 0 THEN <<>>
                          ELSE (IF n = 1 THEN <<>> ELSE upTo[n - 1] \o d) \o pieces[n]]

\* A join of frames is a frame.
LEMMA JoinedType ==
  ASSUME NEW pieces \in Seq(Frame), f.divider \in Frame
  PROVE  Joined(pieces) \in Frame
<1> DEFINE len == Len(pieces)
           d == f.divider
           a == <<>>
           Next1(v, i) == (IF i = 1 THEN <<>> ELSE v \o d) \o pieces[i]
           Eq(F) == F = [n \in 0 .. len |-> IF n = 0 THEN a ELSE Next1(F[n - 1], n)]
           h == [i \in 1 .. len |-> [v \in Frame |-> Next1(v, i)]]
           C == JoinedTo(pieces, f.divider)
<1>1. Joined(pieces) = C[len]
  BY Zenon DEF Joined, JoinedTo
<1>2. len \in Nat /\ \A i \in 1 .. len : pieces[i] \in Frame
  OBVIOUS
<1>3. a \in Frame
  BY ColumnsEmpty
<1>4. \A v \in Frame, i \in 1 .. len : Next1(v, i) \in Frame
  <2> SUFFICES ASSUME NEW v \in Frame, NEW i \in 1 .. len PROVE Next1(v, i) \in Frame
    OBVIOUS
  <2>1. pieces[i] \in Frame /\ v \o d \in Frame
    BY <1>2 DEF Frame
  <2> QED BY <1>3, <2>1 DEF Frame
<1>5. \E F : Eq(F)
  <2> HIDE DEF len, a, Next1, d
  <2>1. h \in Steps(len, Frame)
    BY <1>4 DEF Steps
  <2>2. \A v \in Frame, i \in 1 .. len : h[i][v] = Next1(v, i)
    OBVIOUS
  <2> HIDE DEF h
  <2>3. PICK F : Unfolds(F, len, Frame, a, h)
    BY <1>2, <1>3, <2>1, Recursion
  <2>4. F \in [0 .. len -> Frame] /\ F[0] = a /\ \A i \in 1 .. len : F[i] = h[i][F[i - 1]]
    BY <2>3 DEF Unfolds
  <2>5. \A i \in 1 .. len : F[i] = Next1(F[i - 1], i)
    <3> SUFFICES ASSUME NEW i \in 1 .. len PROVE F[i] = Next1(F[i - 1], i)
      OBVIOUS
    <3>1. F[i - 1] \in Frame
      BY <1>2, <2>4
    <3> QED BY <2>2, <2>4, <3>1
  <2>6. Eq(F)
    BY <1>2, <2>4, <2>5
  <2> QED BY <2>6
<1>6. Eq(C)
  BY <1>5, Zenon DEF JoinedTo
<1> HIDE DEF C, len, a, Next1, d
<1>7. C[0] = a /\ \A n \in 1 .. len : C[n] = Next1(C[n - 1], n)
  <2>1. \A n \in 0 .. len : C[n] = IF n = 0 THEN a ELSE Next1(C[n - 1], n)
    <3> HIDE DEF h
    <3> QED BY <1>6, Zenon
  <2> QED BY <1>2, <2>1
<1> DEFINE P == {n \in 0 .. len : C[n] \in Frame}
<1>8. 0 \in P
  BY <1>2, <1>3, <1>7
<1>9. ASSUME NEW n \in 1 .. len, n - 1 \in P PROVE n \in P
  BY <1>2, <1>4, <1>7, <1>9
<1> HIDE DEF P
<1>10. \A n \in 0 .. len : n \in P
  BY <1>2, <1>8, <1>9, Induction
<1> QED BY <1>1, <1>2, <1>10 DEF P

\* The function WithoutNil is defined with.
NonNilTo(leaves) ==
  CHOOSE upTo : upTo = [n \in 0 .. Len(leaves) |->
                          IF n = 0 THEN <<>>
                          ELSE IF leaves[n].kind = "nil" THEN upTo[n - 1]
                          ELSE Append(upTo[n - 1], leaves[n])]

\* What is left of a list of leaves is leaves of it that are not nil, and all
\* of them when none is.
LEMMA WithoutNilType ==
  ASSUME NEW S, NEW leaves \in Seq(S)
  PROVE  /\ WithoutNil(leaves) \in Seq({l \in S : l.kind # "nil"})
         /\ Len(WithoutNil(leaves)) <= Len(leaves)
         /\ (\A i \in 1 .. Len(leaves) : leaves[i].kind # "nil") =>
              Len(WithoutNil(leaves)) = Len(leaves)
<1> DEFINE len == Len(leaves)
           T == Seq({l \in S : l.kind # "nil"})
           a == <<>>
           Next1(v, i) == IF leaves[i].kind = "nil" THEN v ELSE Append(v, leaves[i])
           Eq(F) == F = [n \in 0 .. len |-> IF n = 0 THEN a ELSE Next1(F[n - 1], n)]
           h == [i \in 1 .. len |-> [v \in T |-> Next1(v, i)]]
           C == NonNilTo(leaves)
<1>1. WithoutNil(leaves) = C[len]
  BY Zenon DEF WithoutNil, NonNilTo
<1>2. len \in Nat /\ \A i \in 1 .. len : leaves[i] \in S
  OBVIOUS
<1>3. a \in T
  OBVIOUS
<1>4. \A v \in T, i \in 1 .. len : Next1(v, i) \in T
  <2> SUFFICES ASSUME NEW v \in T, NEW i \in 1 .. len PROVE Next1(v, i) \in T
    OBVIOUS
  <2>1. leaves[i].kind # "nil" => leaves[i] \in {l \in S : l.kind # "nil"}
    BY <1>2
  <2> QED BY <2>1
<1>5. \E F : Eq(F)
  <2> HIDE DEF len, a, Next1, T
  <2>1. h \in Steps(len, T)
    BY <1>4 DEF Steps
  <2>2. \A v \in T, i \in 1 .. len : h[i][v] = Next1(v, i)
    OBVIOUS
  <2> HIDE DEF h
  <2>3. PICK F : Unfolds(F, len, T, a, h)
    BY <1>2, <1>3, <2>1, Recursion
  <2>4. F \in [0 .. len -> T] /\ F[0] = a /\ \A i \in 1 .. len : F[i] = h[i][F[i - 1]]
    BY <2>3 DEF Unfolds
  <2>5. \A i \in 1 .. len : F[i] = Next1(F[i - 1], i)
    <3> SUFFICES ASSUME NEW i \in 1 .. len PROVE F[i] = Next1(F[i - 1], i)
      OBVIOUS
    <3>1. F[i - 1] \in T
      BY <1>2, <2>4
    <3> QED BY <2>2, <2>4, <3>1
  <2>6. Eq(F)
    BY <1>2, <2>4, <2>5
  <2> QED BY <2>6
<1>6. Eq(C)
  BY <1>5, Zenon DEF NonNilTo
<1> HIDE DEF C, len, a, Next1, T
<1>7. C[0] = a /\ \A n \in 1 .. len : C[n] = Next1(C[n - 1], n)
  BY <1>2, <1>6
<1> DEFINE All(n) == \A i \in 1 .. n : leaves[i].kind # "nil"
           Good(v, n) == v \in T /\ Len(v) <= n /\ (All(n) => Len(v) = n)
           P == {n \in 0 .. len : Good(C[n], n)}
<1>8. 0 \in P
  <2>1. Len(a) = 0
    BY DEF a
  <2> QED BY <1>2, <1>3, <1>7, <2>1
<1>9. ASSUME NEW n \in 1 .. len, n - 1 \in P PROVE n \in P
  <2>1. n - 1 \in Nat /\ n \in 0 .. len /\ C[n] = Next1(C[n - 1], n)
    BY <1>2, <1>7
  <2>2. C[n - 1] \in T /\ Len(C[n - 1]) <= n - 1
    BY <1>9
  <2>3. All(n - 1) => Len(C[n - 1]) = n - 1
    BY <1>9
  <2>4. Len(C[n - 1]) \in Nat
    BY <2>2 DEF T
  <2>5. C[n] \in T
    BY <1>4, <2>1, <2>2
  <2>6. CASE leaves[n].kind = "nil"
    <3>1. C[n] = C[n - 1] /\ ~All(n)
      BY <1>2, <2>1, <2>6 DEF Next1
    <3> HIDE DEF All
    <3> QED BY <2>1, <2>2, <2>4, <2>5, <3>1
  <2>7. CASE leaves[n].kind # "nil"
    <3>1. C[n] = Append(C[n - 1], leaves[n])
      BY <2>1, <2>7 DEF Next1
    <3>2. Len(C[n]) = Len(C[n - 1]) + 1
      BY <2>2, <3>1 DEF T
    <3>3. All(n) => All(n - 1)
      BY <2>1
    <3> HIDE DEF All
    <3> QED BY <2>1, <2>2, <2>3, <2>4, <2>5, <3>2, <3>3
  <2> QED BY <2>6, <2>7
<1> HIDE DEF P
<1>10. \A n \in 0 .. len : n \in P
  BY <1>2, <1>8, <1>9, Induction
<1>11. Good(C[len], len)
  BY <1>2, <1>10 DEF P
<1> QED BY <1>1, <1>11 DEF T, len
-----------------------------------------------------------------------------
(* Counting calls. *)

\* Quotient and remainder are unique.
Split(x, n, d, r) == d \in Int /\ r \in 0 .. n - 1 /\ x = d * n + r

LEMMA Divided ==
  ASSUME NEW x \in Int, NEW n \in Nat \ {0}, NEW d, NEW r, Split(x, n, d, r)
  PROVE  x \div n = d /\ x % n = r
<1>1. x \div n = d
  BY DEF Split
<1>2. x % n = r
  BY DEF Split
<1> QED BY <1>1, <1>2

\* The state after the current one.
LEMMA NextState ==
  ASSUME NEW x \in Nat, NEW n \in Nat \ {0}
  PROVE  x % n \in 0 .. n - 1 /\ ((x % n) + 1) % n = (x + 1) % n
<1> DEFINE d == x \div n
           r == x % n
<1>1. x = n * d + r /\ d \in Int /\ r \in 0 .. n - 1
  <2>1. x = n * (x \div n) + (x % n)
    OBVIOUS
  <2> QED BY <2>1
<1> HIDE DEF d, r
<1>2. CASE r + 1 < n
  <2>1. Split(x + 1, n, d, r + 1) /\ Split(r + 1, n, 0, r + 1)
    BY <1>1, <1>2 DEF Split
  <2>2. (x + 1) % n = r + 1 /\ (r + 1) % n = r + 1
    BY <1>1, <2>1, Divided
  <2> QED BY <1>1, <2>2 DEF r
<1>3. CASE r + 1 = n
  <2>1. Split(x + 1, n, d + 1, 0) /\ Split(n, n, 1, 0)
    BY <1>1, <1>3 DEF Split
  <2>2. (x + 1) % n = 0 /\ n % n = 0
    BY <2>1, Divided
  <2> QED BY <1>1, <1>3, <2>2 DEF r
<1> QED BY <1>1, <1>2, <1>3

-----------------------------------------------------------------------------
(* The leaves. *)

LeafType ==
  [kind : {"static", "cycle", "random", "duration", "caller"}, n : Nat, mod : Nat \ {0},
   idx : Nat, skip : Nat, start : Nat \cup {-1}, around : BOOLEAN]

\* After so many calls a cycle is where it should be, and a draw as old as it
\* should be.
Pace(leaf, k) ==
  IF leaf.mod = 1 THEN leaf.kind = "cycle" => leaf.idx = k % leaf.n
  ELSE \E q \in Nat :
         /\ k = q * leaf.mod + leaf.skip
         /\ leaf.skip \in 0 .. leaf.mod /\ (k > 0 => leaf.skip > 0)
         /\ leaf.kind = "cycle" => leaf.idx = q % leaf.n

LeafInv(leaf, k) ==
  /\ leaf \in LeafType
  /\ leaf.kind \in {"cycle", "random"} => leaf.n > 0 /\ Pace(leaf, k)

\* What a leaf is made of does not change.
Same(new, leaf) ==
  new.kind = leaf.kind /\ new.n = leaf.n /\ new.mod = leaf.mod /\ new.around = leaf.around

LEMMA StateType == \A i \in Nat : State(i) \in Frame
BY DEF State, Frame, Glyph, Names

\* Animate moves on exactly when the state was shown often enough.
LEMMA AnimateCases ==
  ASSUME NEW leaf \in LeafType, NEW next \in Nat
  PROVE  LET new == Animate(leaf, next).leaf
         IN  /\ new \in LeafType /\ Same(new, leaf)
             /\ leaf.mod = 1 =>
                  new.idx = next /\ Animate(leaf, next).frame = State(leaf.idx)
             /\ leaf.mod # 1 =>
                  /\ Animate(leaf, next).frame = State(new.idx)
                  /\ leaf.skip = leaf.mod => new.idx = next /\ new.skip = 1
                  /\ leaf.skip # leaf.mod => new.idx = leaf.idx /\ new.skip = leaf.skip + 1
<1> DEFINE turn == leaf.mod > 1 /\ leaf.skip = leaf.mod
           i    == IF turn THEN next ELSE leaf.idx
           new  == [leaf EXCEPT !.idx = IF leaf.mod = 1 THEN next ELSE i,
                                !.skip = IF turn THEN 1 ELSE @ + 1]
<1>1. Animate(leaf, next).leaf = new /\ Animate(leaf, next).frame = State(i)
  BY Zenon DEF Animate
<1>2. /\ leaf.mod \in Nat \ {0} /\ leaf.skip \in Nat /\ leaf.idx \in Nat
      /\ new.idx = (IF leaf.mod = 1 THEN next ELSE i)
      /\ new.skip = (IF turn THEN 1 ELSE leaf.skip + 1)
  BY DEF LeafType
<1>3. Same(new, leaf)
  BY DEF LeafType, Same
<1>4. new \in LeafType
  <2> DEFINE a == IF leaf.mod = 1 THEN next ELSE i
             b == IF turn THEN 1 ELSE leaf.skip + 1
  <2>1. a \in Nat /\ b \in Nat
    BY <1>2
  <2>2. new = [leaf EXCEPT !.idx = a, !.skip = b]
    BY DEF LeafType
  <2> HIDE DEF a, b, new
  <2> QED BY <2>1, <2>2 DEF LeafType
<1>5. leaf.mod = 1 => ~turn
  BY <1>2
<1>6. leaf.mod # 1 => leaf.mod > 1
  BY <1>2
<1> HIDE DEF new
<1> QED BY <1>1, <1>2, <1>3, <1>4, <1>5, <1>6, Zenon
LEMMA WrappedType ==
  ASSUME NEW leaf, NEW frame \in Frame \cup {NoFrame}
  PROVE  /\ Wrapped(leaf, frame) \in Frame \cup {NoFrame}
         /\ Wrapped(leaf, frame) = NoFrame <=> frame = NoFrame
<1>1. CASE leaf.around /\ frame # NoFrame
  <2>1. frame \in Frame /\ << <<"prefix", 0>> >> \in Frame /\ << <<"suffix", 0>> >> \in Frame
    BY <1>1 DEF Frame, Glyph, Names
  <2>2. << <<"prefix", 0>> >> \o frame \o << <<"suffix", 0>> >> \in Frame
    BY <2>1 DEF Frame
  <2>3. Wrapped(leaf, frame) = << <<"prefix", 0>> >> \o frame \o << <<"suffix", 0>> >>
    BY <1>1 DEF Wrapped
  <2> QED BY <1>1, <2>2, <2>3, NoFrameIsNone
<1>2. CASE ~(leaf.around /\ frame # NoFrame)
  BY <1>2 DEF Wrapped
<1> QED BY <1>1, <1>2

\* The pace of a leaf after one more call.
LEMMA PaceStep ==
  ASSUME NEW leaf \in LeafType, leaf.n > 0, NEW k \in Nat, Pace(leaf, k), NEW next \in Nat,
         leaf.kind = "cycle" => next = (leaf.idx + 1) % leaf.n
  PROVE  LET new == Animate(leaf, next).leaf
         IN  /\ Pace(new, k + 1)
             /\ leaf.kind = "cycle" =>
                  Animate(leaf, next).frame = State((k \div leaf.mod) % leaf.n)
             /\ leaf.mod # 1 /\ k > 0 /\ new.idx # leaf.idx => k % leaf.mod = 0
<1> DEFINE new == Animate(leaf, next).leaf
           frame == Animate(leaf, next).frame
<1>1. /\ leaf.mod \in Nat \ {0} /\ leaf.n \in Nat \ {0} /\ leaf.idx \in Nat /\ leaf.skip \in Nat
      /\ Same(new, leaf)
      /\ leaf.mod = 1 => new.idx = next /\ frame = State(leaf.idx)
      /\ leaf.mod # 1 =>
           /\ frame = State(new.idx)
           /\ leaf.skip = leaf.mod => new.idx = next /\ new.skip = 1
           /\ leaf.skip # leaf.mod => new.idx = leaf.idx /\ new.skip = leaf.skip + 1
  <2>1. /\ leaf.mod \in Nat \ {0} /\ leaf.n \in Nat \ {0} /\ leaf.idx \in Nat /\ leaf.skip \in Nat
    BY DEF LeafType
  <2> QED BY <2>1, AnimateCases, Zenon
<1> HIDE DEF new, frame
<1>2. CASE leaf.mod = 1
  <2>1. k \div 1 = k
    OBVIOUS
  <2>2. leaf.kind = "cycle" => leaf.idx = k % leaf.n
    BY <1>2 DEF Pace
  <2>3. leaf.kind = "cycle" => next = (k + 1) % leaf.n
    BY <1>1, <2>2, NextState
  <2>4. Pace(new, k + 1)
    BY <1>1, <1>2, <2>3 DEF Pace, Same
  <2> QED BY <1>1, <1>2, <2>1, <2>2, <2>4 DEF new, frame
<1>3. CASE leaf.mod # 1
  <2>0. PICK q \in Nat : /\ k = q * leaf.mod + leaf.skip
                         /\ leaf.skip \in 0 .. leaf.mod /\ (k > 0 => leaf.skip > 0)
                         /\ leaf.kind = "cycle" => leaf.idx = q % leaf.n
    BY <1>3 DEF Pace
  <2>1. CASE leaf.skip = leaf.mod
    <3>1. new.idx = next /\ new.skip = 1 /\ frame = State(next)
      BY <1>1, <1>3, <2>1
    <3>2. /\ k = (q + 1) * leaf.mod /\ k = (q + 1) * leaf.mod + 0 /\ q + 1 \in Nat
          /\ k + 1 = (q + 1) * leaf.mod + 1
      BY <1>1, <2>0, <2>1
    <3>3. k \div leaf.mod = q + 1 /\ k % leaf.mod = 0
      <4>1. Split(k, leaf.mod, q + 1, 0)
        BY <1>1, <3>2 DEF Split
      <4> QED BY <1>1, <4>1, Divided
    <3>4. leaf.kind = "cycle" => next = (q + 1) % leaf.n
      BY <1>1, <2>0, NextState
    <3>5. Pace(new, k + 1)
      <4>1. new.mod = leaf.mod /\ new.kind = leaf.kind /\ new.n = leaf.n
        BY <1>1 DEF Same
      <4>2. 1 \in 0 .. leaf.mod /\ 1 > 0
        BY <1>1
      <4> QED BY <1>3, <3>1, <3>2, <3>4, <4>1, <4>2 DEF Pace
    <3> QED BY <3>1, <3>3, <3>4, <3>5 DEF new, frame
  <2>2. CASE leaf.skip # leaf.mod
    <3>1. new.idx = leaf.idx /\ new.skip = leaf.skip + 1 /\ frame = State(leaf.idx)
      BY <1>1, <1>3, <2>2
    <3>2. leaf.skip \in 0 .. leaf.mod - 1 /\ leaf.skip + 1 \in 0 .. leaf.mod
      <4>1. leaf.skip \in 0 .. leaf.mod
        BY <2>0
      <4>2. leaf.mod \in Nat
        BY <1>1
      <4> QED BY <4>1, <4>2, <2>2
    <3>3. k \div leaf.mod = q
      <4>1. Split(k, leaf.mod, q, leaf.skip)
        BY <2>0, <3>2 DEF Split
      <4> QED BY <1>1, <4>1, Divided
    <3>4. Pace(new, k + 1)
      <4>1. new.mod = leaf.mod /\ new.kind = leaf.kind /\ new.n = leaf.n
        BY <1>1 DEF Same
      <4>2. k + 1 = q * leaf.mod + (leaf.skip + 1)
        <5> DEFINE p == q * leaf.mod
        <5>1. p \in Int /\ leaf.skip \in Int /\ k = p + leaf.skip
          BY <1>1, <2>0
        <5> HIDE DEF p
        <5>2. k + 1 = p + (leaf.skip + 1)
          BY <5>1
        <5> QED BY <5>2 DEF p
      <4>3. leaf.skip + 1 > 0
        BY <1>1
      <4> QED BY <1>3, <2>0, <3>1, <3>2, <4>1, <4>2, <4>3 DEF Pace
    <3> QED BY <2>0, <3>1, <3>3, <3>4 DEF new, frame
  <2> QED BY <2>1, <2>2
<1> QED BY <1>2, <1>3
\* One call of a leaf, before Surrounded.
LEMMA PlainStep ==
  ASSUME NEW leaf, NEW k \in Nat, LeafInv(leaf, k), NEW x \in Inputs(leaf)
  PROVE  LET got == Plain(leaf, x)
         IN  /\ got = [leaf |-> got.leaf, frame |-> got.frame]
             /\ LeafInv(got.leaf, k + 1) /\ Same(got.leaf, leaf)
             /\ got.frame \in Frame \cup {NoFrame}
             /\ leaf.kind \in {"cycle", "random"} => got.frame # NoFrame
             /\ leaf.kind = "cycle" => got.frame = State((k \div leaf.mod) % leaf.n)
             /\ leaf.kind = "random" /\ leaf.mod # 1 =>
                  /\ got.frame = State(got.leaf.idx)
                  /\ k > 0 /\ got.leaf.idx # leaf.idx => k % leaf.mod = 0
<1> DEFINE got == Plain(leaf, x)
<1>1. /\ leaf \in LeafType /\ leaf.kind \in {"static", "cycle", "random", "duration", "caller"}
      /\ leaf.n \in Nat /\ leaf.idx \in Nat /\ leaf.mod \in Nat \ {0}
      /\ leaf.start \in Nat \cup {-1}
  BY DEF LeafInv, LeafType
<1>2. \A next \in Nat : /\ Animate(leaf, next) = [leaf |-> Animate(leaf, next).leaf,
                                                  frame |-> Animate(leaf, next).frame]
                        /\ Animate(leaf, next).frame \in Frame
                        /\ Animate(leaf, next).leaf \in LeafType
                        /\ Same(Animate(leaf, next).leaf, leaf)
  <2> SUFFICES ASSUME NEW next \in Nat
               PROVE  /\ Animate(leaf, next) = [leaf |-> Animate(leaf, next).leaf,
                                                frame |-> Animate(leaf, next).frame]
                      /\ Animate(leaf, next).frame \in Frame
                      /\ Animate(leaf, next).leaf \in LeafType
                      /\ Same(Animate(leaf, next).leaf, leaf)
    OBVIOUS
  <2>1. \E i \in {next, leaf.idx} : Animate(leaf, next).frame = State(i)
    BY Zenon DEF Animate
  <2>2. Animate(leaf, next) = [leaf |-> Animate(leaf, next).leaf,
                               frame |-> Animate(leaf, next).frame]
    BY DEF Animate
  <2>3. Animate(leaf, next).leaf \in LeafType /\ Same(Animate(leaf, next).leaf, leaf)
    BY <1>1, AnimateCases, Zenon
  <2> QED BY <1>1, <2>1, <2>2, <2>3, StateType
<1>3. CASE leaf.kind = "cycle"
  <2> DEFINE next == (leaf.idx + 1) % leaf.n
  <2>1. leaf.n > 0 /\ Pace(leaf, k)
    BY <1>3 DEF LeafInv
  <2>2. next \in Nat
    BY <1>1, <2>1
  <2>3. got = Animate(leaf, next)
    BY <1>3 DEF Plain
  <2>4. /\ Pace(Animate(leaf, next).leaf, k + 1)
        /\ Animate(leaf, next).frame = State((k \div leaf.mod) % leaf.n)
    BY <1>1, <1>3, <2>1, <2>2, PaceStep, Zenon
  <2> HIDE DEF next
  <2>5. got.leaf.n = leaf.n /\ got.leaf.kind = leaf.kind
    BY <1>2, <2>2, <2>3 DEF Same
  <2>6. LeafInv(got.leaf, k + 1)
    BY <1>2, <1>3, <2>1, <2>2, <2>3, <2>4, <2>5 DEF LeafInv
  <2>7. got.frame \in Frame /\ got.frame # NoFrame
    BY <1>2, <2>2, <2>3, NoFrameIsNone
  <2> QED BY <1>2, <1>3, <2>2, <2>3, <2>4, <2>6, <2>7
<1>4. CASE leaf.kind = "random"
  <2>1. leaf.n > 0 /\ Pace(leaf, k) /\ x \in 0 .. leaf.n - 1
    BY <1>4 DEF LeafInv, Inputs
  <2>2. x \in Nat
    BY <1>1, <2>1
  <2>3. got = AnimateRandom(leaf, x)
    BY <1>4 DEF Plain
  <2>4. CASE leaf.mod = 1
    <3>1. got = [leaf |-> leaf, frame |-> State(x)]
      BY <2>3, <2>4 DEF AnimateRandom
    <3>2. Pace(leaf, k + 1)
      BY <1>4, <2>4 DEF Pace
    <3>3. got.leaf = leaf /\ got.frame = State(x) /\ State(x) \in Frame
      BY <2>2, <3>1, StateType
    <3>4. State(x) # NoFrame
      BY <3>3, NoFrameIsNone
    <3>5. LeafInv(leaf, k + 1) /\ Same(leaf, leaf)
      BY <1>1, <2>1, <3>2 DEF LeafInv, Same
    <3> QED BY <1>4, <2>4, <3>1, <3>3, <3>4, <3>5
  <2>5. CASE leaf.mod # 1
    <3>1. got = Animate(leaf, x)
      BY <2>3, <2>5 DEF AnimateRandom
    <3>2. /\ Pace(Animate(leaf, x).leaf, k + 1)
          /\ k > 0 /\ Animate(leaf, x).leaf.idx # leaf.idx => k % leaf.mod = 0
      <4>1. leaf.kind # "cycle"
        BY <1>4
      <4> QED BY <1>1, <2>1, <2>2, <2>5, <4>1, PaceStep, Zenon
    <3>3. Animate(leaf, x).frame = State(Animate(leaf, x).leaf.idx)
      BY <1>1, <2>2, <2>5, AnimateCases, Zenon
    <3>4. got.leaf.n = leaf.n /\ got.leaf.kind = leaf.kind
      BY <1>2, <2>2, <3>1 DEF Same
    <3>5. LeafInv(got.leaf, k + 1)
      BY <1>2, <1>4, <2>1, <2>2, <3>1, <3>2, <3>4 DEF LeafInv
    <3>6. got.frame \in Frame /\ got.frame # NoFrame
      BY <1>2, <2>2, <3>1, NoFrameIsNone
    <3> QED BY <1>2, <1>4, <2>2, <3>1, <3>2, <3>3, <3>5, <3>6
  <2> QED BY <2>4, <2>5
<1>5. CASE leaf.kind = "duration"
  <2>1. got = Duration(leaf, x) /\ x \in Nat
    BY <1>5, FramesAssumption DEF Plain, Inputs
  <2> DEFINE start == IF leaf.start = -1 THEN x ELSE leaf.start
             new   == [leaf EXCEPT !.start = start]
             frame == IF x < start THEN <<>> ELSE << <<"elapsed", x - start>> >>
  <2>2. got = [leaf |-> new, frame |-> frame]
    BY <2>1, Zenon DEF Duration
  <2>3. start \in Nat
    BY <1>1, <2>1
  <2>4. frame \in Frame
    <3> HIDE DEF start
    <3>1. ~(x < start) => x - start \in Nat
      BY <2>1, <2>3
    <3> HIDE DEF frame
    <3>2. CASE x < start
      BY <3>2, ColumnsEmpty DEF frame
    <3>3. CASE ~(x < start)
      <4>1. <<"elapsed", x - start>> \in Glyph
        BY <3>1, <3>3 DEF Glyph, Names
      <4>2. << <<"elapsed", x - start>> >> \in Frame
        BY <4>1 DEF Frame
      <4> QED BY <3>3, <4>2 DEF frame
    <3> QED BY <3>2, <3>3
  <2> HIDE DEF start
  <2>5. new \in LeafType /\ Same(new, leaf)
    BY <1>1, <2>3 DEF LeafType, Same
  <2>6. new.kind = "duration"
    BY <1>5, <2>5 DEF Same
  <2> HIDE DEF new, frame
  <2>7. LeafInv(new, k + 1)
    BY <2>5, <2>6 DEF LeafInv
  <2> QED BY <1>5, <2>2, <2>4, <2>5, <2>7
<1>6. CASE leaf.kind \in {"caller", "static"}
  <2>1. \E frame \in Frame \cup {NoFrame} : got = [leaf |-> leaf, frame |-> frame]
    <3>1. CASE leaf.kind = "caller"
      <4>1. x \in 0 .. 2
        BY <3>1 DEF Inputs
      <4>2. << <<"wide", 0>>, <<"escape", 0>> >> \in Frame
        BY DEF Frame, Glyph, Names
      <4> DEFINE frame == <<NoFrame, <<>>, << <<"wide", 0>>, <<"escape", 0>> >> >>[x + 1]
      <4>3. got = [leaf |-> leaf, frame |-> frame]
        BY <3>1 DEF Plain
      <4>4. frame \in {NoFrame, <<>>, << <<"wide", 0>>, <<"escape", 0>> >>}
        BY <4>1
      <4> HIDE DEF frame
      <4>5. frame \in Frame \cup {NoFrame}
        BY <4>2, <4>4, ColumnsEmpty
      <4> QED BY <4>3, <4>5
    <3>2. CASE leaf.kind = "static"
      <4> DEFINE frame == IF leaf.n = 0 THEN <<>> ELSE State(0)
      <4>1. got = [leaf |-> leaf, frame |-> frame]
        BY <3>2 DEF Plain
      <4>2. frame \in Frame
        BY ColumnsEmpty, StateType
      <4> QED BY <4>1, <4>2
    <3> QED BY <1>6, <3>1, <3>2
  <2>2. LeafInv(leaf, k + 1) /\ Same(leaf, leaf)
    BY <1>1, <1>6 DEF LeafInv, Same
  <2> QED BY <1>6, <2>1, <2>2
<1> QED BY <1>1, <1>3, <1>4, <1>5, <1>6

\* What one call of a leaf, after so many, makes of it, and answers.
CallGood(leaf, k, got) ==
  /\ LeafInv(got.leaf, k + 1) /\ Same(got.leaf, leaf)
  /\ got.frame \in Frame \cup {NoFrame}
  /\ leaf.kind \in {"cycle", "random"} => got.frame # NoFrame
  /\ leaf.kind = "cycle" => got.frame = Wrapped(leaf, State((k \div leaf.mod) % leaf.n))
  /\ leaf.kind = "random" /\ leaf.mod # 1 =>
       /\ got.frame = Wrapped(leaf, State(got.leaf.idx))
       /\ k > 0 /\ got.leaf.idx # leaf.idx => k % leaf.mod = 0

\* One call of a leaf.
LEMMA CalledStep ==
  ASSUME NEW leaf, NEW k \in Nat, LeafInv(leaf, k), NEW x \in Inputs(leaf)
  PROVE  CallGood(leaf, k, Called(leaf, x))
<1> DEFINE p == Plain(leaf, x)
           got == Called(leaf, x)
<1>1. /\ p = [leaf |-> p.leaf, frame |-> p.frame]
      /\ LeafInv(p.leaf, k + 1) /\ Same(p.leaf, leaf)
      /\ p.frame \in Frame \cup {NoFrame}
      /\ leaf.kind \in {"cycle", "random"} => p.frame # NoFrame
      /\ leaf.kind = "cycle" => p.frame = State((k \div leaf.mod) % leaf.n)
      /\ leaf.kind = "random" /\ leaf.mod # 1 =>
           /\ p.frame = State(p.leaf.idx)
           /\ k > 0 /\ p.leaf.idx # leaf.idx => k % leaf.mod = 0
  BY PlainStep, Zenon
<1>2. got = [p EXCEPT !.frame = Wrapped(leaf, p.frame)]
  BY Zenon DEF Called
<1> HIDE DEF p, got
<1>3. got.leaf = p.leaf /\ got.frame = Wrapped(leaf, p.frame)
  BY <1>1, <1>2
<1> QED BY <1>1, <1>3, WrappedType DEF got, CallGood

-----------------------------------------------------------------------------
(* The last frame of a leaf. *)

LastOf(T) == CHOOSE x \in T : \A y \in T : x >= y

\* A set of positions that is not empty has a last one.
LEMMA Greatest ==
  ASSUME NEW n \in Nat, NEW T, T \subseteq 1 .. n, T # {}
  PROVE  LastOf(T) \in T /\ \A y \in T : LastOf(T) >= y
<1> DEFINE Bounds == {m \in Nat : \A y \in T : y <= m}
<1>1. n \in Bounds /\ Bounds \subseteq Nat
  OBVIOUS
<1>2. PICK x \in Bounds : \A m \in Bounds : x <= m
  <2> HIDE DEF Bounds
  <2> QED BY <1>1, Least
<1>3. x \in T
  <2> SUFFICES ASSUME x \notin T PROVE FALSE
    OBVIOUS
  <2>1. \A y \in T : y <= x /\ y # x /\ y \in 1 .. n /\ x \in Nat
    BY <1>2
  <2>2. x - 1 \in Nat /\ \A y \in T : y <= x - 1
    <3>1. PICK t \in T : TRUE
      OBVIOUS
    <3>2. t \in 1 .. n /\ t <= x /\ t # x /\ x \in Nat
      BY <2>1, <3>1
    <3>3. x - 1 \in Nat
      BY <3>2
    <3>4. ASSUME NEW y \in T PROVE y <= x - 1
      <4>1. y \in 1 .. n /\ y <= x /\ y # x
        BY <2>1
      <4> QED BY <3>2, <4>1
    <3> QED BY <3>3, <3>4
  <2>3. x <= x - 1
    BY <1>2, <2>2
  <2> QED BY <2>2, <2>3
<1>4. \E z \in T : \A y \in T : z >= y
  BY <1>2, <1>3
<1> QED BY <1>4, Zenon DEF LastOf

\* The last frame that leaf i returned in the calls p.
LatestOf(p, i) ==
  LET good == {k \in DOMAIN p : p[k][i] # NoFrame}
  IN IF good = {} THEN <<>> ELSE p[LastOf(good)][i]

\* It is what latest looks up.
LEMMA LatestIs ==
  /\ latest = [i \in DOMAIN f.leaves |-> LatestOf(past, i)]
  /\ latest' = [i \in DOMAIN f'.leaves |-> LatestOf(past', i)]
BY Zenon DEF latest, Latest, LatestOf, Max, LastOf

\* Before the first call there is none.
LEMMA LatestEmpty == \A i : LatestOf(<<>>, i) = <<>>
BY DEF LatestOf

\* A call that does not fail gives the leaf another.
LEMMA LatestAppend ==
  ASSUME NEW S, NEW p \in Seq(S), NEW x \in S, NEW i
  PROVE  LatestOf(Append(p, x), i) = IF x[i] = NoFrame THEN LatestOf(p, i) ELSE x[i]
<1> DEFINE n == Len(p)
           q == Append(p, x)
           I == {k \in DOMAIN p : p[k][i] # NoFrame}
           J == {k \in DOMAIN q : q[k][i] # NoFrame}
<1>1. /\ n \in Nat /\ DOMAIN p = 1 .. n /\ DOMAIN q = 1 .. n + 1
      /\ q[n + 1] = x /\ \A k \in 1 .. n : q[k] = p[k]
  OBVIOUS
<1>2. /\ LatestOf(p, i) = IF I = {} THEN <<>> ELSE p[LastOf(I)][i]
      /\ LatestOf(q, i) = IF J = {} THEN <<>> ELSE q[LastOf(J)][i]
  BY Zenon DEF LatestOf
<1> HIDE DEF q
<1>3. I \subseteq 1 .. n /\ J \subseteq 1 .. n + 1
  BY <1>1
<1>4. CASE x[i] # NoFrame
  <2>1. n + 1 \in J
    BY <1>1, <1>4
  <2>2. LastOf(J) \in J /\ LastOf(J) >= n + 1
    <3> DEFINE m == n + 1
    <3>1. m \in Nat /\ m \in J /\ J \subseteq 1 .. m
      BY <1>1, <1>3, <2>1
    <3> HIDE DEF m, J
    <3>2. LastOf(J) \in J /\ \A y \in J : LastOf(J) >= y
      BY <3>1, Greatest
    <3> QED BY <3>1, <3>2 DEF m
  <2>3. LastOf(J) = n + 1
    BY <1>1, <1>3, <2>2
  <2> QED BY <1>1, <1>2, <1>4, <2>1, <2>3 DEF q
<1>5. CASE x[i] = NoFrame
  <2>1. J = I
    BY <1>1, <1>5
  <2>2. I # {} => LastOf(I) \in 1 .. n
    <3> HIDE DEF I, n
    <3> QED BY <1>1, <1>3, Greatest
  <2>3. I # {} => q[LastOf(I)] = p[LastOf(I)]
    BY <1>1, <2>2
  <2> QED BY <1>2, <1>5, <2>1, <2>3 DEF q
<1> QED BY <1>4, <1>5

-----------------------------------------------------------------------------
(* The FrameFunc in use. *)

FuncType ==
  [leaves : Seq(LeafType), cache : Seq(Frame), divider : Frame, fit : BOOLEAN, width : Widths]

\* The last frame of a leaf that was called so often.
LeafShown(leaf, last, k) ==
  k > 0 =>
    /\ leaf.kind = "cycle" => last = Wrapped(leaf, State(((k - 1) \div leaf.mod) % leaf.n))
    /\ leaf.kind = "random" /\ leaf.mod # 1 => last = Wrapped(leaf, State(leaf.idx))

\* What the leaves can return in a call.
Answers == [1 .. Len(f.leaves) -> Frame \cup {NoFrame}]

LeavesInv ==
  \A i \in 1 .. Len(f.leaves) :
    LeafInv(f.leaves[i], calls) /\ LeafShown(f.leaves[i], latest[i], calls)

\* The leaves are where that many calls bring them, the cache holds what each
\* of them answered last, and the join of that is on the screen.
FramesInv ==
  /\ calls \in 0 .. MaxCalls /\ width \in Widths /\ f \in FuncType
  /\ past \in Seq(Answers) /\ Len(past) = calls
  /\ latest = f.cache /\ Len(f.cache) = Len(f.leaves)
  /\ LeavesInv
  /\ shown \in Frame \cup {NoFrame}
  /\ shown # NoFrame /\ ~f.fit => shown = Joined(latest)
  /\ calls > 0 =>
       (answer = NoFrame <=> \A i \in 1 .. Len(f.leaves) : past[calls][i] = NoFrame)

\* A leaf that was just made.
Fresh == {leaf \in LeafType : LeafInv(leaf, 0)}
NilLeaf == Leaf("nil", 0, 1)

\* A FrameFunc that was just made: no leaf is nil, and nothing is cached.
LEMMA JoinFresh ==
  ASSUME NEW leaves \in Seq(Fresh \cup {NilLeaf}), NEW divider \in Frame, NEW fit \in BOOLEAN,
         width \in Widths
  PROVE  LET g == Join(leaves, divider, fit)
         IN  /\ g \in FuncType /\ Len(g.cache) = Len(g.leaves) /\ g.leaves \in Seq(Fresh)
             /\ g.cache = [i \in 1 .. Len(g.leaves) |-> <<>>]
             /\ Len(g.leaves) <= Len(leaves)
             /\ (\A i \in 1 .. Len(leaves) : leaves[i].kind # "nil") =>
                  Len(g.leaves) = Len(leaves)
<1> DEFINE some == WithoutNil(leaves)
           g == Join(leaves, divider, fit)
           S == Fresh \cup {NilLeaf}
<1>1. g = [leaves |-> some, cache |-> [i \in DOMAIN some |-> <<>>],
           divider |-> divider, fit |-> fit, width |-> width]
  BY Zenon DEF Join
<1>2. /\ some \in Seq({l \in S : l.kind # "nil"})
      /\ Len(some) <= Len(leaves)
      /\ (\A i \in 1 .. Len(leaves) : leaves[i].kind # "nil") => Len(some) = Len(leaves)
  BY WithoutNilType
<1>3. {l \in S : l.kind # "nil"} \subseteq Fresh
  BY DEF NilLeaf, Leaf
<1> HIDE DEF some, S
<1>4. some \in Seq(Fresh) /\ some \in Seq(LeafType)
  BY <1>2, <1>3 DEF Fresh
<1>5. [i \in DOMAIN some |-> <<>>] \in Seq(Frame) /\ Len([i \in DOMAIN some |-> <<>>]) = Len(some)
      /\ DOMAIN some = 1 .. Len(some)
  BY <1>4, ColumnsEmpty
<1> HIDE DEF g
<1>6. /\ g.leaves = some /\ g.cache = [i \in DOMAIN some |-> <<>>]
  BY <1>1
<1>7. g \in FuncType
  BY <1>1, <1>4, <1>5 DEF FuncType
<1> QED BY <1>2, <1>4, <1>5, <1>6, <1>7 DEF g

\* What the leaves answered a call, and what became of it.
Fetched(got) ==
  LET cache == Cache(f.cache, got)
      none  == \A i \in 1 .. Len(f.leaves) : got[i].frame = NoFrame
      crop  == IF f.fit THEN Crop(width, Joined(cache)) ELSE Joined(cache)
  IN /\ DOMAIN got = 1 .. Len(f.leaves)
     /\ \A i \in 1 .. Len(f.leaves) : CallGood(f.leaves[i], calls, got[i])
     /\ f' = [f EXCEPT !.leaves = [i \in 1 .. Len(f.leaves) |-> got[i].leaf],
                       !.cache = cache, !.width = IF f.fit THEN width ELSE @]
     /\ answer' = IF none THEN NoFrame ELSE crop
     /\ shown' = IF none THEN shown ELSE crop
     /\ past' = Append(past, [i \in 1 .. Len(f.leaves) |-> got[i].frame])
     /\ calls' = calls + 1 /\ calls < MaxCalls /\ width' = width

\* A call of the FrameFunc is a call of each of its leaves.
LEMMA GetFrameStep ==
  ASSUME FramesInv, GetFrame
  PROVE  \E got : Fetched(got)
<1>1. /\ DOMAIN f.leaves = 1 .. Len(f.leaves) /\ DOMAIN f.cache = 1 .. Len(f.leaves)
      /\ f \in FuncType /\ calls \in Nat /\ latest = f.cache
      /\ \A i \in 1 .. Len(f.leaves) : LeafInv(f.leaves[i], calls)
  <2>1. f.leaves \in Seq(LeafType) /\ f.cache \in Seq(Frame) /\ Len(f.cache) = Len(f.leaves)
    BY DEF FramesInv, FuncType
  <2>2. DOMAIN f.leaves = 1 .. Len(f.leaves) /\ DOMAIN f.cache = 1 .. Len(f.leaves)
    BY <2>1
  <2> QED BY <2>2, FramesAssumption DEF FramesInv, LeavesInv
<1> DEFINE leaves == f.leaves
           dom == DOMAIN f.leaves
           Got(x) == [i \in DOMAIN f.leaves |-> Called(f.leaves[i], x[i])]
           None(got) == \A i \in DOMAIN got : got[i].frame = NoFrame
<1>2. PICK x :
        /\ \A i \in DOMAIN f.leaves : x[i] \in Inputs(f.leaves[i])
        /\ LET got   == [i \in DOMAIN f.leaves |-> Called(f.leaves[i], x[i])]
               cache == Cache(f.cache, got)
               none  == \A i \in DOMAIN got : got[i].frame = NoFrame
           IN /\ f' = [f EXCEPT !.leaves = [i \in DOMAIN got |-> got[i].leaf],
                                !.cache = cache, !.width = IF f.fit THEN width ELSE @]
              /\ answer' = IF none THEN NoFrame
                           ELSE IF f.fit THEN Crop(f'.width, Joined(cache))
                           ELSE Joined(cache)
              /\ shown' = IF none THEN shown ELSE answer'
              /\ past' = Append(past, [i \in DOMAIN got |-> got[i].frame])
  BY Zenon DEF GetFrame
<1> DEFINE got == [i \in DOMAIN f.leaves |-> Called(f.leaves[i], x[i])]
           cache == Cache(f.cache, got)
           none == \A i \in DOMAIN got : got[i].frame = NoFrame
<1>3. DOMAIN got = 1 .. Len(f.leaves)
  BY <1>1
<1>4. \A i \in 1 .. Len(f.leaves) : CallGood(f.leaves[i], calls, got[i])
  <2> SUFFICES ASSUME NEW i \in 1 .. Len(f.leaves) PROVE CallGood(f.leaves[i], calls, got[i])
    OBVIOUS
  <2>1. x[i] \in Inputs(f.leaves[i]) /\ LeafInv(f.leaves[i], calls) /\ calls \in Nat
    BY <1>1, <1>2
  <2>2. CallGood(f.leaves[i], calls, Called(f.leaves[i], x[i]))
    BY <2>1, CalledStep
  <2>3. got[i] = Called(f.leaves[i], x[i])
    BY <1>1
  <2> QED BY <2>2, <2>3
<1> HIDE DEF got, cache
<1>6. f'.width = IF f.fit THEN width ELSE f.width
  BY <1>1, <1>2 DEF FuncType, got, cache
<1>7. /\ f' = [f EXCEPT !.leaves = [i \in DOMAIN got |-> got[i].leaf],
                        !.cache = cache, !.width = IF f.fit THEN width ELSE @]
      /\ answer' = IF none THEN NoFrame
                   ELSE IF f.fit THEN Crop(f'.width, Joined(cache))
                   ELSE Joined(cache)
      /\ shown' = IF none THEN shown ELSE answer'
      /\ past' = Append(past, [i \in DOMAIN got |-> got[i].frame])
  BY <1>2, Zenon DEF got, cache
<1>8. answer' = IF none THEN NoFrame
                ELSE IF f.fit THEN Crop(width, Joined(cache)) ELSE Joined(cache)
  BY <1>6, <1>7
<1>9. calls' = calls + 1 /\ calls < MaxCalls /\ width' = width
  BY DEF GetFrame
<1>10. Fetched(got)
  BY <1>3, <1>4, <1>7, <1>8, <1>9, Zenon DEF Fetched, cache
<1> QED BY <1>10
\* The cache has a frame for every leaf, its latest.
LEMMA CacheType ==
  ASSUME FramesInv, NEW got, Fetched(got)
  PROVE  /\ Cache(f.cache, got) \in Seq(Frame)
         /\ Len(Cache(f.cache, got)) = Len(f.leaves) /\ Len(f.leaves) \in Nat
         /\ \A i \in 1 .. Len(f.leaves) :
              Cache(f.cache, got)[i] =
                IF got[i].frame = NoFrame THEN latest[i] ELSE got[i].frame
<1> DEFINE cache == Cache(f.cache, got)
<1>1. /\ f.leaves \in Seq(LeafType) /\ f.cache \in Seq(Frame) /\ latest = f.cache
      /\ Len(f.cache) = Len(f.leaves)
  BY DEF FramesInv, FuncType
<1>2. /\ Len(f.leaves) \in Nat /\ DOMAIN f.cache = 1 .. Len(f.leaves)
      /\ \A i \in 1 .. Len(f.leaves) : f.cache[i] \in Frame
  BY <1>1
<1>3. \A i \in 1 .. Len(f.leaves) : got[i].frame \in Frame \cup {NoFrame}
  BY Zenon DEF Fetched, CallGood
<1>4. cache = [i \in 1 .. Len(f.leaves) |->
                 IF got[i].frame = NoFrame THEN latest[i] ELSE got[i].frame]
  BY <1>1, <1>2, Zenon DEF Cache
<1> HIDE DEF cache
<1>5. \A i \in 1 .. Len(f.leaves) :
        cache[i] = IF got[i].frame = NoFrame THEN latest[i] ELSE got[i].frame
  BY <1>4
<1>6. \A i \in 1 .. Len(f.leaves) :
        (IF got[i].frame = NoFrame THEN latest[i] ELSE got[i].frame) \in Frame
  BY <1>1, <1>2, <1>3
<1>7. cache \in Seq(Frame) /\ Len(cache) = Len(f.leaves)
  BY <1>2, <1>4, <1>6
<1> QED BY <1>2, <1>5, <1>7 DEF cache

\* The fields of the FrameFunc after a call.
LEMMA FetchedFunc ==
  ASSUME FramesInv, NEW got, Fetched(got)
  PROVE  /\ f' \in FuncType /\ f'.cache = Cache(f.cache, got)
         /\ f'.divider = f.divider /\ f'.fit = f.fit
         /\ Len(f'.leaves) = Len(f.leaves)
         /\ \A i \in 1 .. Len(f.leaves) : f'.leaves[i] = got[i].leaf
<1> DEFINE cache == Cache(f.cache, got)
           leaves == [i \in 1 .. Len(f.leaves) |-> got[i].leaf]
           w == IF f.fit THEN width ELSE f.width
<1>1. f \in FuncType /\ width \in Widths
  BY DEF FramesInv
<1>2. f' = [f EXCEPT !.leaves = leaves, !.cache = cache, !.width = IF f.fit THEN width ELSE @]
  BY Zenon DEF Fetched
<1>3. \A i \in 1 .. Len(f.leaves) : got[i].leaf \in LeafType
  BY Zenon DEF Fetched, CallGood, LeafInv
<1>4. leaves \in Seq(LeafType) /\ Len(leaves) = Len(f.leaves)
  BY <1>3, CacheType
<1>5. \A i \in 1 .. Len(f.leaves) : leaves[i] = got[i].leaf
  OBVIOUS
<1>6. w \in Widths /\ cache \in Seq(Frame)
  BY <1>1, CacheType DEF FuncType
<1> HIDE DEF cache, leaves
<1>7. f' = [leaves |-> leaves, cache |-> cache, divider |-> f.divider, fit |-> f.fit, width |-> w]
  BY <1>1, <1>2 DEF FuncType
<1>8. f.divider \in Frame /\ f.fit \in BOOLEAN
  BY <1>1 DEF FuncType
<1> HIDE DEF w
<1>9. f' \in FuncType
  BY <1>4, <1>6, <1>7, <1>8 DEF FuncType
<1>10. f'.leaves = leaves /\ f'.cache = cache /\ f'.divider = f.divider /\ f'.fit = f.fit
  BY <1>7
<1> QED BY <1>4, <1>5, <1>9, <1>10 DEF cache

\* What the leaves returned goes on record, and the cache holds the last of it.
LEMMA FetchedLatest ==
  ASSUME FramesInv, NEW got, Fetched(got)
  PROVE  /\ latest' = Cache(f.cache, got)
         /\ past' \in Seq(Answers') /\ Len(past') = calls'
         /\ past'[calls'] = [i \in 1 .. Len(f.leaves) |-> got[i].frame]
<1> DEFINE cache == Cache(f.cache, got)
           x == [i \in 1 .. Len(f.leaves) |-> got[i].frame]
<1>1. past' = Append(past, x) /\ calls' = calls + 1
  BY Zenon DEF Fetched
<1>2. past \in Seq(Answers) /\ Len(past) = calls /\ Answers' = Answers
  BY FetchedFunc DEF FramesInv, Answers
<1>3. x \in Answers
  <2>1. \A i \in 1 .. Len(f.leaves) : got[i].frame \in Frame \cup {NoFrame}
    BY Zenon DEF Fetched, CallGood
  <2> QED BY <2>1 DEF Answers
<1>4. /\ DOMAIN f.leaves = 1 .. Len(f.leaves) /\ DOMAIN f'.leaves = 1 .. Len(f.leaves)
      /\ cache \in Seq(Frame) /\ DOMAIN cache = 1 .. Len(f.leaves)
  <2>1. f.leaves \in Seq(LeafType) /\ f'.leaves \in Seq(LeafType)
    BY FetchedFunc DEF FramesInv, FuncType
  <2>2. cache \in Seq(Frame) /\ Len(cache) = Len(f.leaves)
    BY CacheType
  <2> HIDE DEF cache
  <2> QED BY <2>1, <2>2, FetchedFunc
<1>5. ASSUME NEW i \in 1 .. Len(f.leaves) PROVE LatestOf(past', i) = cache[i]
  <2>1. LatestOf(past, i) = latest[i]
    BY <1>4, LatestIs
  <2>2. cache[i] = IF got[i].frame = NoFrame THEN latest[i] ELSE got[i].frame
    BY CacheType
  <2>3. x[i] = got[i].frame
    OBVIOUS
  <2> HIDE DEF x, cache
  <2>4. LatestOf(past', i) = IF x[i] = NoFrame THEN LatestOf(past, i) ELSE x[i]
    BY <1>1, <1>2, <1>3, LatestAppend
  <2> QED BY <2>1, <2>2, <2>3, <2>4
<1>6. latest' = cache
  <2>1. latest' = [i \in 1 .. Len(f.leaves) |-> LatestOf(past', i)]
    BY <1>4, LatestIs
  <2> HIDE DEF cache
  <2>2. cache = [i \in 1 .. Len(f.leaves) |-> cache[i]]
    BY <1>4
  <2> QED BY <1>5, <2>1, <2>2
<1> HIDE DEF x
<1>7. past' \in Seq(Answers) /\ Len(past') = calls' /\ past'[calls'] = x
  BY <1>1, <1>2, <1>3
<1> QED BY <1>2, <1>6, <1>7 DEF x

\* What each leaf returned last, after a call.
LEMMA LatestStep ==
  ASSUME FramesInv, NEW got, Fetched(got), NEW i \in 1 .. Len(f.leaves)
  PROVE  latest'[i] = IF got[i].frame = NoFrame THEN latest[i] ELSE got[i].frame
<1>1. latest' = Cache(f.cache, got)
  BY FetchedLatest
<1>2. Cache(f.cache, got)[i] = IF got[i].frame = NoFrame THEN latest[i] ELSE got[i].frame
  BY CacheType, Zenon
<1>3. latest'[i] = Cache(f.cache, got)[i]
  BY <1>1, Zenon
<1> QED BY <1>2, <1>3, Zenon

\* The leaves after a call.
LEMMA FetchedLeaves ==
  ASSUME FramesInv, NEW got, Fetched(got)
  PROVE  LeavesInv'
<1> SUFFICES ASSUME NEW i \in 1 .. Len(f.leaves)
             PROVE  LeafInv(f'.leaves[i], calls') /\ LeafShown(f'.leaves[i], latest'[i], calls')
  BY FetchedFunc DEF LeavesInv
<1> DEFINE leaf == f.leaves[i]
           new == got[i].leaf
           frame == got[i].frame
<1>1. CallGood(leaf, calls, got[i])
  BY DEF Fetched
<1>2. f'.leaves[i] = new /\ calls' = calls + 1 /\ calls \in Nat
  <2>1. calls' = calls + 1
    BY Zenon DEF Fetched
  <2> QED BY <2>1, FetchedFunc, FramesAssumption DEF FramesInv
<1>3. latest'[i] = IF frame = NoFrame THEN latest[i] ELSE frame
  BY LatestStep
<1> HIDE DEF leaf, new, frame
<1>4. /\ LeafInv(new, calls + 1) /\ Same(new, leaf)
      /\ leaf.kind \in {"cycle", "random"} => frame # NoFrame
      /\ leaf.kind = "cycle" => frame = Wrapped(leaf, State((calls \div leaf.mod) % leaf.n))
      /\ leaf.kind = "random" /\ leaf.mod # 1 => frame = Wrapped(leaf, State(new.idx))
  BY <1>1 DEF CallGood, new, frame
<1>5. new.kind = leaf.kind /\ new.n = leaf.n /\ new.mod = leaf.mod /\ new.around = leaf.around
  BY <1>4 DEF Same
<1>6. \A s : Wrapped(new, s) = Wrapped(leaf, s)
  BY <1>5 DEF Wrapped
<1>7. new.kind = "cycle" =>
        latest'[i] = Wrapped(new, State(((calls' - 1) \div new.mod) % new.n))
  <2>1. calls' - 1 = calls
    BY <1>2
  <2> QED BY <1>3, <1>4, <1>5, <1>6, <2>1
<1>8. new.kind = "random" /\ new.mod # 1 => latest'[i] = Wrapped(new, State(new.idx))
  BY <1>3, <1>4, <1>5, <1>6
<1> QED BY <1>2, <1>4, <1>7, <1>8, Zenon DEF LeafShown

\* The join depends on the pieces and on the divider only.
LEMMA JoinedIs == \A pieces : Joined(pieces) = JoinedTo(pieces, f.divider)[Len(pieces)]
BY Zenon DEF Joined, JoinedTo

\* A call leaves the frames on the screen and in the cache as they should be.
LEMMA FetchedInv ==
  ASSUME FramesInv, NEW got, Fetched(got)
  PROVE  FramesInv'
<1> DEFINE cache == Cache(f.cache, got)
           crop == IF f.fit THEN Crop(width, Joined(cache)) ELSE Joined(cache)
           none == \A i \in 1 .. Len(f.leaves) : got[i].frame = NoFrame
<1>1. /\ calls' = calls + 1 /\ calls < MaxCalls /\ width' = width /\ latest' = cache
      /\ shown' = IF none THEN shown ELSE crop
      /\ answer' = IF none THEN NoFrame ELSE crop
  <2>1. /\ calls' = calls + 1 /\ calls < MaxCalls /\ width' = width
        /\ shown' = IF none THEN shown ELSE crop
        /\ answer' = IF none THEN NoFrame ELSE crop
    BY Zenon DEF Fetched
  <2>2. latest' = cache
    BY FetchedLatest
  <2> QED BY <2>1, <2>2
<1>2. calls' \in 0 .. MaxCalls /\ width \in Widths /\ width \in Nat
  BY <1>1, FramesAssumption DEF FramesInv
<1>3. cache \in Seq(Frame) /\ f.divider \in Frame /\ Len(cache) = Len(f.leaves)
  BY CacheType DEF FramesInv, FuncType
<1>4. Joined(cache) \in Frame
  BY <1>3, JoinedType
<1>5. crop \in Frame
  BY <1>2, <1>4, CropFits
<1>6. f'.cache = cache /\ f'.divider = f.divider /\ f'.fit = f.fit /\ Len(f'.leaves) = Len(f.leaves)
  BY FetchedFunc
<1>7. Joined(latest)' = Joined(cache)
  <2>1. Joined(latest)' = JoinedTo(latest', f'.divider)[Len(latest')]
    BY Zenon DEF Joined, JoinedTo
  <2> QED BY <1>1, <1>6, <2>1, JoinedIs
<1>8. none => cache = latest
  <2> SUFFICES ASSUME none PROVE cache = latest
    OBVIOUS
  <2>1. latest \in Seq(Frame) /\ Len(latest) = Len(cache)
    BY <1>3 DEF FramesInv, FuncType
  <2>2. \A i \in 1 .. Len(f.leaves) : cache[i] = latest[i]
    BY CacheType
  <2> HIDE DEF cache
  <2> QED BY <1>3, <2>1, <2>2
<1>9. shown \in Frame \cup {NoFrame} /\ (shown # NoFrame /\ ~f.fit => shown = Joined(latest))
  BY DEF FramesInv
<1> HIDE DEF cache, none
<1>10. shown' \in Frame \cup {NoFrame}
  BY <1>1, <1>5, <1>9
<1>11. shown' # NoFrame /\ ~f'.fit => shown' = Joined(latest)'
  BY <1>1, <1>6, <1>7, <1>8, <1>9
<1>12. LeavesInv' /\ f' \in FuncType
  BY FetchedLeaves, FetchedFunc
<1>13. answer' = NoFrame <=> \A i \in 1 .. Len(f'.leaves) : past'[calls'][i] = NoFrame
  <2>1. \A i \in 1 .. Len(f.leaves) : past'[calls'][i] = got[i].frame
    BY FetchedLatest
  <2>2. answer' = NoFrame <=> none
    BY <1>1, <1>5, NoFrameIsNone
  <2> QED BY <1>6, <2>1, <2>2 DEF none
<1>14. past' \in Seq(Answers') /\ Len(past') = calls'
  BY FetchedLatest
<1> QED BY <1>1, <1>2, <1>3, <1>6, <1>10, <1>11, <1>12, <1>13, <1>14, Zenon DEF FramesInv

\* A draw that is another than the one before comes at a multiple of mod.
LEMMA FetchedHolds ==
  ASSUME FramesInv, NEW got, Fetched(got), calls > 0, NEW i \in DOMAIN f.leaves,
         f.leaves[i].kind = "random", latest'[i] # latest[i]
  PROVE  calls % f.leaves[i].mod = 0
<1> DEFINE leaf == f.leaves[i]
<1>1. i \in 1 .. Len(f.leaves) /\ calls \in Nat
  BY FramesAssumption DEF FramesInv, FuncType
<1>2. CallGood(leaf, calls, got[i]) /\ LeafShown(leaf, latest[i], calls) /\ leaf \in LeafType
  BY <1>1 DEF Fetched, FramesInv, LeavesInv, LeafInv
<1>3. latest'[i] = IF got[i].frame = NoFrame THEN latest[i] ELSE got[i].frame
  BY <1>1, LatestStep, Zenon
<1>4. leaf.mod \in Nat \ {0} /\ leaf.kind = "random"
  BY <1>2 DEF LeafType
<1> HIDE DEF leaf
<1>5. CASE leaf.mod = 1
  BY <1>1, <1>5 DEF leaf
<1>6. CASE leaf.mod # 1
  <2>1. latest[i] = Wrapped(leaf, State(leaf.idx))
    BY <1>2, <1>4, <1>6 DEF LeafShown
  <2>2. /\ got[i].frame = Wrapped(leaf, State(got[i].leaf.idx))
        /\ got[i].leaf.idx # leaf.idx => calls % leaf.mod = 0
    BY <1>2, <1>4, <1>6 DEF CallGood
  <2>3. got[i].leaf.idx # leaf.idx
    BY <1>3, <2>1, <2>2
  <2> QED BY <2>2, <2>3 DEF leaf
<1> QED BY <1>5, <1>6

\* What is cropped fits, keeps its escape sequences, and is cut for want of a
\* column only.
LEMMA FetchedFits ==
  ASSUME FramesInv, NEW got, Fetched(got), f.fit, answer' # NoFrame
  PROVE  /\ Columns(answer') <= width
         /\ Escapes(answer') = Escapes(Joined(latest'))
         /\ answer' = Joined(latest') \/ Columns(answer') + 2 > width
<1> DEFINE cache == Cache(f.cache, got)
<1>1. latest' = cache /\ answer' = Crop(width, Joined(cache))
  BY FetchedLatest, Zenon DEF Fetched
<1>2. cache \in Seq(Frame) /\ f.divider \in Frame /\ width \in Nat
  BY CacheType, FramesAssumption DEF FramesInv, FuncType
<1>3. Joined(cache) \in Frame
  BY <1>2, JoinedType
<1> QED BY <1>1, <1>2, <1>3, CropFits
=============================================================================
