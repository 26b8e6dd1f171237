---------------------------- MODULE ResizeProofs ----------------------------
(***************************************************************************)
(* Theorems about Resize and Width, for any widths, sources and frames and *)
(* any number of resizes: a resize is never lost on its way to the cached  *)
(* width, what is on the screen is cropped for the width the drawer works  *)
(* with, and a clear takes away the rows the frame occupies.               *)
(***************************************************************************)
EXTENDS Resize, TLAPS

Fields ==
  [needClear : BOOLEAN, canWrite : BOOLEAN, frame : Frames \cup {0},
   width : Widths, visible : Nat, shown : Nat, missed : BOOLEAN]

\* What the drawer would show of its frame now.
Cropped(t) == IF t.width < t.frame THEN t.width ELSE t.frame

IsCropped(t) == t \in Fields /\ (~t.missed /\ t.frame # 0 => t.visible = Cropped(t))

\* The frame on the screen is also the one the drawer remembers, and was drawn
\* on a single row of the width it works with.
Faithful(t) ==
  /\ IsCropped(t)
  /\ ~t.missed /\ t.needClear /\ t.shown # 0 => t.shown = t.visible /\ t.shown <= t.width

\* An answer that is out of date before it is stored will be followed by another
\* query: without this, storing it could lose a resize.
StaleAnswerFollowed ==
  cache = "store" /\ seen # term /\ ~ctxDone /\ source # "poll" =>
    pending \/ forwarder = "offer" \/ sigwinch

WidthInv == WidthTypeOK /\ ResizeOnItsWay /\ StaleAnswerFollowed

Inv == WidthInv /\ running \in BOOLEAN /\ Faithful(s)

USE WidthsAssumption, SourcesAssumption, FramesAssumption, OutcomesAssumption

-----------------------------------------------------------------------------
(* The width on its way. *)

\* No step of the sources or of the cache loses a resize.
LEMMA WidthStep ==
  ASSUME WidthInv, WidthNext
  PROVE  WidthInv'
<1> USE DEF WidthInv, WidthTypeOK, ResizeOnItsWay, StaleAnswerFollowed
<1>1. CASE Poll
  BY <1>1 DEF Poll
<1>2. CASE Cancel
  BY <1>2 DEF Cancel
<1>3. CASE ForwarderStep
  BY <1>3 DEF ForwarderStep, Take, Offer
<1>4. CASE ForwarderEnds
  BY <1>4 DEF ForwarderEnds
<1>5. CASE CacheStep
  <2>1. CASE CacheWakes
    BY <2>1 DEF CacheWakes
  <2>2. CASE CacheDrains
    BY <2>2 DEF CacheDrains
  <2>3. CASE CacheDrained
    BY <2>3 DEF CacheDrained, sourceVars
  <2>4. CASE CacheAsks
    BY <2>4 DEF CacheAsks, sourceVars
  <2>5. CASE CacheStores
    BY <2>5 DEF CacheStores, sourceVars
  <2>6. CASE CacheEnds
    BY <2>6 DEF CacheEnds, sourceVars
  <2> QED BY <1>5, <2>1, <2>2, <2>3, <2>4, <2>5, <2>6 DEF CacheStep
<1>6. ASSUME NEW w \in Widths, ResizeTo(w) PROVE WidthInv'
  <2>1. WidthTypeOK'
    BY <1>6 DEF ResizeTo
  <2>2. ~ctxDone /\ source # "poll" => pending'
    BY <1>6 DEF ResizeTo
  <2>3. UNCHANGED <<source, ctxDone>>
    BY <1>6 DEF ResizeTo
  <2> QED BY <2>1, <2>2, <2>3
<1> QED BY <1>1, <1>2, <1>3, <1>4, <1>5, <1>6 DEF WidthNext

\* Nor does a step that leaves the width alone.
LEMMA WidthStays ==
  ASSUME WidthInv, UNCHANGED widthVars
  PROVE  WidthInv'
BY DEF WidthInv, WidthTypeOK, ResizeOnItsWay, StaleAnswerFollowed, widthVars, sourceVars

-----------------------------------------------------------------------------
(* The drawer. *)

\* The drawer counts in naturals.
LEMMA Columns ==
  ASSUME NEW t \in Fields
  PROVE  t.width \in Nat /\ t.frame \in Nat /\ t.visible \in Nat
<1>1. t.width \in Widths /\ t.frame \in Frames \cup {0} /\ t.visible \in Nat
  BY DEF Fields
<1>2. Widths \subseteq Nat /\ Frames \cup {0} \subseteq Nat
  BY WidthsAssumption, FramesAssumption
<1> QED BY <1>1, <1>2

\* adjust crops the frame, whatever was visible before.
LEMMA AdjustCrops ==
  ASSUME NEW t \in Fields
  PROVE  /\ IsCropped(Adjust(t)) /\ ~Adjust(t).missed
         /\ Adjust(t).frame = t.frame /\ Adjust(t).width = t.width
         /\ Adjust(t).needClear = t.needClear
<1> DEFINE n == IF t.width < t.frame THEN t.width ELSE t.frame
<1>1. t.width \in Nat /\ t.frame \in Nat
  BY Columns
<1>2. n \in Nat
  BY <1>1
<1>3. Adjust(t) = [t EXCEPT !.visible = n, !.missed = FALSE]
  BY DEF Adjust
<1> HIDE DEF n
<1>4. Adjust(t) \in Fields
  BY <1>2, <1>3 DEF Fields
<1>5. /\ ~Adjust(t).missed /\ Adjust(t).visible = n
      /\ Adjust(t).frame = t.frame /\ Adjust(t).width = t.width
      /\ Adjust(t).needClear = t.needClear
  BY <1>3 DEF Fields
<1> QED BY <1>4, <1>5 DEF IsCropped, Cropped, n

\* clear leaves no frame to clear, and the frame cropped for the width that is
\* known now, unless clearMess failed.
LEMMA ClearCrops ==
  ASSUME NEW t, IsCropped(t), NEW io, cached \in Widths
  PROVE  /\ Faithful(Clear(t, io).to) /\ ~Clear(t, io).to.needClear
         /\ Clear(t, io).to.frame = t.frame
<1> DEFINE u == [t EXCEPT !.width = cached]
           h == HandleResize(t, io)
<1>1. u \in Fields /\ Wipe(u) \in Fields
  BY DEF IsCropped, Fields, Wipe
<1>2. IsCropped(h.to) /\ h.to.frame = t.frame
  <2>1. CASE cached = t.width
    BY <2>1 DEF HandleResize
  <2>2. CASE cached # t.width /\ (~t.needClear \/ cached = 0)
    <3>1. h.to = Adjust(u)
      BY <2>2 DEF HandleResize
    <3>2. u.frame = t.frame
      BY DEF IsCropped, Fields
    <3> HIDE DEF u, h
    <3> QED BY <1>1, <3>1, <3>2, AdjustCrops
  <2>3. CASE cached # t.width /\ ~(~t.needClear \/ cached = 0) /\ io = "ok"
    <3>1. Wipe(u).frame = t.frame
      BY DEF Wipe, IsCropped, Fields
    <3> QED BY <1>1, <2>3, <3>1, AdjustCrops DEF HandleResize
  <2>4. CASE cached # t.width /\ ~(~t.needClear \/ cached = 0) /\ io # "ok"
    BY <1>1, <2>4 DEF HandleResize, IsCropped, Wipe, Fields
  <2> QED BY <2>1, <2>2, <2>3, <2>4
<1>3. h.err => ~h.to.needClear
  BY DEF HandleResize, Wipe, IsCropped, Fields
<1>4. CASE h.err \/ ~h.to.needClear
  BY <1>2, <1>3, <1>4 DEF Clear, Faithful
<1>5. CASE ~(h.err \/ ~h.to.needClear)
  <2>1. Clear(t, io).to = Wipe(h.to)
    BY <1>5 DEF Clear
  <2>2. h.to \in Fields
    BY <1>2 DEF IsCropped
  <2> DEFINE v == h.to
  <2> HIDE DEF h
  <2>3. /\ Wipe(v) \in Fields /\ ~Wipe(v).needClear
        /\ Wipe(v).missed = v.missed /\ Wipe(v).frame = v.frame
        /\ Wipe(v).visible = v.visible /\ Wipe(v).width = v.width
    BY <2>2 DEF Wipe, Fields
  <2> QED BY <1>2, <2>1, <2>3 DEF Faithful, IsCropped, Cropped
<1> QED BY <1>4, <1>5

\* draw shows what is cropped.
LEMMA DrawFaithful ==
  ASSUME NEW t, Faithful(t), NEW io
  PROVE  Faithful(Draw(t, io))
<1>1. CASE ~MayDraw(t)
  BY <1>1 DEF Draw
<1>2. CASE MayDraw(t)
  <2> DEFINE u == IF t.visible = 0 THEN Adjust(t) ELSE t
  <2>1. IsCropped(u) /\ u.frame = t.frame /\ u.frame # 0
    BY <1>2, AdjustCrops DEF MayDraw, Faithful, IsCropped
  <2>2. Draw(t, io) = [u EXCEPT !.needClear = TRUE, !.shown = IF io = "ok" THEN u.visible ELSE 0]
    BY <1>2 DEF Draw
  <2> HIDE DEF u
  <2> DEFINE d == Draw(t, io)
             n == IF io = "ok" THEN u.visible ELSE 0
  <2>3. u \in Fields /\ n \in Nat
    BY <2>1 DEF IsCropped, Fields
  <2>4. d = [u EXCEPT !.needClear = TRUE, !.shown = n]
    BY <2>2
  <2> HIDE DEF d, n
  <2>5. /\ d \in Fields /\ d.shown = n /\ d.visible = u.visible /\ d.missed = u.missed
        /\ d.frame = u.frame /\ d.width = u.width
    BY <2>3, <2>4 DEF Fields
  <2>6. IsCropped(d)
    BY <2>1, <2>5 DEF IsCropped, Cropped
  <2>7. ~u.missed => u.visible <= u.width
    <3>1. u.width \in Nat /\ u.frame \in Nat
      BY <2>3, Columns
    <3> QED BY <2>1, <3>1 DEF IsCropped, Cropped
  <2>8. n = u.visible \/ n = 0
    BY DEF n
  <2>9. Faithful(d)
    BY <2>5, <2>6, <2>7, <2>8 DEF Faithful
  <2> QED BY <2>9 DEF d
<1> QED BY <1>1, <1>2

\* Fields the drawer does not look at, and the frame that is forgotten.
LEMMA Untouched ==
  ASSUME NEW t, Faithful(t), NEW b \in BOOLEAN
  PROVE  Faithful([t EXCEPT !.canWrite = b]) /\ Faithful([t EXCEPT !.frame = 0])
BY DEF Faithful, IsCropped, Cropped, Fields

-----------------------------------------------------------------------------
(* The locked sections. *)

\* Write: whatever becomes of its clear, what it draws back is cropped.
LEMMA WriteFaithful ==
  ASSUME Inv, NEW line \in BOOLEAN, Write(line)
  PROVE  Faithful(s')
<1>1. cached \in Widths /\ IsCropped(s)
  BY DEF Inv, WidthInv, WidthTypeOK, Faithful
<1>2. PICK io1 \in Outcomes, io2 \in Outcomes :
        s' = Draw([Clear(s, io1).to EXCEPT !.canWrite = line], io2)
  BY DEF Write
<1>3. Faithful(Clear(s, io1).to)
  BY <1>1, ClearCrops
<1>4. Faithful([Clear(s, io1).to EXCEPT !.canWrite = line])
  BY <1>3, Untouched
<1> QED BY <1>2, <1>4, DrawFaithful

\* set gives up when its clear fails, and crops the new frame otherwise.
LEMMA SetFaithful ==
  ASSUME Inv, NEW f \in Frames, Set(f)
  PROVE  Faithful(s')
<1>1. cached \in Widths /\ IsCropped(s)
  BY DEF Inv, WidthInv, WidthTypeOK, Faithful
<1>2. CASE f = s.frame
  BY <1>2 DEF Set, Inv
<1>3. CASE f # s.frame
  <2>1. PICK io1 \in Outcomes, io2 \in Outcomes :
          LET c == Clear(s, io1)
              t == Adjust([c.to EXCEPT !.frame = f])
          IN s' = IF c.err THEN c.to
                  ELSE IF DrawFails(t, io2) THEN [Draw(t, io2) EXCEPT !.frame = 0]
                  ELSE Draw(t, io2)
    BY <1>3 DEF Set
  <2> DEFINE c == Clear(s, io1)
             t == Adjust([c.to EXCEPT !.frame = f])
  <2>2. Faithful(c.to) /\ ~c.to.needClear
    BY <1>1, ClearCrops
  <2>3. [c.to EXCEPT !.frame = f] \in Fields /\ ~[c.to EXCEPT !.frame = f].needClear
    BY <2>2 DEF Faithful, IsCropped, Fields
  <2>4. Faithful(t)
    BY <2>3, AdjustCrops DEF Faithful
  <2>5. Faithful(Draw(t, io2)) /\ Faithful([Draw(t, io2) EXCEPT !.frame = 0])
    BY <2>4, DrawFaithful, Untouched
  <2> QED BY <2>1, <2>2, <2>5
<1> QED BY <1>2, <1>3

\* A Stop forgets the frame, cleared or left on the screen.
LEMMA StopFaithful ==
  ASSUME Inv, NEW clear \in BOOLEAN, StopCommit(clear)
  PROVE  Faithful(s')
<1>1. cached \in Widths /\ IsCropped(s) /\ Faithful(s)
  BY DEF Inv, WidthInv, WidthTypeOK, Faithful
<1> QED BY <1>1, ClearCrops, Untouched DEF StopCommit

\* Whatever was on the screen, SetFrame ends with the new frame cropped.
LEMMA SwapFaithful ==
  ASSUME NEW t, IsCropped(t), NEW new \in Frames \cup {0}, Swap(t, new)
  PROVE  Faithful(s')
<1>1. PICK io2 \in Outcomes, io3 \in Outcomes :
        LET u == [t EXCEPT !.needClear = FALSE, !.shown = 0]
            v == Adjust([u EXCEPT !.canWrite = TRUE, !.frame = new])
        IN s' = IF io2 # "ok" THEN u
                ELSE IF new = 0 THEN [u EXCEPT !.canWrite = TRUE]
                ELSE IF DrawFails(v, io3) THEN [Draw(v, io3) EXCEPT !.frame = 0]
                ELSE Draw(v, io3)
  BY DEF Swap
<1> DEFINE u == [t EXCEPT !.needClear = FALSE, !.shown = 0]
           x == [u EXCEPT !.canWrite = TRUE, !.frame = new]
           v == Adjust(x)
<1>2. Faithful(u) /\ Faithful([u EXCEPT !.canWrite = TRUE])
  BY DEF Faithful, IsCropped, Cropped, Fields
<1>3. x \in Fields /\ ~x.needClear
  BY DEF IsCropped, Fields
<1>4. Faithful(v)
  BY <1>3, AdjustCrops DEF Faithful
<1>5. Faithful(Draw(v, io3)) /\ Faithful([Draw(v, io3) EXCEPT !.frame = 0])
  BY <1>4, DrawFaithful, Untouched
<1> QED BY <1>1, <1>2, <1>5

\* SetFrameWith: the outgoing frame is cleared before the new one comes.
LEMMA SetFrameFaithful ==
  ASSUME Inv, NEW new \in Frames \cup {0}, SetFrame(new)
  PROVE  Faithful(s')
<1>1. cached \in Widths /\ IsCropped(s)
  BY DEF Inv, WidthInv, WidthTypeOK, Faithful
<1>2. PICK io \in Outcomes :
        LET c == Clear(s, io) IN IF c.err THEN s' = c.to ELSE Swap(c.to, new)
  BY DEF SetFrame
<1>3. Faithful(Clear(s, io).to) /\ IsCropped(Clear(s, io).to)
  BY <1>1, ClearCrops DEF Faithful
<1> QED BY <1>2, <1>3, SwapFaithful

\* SetFrameNoClear crops a frame that is not the one on the screen, so that
\* the invariant fails for a moment: the clear that follows restores it.
LEMMA SetFrameNoClearFaithful ==
  ASSUME Inv, NEW f \in Frames, NEW new \in Frames \cup {0}, SetFrameNoClear(f, new)
  PROVE  Faithful(s')
<1>1. cached \in Widths /\ IsCropped(s)
  BY DEF Inv, WidthInv, WidthTypeOK, Faithful
<1>2. CASE f = s.frame
  BY <1>1, <1>2, SwapFaithful DEF SetFrameNoClear
<1>3. CASE f # s.frame
  <2>1. PICK io \in Outcomes :
          LET c == Clear(Refetched(f), io) IN IF c.err THEN s' = c.to ELSE Swap(c.to, new)
    BY <1>3 DEF SetFrameNoClear
  <2>2. [s EXCEPT !.frame = f] \in Fields
    BY <1>1 DEF IsCropped, Fields
  <2>3. IsCropped(Refetched(f))
    BY <2>2, AdjustCrops DEF Refetched
  <2>4. Faithful(Clear(Refetched(f), io).to) /\ IsCropped(Clear(Refetched(f), io).to)
    BY <1>1, <2>3, ClearCrops DEF Faithful
  <2> QED BY <2>1, <2>4, SwapFaithful
<1> QED BY <1>2, <1>3

-----------------------------------------------------------------------------
(* The invariant. *)

\* A new spinner shows nothing, and a resize its source has seen has left a
\* signal.
LEMMA InitInv == Init => Inv
<1> SUFFICES ASSUME Init PROVE Inv
  OBVIOUS
<1>1. WidthInv
  <2> USE DEF Init, WidthInit
  <2>1. closed \in BOOLEAN /\ ctxDone = closed
    OBVIOUS
  <2>2. forwarder \in {"wait", "ended"}
    OBVIOUS
  <2>3. pending \in BOOLEAN /\ (cached # term /\ source # "poll" => pending)
    BY DEF Registered
  <2>4. resizes = 0 /\ source \in Sources /\ sigwinch \in BOOLEAN
    OBVIOUS
  <2>5. term \in Widths /\ cached \in Widths /\ seen = cached /\ cache = "wait"
    OBVIOUS
  <2> QED BY <2>1, <2>2, <2>3, <2>4, <2>5
      DEF WidthInv, WidthTypeOK, ResizeOnItsWay, StaleAnswerFollowed
<1>2. Faithful(s)
  BY DEF Init, WidthInit, Faithful, IsCropped, Cropped, Fields
<1> QED BY <1>1, <1>2 DEF Init, Inv

\* No section of the drawer and no step of the width breaks the invariant.
LEMMA NextInv ==
  ASSUME Inv, [Next]_vars
  PROVE  Inv'
<1>1. CASE WidthNext /\ UNCHANGED <<running, s>>
  BY <1>1, WidthStep DEF Inv, Faithful, IsCropped, Cropped
<1>2. CASE Toggle
  BY <1>2, WidthStays DEF Toggle, Inv
<1>3. ASSUME NEW b \in BOOLEAN, Write(b) \/ StopCommit(b) PROVE Inv'
  BY <1>3, WidthStays, WriteFaithful, StopFaithful DEF Inv, Write, StopCommit
<1>4. ASSUME NEW f \in Frames, Set(f) PROVE Inv'
  BY <1>4, WidthStays, SetFaithful DEF Inv, Set
<1>5. ASSUME NEW new \in Frames \cup {0}, SetFrame(new) PROVE Inv'
  BY <1>5, WidthStays, SetFrameFaithful DEF Inv, SetFrame
<1>6. ASSUME NEW f \in Frames, NEW new \in Frames \cup {0}, SetFrameNoClear(f, new) PROVE Inv'
  BY <1>6, WidthStays, SetFrameNoClearFaithful DEF Inv, SetFrameNoClear
<1>7. CASE UNCHANGED vars
  BY <1>7, WidthStays DEF vars, Inv
<1> QED BY <1>1, <1>2, <1>3, <1>4, <1>5, <1>6, <1>7 DEF Next

\* The inductive invariant holds in every run.
THEOREM Invariance == Spec => []Inv
BY InitInv, NextInv, PTL DEF Spec

-----------------------------------------------------------------------------
(* What the runs check. *)

\* The state keeps its types.
THEOREM TypeCorrect == Spec => []TypeOK
<1>1. Inv => TypeOK
  BY DEF Inv, WidthInv, TypeOK, Faithful, IsCropped, Fields
<1> QED BY <1>1, Invariance, PTL

\* A resize that is not stored in the cache yet is on its way, whatever the
\* buffers of one dropped.
THEOREM ResizesAreNotLost == Spec => []ResizeOnItsWay
<1>1. Inv => ResizeOnItsWay
  BY DEF Inv, WidthInv
<1> QED BY <1>1, Invariance, PTL

\* What is on the screen is the recorded frame, cropped to the drawer's width.
THEOREM ScreenIsCropped == Spec => []ShownIsCropped
<1>1. Inv => ShownIsCropped
  BY DEF Inv, ShownIsCropped, Faithful, IsCropped, Cropped
<1> QED BY <1>1, Invariance, PTL

\* A frame that fits takes one row.
LEMMA OneRow ==
  ASSUME NEW w \in Nat \ {0}, NEW n \in 1 .. w
  PROVE  Rows(n, w) = 1
<1>1. (n + w - 1) \div w = 1
  OBVIOUS
<1> QED BY <1>1 DEF Rows

\* Clears take away the rows the frame occupies, none more and none less, when
\* the width of the terminal is known.
THEOREM ClearsAreExact == Spec => []ClearsItsRows
<1>1. Inv => ClearsItsRows
  <2> SUFFICES ASSUME Inv, Known PROVE Clear(s, "ok").rows = Rows(s.shown, term)
    BY DEF ClearsItsRows
  <2>1. /\ s \in Fields /\ s.needClear /\ cached = term /\ term \in Nat /\ term > 0
        /\ s.shown = s.visible /\ s.shown \in Nat \ {0} /\ s.shown <= s.width
    BY DEF Inv, WidthInv, WidthTypeOK, Known, Faithful, IsCropped, Fields
  <2>2. CASE cached = s.width
    <3>1. Clear(s, "ok").rows = 1
      BY <2>1, <2>2 DEF Clear, HandleResize
    <3> QED BY <2>1, <2>2, <3>1, OneRow
  <2>3. CASE cached # s.width
    <3> DEFINE h == HandleResize(s, "ok")
    <3>1. h = [to |-> Adjust(Wipe([s EXCEPT !.width = cached])),
               rows |-> Rows(s.visible, cached), err |-> FALSE]
      BY <2>1, <2>3 DEF HandleResize
    <3> DEFINE v == Wipe([s EXCEPT !.width = cached])
    <3>2. v \in Fields /\ ~v.needClear
      BY <2>1 DEF Wipe, Fields, Inv, WidthInv, WidthTypeOK
    <3>3. ~h.to.needClear
      BY <3>1, <3>2, AdjustCrops
    <3> QED BY <2>1, <3>1, <3>3 DEF Clear
  <2> QED BY <2>2, <2>3
<1> QED BY <1>1, Invariance, PTL
=============================================================================
