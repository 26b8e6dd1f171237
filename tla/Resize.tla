------------------------------- MODULE Resize -------------------------------
(***************************************************************************)
(* The drawer with resize detection (awareClearerDrawer) at work for Write *)
(* and for the actor, while the width of the terminal reaches it through   *)
(* module Width.  Each action is a section locked by st.writerMut.  What   *)
(* the actor does between its sections is left to module Actor, which runs *)
(* begin and end at any time here.                                         *)
(*                                                                         *)
(* A frame is known by the number of columns it fills, 0 when empty.  A    *)
(* frame wider than the terminal wraps, and so does one on the screen when *)
(* the terminal shrinks: the cursor stays on the last of its rows.         *)
(***************************************************************************)
EXTENDS Width

CONSTANTS Frames,     \* columns of the frames
          Outcomes    \* how writes to the wrapped io.Writer may end

ASSUME FramesAssumption == Frames \subseteq Nat \ {0}
ASSUME OutcomesAssumption == Outcomes \subseteq {"ok", "none"}

VARIABLES running,    \* st.running
          s           \* the fields st.writerMut guards, and the screen

vars == <<widthVars, running, s>>

\* needClear, canWrite and frame are of spinnerState, width and visible of
\* awareClearerDrawer.  shown is the number of columns of the frame on the
\* screen, out of its reach (0) after a failed clear; missed tells that
\* clearMess failed and the frame was not cropped again since.
Init ==
  /\ WidthInit /\ running = FALSE
  /\ s = [needClear |-> FALSE, canWrite |-> TRUE, frame |-> 0, width |-> cached,
          visible |-> 0, shown |-> 0, missed |-> FALSE]

Rows(columns, w) == IF w = 0 \/ columns = 0 THEN 1 ELSE (columns + w - 1) \div w

-----------------------------------------------------------------------------
(* awareClearerDrawer, in terms of the guarded fields t. *)

\* adjust, with crop.
Adjust(t) == [t EXCEPT !.visible = IF t.width < t.frame THEN t.width ELSE t.frame,
                       !.missed = FALSE]

Wipe(t) == [t EXCEPT !.needClear = FALSE, !.shown = 0]

\* Forms a slip could give the definitions below; the properties tell them
\* apart.  HandleResize without its clearMess, and without its adjust:
HandleResizeNoMess(t, io) ==
  [to |-> IF cached = t.width THEN t ELSE Adjust([t EXCEPT !.width = cached]),
   rows |-> 0, err |-> FALSE]
HandleResizeUncropped(t, io) ==
  IF cached = t.width \/ ~t.needClear \/ cached = 0 \/ io # "ok"
    THEN [to |-> [t EXCEPT !.width = cached], rows |-> 0, err |-> FALSE]
  ELSE [to |-> Wipe([t EXCEPT !.width = cached]), rows |-> Rows(t.visible, cached),
        err |-> FALSE]

\* handleResize with its clearMess: the fields after it, the rows it erased
\* and whether its write failed.
HandleResize(t, io) ==
  LET u == [t EXCEPT !.width = cached]
  IN IF cached = t.width THEN [to |-> t, rows |-> 0, err |-> FALSE]
     ELSE IF ~t.needClear \/ cached = 0
       THEN [to |-> Adjust(u), rows |-> 0, err |-> FALSE]
     ELSE IF io = "ok"
       THEN [to |-> Adjust(Wipe(u)), rows |-> Rows(t.visible, cached), err |-> FALSE]
     ELSE [to |-> [Wipe(u) EXCEPT !.missed = TRUE], rows |-> 0, err |-> TRUE]

\* clear: at most one of handleResize and ClearLine writes.
Clear(t, io) ==
  LET h == HandleResize(t, io)
  IN IF h.err \/ ~h.to.needClear THEN h
     ELSE [to |-> Wipe(h.to), rows |-> IF io = "ok" THEN 1 ELSE 0, err |-> io # "ok"]

MayDraw(t) == running /\ t.canWrite /\ ~t.needClear /\ t.frame # 0 /\ t.width > 0

\* draw: what was cropped to nothing is cropped again.
Draw(t, io) ==
  IF ~MayDraw(t) THEN t
  ELSE LET u == IF t.visible = 0 THEN Adjust(t) ELSE t
       IN [u EXCEPT !.needClear = TRUE, !.shown = IF io = "ok" THEN u.visible ELSE 0]

DrawFails(t, io) == MayDraw(t) /\ io # "ok"

-----------------------------------------------------------------------------
(* The locked sections. *)

\* Write: whatever becomes of its clear, the data is written and the frame is
\* drawn back.
Write(line) ==
  /\ \E io1, io2 \in Outcomes :
       LET c == Clear(s, io1)
       IN s' = Draw([c.to EXCEPT !.canWrite = line], io2)
  /\ UNCHANGED <<widthVars, running>>

\* set, by a tick or by Start.
Set(f) ==
  /\ running
  /\ IF f = s.frame THEN UNCHANGED s
     ELSE \E io1, io2 \in Outcomes :
            LET c == Clear(s, io1)
                t == Adjust([c.to EXCEPT !.frame = f])
            IN s' = IF c.err THEN c.to
                    ELSE IF DrawFails(t, io2) THEN [Draw(t, io2) EXCEPT !.frame = 0]
                    ELSE Draw(t, io2)
  /\ UNCHANGED <<widthVars, running>>

\* stopFromActor, and the Start that follows.
Toggle == running' = ~running /\ UNCHANGED <<widthVars, s>>

\* Stop, StopNoClear and windDown, once the run is over; the frame that
\* StopNoClear leaves on the screen may still be cleared later.
StopCommit(clear) ==
  /\ ~running
  /\ \E io \in Outcomes :
       s' = [(IF clear THEN Clear(s, io).to ELSE s) EXCEPT !.frame = 0]
  /\ UNCHANGED <<widthVars, running>>

\* The end of setGetFrameFromActor: the outgoing frame stays or is written
\* again, above the new one.
Swap(t, new) ==
  \E io2, io3 \in Outcomes :
    LET u == [t EXCEPT !.needClear = FALSE, !.shown = 0]
        v == Adjust([u EXCEPT !.canWrite = TRUE, !.frame = new])
    IN s' = IF io2 # "ok" THEN u
            ELSE IF new = 0 THEN [u EXCEPT !.canWrite = TRUE]
            ELSE IF DrawFails(v, io3) THEN [Draw(v, io3) EXCEPT !.frame = 0]
            ELSE Draw(v, io3)

\* SetFrameWith: new is 0 when the FrameFunc gave no frame.
SetFrame(new) ==
  /\ running
  /\ \E io \in Outcomes :
       LET c == Clear(s, io) IN IF c.err THEN s' = c.to ELSE Swap(c.to, new)
  /\ UNCHANGED <<widthVars, running>>

\* The outgoing frame, fetched again as f, is installed and cropped before the
\* one on the screen is cleared.
Refetched(f) == Adjust([s EXCEPT !.frame = f])

SetFrameNoClear(f, new) ==
  /\ running
  /\ IF f = s.frame THEN Swap(s, new)
     ELSE \E io \in Outcomes :
            LET c == Clear(Refetched(f), io) IN IF c.err THEN s' = c.to ELSE Swap(c.to, new)
  /\ UNCHANGED <<widthVars, running>>

Next ==
  \/ WidthNext /\ UNCHANGED <<running, s>>
  \/ Toggle \/ (\E b \in BOOLEAN : Write(b) \/ StopCommit(b))
  \/ \E f \in Frames :
       Set(f) \/ SetFrame(f) \/ \E g \in Frames \cup {0} : SetFrameNoClear(f, g)
  \/ SetFrame(0)

Spec == Init /\ [][Next]_vars

FairSpec == Spec /\ WidthFairness

-----------------------------------------------------------------------------
(* Properties. *)

\* The types of the state.
TypeOK ==
  /\ WidthTypeOK /\ running \in BOOLEAN
  /\ s \in [needClear : BOOLEAN, canWrite : BOOLEAN, frame : Frames \cup {0},
            width : Widths, visible : Nat, shown : Nat, missed : BOOLEAN]

\* The frame on the screen is the recorded one, cropped to the width the drawer
\* works with, unless the write of clearMess failed: then, and only until the
\* next crop, a frame of the old width may be drawn.
ShownIsCropped ==
  s.needClear /\ s.frame # 0 /\ s.shown # 0 /\ ~s.missed =>
    s.shown = (IF s.width < s.frame THEN s.width ELSE s.frame)

\* The frame on the screen fits the width known when it was drawn, and the
\* width of the terminal is known now.
Known == cached = term /\ term > 0 /\ s.needClear /\ s.shown # 0 /\ ~s.missed

\* Whenever the width is known, the clear of a Write, a tick or a Stop takes
\* away the rows the frame occupies, all of them and none above it, however
\* often the terminal was resized since the frame was drawn.
ClearsItsRows == Known => Clear(s, "ok").rows = Rows(s.shown, term)

\* What the documentation says of resize detection, and the code does not do: a
\* shrink clears every row the old frame wraps to, also for SetFrameNoClear.
EveryRowCleared ==
  Known => \A f \in Frames \ {s.frame} :
             Clear(Refetched(f), "ok").rows >= Rows(s.shown, term)
=============================================================================
