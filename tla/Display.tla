------------------------------ MODULE Display ------------------------------
(***************************************************************************)
(* What the spinner leaves on the screen.  The actor (background.go) draws *)
(* and clears a frame on the row of the cursor; Write (writer.go) puts its *)
(* caller's data on the same row.  Both do so in sections locked by        *)
(* st.writerMut, here one action each, and between the sections of one     *)
(* handler the other may come in.  The drawer is the one without resize    *)
(* detection (obliviousClearerDrawer).                                     *)
(*                                                                         *)
(* The row of the cursor is known by the kinds of text on it: "data" of a  *)
(* Write, "msg" given to StopWith, SetFrameWith and the NoClear calls, a   *)
(* frame that is "live", or one "kept" on purpose.  A newline starts an    *)
(* empty row, and what is above it is out of reach.                        *)
(***************************************************************************)
EXTENDS Integers

CONSTANTS Frames,    \* texts a FrameFunc may return
          Empty,     \* a frame of no bytes
          NoFrame,   \* an error instead of a frame
          Used,      \* the operations that occur
          Outcomes   \* how writes to the wrapped io.Writer may end

Fetched == Frames \cup {Empty, NoFrame}

ASSUME FramesAssumption == Empty \notin Frames /\ NoFrame \notin Frames /\ Empty # NoFrame

\* A wrapped Write succeeds, fails and writes nothing, or fails half-way.
ASSUME OutcomesAssumption == Outcomes \subseteq {"ok", "none", "part"}

Operations == {"start", "stop", "stopNoClear", "setFrame", "setFrameNoClear",
               "tick", "text", "line", "nothing", "close"}
ASSUME UsedAssumption == Used \subseteq Operations

Kinds    == {"data", "msg", "kept", "live"}
Messages == {"", "text", "line"}    \* none, without and with a final newline

VARIABLES running,    \* st.running
          screen,     \* the row, and the fields st.writerMut guards
          actor,      \* where the actor is, and the message it handles
          report      \* a Write has an error to send to the actor

vars == <<running, screen, actor, report>>

\* screen.needClear, screen.canWrite and screen.frame are the fields of
\* spinnerState.  The rest is what a user sees: the row, the frame that is
\* live on it and the last frame kept, and, for the properties, the kinds of
\* text ever erased and ever drawn over.
BlankScreen == [needClear |-> FALSE, canWrite |-> TRUE, frame |-> Empty,
                row |-> {}, shown |-> Empty, kept |-> Empty,
                erased |-> {}, over |-> {}]

Idle == [at |-> "idle", clear |-> FALSE, m |-> "", f |-> Empty]

Init ==
  /\ running = FALSE /\ screen = BlankScreen
  /\ actor = Idle /\ report = FALSE

-----------------------------------------------------------------------------
(* obliviousClearerDrawer, and the other writes to the wrapped io.Writer.  *)

\* Forms a slip could give the definitions below; the properties tell them
\* apart.  Here clear without its needClear = false, and draw without its test
\* of canWrite or of running.
ClearUnmarked(s, io) ==
  IF ~s.needClear \/ io = "none" THEN s
  ELSE [s EXCEPT !.row = {}, !.shown = Empty, !.erased = @ \cup s.row]
MayDrawMidLine(s, on) == on /\ ~s.needClear /\ s.frame # Empty
MayDrawStopped(s, on) == s.canWrite /\ ~s.needClear /\ s.frame # Empty

\* clear: nothing to do, or ClearLine.
Clear(s, io) ==
  IF ~s.needClear THEN s
  ELSE IF io = "none" THEN [s EXCEPT !.needClear = FALSE]
  ELSE [s EXCEPT !.needClear = FALSE, !.row = {}, !.shown = Empty,
                 !.erased = @ \cup s.row]

ClearFails(s, io) == s.needClear /\ io # "ok"

\* draw: only while running, at the start of a line, and not twice.
MayDraw(s, on) == on /\ s.canWrite /\ ~s.needClear /\ s.frame # Empty

Draw(s, on, io) ==
  IF ~MayDraw(s, on) THEN s
  ELSE IF io = "none" THEN [s EXCEPT !.needClear = TRUE]
  ELSE [s EXCEPT !.needClear = TRUE, !.row = @ \cup {"live"}, !.shown = s.frame,
                 !.over = @ \cup s.row]

DrawFails(s, on, io) == MayDraw(s, on) /\ io # "ok"

\* The write of Write: all of it or a part of it, ending in a newline or not,
\* or nothing.
Data(s, how) ==
  CASE how = "line"    -> [s EXCEPT !.canWrite = TRUE, !.row = {}, !.shown = Empty]
    [] how = "text"    -> [s EXCEPT !.canWrite = FALSE, !.row = @ \cup {"data"}]
    [] how = "nothing" -> [s EXCEPT !.canWrite = FALSE]

\* The frame on the row is no longer live: it stays.
Keep(s) ==
  IF "live" \notin s.row THEN s
  ELSE [s EXCEPT !.row = (@ \ {"live"}) \cup {"kept"}, !.kept = s.shown,
                 !.shown = Empty]

\* One write of frame f (unless Empty) and message m, on a line of its own
\* when the line is unfinished.
Say(s, f, m, io) ==
  IF io = "none" \/ (f = Empty /\ m = "") THEN s
  ELSE [s EXCEPT
    !.row = IF m = "line" /\ io = "ok" THEN {}
            ELSE (IF s.canWrite THEN @ ELSE {})
                 \cup (IF f # Empty THEN {"kept"} ELSE {})
                 \cup (IF m # "" THEN {"msg"} ELSE {}),
    !.shown = IF (m = "line" /\ io = "ok") \/ ~s.canWrite THEN Empty ELSE @,
    !.kept = IF f # Empty THEN f ELSE @]

\* Forget, forgotten.
Remember(s) == s

\* st.frame = []byte{}: the next frame is drawn even if it is the same.
Forget(s) == [s EXCEPT !.frame = Empty]

-----------------------------------------------------------------------------
(* Write: clear, write the data, draw the frame back, in one section. *)

Write(how) ==
  /\ how \in Used
  /\ \E io1, io2 \in Outcomes :
       LET cleared == Clear(screen, io1)
           written == Data(cleared, how)
       IN /\ screen' = Draw(written, running, io2)
          /\ report' = (report \/ ClearFails(screen, io1)
                               \/ DrawFails(written, running, io2))
  /\ UNCHANGED <<running, actor>>

\* The actor takes the report and stops, or does not take it in time.
ReportError ==
  /\ report /\ actor.at = "idle"
  /\ running' = FALSE /\ report' = FALSE
  /\ UNCHANGED <<screen, actor>>

ReportTimeout ==
  /\ report /\ actor.at # "idle"
  /\ report' = FALSE
  /\ UNCHANGED <<running, screen, actor>>

-----------------------------------------------------------------------------
(* The actor's handlers. *)

\* set without its clear.
SetScreenOver(s, f, io1, io2) ==
  LET drawn == Draw([s EXCEPT !.frame = f], running, io2)
  IN IF f = s.frame THEN s
     ELSE IF DrawFails([s EXCEPT !.frame = f], running, io2) THEN Forget(drawn)
     ELSE drawn

\* set: nothing for an equal frame; otherwise clear, install and draw.
SetScreen(s, f, io1, io2) ==
  LET cleared == Clear(s, io1)
      drawn   == Draw([cleared EXCEPT !.frame = f], running, io2)
  IN IF f = s.frame THEN s
     ELSE IF ClearFails(s, io1) THEN cleared
     ELSE IF DrawFails([cleared EXCEPT !.frame = f], running, io2)
       THEN Forget(drawn)
     ELSE drawn

SetFails(s, f, io1, io2) ==
  /\ f # s.frame
  /\ \/ ClearFails(s, io1)
     \/ DrawFails([Clear(s, io1) EXCEPT !.frame = f], running, io2)

\* set, and on an error the actor has yet to stop the run.
ActorSets(f) ==
  \E io1, io2 \in Outcomes :
    /\ screen' = SetScreen(screen, f, io1, io2)
    /\ actor' = IF SetFails(screen, f, io1, io2) THEN [Idle EXCEPT !.at = "failed"]
                                                 ELSE Idle

\* StartFetch without the test of its fetch error.
StartFetchUnchecked(f) ==
  /\ "start" \in Used /\ actor.at = "idle" /\ ~running
  /\ running' = TRUE
  /\ actor' = [Idle EXCEPT !.at = "startSet", !.f = f]
  /\ UNCHANGED <<screen, report>>

StartFetch(f) ==
  /\ "start" \in Used /\ actor.at = "idle" /\ ~running
  /\ running' = TRUE
  /\ actor' = IF f = NoFrame THEN Idle ELSE [Idle EXCEPT !.at = "startSet", !.f = f]
  /\ UNCHANGED <<screen, report>>

StartSet ==
  /\ actor.at = "startSet"
  /\ ActorSets(actor.f)
  /\ UNCHANGED <<running, report>>

SetFailed ==
  /\ actor.at = "failed"
  /\ running' = FALSE /\ actor' = Idle
  /\ UNCHANGED <<screen, report>>

TickDraw(f) ==
  /\ "tick" \in Used /\ actor.at = "idle" /\ running
  /\ ActorSets(f)
  /\ UNCHANGED <<running, report>>

\* Stop, StopWith, StopNoClear, up to the lock.  Only StopNoClear fetches.
StopBegin(clear, m, f) ==
  /\ actor.at = "idle" /\ running
  /\ IF clear THEN "stop" \in Used /\ f = NoFrame ELSE "stopNoClear" \in Used
  /\ running' = FALSE
  /\ actor' = [at |-> "stop", clear |-> clear, m |-> m, f |-> f]
  /\ UNCHANGED <<screen, report>>

\* A final frame that differs replaces the one on the screen; one that a Write
\* cleared away is written again; one still on the screen is left alone.
StopCommit ==
  /\ actor.at = "stop"
  /\ LET changed == actor.f \in Frames /\ actor.f # screen.frame
         clears  == actor.clear \/ changed
         final   == IF changed THEN actor.f
                    ELSE IF clears \/ screen.needClear THEN Empty
                    ELSE screen.frame
     IN \E io1, io2 \in Outcomes :
          LET ready == IF clears THEN Clear(screen, io1) ELSE Keep(screen)
          IN screen' = Forget(Say(ready, final, actor.m, io2))
  /\ actor' = Idle
  /\ UNCHANGED <<running, report>>

\* SetFrame, SetFrameWith, SetFrameNoClear while running: the outgoing frame f
\* is fetched again for SetFrameNoClear only.
SetBegin(clear, m, f) ==
  /\ actor.at = "idle" /\ running
  /\ IF clear THEN "setFrame" \in Used /\ f = NoFrame ELSE "setFrameNoClear" \in Used
  /\ actor' = [at |-> "set", clear |-> clear, m |-> m, f |-> f]
  /\ UNCHANGED <<running, screen, report>>

\* OutgoingFinal, relying on the frame still being on the screen.
OutgoingFinalShown(s) ==
  IF ~actor.clear /\ actor.f # NoFrame /\ actor.f # s.frame THEN actor.f ELSE Empty

\* The outgoing frame and the message on their line, with a newline forced.
OutgoingFinal(s) ==
  LET changed == ~actor.clear /\ actor.f # NoFrame /\ actor.f # s.frame
  IN IF changed THEN actor.f
     ELSE IF actor.clear \/ s.needClear THEN Empty ELSE s.frame

SetCommit(new) ==
  /\ actor.at = "set"
  /\ \E io1, io2, io3 \in Outcomes :
       LET changed == ~actor.clear /\ actor.f # NoFrame /\ actor.f # screen.frame
           clears  == actor.clear \/ changed
           s0    == IF changed THEN [screen EXCEPT !.frame = actor.f] ELSE screen
           final == OutgoingFinal(screen)
           says  == final # Empty \/ actor.m # ""
           s1    == IF clears THEN Clear(s0, io1) ELSE Keep(s0)
           s2    == Say([s1 EXCEPT !.needClear = FALSE], final,
                        IF says THEN "line" ELSE "", io2)
           s3    == IF says THEN [s2 EXCEPT !.canWrite = TRUE] ELSE s2
           s4    == [s3 EXCEPT !.frame = new]
       IN IF clears /\ ClearFails(s0, io1)
            THEN screen' = s1 /\ running' = FALSE
          ELSE IF says /\ io2 # "ok"
            THEN screen' = s2 /\ running' = FALSE
          ELSE IF new = NoFrame
            THEN screen' = s3 /\ UNCHANGED running
          ELSE IF DrawFails(s4, running, io3)
            THEN screen' = Forget(Draw(s4, running, io3)) /\ running' = FALSE
          ELSE screen' = Draw(s4, running, io3) /\ UNCHANGED running
  /\ actor' = Idle
  /\ UNCHANGED report

\* windDown: Close, or the governing context is done.
CloseBegin ==
  /\ "close" \in Used /\ actor.at = "idle"
  /\ running' = FALSE /\ actor' = [Idle EXCEPT !.at = "windDown"]
  /\ UNCHANGED <<screen, report>>

CloseClear ==
  /\ actor.at = "windDown"
  /\ \E io \in Outcomes : screen' = Clear(screen, io)
  /\ actor' = [Idle EXCEPT !.at = "exited"]
  /\ UNCHANGED <<running, report>>

Next ==
  \/ \E how \in {"text", "line", "nothing"} : Write(how)
  \/ ReportError \/ ReportTimeout \/ StartSet \/ SetFailed \/ StopCommit
  \/ CloseBegin \/ CloseClear
  \/ \E f \in Fetched : StartFetch(f) \/ SetCommit(f)
  \/ \E f \in Frames \cup {Empty} : TickDraw(f)
  \/ \E clear \in BOOLEAN, m \in Messages, f \in Fetched :
       StopBegin(clear, m, f) \/ SetBegin(clear, m, f)

Spec == Init /\ [][Next]_vars

-----------------------------------------------------------------------------
(* Properties. *)

Texts == Frames \cup {Empty}

Screens == [needClear : BOOLEAN, canWrite : BOOLEAN, frame : Texts,
            row : SUBSET Kinds, shown : Texts, kept : Texts,
            erased : SUBSET Kinds, over : SUBSET Kinds]

ActorStates ==
  [at : {"idle", "startSet", "failed", "stop", "set", "windDown", "exited"},
   clear : BOOLEAN, m : Messages, f : Fetched]

\* The types of the state.
TypeOK == /\ running \in BOOLEAN /\ report \in BOOLEAN
          /\ screen \in Screens /\ actor \in ActorStates

\* What spinq exists for: whatever the order of Writes, ticks and lifecycle
\* calls and whichever wrapped writes fail, no byte of the program's own output
\* is erased from the screen, and no frame is drawn on a line it left
\* unfinished.
DataSafe == "data" \notin screen.erased /\ "data" \notin screen.over

\* The frame redrawn by a Write is the one on the screen: st.frame and the
\* row never disagree while a frame is up.
ShownIsFrame ==
  actor.at = "idle" /\ running /\ screen.needClear => screen.shown = screen.frame

\* A Write that leaves the line free puts the frame back that it took away,
\* whatever handler it interrupts (a tick that draws does too).
WriteDrawsBack ==
  [][actor' = actor /\ running' /\ screen' # screen /\ screen'.canWrite
     /\ screen'.frame # Empty
     => "live" \in screen'.row /\ screen'.shown = screen'.frame]_vars

\* A stopped or closed spinner has no frame on the screen that a later Write
\* would take for output: it is erased or it was kept on purpose, also when
\* the Write ran between the stop and its clear.
StoppedLeavesNothing ==
  actor.at \in {"idle", "exited"} /\ ~running => "live" \notin screen.row

\* What a NoClear call must leave on the screen: the outgoing frame, fetched
\* again, or the previous one if the fetch failed (a final frame of no bytes
\* counts as none in StopNoClear, and as the frame in SetFrameNoClear).
Outgoing ==
  IF actor.f = NoFrame \/ (actor.at = "stop" /\ actor.f = Empty)
    THEN screen.frame ELSE actor.f

\* The cursor stays on the row of the kept frame after a StopNoClear without a
\* final newline, and after a SetFrameNoClear without a suffix whose frame was
\* still up and has not changed.  There it shares the row with the next live
\* frame, and the next clear erases both; the documentation of SetFrameNoClear
\* promises the new frame a line of its own in every case.
SharesRow ==
  IF actor.at = "stop" THEN actor.m # "line"
  ELSE actor.m = "" /\ Outgoing = screen.frame /\ screen.needClear

\* StopNoClear and SetFrameNoClear leave that frame on the screen, also when a
\* Write took it off before the lock was taken: above the row of the cursor,
\* where nothing erases it, or on that row in the cases above and in no other.
NoClearKeeps ==
  [][/\ actor.at \in {"stop", "set"} /\ ~actor.clear /\ actor'.at = "idle"
     /\ Outgoing # Empty
     => screen'.kept = Outgoing /\ ("kept" \in screen'.row <=> SharesRow)]_vars

\* Start draws its first frame before it returns, when the line is free.
StartDraws ==
  [][actor.at = "startSet" /\ actor'.at = "idle" /\ actor.f # Empty /\ screen.canWrite
       => "live" \in screen'.row /\ screen'.shown = actor.f]_vars

\* What the documentation of StopNoClear promises, and the code does not: a
\* frame it froze stays on the screen, whatever is written later.
KeptStays == "kept" \notin screen.erased
=============================================================================
