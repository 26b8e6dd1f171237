---------------------------- MODULE CalmProofs ----------------------------
(***************************************************************************)
(* What is on the screen as long as the wrapped io.Writer does not fail,   *)
(* for any set of frames and any order of Writes against the steps of the  *)
(* actor: a live frame is the one st.frame tells of, it is put back by a   *)
(* Write, kept by a NoClear call, and gone after a Stop.                   *)
(*                                                                         *)
(* The invariant relates the row to st.needClear and st.frame.  A row to   *)
(* be cleared holds a live frame, that of st.frame, or else one that       *)
(* StopNoClear froze, and then st.frame was forgotten.                     *)
(***************************************************************************)
EXTENDS DisplayProofs

Calm(s) ==
  /\ Safe(s)
  /\ "live" \in s.row => s.needClear /\ s.canWrite /\ s.shown = s.frame
  /\ s.needClear /\ "live" \notin s.row => s.frame = Empty /\ s.shown = Empty

\* Between a stop and its locked section the live frame is still on the row,
\* and only then; a Start finds no frame remembered, so that it draws.
CalmInv ==
  /\ Inv
  /\ ~report /\ actor.at # "failed"
  /\ actor.at \in {"startSet", "set"} => running
  /\ actor.at \in {"stop", "windDown", "exited"} => ~running
  /\ actor.at = "startSet" \/ (actor.at = "idle" /\ ~running) => screen.frame = Empty
  /\ "live" \in screen.row => running \/ actor.at \in {"stop", "windDown"}
  /\ Calm(screen)

-----------------------------------------------------------------------------
(* The operations on the screen, when the wrapped writes succeed. *)

\* Nothing is live after a clear, and nothing is forgotten.
LEMMA ClearCalm ==
  ASSUME NEW s, Safe(s), "live" \in s.row => s.needClear
  PROVE  /\ Calm(Clear(s, "ok"))
         /\ ~Clear(s, "ok").needClear /\ "live" \notin Clear(s, "ok").row
         /\ Clear(s, "ok").frame = s.frame /\ Clear(s, "ok").canWrite = s.canWrite
         /\ Clear(s, "ok").kept = s.kept
<1>1. Safe(Clear(s, "ok"))
  BY ClearSafe
<1>2. /\ ~Clear(s, "ok").needClear /\ "live" \notin Clear(s, "ok").row
      /\ Clear(s, "ok").frame = s.frame /\ Clear(s, "ok").canWrite = s.canWrite
      /\ Clear(s, "ok").kept = s.kept
  BY DEF Safe, Clear, Screens
<1> QED BY <1>1, <1>2 DEF Calm

\* A draw shows the frame that is remembered, or leaves the screen alone.
LEMMA DrawCalm ==
  ASSUME NEW s, Calm(s), NEW on \in BOOLEAN
  PROVE  /\ Calm(Draw(s, on, "ok"))
         /\ Draw(s, on, "ok").frame = s.frame /\ Draw(s, on, "ok").canWrite = s.canWrite
         /\ Draw(s, on, "ok").kept = s.kept
         /\ "live" \in Draw(s, on, "ok").row => on \/ "live" \in s.row
         /\ "kept" \in Draw(s, on, "ok").row <=> "kept" \in s.row
         /\ MayDraw(s, on) => "live" \in Draw(s, on, "ok").row /\ Draw(s, on, "ok").shown = s.frame
<1>1. Safe(Draw(s, on, "ok"))
  BY DrawSafe DEF Calm
<1>2. CASE ~MayDraw(s, on)
  BY <1>1, <1>2 DEF Draw
<1>3. CASE MayDraw(s, on)
  <2>1. LET d == Draw(s, on, "ok") IN
          /\ d.needClear /\ "live" \in d.row /\ d.shown = s.frame /\ d.frame = s.frame
          /\ d.canWrite = s.canWrite /\ d.kept = s.kept /\ d.row = s.row \cup {"live"}
    BY <1>3 DEF Draw, Calm, Safe, Screens
  <2>2. s.canWrite /\ on
    BY <1>3 DEF MayDraw
  <2> QED BY <1>1, <2>1, <2>2 DEF Calm
<1> QED BY <1>2, <1>3

\* The data of a Write makes nothing live.
LEMMA DataCalm ==
  ASSUME NEW s, Calm(s), ~s.needClear, NEW how \in {"text", "line", "nothing"}
  PROVE  /\ Calm(Data(s, how)) /\ ~Data(s, how).needClear
         /\ Data(s, how).frame = s.frame /\ "live" \notin Data(s, how).row
<1>1. Safe(Data(s, how))
  BY DataWriteSafe DEF Calm
<1>2. /\ ~Data(s, how).needClear
      /\ Data(s, how).frame = s.frame /\ "live" \notin Data(s, how).row
  BY DEF Data, Calm, Safe, Screens
<1> QED BY <1>1, <1>2 DEF Calm

\* A frame frozen on the row is the one that was shown, at the start of a line.
LEMMA KeepCalm ==
  ASSUME NEW s, Calm(s)
  PROVE  /\ Safe(Keep(s)) /\ "live" \notin Keep(s).row
         /\ Keep(s).frame = s.frame /\ Keep(s).needClear = s.needClear
         /\ Keep(s).needClear => Keep(s).shown = Empty
         /\ s.needClear /\ s.frame # Empty =>
              Keep(s).kept = s.frame /\ "kept" \in Keep(s).row /\ Keep(s).canWrite
<1>1. Safe(Keep(s))
  BY KeepSafe DEF Calm
<1>2. CASE "live" \notin s.row
  BY <1>1, <1>2 DEF Keep, Calm
<1>3. CASE "live" \in s.row
  <2>1. LET k == Keep(s) IN
          /\ "live" \notin k.row /\ k.frame = s.frame /\ k.needClear = s.needClear
          /\ k.shown = Empty /\ k.kept = s.shown /\ "kept" \in k.row
          /\ k.canWrite = s.canWrite
    BY <1>3 DEF Keep, Calm, Safe, Screens
  <2> QED BY <1>1, <1>3, <2>1 DEF Calm
<1> QED BY <1>2, <1>3

\* A final frame is kept, a message makes nothing live.
LEMMA SayCalm ==
  ASSUME NEW s, Safe(s), "live" \notin s.row, NEW f \in Texts, NEW m \in Messages
  PROVE  /\ Safe(Say(s, f, m, "ok")) /\ "live" \notin Say(s, f, m, "ok").row
         /\ Say(s, f, m, "ok").needClear = s.needClear /\ Say(s, f, m, "ok").frame = s.frame
         /\ Say(s, f, m, "ok").shown \in {Empty, s.shown}
         /\ Say(s, f, m, "ok").kept = IF f # Empty THEN f ELSE s.kept
         /\ m = "line" => Say(s, f, m, "ok").row = {}
         /\ m # "line" /\ (f # Empty \/ ("kept" \in s.row /\ s.canWrite)) =>
              "kept" \in Say(s, f, m, "ok").row
<1>1. Safe(Say(s, f, m, "ok"))
  BY SaySafe
<1>2. CASE f = Empty /\ m = ""
  BY <1>1, <1>2 DEF Say
<1>3. CASE ~(f = Empty /\ m = "")
  <2> DEFINE row   == IF m = "line" THEN {}
                      ELSE (IF s.canWrite THEN s.row ELSE {})
                           \cup (IF f # Empty THEN {"kept"} ELSE {})
                           \cup (IF m # "" THEN {"msg"} ELSE {})
             shown == IF m = "line" \/ ~s.canWrite THEN Empty ELSE s.shown
             kept  == IF f # Empty THEN f ELSE s.kept
  <2>1. Say(s, f, m, "ok") = [s EXCEPT !.row = row, !.shown = shown, !.kept = kept]
    BY <1>3 DEF Say, Safe, Screens
  <2>2. /\ "live" \notin row /\ shown \in {Empty, s.shown} /\ (m = "line" => row = {})
        /\ m # "line" /\ (f # Empty \/ ("kept" \in s.row /\ s.canWrite)) => "kept" \in row
    OBVIOUS
  <2> HIDE DEF row, shown
  <2> QED BY <1>1, <2>1, <2>2 DEF Safe, Screens
<1> QED BY <1>2, <1>3

\* Remembering another frame is sound while none is up.
LEMMA FrameCalm ==
  ASSUME NEW s, Safe(s), "live" \notin s.row, NEW f \in Texts,
         s.needClear => f = Empty /\ s.shown = Empty
  PROVE  /\ Calm([s EXCEPT !.frame = f])
         /\ [s EXCEPT !.frame = f].row = s.row /\ [s EXCEPT !.frame = f].kept = s.kept
         /\ [s EXCEPT !.frame = f].frame = f
         /\ [s EXCEPT !.frame = f].needClear = s.needClear
         /\ [s EXCEPT !.frame = f].canWrite = s.canWrite
<1>1. Safe([s EXCEPT !.frame = f])
  BY FrameSafe
<1>2. /\ [s EXCEPT !.frame = f].row = s.row /\ [s EXCEPT !.frame = f].kept = s.kept
      /\ [s EXCEPT !.frame = f].frame = f /\ [s EXCEPT !.frame = f].shown = s.shown
      /\ [s EXCEPT !.frame = f].needClear = s.needClear
      /\ [s EXCEPT !.frame = f].canWrite = s.canWrite
  BY DEF Safe, Screens
<1> QED BY <1>1, <1>2 DEF Calm

\* set shows the new frame, and remembers it, whether it may draw or not.
LEMMA SetScreenCalm ==
  ASSUME NEW s, Calm(s), NEW f \in Texts, running \in BOOLEAN
  PROVE  /\ Calm(SetScreen(s, f, "ok", "ok")) /\ ~SetFails(s, f, "ok", "ok")
         /\ "live" \in SetScreen(s, f, "ok", "ok").row => running \/ "live" \in s.row
         /\ SetScreen(s, f, "ok", "ok").frame = f
         /\ SetScreen(s, f, "ok", "ok").canWrite = s.canWrite
         /\ f # s.frame /\ f # Empty /\ running /\ s.canWrite =>
              /\ "live" \in SetScreen(s, f, "ok", "ok").row
              /\ SetScreen(s, f, "ok", "ok").shown = f
<1> DEFINE cleared == Clear(s, "ok")
           shown   == [cleared EXCEPT !.frame = f]
<1>1. ~SetFails(s, f, "ok", "ok")
  BY DEF SetFails, ClearFails, DrawFails
<1>2. CASE f = s.frame
  BY <1>1, <1>2 DEF SetScreen
<1>3. CASE f # s.frame
  <2>1. /\ Calm(cleared) /\ ~cleared.needClear /\ "live" \notin cleared.row
        /\ cleared.canWrite = s.canWrite
    BY ClearCalm DEF Calm
  <2>2. /\ Calm(shown) /\ ~shown.needClear /\ "live" \notin shown.row
        /\ shown.canWrite = s.canWrite /\ shown.frame = f
    <3> HIDE DEF cleared
    <3> QED BY <2>1, FrameCalm DEF Calm
  <2>3. SetScreen(s, f, "ok", "ok") = Draw(shown, running, "ok")
    BY <1>3 DEF SetScreen, ClearFails, DrawFails
  <2> HIDE DEF shown
  <2>4. f # Empty /\ running /\ s.canWrite => MayDraw(shown, running)
    BY <2>2 DEF MayDraw
  <2> QED BY <1>1, <2>2, <2>3, <2>4, DrawCalm
<1> QED BY <1>2, <1>3

-----------------------------------------------------------------------------
(* The steps. *)

LEMMA CalmInit == Init => CalmInv
<1> SUFFICES ASSUME Init PROVE CalmInv
  OBVIOUS
<1>1. Inv
  BY InitInv
<1> QED BY <1>1 DEF Init, BlankScreen, Idle, Inv, CalmInv, Calm

\* A Write takes the frame away, and puts it back when the line is free.
LEMMA WriteCalm ==
  ASSUME Outcomes = {"ok"}, CalmInv, NEW how \in {"text", "line", "nothing"}, Write(how)
  PROVE  /\ CalmInv'
         /\ running' /\ screen'.canWrite /\ screen'.frame # Empty
              => "live" \in screen'.row /\ screen'.shown = screen'.frame
<1> DEFINE cleared == Clear(screen, "ok")
           written == Data(cleared, how)
<1>1. /\ screen' = Draw(written, running, "ok") /\ UNCHANGED <<running, actor>>
      /\ ~report'
  BY DEF Write, ClearFails, DrawFails, CalmInv
<1>2. Calm(cleared) /\ ~cleared.needClear /\ cleared.frame = screen.frame
  BY ClearCalm DEF CalmInv, Calm
<1>3. /\ Calm(written) /\ ~written.needClear /\ written.frame = screen.frame
      /\ "live" \notin written.row
  <2> HIDE DEF cleared
  <2> QED BY <1>2, DataCalm
<1> HIDE DEF written
<1>4. /\ Calm(screen') /\ screen'.frame = screen.frame
      /\ screen'.canWrite = written.canWrite
      /\ "live" \in screen'.row => running
      /\ MayDraw(written, running) => "live" \in screen'.row /\ screen'.shown = screen'.frame
  BY <1>1, <1>3, DrawCalm DEF CalmInv, Inv
<1>5. Inv'
  BY WriteInv DEF CalmInv
<1>6. CalmInv'
  BY <1>1, <1>4, <1>5 DEF CalmInv
<1> QED BY <1>1, <1>3, <1>4, <1>6 DEF MayDraw

\* Start and the ticks go through set.
LEMMA ActorSetsCalm ==
  ASSUME Outcomes = {"ok"}, CalmInv, NEW f \in Texts, ActorSets(f), running,
         UNCHANGED <<running, report>>
  PROVE  /\ CalmInv' /\ screen' = SetScreen(screen, f, "ok", "ok") /\ actor' = Idle
         /\ f # screen.frame /\ f # Empty /\ screen.canWrite
              => "live" \in screen'.row /\ screen'.shown = f
<1>1. /\ Calm(SetScreen(screen, f, "ok", "ok")) /\ ~SetFails(screen, f, "ok", "ok")
      /\ f # screen.frame /\ f # Empty /\ screen.canWrite =>
           /\ "live" \in SetScreen(screen, f, "ok", "ok").row
           /\ SetScreen(screen, f, "ok", "ok").shown = f
  BY SetScreenCalm DEF CalmInv, Inv
<1>2. screen' = SetScreen(screen, f, "ok", "ok") /\ actor' = Idle
  BY <1>1 DEF ActorSets
<1>3. Inv'
  BY ActorSetsInv DEF CalmInv
<1>4. CalmInv'
  BY <1>1, <1>2, <1>3, IdleState DEF CalmInv
<1> QED BY <1>1, <1>2, <1>4

\* A StopNoClear keeps its outgoing frame; no Stop leaves a live one.
LEMMA StopCommitCalm ==
  ASSUME Outcomes = {"ok"}, CalmInv, StopCommit
  PROVE  /\ CalmInv'
         /\ ~actor.clear /\ Outgoing # Empty =>
              screen'.kept = Outgoing /\ ("kept" \in screen'.row <=> SharesRow)
<1> DEFINE changed == actor.f \in Frames /\ actor.f # screen.frame
           clears  == actor.clear \/ changed
           final   == IF changed THEN actor.f
                      ELSE IF clears \/ screen.needClear THEN Empty
                      ELSE screen.frame
           ready   == IF clears THEN Clear(screen, "ok") ELSE Keep(screen)
           said    == Say(ready, final, actor.m, "ok")
<1>1. /\ screen' = [said EXCEPT !.frame = Empty] /\ actor' = Idle
      /\ UNCHANGED <<running, report>> /\ actor.at = "stop"
  BY DEF StopCommit, Forget
<1>2. /\ final \in Texts /\ Empty \in Texts /\ actor.m \in Messages
      /\ actor.f \in Frames \cup {Empty, NoFrame} /\ screen.frame \in Texts
  BY DEF CalmInv, Inv, Safe, Screens, Texts, ActorStates, Fetched
<1>3. /\ Safe(ready) /\ "live" \notin ready.row
      /\ ready.needClear => ready.shown = Empty
      /\ ~clears /\ screen.needClear /\ screen.frame # Empty =>
           ready.kept = screen.frame /\ "kept" \in ready.row /\ ready.canWrite
  BY ClearCalm, KeepCalm DEF CalmInv, Calm
<1>4. ~actor.clear /\ Outgoing # Empty =>
        IF final # Empty THEN final = Outgoing
                         ELSE ~clears /\ screen.needClear /\ Outgoing = screen.frame
  BY <1>1, <1>2, FramesAssumption DEF Outgoing
<1> HIDE DEF ready, final, clears
<1>5. /\ Safe(said) /\ "live" \notin said.row
      /\ said.needClear => said.shown = Empty
      /\ said.kept = IF final # Empty THEN final ELSE ready.kept
      /\ actor.m = "line" => said.row = {}
      /\ actor.m # "line" /\ (final # Empty \/ ("kept" \in ready.row /\ ready.canWrite)) =>
           "kept" \in said.row
  BY <1>2, <1>3, SayCalm
<1> HIDE DEF said
<1>6. Calm(screen') /\ screen'.frame = Empty /\ "live" \notin screen'.row
      /\ screen'.kept = said.kept /\ screen'.row = said.row
  BY <1>1, <1>2, <1>5, FrameCalm
<1>7. Inv'
  BY StopCommitInv DEF CalmInv
<1>8. CalmInv'
  BY <1>1, <1>6, <1>7, IdleState DEF CalmInv
<1>9. ASSUME ~actor.clear, Outgoing # Empty
      PROVE  screen'.kept = Outgoing /\ ("kept" \in screen'.row <=> actor.m # "line")
  BY <1>3, <1>4, <1>5, <1>6, <1>9
<1> QED BY <1>1, <1>8, <1>9 DEF SharesRow

\* A SetFrameNoClear keeps its outgoing frame; the new one is drawn below it.
LEMMA SetCommitCalm ==
  ASSUME Outcomes = {"ok"}, CalmInv, NEW new \in Fetched, SetCommit(new)
  PROVE  /\ CalmInv'
         /\ ~actor.clear /\ Outgoing # Empty =>
              screen'.kept = Outgoing /\ ("kept" \in screen'.row <=> SharesRow)
<1> DEFINE changed == ~actor.clear /\ actor.f # NoFrame /\ actor.f # screen.frame
           clears  == actor.clear \/ changed
           s0      == IF changed THEN [screen EXCEPT !.frame = actor.f] ELSE screen
           final   == OutgoingFinal(screen)
           says    == final # Empty \/ actor.m # ""
           s1      == IF clears THEN Clear(s0, "ok") ELSE Keep(s0)
           bare    == [s1 EXCEPT !.needClear = FALSE]
           end     == IF says THEN "line" ELSE ""
           s2      == Say(bare, final, end, "ok")
           s3      == IF says THEN [s2 EXCEPT !.canWrite = TRUE] ELSE s2
           s4      == [s3 EXCEPT !.frame = new]
<1>1. /\ screen' = IF new = NoFrame THEN s3 ELSE Draw(s4, running, "ok")
      /\ UNCHANGED <<running, report>> /\ actor' = Idle /\ actor.at = "set" /\ running
  <2> DEFINE t1(io)      == IF clears THEN Clear(s0, io) ELSE Keep(s0)
             t2(io1, io2) == Say([t1(io1) EXCEPT !.needClear = FALSE], final, end, io2)
             t3(io1, io2) == IF says THEN [t2(io1, io2) EXCEPT !.canWrite = TRUE]
                                     ELSE t2(io1, io2)
             t4(io1, io2) == [t3(io1, io2) EXCEPT !.frame = new]
  <2>1. PICK io1 \in Outcomes, io2 \in Outcomes, io3 \in Outcomes :
          IF clears /\ ClearFails(s0, io1)
            THEN screen' = t1(io1) /\ running' = FALSE
          ELSE IF says /\ io2 # "ok"
            THEN screen' = t2(io1, io2) /\ running' = FALSE
          ELSE IF new = NoFrame
            THEN screen' = t3(io1, io2) /\ UNCHANGED running
          ELSE IF DrawFails(t4(io1, io2), running, io3)
            THEN screen' = Forget(Draw(t4(io1, io2), running, io3)) /\ running' = FALSE
          ELSE screen' = Draw(t4(io1, io2), running, io3) /\ UNCHANGED running
    BY Zenon DEF SetCommit
  <2>2. io1 = "ok" /\ io2 = "ok" /\ io3 = "ok"
    OBVIOUS
  <2>3. t3(io1, io2) = s3 /\ t4(io1, io2) = s4
    BY <2>2, Zenon
  <2> HIDE DEF clears, says, s0, s3, s4, t1, t2, t3, t4
  <2>4. screen' = (IF new = NoFrame THEN s3 ELSE Draw(s4, running, "ok"))
        /\ UNCHANGED running
    BY <2>1, <2>2, <2>3 DEF ClearFails, DrawFails
  <2> QED BY <2>4 DEF SetCommit, CalmInv
<1>2. /\ final \in Texts
      /\ new # NoFrame => new \in Texts
      /\ actor.f # NoFrame => actor.f \in Texts
      /\ end \in Messages
  BY FetchedTexts
  DEF OutgoingFinal, CalmInv, Inv, Safe, Screens, Texts, ActorStates, Messages
<1>3. /\ Safe(s0)
      /\ "live" \in s0.row => s0.needClear
      /\ ~changed => s0 = screen
  <2>1. CASE changed
    BY <1>2, <2>1, FrameSafe DEF CalmInv, Calm, Inv, Safe, Screens
  <2>2. CASE ~changed
    BY <2>2 DEF CalmInv, Calm
  <2> QED BY <2>1, <2>2
<1>4. /\ Safe(s1) /\ "live" \notin s1.row
      /\ ~clears /\ screen.needClear /\ screen.frame # Empty =>
           s1.kept = screen.frame /\ "kept" \in s1.row
  <2>1. CASE clears
    <3> HIDE DEF s0
    <3> QED BY <1>3, <2>1, ClearCalm DEF Calm
  <2>2. CASE ~clears
    BY <2>2, KeepCalm DEF CalmInv
  <2> QED BY <2>1, <2>2
<1>5. ~actor.clear /\ Outgoing # Empty =>
        IF final # Empty THEN final = Outgoing
                         ELSE ~clears /\ screen.needClear /\ Outgoing = screen.frame
  BY <1>1 DEF Outgoing, OutgoingFinal
<1>6. ~actor.clear /\ Outgoing = screen.frame /\ screen.needClear => final = Empty
  BY <1>1 DEF Outgoing, OutgoingFinal
<1> HIDE DEF s1, final, clears, changed
<1>7. /\ Safe(bare) /\ "live" \notin bare.row /\ ~bare.needClear /\ bare.kept = s1.kept
      /\ bare.row = s1.row
  BY <1>4 DEF Safe, Screens
<1> HIDE DEF bare
<1>8. /\ Safe(s2) /\ "live" \notin s2.row /\ ~s2.needClear
      /\ s2.kept = IF final # Empty THEN final ELSE s1.kept
      /\ says => s2.row = {}
      /\ ~says => s2.row = s1.row
  <2>1. says => s2.row = {}
    BY <1>7 DEF Say, Safe, Screens
  <2>2. ~says => s2.row = s1.row
    BY <1>7 DEF Say
  <2> HIDE DEF says, end
  <2> QED BY <1>2, <1>7, <2>1, <2>2, SayCalm
<1> HIDE DEF s2
<1>9. Calm(s3) /\ "live" \notin s3.row /\ ~s3.needClear /\ s3.kept = s2.kept
      /\ s3.row = s2.row
  BY <1>8 DEF Calm, Safe, Screens
<1> HIDE DEF s3
<1>10. new # NoFrame => Calm(s4) /\ s4.kept = s2.kept /\ s4.row = s2.row
  BY <1>2, <1>9, FrameCalm DEF Calm
<1> HIDE DEF s4
<1>11. Calm(screen') /\ screen'.kept = s2.kept
       /\ ("kept" \in screen'.row <=> "kept" \in s2.row)
  <2>1. CASE new = NoFrame
    BY <1>1, <1>9, <2>1
  <2>2. CASE new # NoFrame
    <3>1. running \in BOOLEAN
      BY DEF CalmInv, Inv
    <3>2. /\ Calm(Draw(s4, running, "ok"))
          /\ Draw(s4, running, "ok").kept = s4.kept
          /\ "kept" \in Draw(s4, running, "ok").row <=> "kept" \in s4.row
      BY <1>10, <2>2, <3>1, DrawCalm
    <3> QED BY <1>1, <1>10, <2>2, <3>2
  <2> QED BY <2>1, <2>2
<1>12. Inv'
  BY SetCommitInv DEF CalmInv
<1>13. CalmInv'
  BY <1>1, <1>11, <1>12, IdleState DEF CalmInv
<1>14. ASSUME ~actor.clear, Outgoing # Empty
       PROVE  screen'.kept = Outgoing /\ ("kept" \in screen'.row <=> SharesRow)
  <2>1. SharesRow <=> actor.m = "" /\ Outgoing = screen.frame /\ screen.needClear
    BY <1>1 DEF SharesRow
  <2>2. CASE says
    <3>1. screen'.kept = Outgoing
      BY <1>4, <1>5, <1>8, <1>11, <1>14
    <3>2. "kept" \notin screen'.row
      BY <1>8, <1>11, <2>2
    <3>3. ~SharesRow
      BY <1>6, <1>14, <2>1, <2>2
    <3> QED BY <3>1, <3>2, <3>3
  <2>3. CASE ~says
    BY <1>4, <1>5, <1>8, <1>11, <1>14, <2>1, <2>3
  <2> QED BY <2>2, <2>3
<1> QED BY <1>13, <1>14

\* What a step does to the screen, besides keeping the invariant.
CalmEffect ==
  /\ actor' = actor /\ running' /\ screen' # screen /\ screen'.canWrite
       /\ screen'.frame # Empty
       => "live" \in screen'.row /\ screen'.shown = screen'.frame
  /\ actor.at \in {"stop", "set"} /\ ~actor.clear /\ actor'.at = "idle" /\ Outgoing # Empty
       => screen'.kept = Outgoing /\ ("kept" \in screen'.row <=> SharesRow)
  /\ actor.at = "startSet" /\ actor'.at = "idle" /\ actor.f # Empty /\ screen.canWrite
       => "live" \in screen'.row /\ screen'.shown = actor.f

LEMMA CalmStep ==
  ASSUME Outcomes = {"ok"}, CalmInv, [Next]_vars
  PROVE  CalmInv' /\ CalmEffect
<1> USE IdleState
<1>0. Inv'
  BY NextInv DEF CalmInv
<1>1. ASSUME NEW how \in {"text", "line", "nothing"}, Write(how)
      PROVE  CalmInv' /\ CalmEffect
  <2>1. actor' = actor
    BY <1>1 DEF Write
  <2> QED BY <1>1, <2>1, WriteCalm DEF CalmEffect
<1>2. CASE StartSet
  <2>1. /\ running /\ actor.f \in Texts /\ actor.at = "startSet" /\ screen.frame = Empty
        /\ ActorSets(actor.f) /\ UNCHANGED <<running, report>>
    BY <1>2 DEF StartSet, CalmInv, Inv
  <2>2. /\ CalmInv' /\ actor' = Idle
        /\ actor.f # Empty /\ screen.canWrite =>
             "live" \in screen'.row /\ screen'.shown = actor.f
    BY <2>1, ActorSetsCalm
  <2> QED BY <2>1, <2>2 DEF CalmEffect
<1>3. ASSUME NEW f \in Frames \cup {Empty}, TickDraw(f) PROVE CalmInv' /\ CalmEffect
  <2>1. running /\ actor.at = "idle" /\ ActorSets(f) /\ UNCHANGED <<running, report>>
    BY <1>3 DEF TickDraw
  <2>2. /\ CalmInv' /\ screen' = SetScreen(screen, f, "ok", "ok")
        /\ f # screen.frame /\ f # Empty /\ screen.canWrite
             => "live" \in screen'.row /\ screen'.shown = f
    BY <2>1, ActorSetsCalm DEF Texts
  <2>3. /\ screen'.frame = f /\ screen'.canWrite = screen.canWrite
        /\ f = screen.frame => screen' = screen
    <3>1. f \in Texts /\ Calm(screen) /\ running \in BOOLEAN
      BY DEF CalmInv, Inv, Texts
    <3>2. /\ SetScreen(screen, f, "ok", "ok").frame = f
          /\ SetScreen(screen, f, "ok", "ok").canWrite = screen.canWrite
      BY <3>1, SetScreenCalm
    <3> QED BY <2>2, <3>2 DEF SetScreen
  <2> QED BY <2>1, <2>2, <2>3 DEF CalmEffect
<1>4. CASE StopCommit
  <2>1. actor' = Idle /\ actor.at = "stop"
    BY <1>4 DEF StopCommit
  <2> QED BY <1>4, <2>1, StopCommitCalm DEF CalmEffect
<1>5. ASSUME NEW f \in Fetched, SetCommit(f) PROVE CalmInv' /\ CalmEffect
  <2>1. actor' = Idle /\ actor.at = "set"
    BY <1>5 DEF SetCommit
  <2> QED BY <1>5, <2>1, SetCommitCalm DEF CalmEffect
<1>6. CASE CloseClear
  <2>1. /\ screen' = Clear(screen, "ok") /\ actor.at = "windDown" /\ actor'.at = "exited"
        /\ UNCHANGED <<running, report>>
    BY <1>6 DEF CloseClear
  <2>2. Calm(screen') /\ "live" \notin screen'.row
    BY <2>1, ClearCalm DEF CalmInv, Calm
  <2> QED BY <1>0, <2>1, <2>2 DEF CalmInv, CalmEffect
<1>7. CASE ReportError \/ ReportTimeout \/ SetFailed
  BY <1>7 DEF ReportError, ReportTimeout, SetFailed, CalmInv
<1>8. ASSUME NEW f \in Fetched, StartFetch(f) PROVE CalmInv' /\ CalmEffect
  <2>1. /\ UNCHANGED <<screen, report>> /\ running' /\ screen.frame = Empty
        /\ actor.at = "idle" /\ actor'.at \in {"idle", "startSet"}
    BY <1>8 DEF StartFetch, CalmInv
  <2> QED BY <1>0, <2>1 DEF CalmInv, CalmEffect
<1>9. ASSUME NEW clear \in BOOLEAN, NEW m \in Messages, NEW f \in Fetched,
             StopBegin(clear, m, f) \/ SetBegin(clear, m, f)
      PROVE  CalmInv' /\ CalmEffect
  <2>1. /\ UNCHANGED <<screen, report>> /\ actor.at = "idle" /\ running
        /\ \/ actor'.at = "stop" /\ ~running'
           \/ actor'.at = "set" /\ running'
    <3>1. CASE StopBegin(clear, m, f)
      BY <3>1 DEF StopBegin
    <3>2. CASE SetBegin(clear, m, f)
      BY <3>2 DEF SetBegin
    <3> QED BY <1>9, <3>1, <3>2
  <2> QED BY <1>0, <2>1 DEF CalmInv, CalmEffect
<1>10. CASE CloseBegin
  <2>1. /\ UNCHANGED <<screen, report>> /\ actor.at = "idle" /\ ~running'
        /\ actor'.at = "windDown"
    BY <1>10 DEF CloseBegin
  <2> QED BY <1>0, <2>1 DEF CalmInv, CalmEffect
<1>11. CASE UNCHANGED vars
  BY <1>0, <1>11 DEF vars, CalmInv, CalmEffect
<1> QED BY <1>1, <1>2, <1>3, <1>4, <1>5, <1>6, <1>7, <1>8, <1>9, <1>10, <1>11 DEF Next

-----------------------------------------------------------------------------

LEMMA CalmInvariance ==
  ASSUME Outcomes = {"ok"}
  PROVE  Spec => []CalmInv
<1>1. CalmInv /\ [Next]_vars => CalmInv'
  BY CalmStep
<1> QED BY <1>1, CalmInit, PTL DEF Spec

\* While a frame is up on a running spinner it is the one st.frame tells of.
THEOREM ShownAlways ==
  ASSUME Outcomes = {"ok"}
  PROVE  Spec => []ShownIsFrame
<1>1. CalmInv => ShownIsFrame
  BY DEF CalmInv, Calm, ShownIsFrame
<1> QED BY <1>1, CalmInvariance, PTL

\* A stopped or closed spinner leaves no live frame behind, also when a Write
\* ran between the stop and its locked section.
THEOREM NothingLeft ==
  ASSUME Outcomes = {"ok"}
  PROVE  Spec => []StoppedLeavesNothing
<1>1. CalmInv => StoppedLeavesNothing
  BY DEF CalmInv, StoppedLeavesNothing
<1> QED BY <1>1, CalmInvariance, PTL

\* A Write, and a tick, put the frame back whenever the line is free.
THEOREM WritesDrawBack ==
  ASSUME Outcomes = {"ok"}
  PROVE  Spec => WriteDrawsBack
<1>1. CalmInv /\ [Next]_vars =>
        [actor' = actor /\ running' /\ screen' # screen /\ screen'.canWrite
         /\ screen'.frame # Empty
         => "live" \in screen'.row /\ screen'.shown = screen'.frame]_vars
  BY CalmStep DEF CalmEffect
<1> QED BY <1>1, CalmInvariance, PTL DEF Spec, WriteDrawsBack

\* A NoClear call leaves its outgoing frame on the screen, even when a Write
\* had taken it off; the row of the cursor is shared with it, and the next clear
\* takes it too, in the cases of SharesRow and in no other.
THEOREM NoClearsKeep ==
  ASSUME Outcomes = {"ok"}
  PROVE  Spec => NoClearKeeps
<1>1. CalmInv /\ [Next]_vars =>
        [/\ actor.at \in {"stop", "set"} /\ ~actor.clear /\ actor'.at = "idle"
         /\ Outgoing # Empty
         => screen'.kept = Outgoing /\ ("kept" \in screen'.row <=> SharesRow)]_vars
  BY CalmStep DEF CalmEffect
<1> QED BY <1>1, CalmInvariance, PTL DEF Spec, NoClearKeeps

\* A Start draws its first frame before it returns, when the line is free.
THEOREM StartsDraw ==
  ASSUME Outcomes = {"ok"}
  PROVE  Spec => StartDraws
<1>1. CalmInv /\ [Next]_vars =>
        [actor.at = "startSet" /\ actor'.at = "idle" /\ actor.f # Empty /\ screen.canWrite
           => "live" \in screen'.row /\ screen'.shown = actor.f]_vars
  BY CalmStep DEF CalmEffect
<1> QED BY <1>1, CalmInvariance, PTL DEF Spec, StartDraws
=============================================================================
