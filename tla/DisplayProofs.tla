--------------------------- MODULE DisplayProofs ---------------------------
(***************************************************************************)
(* The spinner never erases and never draws over the program's own output, *)
(* for any set of frames, any operations and any failures of the wrapped   *)
(* io.Writer.                                                              *)
(*                                                                         *)
(* The invariant: a frame is only up on a row that was free when it was    *)
(* drawn (needClear => canWrite), and a row that is free holds no data     *)
(* (canWrite => no data).  Each operation on the screen keeps it.          *)
(***************************************************************************)
EXTENDS Display, TLAPS

Safe(s) ==
  /\ s \in Screens
  /\ s.needClear => s.canWrite
  /\ s.canWrite => "data" \notin s.row
  /\ "data" \notin s.erased /\ "data" \notin s.over

Inv ==
  /\ running \in BOOLEAN /\ report \in BOOLEAN /\ actor \in ActorStates
  /\ actor.at = "startSet" => actor.f \in Texts
  /\ Safe(screen)

-----------------------------------------------------------------------------
(* The operations on the screen. *)

\* ClearLine only erases a row that holds no data.
LEMMA ClearSafe ==
  ASSUME NEW s, Safe(s), NEW io
  PROVE  Safe(Clear(s, io)) /\ ~Clear(s, io).needClear
BY DEF Safe, Clear, Screens, Texts, Kinds

\* A frame is only drawn over a row that holds no data.
LEMMA DrawSafe ==
  ASSUME NEW s, Safe(s), NEW on \in BOOLEAN, NEW io
  PROVE  Safe(Draw(s, on, io))
BY DEF Safe, Draw, MayDraw, Screens, Texts, Kinds

\* The data of a Write goes to a row without a frame to clear, and leaves the
\* row free only when it left it empty.
LEMMA DataWriteSafe ==
  ASSUME NEW s, Safe(s), ~s.needClear, NEW how \in {"text", "line", "nothing"}
  PROVE  Safe(Data(s, how))
BY DEF Safe, Data, Screens, Texts, Kinds

\* Freezing a frame only relabels it.
LEMMA KeepSafe ==
  ASSUME NEW s, Safe(s)
  PROVE  Safe(Keep(s))
BY DEF Safe, Keep, Screens, Texts, Kinds

\* A final frame and a message erase nothing and add no data.
LEMMA SaySafe ==
  ASSUME NEW s, Safe(s), NEW f \in Texts, NEW m \in Messages, NEW io
  PROVE  Safe(Say(s, f, m, io))
BY DEF Safe, Say, Screens, Texts, Kinds

\* The frame that is remembered plays no part in what the row holds.
LEMMA FrameSafe ==
  ASSUME NEW s, Safe(s), NEW f \in Texts
  PROVE  Safe([s EXCEPT !.frame = f])
BY DEF Safe, Screens

LEMMA SetScreenSafe ==
  ASSUME NEW s, Safe(s), NEW f \in Texts, NEW io1, NEW io2, running \in BOOLEAN
  PROVE  Safe(SetScreen(s, f, io1, io2))
<1> DEFINE cleared == Clear(s, io1)
           shown   == [cleared EXCEPT !.frame = f]
           drawn   == Draw(shown, running, io2)
<1>1. Safe(cleared)
  BY ClearSafe
<1>2. Safe(drawn)
  <2>1. Safe(shown)
    BY <1>1, FrameSafe
  <2> QED BY <2>1, DrawSafe
<1>3. Safe([drawn EXCEPT !.frame = Empty])
  <2>1. Empty \in Texts
    BY DEF Texts
  <2> QED BY <1>2, <2>1, FrameSafe
<1> QED BY <1>1, <1>2, <1>3 DEF SetScreen, Forget

-----------------------------------------------------------------------------
(* The steps. *)

LEMMA IdleState ==
  /\ Idle \in ActorStates /\ Idle.at = "idle"
  /\ \A a \in {"failed", "windDown", "exited"} :
       /\ [Idle EXCEPT !.at = a] \in ActorStates
       /\ [Idle EXCEPT !.at = a].at = a
  /\ \A f \in Fetched :
       /\ [Idle EXCEPT !.at = "startSet", !.f = f] \in ActorStates
       /\ [Idle EXCEPT !.at = "startSet", !.f = f].f = f
BY DEF Idle, ActorStates, Messages, Fetched

LEMMA InitInv == Init => Inv
<1> SUFFICES ASSUME Init PROVE Inv
  OBVIOUS
<1>1. BlankScreen \in Screens
  BY DEF BlankScreen, Screens, Texts
<1>2. Safe(screen)
  BY <1>1 DEF Init, Safe, BlankScreen
<1> QED BY <1>2, IdleState DEF Init, Inv

LEMMA FetchedTexts == \A f \in Fetched : f # NoFrame => f \in Texts
BY DEF Fetched, Texts

LEMMA WriteInv ==
  ASSUME Inv, NEW how \in {"text", "line", "nothing"}, Write(how)
  PROVE  Inv'
<1>1. PICK io1 \in Outcomes, io2 \in Outcomes :
        /\ screen' = Draw(Data(Clear(screen, io1), how), running, io2)
        /\ report' = (report \/ ClearFails(screen, io1)
                     \/ DrawFails(Data(Clear(screen, io1), how), running, io2))
  BY DEF Write
<1>2. Safe(Clear(screen, io1)) /\ ~Clear(screen, io1).needClear
  BY ClearSafe DEF Inv
<1>3. Safe(Data(Clear(screen, io1), how))
  BY <1>2, DataWriteSafe
<1>4. Safe(screen')
  BY <1>1, <1>3, DrawSafe DEF Inv
<1>5. report' \in BOOLEAN
  BY <1>1
<1> QED BY <1>4, <1>5 DEF Write, Inv

\* Start and the ticks go through set.
LEMMA ActorSetsInv ==
  ASSUME Inv, NEW f \in Texts, ActorSets(f), UNCHANGED <<running, report>>
  PROVE  Inv'
<1>1. PICK io1 \in Outcomes, io2 \in Outcomes :
        screen' = SetScreen(screen, f, io1, io2)
  BY DEF ActorSets
<1>2. Safe(screen')
  BY <1>1, SetScreenSafe DEF Inv
<1>3. actor' \in ActorStates /\ actor'.at # "startSet"
  BY IdleState DEF ActorSets
<1> QED BY <1>2, <1>3 DEF Inv

LEMMA StopCommitInv ==
  ASSUME Inv, StopCommit
  PROVE  Inv'
<1> DEFINE changed == actor.f \in Frames /\ actor.f # screen.frame
           clears  == actor.clear \/ changed
           final   == IF changed THEN actor.f
                      ELSE IF clears \/ screen.needClear THEN Empty
                      ELSE screen.frame
           ready(io) == IF clears THEN Clear(screen, io) ELSE Keep(screen)
<1>1. PICK io1 \in Outcomes, io2 \in Outcomes :
        screen' = [Say(ready(io1), final, actor.m, io2) EXCEPT !.frame = Empty]
  BY DEF StopCommit, Forget
<1>2. final \in Texts /\ Empty \in Texts /\ actor.m \in Messages
  BY DEF Inv, Safe, Screens, Texts, ActorStates
<1>3. Safe(ready(io1))
  BY ClearSafe, KeepSafe DEF Inv
<1> HIDE DEF ready, final
<1>4. Safe(Say(ready(io1), final, actor.m, io2))
  BY <1>2, <1>3, SaySafe
<1>5. Safe(screen')
  BY <1>1, <1>2, <1>4, FrameSafe
<1> QED BY <1>5, IdleState DEF StopCommit, Inv

LEMMA SetCommitInv ==
  ASSUME Inv, NEW new \in Fetched, SetCommit(new)
  PROVE  Inv'
<1> DEFINE changed == ~actor.clear /\ actor.f # NoFrame /\ actor.f # screen.frame
           clears  == actor.clear \/ changed
           s0      == IF changed THEN [screen EXCEPT !.frame = actor.f] ELSE screen
           final   == OutgoingFinal(screen)
           says    == final # Empty \/ actor.m # ""
           s1(io)  == IF clears THEN Clear(s0, io) ELSE Keep(s0)
           s2(io1, io2) == Say([s1(io1) EXCEPT !.needClear = FALSE], final,
                               IF says THEN "line" ELSE "", io2)
           s3(io1, io2) == IF says THEN [s2(io1, io2) EXCEPT !.canWrite = TRUE]
                                   ELSE s2(io1, io2)
           s4(io1, io2) == [s3(io1, io2) EXCEPT !.frame = new]
<1>0. PICK io1 \in Outcomes, io2 \in Outcomes, io3 \in Outcomes :
        IF clears /\ ClearFails(s0, io1)
          THEN screen' = s1(io1) /\ running' = FALSE
        ELSE IF says /\ io2 # "ok"
          THEN screen' = s2(io1, io2) /\ running' = FALSE
        ELSE IF new = NoFrame
          THEN screen' = s3(io1, io2) /\ UNCHANGED running
        ELSE IF DrawFails(s4(io1, io2), running, io3)
          THEN /\ screen' = [Draw(s4(io1, io2), running, io3) EXCEPT !.frame = Empty]
               /\ running' = FALSE
        ELSE screen' = Draw(s4(io1, io2), running, io3) /\ UNCHANGED running
  BY Zenon DEF SetCommit, Forget
<1> HIDE DEF s0, s1, s2, s3, s4, says, clears
<1>1.   \/ screen' = s1(io1) /\ running' = FALSE
        \/ says /\ io2 # "ok" /\ screen' = s2(io1, io2) /\ running' = FALSE
        \/ (says => io2 = "ok") /\ screen' = s3(io1, io2) /\ running' = running
        \/ /\ (says => io2 = "ok") /\ new # NoFrame /\ running' \in BOOLEAN
           /\ screen' \in {[Draw(s4(io1, io2), running, io3) EXCEPT !.frame = Empty],
                            Draw(s4(io1, io2), running, io3)}
  BY <1>0 DEF Inv
<1> USE DEF s0, s1, s2, s3, s4, says, clears
<1>2. Safe(s0)
  BY FrameSafe, FetchedTexts DEF Inv, ActorStates
<1>3. Safe(s1(io1))
  BY <1>2, ClearSafe, KeepSafe
<1>4. Safe([s1(io1) EXCEPT !.needClear = FALSE])
  <2> HIDE DEF s1
  <2> QED BY <1>3 DEF Safe, Screens
<1>5. final \in Texts
  BY FetchedTexts DEF OutgoingFinal, Inv, Safe, Screens, Texts, ActorStates
<1>6. Safe(s2(io1, io2))
  <2> HIDE DEF s1, final
  <2>1. (IF says THEN "line" ELSE "") \in Messages
    BY DEF Messages
  <2> QED BY <2>1, <1>4, <1>5, SaySafe
<1>7. (says => io2 = "ok") => Safe(s3(io1, io2))
  <2> HIDE DEF s1, final
  <2>1. CASE ~says
    BY <2>1, <1>6
  <2>2. CASE says /\ io2 = "ok"    \* the newline was written: the row is empty
    <3>1. s2(io1, io2).row = {}
      BY <2>2, <1>4 DEF Say, Safe, Screens
    <3> HIDE DEF s2
    <3> QED BY <2>2, <3>1, <1>6 DEF Safe, Screens
  <2> QED BY <2>1, <2>2
<1>8. (says => io2 = "ok") /\ new # NoFrame =>
        /\ Safe(Draw(s4(io1, io2), running, io3))
        /\ Safe([Draw(s4(io1, io2), running, io3) EXCEPT !.frame = Empty])
  <2> HIDE DEF s3
  <2> SUFFICES ASSUME says => io2 = "ok", new # NoFrame
               PROVE  /\ Safe(Draw(s4(io1, io2), running, io3))
                      /\ Safe([Draw(s4(io1, io2), running, io3) EXCEPT !.frame = Empty])
    OBVIOUS
  <2>1. Safe(s4(io1, io2))
    BY <1>7, FrameSafe, FetchedTexts
  <2> HIDE DEF s4
  <2>2. Safe(Draw(s4(io1, io2), running, io3))
    BY <2>1, DrawSafe DEF Inv
  <2>3. Empty \in Texts
    BY DEF Texts
  <2> QED BY <2>2, <2>3, FrameSafe
<1> HIDE DEF s1, s2, s3, s4, says
<1>9. Safe(screen') /\ running' \in BOOLEAN
  BY <1>1, <1>3, <1>6, <1>7, <1>8 DEF Inv
<1> QED BY <1>9, IdleState DEF SetCommit, Inv

-----------------------------------------------------------------------------

LEMMA NextInv == Inv /\ [Next]_vars => Inv'
<1> SUFFICES ASSUME Inv, [Next]_vars PROVE Inv'
  OBVIOUS
<1> USE IdleState
<1>1. ASSUME NEW how \in {"text", "line", "nothing"}, Write(how) PROVE Inv'
  BY <1>1, WriteInv
<1>2. CASE ReportError
  BY <1>2 DEF ReportError, Inv
<1>3. CASE ReportTimeout
  BY <1>3 DEF ReportTimeout, Inv
<1>4. ASSUME NEW f \in Fetched, StartFetch(f) PROVE Inv'
  BY <1>4, FetchedTexts DEF StartFetch, Inv
<1>5. CASE StartSet
  BY <1>5, ActorSetsInv DEF StartSet, Inv
<1>6. CASE SetFailed
  BY <1>6 DEF SetFailed, Inv
<1>7. ASSUME NEW f \in Frames \cup {Empty}, TickDraw(f) PROVE Inv'
  BY <1>7, ActorSetsInv DEF TickDraw, Texts
<1>8. ASSUME NEW clear \in BOOLEAN, NEW m \in Messages, NEW f \in Fetched,
             StopBegin(clear, m, f) \/ SetBegin(clear, m, f)
      PROVE Inv'
  <2> DEFINE handling(a) == [at |-> a, clear |-> clear, m |-> m, f |-> f]
  <2>1. actor' = handling("stop") \/ actor' = handling("set")
    BY <1>8 DEF StopBegin, SetBegin
  <2>2. \A a \in {"stop", "set"} :
          handling(a) \in ActorStates /\ handling(a).at # "startSet"
    BY DEF ActorStates
  <2> HIDE DEF handling
  <2>3. actor' \in ActorStates /\ actor'.at # "startSet"
    BY <2>1, <2>2
  <2> QED BY <1>8, <2>3 DEF StopBegin, SetBegin, Inv
<1>9. CASE StopCommit
  BY <1>9, StopCommitInv
<1>10. ASSUME NEW f \in Fetched, SetCommit(f) PROVE Inv'
  BY <1>10, SetCommitInv
<1>11. CASE CloseBegin
  BY <1>11 DEF CloseBegin, Inv
<1>12. CASE CloseClear
  <2>1. PICK io \in Outcomes : screen' = Clear(screen, io)
    BY <1>12 DEF CloseClear
  <2>2. Safe(screen')
    BY <2>1, ClearSafe DEF Inv
  <2> QED BY <1>12, <2>2 DEF CloseClear, Inv
<1>13. CASE UNCHANGED vars
  BY <1>13 DEF vars, Inv
<1> QED BY <1>1, <1>2, <1>3, <1>4, <1>5, <1>6, <1>7, <1>8, <1>9, <1>10, <1>11,
           <1>12, <1>13 DEF Next

\* The invariant holds in every reachable state.
THEOREM Invariance == Spec => []Inv
BY InitInv, NextInv, PTL DEF Spec

\* Every reachable state has the types of TypeOK.
THEOREM TypeCorrect == Spec => []TypeOK
<1>1. Inv => TypeOK
  BY DEF Inv, Safe, TypeOK
<1> QED BY <1>1, Invariance, PTL

\* No byte of the program's output is ever erased by a ClearLine or drawn over
\* by a frame: for all frames, all orders of Write against the steps of the
\* actor, and all failures of the wrapped io.Writer.
THEOREM OutputIsSafe == Spec => []DataSafe
<1>1. Inv => DataSafe
  BY DEF Inv, Safe, DataSafe
<1> QED BY <1>1, Invariance, PTL
=============================================================================
