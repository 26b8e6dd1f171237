---------------------------- MODULE ActorProofs ----------------------------
(***************************************************************************)
(* What holds of the actor for any number of clients, fetch goroutines,    *)
(* FrameFuncs, Starts and SetFrames.  The types come first; then the       *)
(* invariant of the tick's goroutine (FetchInv), which needs no fact about *)
(* the callers, and the invariant of the runs (RunInv).                    *)
(***************************************************************************)
EXTENDS Swaps, TLAPS

USE BoundsAssumption, CallersAssumption, FuncsAssumption, UsedAssumption

-----------------------------------------------------------------------------
(* Types. *)

\* The sets that the values of the variables are made of.
LEMMA RunType ==
  ASSUME TypeOK, StopRun \/ KeepRun
  PROVE  /\ running' \in BOOLEAN /\ stopped' \subseteq Starts
         /\ notifyStopped' \in 0 .. MaxStarts
<1>1. notifyStopped \in Starts \cup {0} /\ stopped \subseteq Starts
  BY DEF TypeOK, Starts
<1>2. StopRun => stopped' \subseteq Starts
  BY <1>1 DEF StopRun
<1>3. CASE StopRun
  <2>1. running' = FALSE /\ notifyStopped' = 0
    BY <1>3 DEF StopRun
  <2>2. 0 \in 0 .. MaxStarts
    OBVIOUS
  <2> QED BY <1>2, <1>3, <2>1, <2>2
<1>4. CASE KeepRun
  BY <1>4 DEF KeepRun, TypeOK
<1> QED BY <1>3, <1>4

LEMMA AnswerType ==
  ASSUME TypeOK, NEW r \in {"nil", "error", "already"}, Answer(r)
  PROVE  /\ actor' = "select" /\ msg' = NoMsg /\ msg' \in Messages
         /\ reply' \in [Callers -> {"none", "nil", "error", "already"}]
BY DEF TypeOK, Answer, NoMsg, Messages

LEMMA SetType ==
  ASSUME TypeOK, NEW f \in Funcs \cup {NoFunc}, NEW outcome, Set(f, outcome)
  PROVE  frame' \in Funcs \cup {NoFunc}
<1>1. outcome \in {"ok", "clearFailed", "drawFailed"}
  BY DEF Set
<1>2. CASE outcome = "ok"
  BY <1>2 DEF Set
<1>3. CASE outcome = "clearFailed"
  BY <1>3 DEF Set, TypeOK
<1>4. CASE outcome = "drawFailed"
  BY <1>4 DEF Set
<1> QED BY <1>1, <1>2, <1>3, <1>4

LEMMA CallsType ==
  /\ Idle \in Calls
  /\ [Idle EXCEPT !.at = "sending", !.op = "stop"] \in Calls
  /\ \A k \in Calls : \A a \in {"sending", "waiting", "closing", "watching"} :
       [k EXCEPT !.at = a] \in Calls /\ [k EXCEPT !.at = a, !.fn = NoFunc] \in Calls
<1>1. Idle \in Calls
  BY DEF Idle, Calls
<1>2. "stop" \in Ops
  BY DEF Ops, StopOps
<1>3. [Idle EXCEPT !.at = "sending", !.op = "stop"] \in Calls
  BY <1>1, <1>2 DEF Calls
<1>4. ASSUME NEW k \in Calls, NEW a \in {"sending", "waiting", "closing", "watching"}
      PROVE  [k EXCEPT !.at = a] \in Calls /\ [k EXCEPT !.at = a, !.fn = NoFunc] \in Calls
  BY <1>4 DEF Calls
<1> QED BY <1>1, <1>3, <1>4

\* A SetFrame that has begun to fetch has a FrameFunc to install, and a message
\* that is being sent is one the actor knows.
TypeInv ==
  /\ TypeOK
  /\ actor \in {"setFetchOld", "setFetchNew"} => msg.fn \in Funcs
  /\ \A p \in Callers : call[p].at = "sending" => call[p].op \in Ops

LEMMA TypeInit == Init => TypeInv
<1> SUFFICES ASSUME Init PROVE TypeInv
  OBVIOUS
<1>1. NoMsg \in Messages /\ NoFetch \in Fetches
  BY DEF NoMsg, Messages, NoFetch, Fetches
<1>2. /\ call \in [Callers -> Calls] /\ \A p \in Callers : call[p] = Idle
      /\ reply \in [Callers -> {"none", "nil", "error", "already"}]
      /\ fetch \in [Fetchers -> Fetches]
  BY <1>1, CallsType DEF Init
<1>3. starts \in 0 .. MaxStarts /\ notifyStopped \in 0 .. MaxStarts
  BY DEF Init
<1>4. /\ running \in BOOLEAN /\ inFlight \in BOOLEAN /\ errOpen \in BOOLEAN
      /\ ctxDone \in BOOLEAN
  BY DEF Init
<1>5. /\ revision \in Nat /\ wg \in Int /\ sets \in Nat
      /\ getFrame \in Funcs /\ frame \in Funcs \cup {NoFunc} /\ ticker \in {"live", "off"}
      /\ stopped \subseteq Starts /\ cancelled \subseteq Starts
      /\ reports \subseteq 0 .. MaxStarts
      /\ actor \in Handling \cup {"select", "windDown", "exited"}
  BY DEF Init
<1>6. TypeOK
  BY <1>1, <1>2, <1>3, <1>4, <1>5 DEF Init, TypeOK
<1> QED BY <1>2, <1>6 DEF Init, TypeInv, Idle

LEMMA TypeHandler == TypeInv /\ Handler => TypeInv'
<1> SUFFICES ASSUME TypeInv, Handler PROVE TypeInv'
  OBVIOUS
<1> USE DEF TypeInv
<1>0. call' = call
  BY DEF Handler, Start, Stop, SetFun, StartRefused, StartWaited, StartFetched, StartSet,
         StopIdle, StopBegin, StopWaited, StopFetched, StopCommit, SetNil, SetStoppedRun,
         SetWaited, SetFetchedOld, SetFetchedNew, SetTicker, WindDownEnds
<1> USE <1>0
<1>1. CASE StartRefused \/ StopIdle \/ SetNil
  BY <1>1, AnswerType DEF StartRefused, StopIdle, SetNil, TypeOK, actorVars, actorRest
<1>2. CASE StartWaited \/ StopWaited \/ StopFetched \/ SetWaited \/ SetFetchedOld
  BY <1>2 DEF StartWaited, StopWaited, StopFetched, SetWaited, SetFetchedOld, TypeOK,
              Messages, actorVars, actorRest, Handling
<1>3. CASE StartFetched
  BY <1>3, AnswerType DEF StartFetched, TypeOK, Messages, actorRest, Handling
<1>4. CASE StartSet
  <2>1. PICK outcome \in {"ok", "clearFailed", "drawFailed"} :
          /\ Set(getFrame, outcome)
          /\ IF outcome = "ok" THEN KeepRun /\ Answer("nil") ELSE StopRun /\ Answer("error")
    BY <1>4 DEF StartSet
  <2>2. frame' \in Funcs \cup {NoFunc}
    BY <2>1, SetType DEF TypeOK
  <2>3. /\ running' \in BOOLEAN /\ stopped' \subseteq Starts
        /\ notifyStopped' \in 0 .. MaxStarts
    BY <2>1, RunType
  <2>4. /\ actor' = "select" /\ msg' \in Messages
        /\ reply' \in [Callers -> {"none", "nil", "error", "already"}]
    BY <2>1, AnswerType
  <2> QED BY <1>4, <2>2, <2>3, <2>4 DEF StartSet, TypeOK, actorRest
<1>5. CASE StopBegin
  <2>1. /\ running' \in BOOLEAN /\ stopped' \subseteq Starts
        /\ notifyStopped' \in 0 .. MaxStarts
    BY <1>5, RunType DEF StopBegin
  <2> QED BY <1>5, <2>1 DEF StopBegin, TypeOK, actorRest, Handling
<1>6. CASE StopCommit
  BY <1>6, AnswerType DEF StopCommit, TypeOK, actorRest
<1>7. CASE SetStoppedRun
  BY <1>7, AnswerType DEF SetStoppedRun, Install, TypeOK, Messages, actorRest
<1>8. CASE SetFetchedNew
  <2>1. /\ running' \in BOOLEAN /\ stopped' \subseteq Starts
        /\ notifyStopped' \in 0 .. MaxStarts
    BY <1>8, RunType DEF SetFetchedNew
  <2>2. /\ actor' = "select" /\ msg' \in Messages
        /\ reply' \in [Callers -> {"none", "nil", "error", "already"}]
    BY <1>8, AnswerType DEF SetFetchedNew
  <2>3. getFrame' \in Funcs /\ revision' \in Nat /\ frame' \in Funcs \cup {NoFunc}
    BY <1>8 DEF SetFetchedNew, Install, TypeOK
  <2> QED BY <1>8, <2>1, <2>2, <2>3 DEF SetFetchedNew, TypeOK, actorRest
<1>9. CASE SetTicker
  BY <1>9, AnswerType DEF SetTicker, TypeOK, actorRest
<1>10. CASE WindDownEnds
  BY <1>10 DEF WindDownEnds, TypeOK
<1> QED BY <1>1, <1>2, <1>3, <1>4, <1>5, <1>6, <1>7, <1>8, <1>9, <1>10
  DEF Handler, Start, Stop, SetFun

LEMMA TypeStep == TypeInv /\ [Next]_vars => TypeInv'
<1> SUFFICES ASSUME TypeInv, [Next]_vars PROVE TypeInv'
  OBVIOUS
<1> USE DEF TypeInv
<1>1. CASE Handler
  BY <1>1, TypeHandler
<1>2. CASE TickerClosed \/ WindDown
  <2>1. /\ running' \in BOOLEAN /\ stopped' \subseteq Starts
        /\ notifyStopped' \in 0 .. MaxStarts
    BY <1>2, RunType DEF TickerClosed, WindDown, KeepRun
  <2> QED BY <1>2, <2>1 DEF TickerClosed, WindDown, TypeOK, actorRest
<1>3. CASE WriteFails \/ ParentDone
  BY <1>3 DEF WriteFails, ParentDone, TypeOK, actorVars
<1>4. ASSUME NEW c \in Clients, NEW op \in Used, NEW f \in Funcs \cup {NoFunc},
             Invoke(c, op, f)
      PROVE  TypeInv'
  <2>1. starts' \in 0 .. MaxStarts /\ sets' \in Nat
    BY <1>4 DEF Invoke, TypeOK
  <2>2. [at |-> "sending", op |-> op, fn |-> f,
         run |-> IF op = "start" THEN starts + 1 ELSE 0] \in Calls
    BY <1>4 DEF Invoke, TypeOK, Calls
  <2>3. call' \in [Callers -> Calls]
    BY <1>4, <2>2 DEF Invoke, TypeOK, Callers
  <2> QED BY <1>4, <2>1, <2>3 DEF Invoke, TypeOK, actorVars
<1>5. ASSUME NEW c \in Clients, Close(c) \/ CloseReturn(c) PROVE TypeInv'
  <2>1. call[c] \in Calls
    BY DEF TypeOK, Callers
  <2>2. call' \in [Callers -> Calls]
    BY <1>5, <2>1, CallsType DEF Close, CloseReturn, TypeOK
  <2>3. \A q \in Callers : call'[q].at = "sending" => call'[q] = call[q]
    BY <1>5, <2>1 DEF Close, CloseReturn, TypeOK, Idle, Calls
  <2> QED BY <1>5, <2>2, <2>3 DEF Close, CloseReturn, TypeOK, actorVars
<1>6. ASSUME NEW p \in Callers, Receive(p) PROVE TypeInv'
  <2>1. call[p] \in Calls
    BY DEF TypeOK
  <2>2. call' \in [Callers -> Calls]
    BY <1>6, <2>1, CallsType DEF Receive, TypeOK
  <2>3. msg' \in Messages
    BY <1>6, <2>1 DEF Receive, Calls, Messages
  <2>4. actor' \in Handling /\ actor' \notin {"setFetchOld", "setFetchNew"}
    BY <1>6 DEF Receive, Handling, Ops, StopOps, SetOps
  <2> QED BY <1>6, <2>2, <2>3, <2>4 DEF Receive, TypeOK, actorVars, actorRest
<1>7. ASSUME NEW p \in Callers, Return(p) \/ Abandon(p) PROVE TypeInv'
  <2>1. call[p] \in Calls /\ reply' \in [Callers -> {"none", "nil", "error", "already"}]
    BY <1>7 DEF TypeOK, Return, Abandon
  <2>2. call' \in [Callers -> Calls]
    <3> DEFINE back == [call EXCEPT ![p] = Idle]
    <3>1. back \in [Callers -> Calls]
      BY CallsType DEF TypeOK
    <3>2. \A r \in Callers : [back EXCEPT ![r].at = "watching"] \in [Callers -> Calls]
      BY <3>1, CallsType
    <3>3. call[p].run \notin Callers => [back EXCEPT ![call[p].run].at = "watching"] = back
      BY <3>1
    <3>4. call' \in {back, [back EXCEPT ![call[p].run].at = "watching"]}
      BY <1>7 DEF Return, Abandon
    <3> QED BY <3>1, <3>2, <3>3, <3>4
  <2>4. \A q \in Callers : call'[q].at = "sending" => call'[q] = call[q]
    <3> DEFINE back == [call EXCEPT ![p] = Idle]
    <3>1. back \in [Callers -> Calls] /\ \A q \in Callers : back[q] \in {Idle, call[q]}
      BY CallsType DEF TypeOK
    <3>2. CASE call' = back
      BY <3>1, <3>2 DEF Idle
    <3>3. CASE call' = [back EXCEPT ![call[p].run].at = "watching"]
      <4>1. \A q \in Callers : q # call[p].run => call'[q] = back[q]
        BY <3>1, <3>3
      <4>2. call[p].run \in Callers => call'[call[p].run].at = "watching"
        <5>1. SUFFICES ASSUME call[p].run \in Callers
                       PROVE  [back[call[p].run] EXCEPT !.at = "watching"].at = "watching"
          BY <3>1, <3>3
        <5>2. back[call[p].run] \in Calls
          BY <3>1, <5>1
        <5> QED BY <5>2 DEF Calls
      <4> QED BY <3>1, <4>1, <4>2 DEF Idle
    <3> QED BY <1>7, <3>2, <3>3 DEF Return, Abandon
  <2>3. msg' \in Messages
    BY <1>7 DEF Return, Abandon, TypeOK, Messages
  <2> QED BY <1>7, <2>1, <2>2, <2>3, <2>4 DEF Return, Abandon, TypeOK, actorVars, Messages
<1>8. ASSUME NEW r \in Watchers, Cancel(r) \/ WatcherStops(r) \/ WatcherLeaves(r)
      PROVE  TypeInv'
  <2>1. call' \in [Callers -> Calls]
    BY <1>8, CallsType DEF Cancel, WatcherStops, WatcherLeaves, TypeOK, Callers
  <2>2. \A q \in Callers : call'[q].at = "sending" => call'[q].op \in Ops
    <3>1. CASE WatcherStops(r)
      BY <3>1 DEF WatcherStops, TypeOK, Idle, Ops, StopOps
    <3>2. CASE Cancel(r) \/ WatcherLeaves(r)
      BY <3>2 DEF Cancel, WatcherLeaves, TypeOK, Idle
    <3> QED BY <1>8, <3>1, <3>2
  <2> QED BY <1>8, <2>1, <2>2 DEF Cancel, WatcherStops, WatcherLeaves, TypeOK, actorVars,
                                 Watchers
<1>9. ASSUME NEW g \in Fetchers, Tick(g) \/ FetchReturns(g) \/ FetchDropped(g)
      PROVE  TypeInv'
  <2>1. wg' \in Int
    BY <1>9 DEF Tick, FetchReturns, FetchDropped, TypeOK
  <2>2. /\ NoFetch \in Fetches
        /\ [at |-> "fetching", rev |-> revision, fn |-> getFrame] \in Fetches
        /\ [fetch[g] EXCEPT !.at = "sending"] \in Fetches
    BY DEF TypeOK, Fetches, NoFetch
  <2>3. fetch' \in [Fetchers -> Fetches]
    BY <1>9, <2>2 DEF Tick, FetchReturns, FetchDropped, TypeOK
  <2> QED BY <1>9, <2>1, <2>3 DEF Tick, FetchReturns, FetchDropped, TypeOK, actorVars
<1>10. ASSUME NEW g \in Fetchers, DrawFrame(g) PROVE TypeInv'
  <2>1. NoFetch \in Fetches /\ fetch[g].fn \in Funcs \cup {NoFunc}
    BY DEF NoFetch, Fetches, TypeOK
  <2>2. frame' \in Funcs \cup {NoFunc}
    BY <1>10, <2>1, SetType DEF DrawFrame, TypeOK
  <2>3. /\ running' \in BOOLEAN /\ stopped' \subseteq Starts
        /\ notifyStopped' \in 0 .. MaxStarts
    BY <1>10, RunType DEF DrawFrame
  <2> QED BY <1>10, <2>1, <2>2, <2>3 DEF DrawFrame, TypeOK
<1>11. ASSUME NEW r \in reports, ReportError(r) \/ ReportTimeout(r) PROVE TypeInv'
  <2>1. /\ running' \in BOOLEAN /\ stopped' \subseteq Starts
        /\ notifyStopped' \in 0 .. MaxStarts
    BY <1>11, RunType DEF ReportError, ReportTimeout, KeepRun, actorVars
  <2> QED BY <1>11, <2>1 DEF ReportError, ReportTimeout, TypeOK, actorVars
<1>12. CASE UNCHANGED vars
  BY <1>12 DEF vars, actorVars, TypeOK
<1> QED BY <1>1, <1>2, <1>3, <1>4, <1>5, <1>6, <1>7, <1>8, <1>9, <1>10, <1>11, <1>12
  DEF Next

LEMMA TypeInvariance == Spec => []TypeInv
BY TypeInit, TypeStep, PTL DEF Spec

\* Every reachable state has the types of TypeOK.
THEOREM TypeCorrect == Spec => []TypeOK
<1>1. TypeInv => TypeOK
  BY DEF TypeInv
<1> QED BY <1>1, TypeInvariance, PTL

-----------------------------------------------------------------------------
(* The goroutine of a tick. *)

NoneFetching == \A g \in Fetchers : fetch[g].at # "fetching"

\* At most one goroutine of a tick exists and inFlight tells of it; st.wg counts
\* it while it calls the FrameFunc; the actor only calls a FrameFunc, and only
\* closes Err, when st.wg was zero.
FetchInv ==
  /\ InFlightIsOwed
  /\ wg = IF NoneFetching THEN 0 ELSE 1
  /\ ActorFetching \/ actor = "exited" => NoneFetching
  /\ actor \in {"windDown", "exited"} => ~running
  /\ ~errOpen <=> actor = "exited"

LEMMA FetchInit == Init => FetchInv
<1> SUFFICES ASSUME Init PROVE FetchInv
  OBVIOUS
<1>1. \A g \in Fetchers : fetch[g].at = "idle"
  BY DEF Init, NoFetch
<1> QED BY <1>1 DEF Init, FetchInv, InFlightIsOwed, NoneFetching, ActorFetching

\* Steps that leave the goroutine and the actor's place alone.
LEMMA FetchFrame ==
  ASSUME FetchInv, UNCHANGED <<fetch, wg, inFlight, errOpen>>, ctxDone => ctxDone',
         actor' = actor \/ (actor' \notin {"windDown", "exited"} /\ ~ActorFetching' /\ actor # "exited"),
         running' => running \/ actor' \notin {"windDown", "exited"}
  PROVE  FetchInv'
<1>1. InFlightIsOwed' /\ NoneFetching' = NoneFetching
  BY DEF FetchInv, InFlightIsOwed, NoneFetching
<1> QED BY <1>1 DEF FetchInv, ActorFetching

LEMMA FetchHandler == FetchInv /\ Handler => FetchInv'
<1> SUFFICES ASSUME FetchInv, Handler PROVE FetchInv'
  OBVIOUS
<1>1. CASE StartRefused \/ StartFetched \/ StartSet
  <2>1. /\ UNCHANGED <<fetch, wg, inFlight, errOpen, ctxDone>>
        /\ actor' \in {"select", "startSet"}
    BY <1>1 DEF StartRefused, StartFetched, StartSet, Answer, actorVars, actorRest
  <2>2. actor # "exited"
    BY <1>1 DEF StartRefused, StartFetched, StartSet
  <2> QED BY <2>1, <2>2, FetchFrame DEF ActorFetching
<1>2. CASE StartWaited \/ StopWaited \/ SetWaited
  <2>1. /\ UNCHANGED <<fetch, wg, inFlight, errOpen, ctxDone>> /\ wg = 0
        /\ actor' \in {"startFetch", "stopFetch", "setFetchOld", "setFetchNew"}
        /\ actor # "exited"
    BY <1>2 DEF StartWaited, StopWaited, SetWaited, actorVars, actorRest, StopOps, SetOps
  <2>2. NoneFetching /\ NoneFetching' /\ InFlightIsOwed'
    BY <2>1 DEF FetchInv, NoneFetching, InFlightIsOwed
  <2> QED BY <2>1, <2>2 DEF FetchInv
<1>3. CASE StopIdle \/ StopBegin \/ StopFetched \/ StopCommit
  <2>1. /\ UNCHANGED <<fetch, wg, inFlight, errOpen, ctxDone>>
        /\ actor' \in {"select", "stopWait", "stopCommit"} /\ actor # "exited"
    BY <1>3 DEF StopIdle, StopBegin, StopFetched, StopCommit, Answer, actorVars,
                actorRest, StopOps
  <2> QED BY <2>1, FetchFrame DEF ActorFetching
<1>4. CASE SetNil \/ SetStoppedRun \/ SetFetchedNew \/ SetTicker
  <2>1. /\ UNCHANGED <<fetch, wg, inFlight, errOpen, ctxDone>>
        /\ actor' = "select" /\ actor # "exited"
    BY <1>4 DEF SetNil, SetStoppedRun, SetFetchedNew, SetTicker, Answer, actorVars,
                actorRest, SetOps
  <2> QED BY <2>1, FetchFrame DEF ActorFetching
<1>5. CASE SetFetchedOld
  BY <1>5 DEF SetFetchedOld, FetchInv, ActorFetching, InFlightIsOwed, NoneFetching,
              actorVars, actorRest
<1>6. CASE WindDownEnds
  BY <1>6 DEF WindDownEnds, FetchInv, ActorFetching, InFlightIsOwed, NoneFetching
<1> QED BY <1>1, <1>2, <1>3, <1>4, <1>5, <1>6 DEF Handler, Start, Stop, SetFun

LEMMA FetchStepInv == TypeInv /\ FetchInv /\ [Next]_vars => FetchInv'
<1> SUFFICES ASSUME TypeInv, FetchInv, [Next]_vars PROVE FetchInv'
  OBVIOUS
<1>1. CASE Handler
  BY <1>1, FetchHandler
<1>2. CASE WindDown
  BY <1>2 DEF WindDown, StopRun, FetchInv, ActorFetching, InFlightIsOwed, NoneFetching
<1>3. CASE TickerClosed \/ WriteFails \/ ParentDone \/ UNCHANGED vars
  BY <1>3, FetchFrame DEF TickerClosed, WriteFails, ParentDone, vars, actorVars, actorRest
<1>4. ASSUME NEW c \in Clients,
             \/ \E op \in Used, f \in Funcs \cup {NoFunc} : Invoke(c, op, f)
             \/ Close(c) \/ CloseReturn(c)
      PROVE  FetchInv'
  BY <1>4, FetchFrame DEF Invoke, Close, CloseReturn, actorVars
<1>5. ASSUME NEW p \in Callers, Receive(p) PROVE FetchInv'
  <2>1. call[p].op \in Ops
    BY <1>5 DEF Receive, TypeInv
  <2>2. /\ UNCHANGED <<fetch, wg, inFlight, errOpen, ctxDone>>
        /\ actor = "select" /\ actor' \in Ops
    BY <1>5, <2>1 DEF Receive, actorVars, actorRest
  <2>3. ~ActorFetching' /\ actor' \notin {"windDown", "exited"}
    BY <2>2 DEF ActorFetching, Ops, StopOps, SetOps
  <2> QED BY <2>2, <2>3, FetchFrame
<1>6. ASSUME NEW p \in Callers, Return(p) \/ Abandon(p) PROVE FetchInv'
  BY <1>6, FetchFrame DEF Return, Abandon, actorVars
<1>7. ASSUME NEW r \in Watchers, Cancel(r) \/ WatcherStops(r) \/ WatcherLeaves(r)
      PROVE  FetchInv'
  BY <1>7, FetchFrame DEF Cancel, WatcherStops, WatcherLeaves, actorVars
<1>8. ASSUME NEW g \in Fetchers, Tick(g) PROVE FetchInv'
  BY <1>8 DEF Tick, FetchInv, ActorFetching, InFlightIsOwed, NoneFetching, TypeInv, TypeOK
<1>9. ASSUME NEW g \in Fetchers, FetchReturns(g) PROVE FetchInv'
  <2>1. fetch[g].at = "fetching" /\ fetch' = [fetch EXCEPT ![g].at = "sending"] /\ wg' = wg - 1
        /\ UNCHANGED <<actorVars, ctxDone, actor>>
    BY <1>9 DEF FetchReturns
  <2>2. /\ fetch'[g].at = "sending"
        /\ \A h \in Fetchers \ {g} : fetch'[h] = fetch[h]
    BY <2>1 DEF TypeInv, TypeOK, Fetches
  <2>3. \A h \in Fetchers \ {g} : fetch[h].at = "idle"
    BY <2>1 DEF FetchInv, InFlightIsOwed
  <2>4. NoneFetching' /\ ~NoneFetching /\ InFlightIsOwed'
    BY <2>1, <2>2, <2>3 DEF NoneFetching, InFlightIsOwed, FetchInv, actorVars
  <2> QED BY <2>1, <2>4 DEF FetchInv, ActorFetching, actorVars
<1>10. ASSUME NEW g \in Fetchers, DrawFrame(g) \/ FetchDropped(g) PROVE FetchInv'
  <2>1. /\ fetch[g].at = "sending" /\ fetch' = [fetch EXCEPT ![g] = NoFetch]
        /\ UNCHANGED <<wg, ctxDone, actor, errOpen>>
        /\ running' => running
    BY <1>10 DEF DrawFrame, FetchDropped, KeepRun, StopRun, actorVars
  <2>2. /\ fetch'[g].at = "idle"
        /\ \A h \in Fetchers \ {g} : fetch'[h] = fetch[h] /\ fetch[h].at = "idle"
    BY <2>1 DEF TypeInv, TypeOK, NoFetch, FetchInv, InFlightIsOwed
  <2>3. NoneFetching /\ NoneFetching'
    BY <2>1, <2>2 DEF NoneFetching
  <2>4. InFlightIsOwed'
    BY <1>10, <2>1, <2>2 DEF DrawFrame, FetchDropped, InFlightIsOwed
  <2> QED BY <2>1, <2>3, <2>4 DEF FetchInv
<1>11. ASSUME NEW r \in reports, ReportError(r) \/ ReportTimeout(r) PROVE FetchInv'
  BY <1>11, FetchFrame DEF ReportError, ReportTimeout, StopRun, actorVars
<1> QED BY <1>1, <1>2, <1>3, <1>4, <1>5, <1>6, <1>7, <1>8, <1>9, <1>10, <1>11 DEF Next

LEMMA FetchInvariance == Spec => [](TypeInv /\ FetchInv)
BY TypeInit, TypeStep, FetchInit, FetchStepInv, PTL DEF Spec

\* No two calls of a FrameFunc overlap, whoever makes them.
THEOREM Exclusive == Spec => []FrameFuncExclusive
<1>1. FetchInv => FrameFuncExclusive
  BY DEF FetchInv, FrameFuncExclusive, InFlightIsOwed, NoneFetching
<1> QED BY <1>1, FetchInvariance, PTL

\* The ticker is never blocked by a goroutine that is gone.
THEOREM NeverWedged == Spec => []InFlightIsOwed
<1>1. FetchInv => InFlightIsOwed
  BY DEF FetchInv
<1> QED BY <1>1, FetchInvariance, PTL

\* Nothing runs once Err is closed.
THEOREM Quiet == Spec => []ClosedIsQuiet
<1>1. FetchInv => ClosedIsQuiet
  BY DEF FetchInv, ClosedIsQuiet, NoneFetching, ActorFetching
<1> QED BY <1>1, FetchInvariance, PTL

-----------------------------------------------------------------------------
(* Runs and watchers. *)

\* The runs that have begun: their channel is st.notifyStopped or was closed.
Begun == stopped \cup {notifyStopped}

\* A run is on exactly while its channel is open.
CountInv ==
  /\ running <=> notifyStopped # 0
  /\ notifyStopped \notin stopped
  /\ notifyStopped <= starts /\ \A r \in stopped : r <= starts

\* A call of Start has a channel of its own, whose watcher does not exist yet:
\* it begins no sooner than the message is received, and the reply tells
\* whether it did.
StartInv(p) ==
  /\ p \in Clients /\ call[p].at \in {"sending", "waiting"}
  /\ call[p].run \in 1 .. starts /\ call[call[p].run].at = "idle"
  /\ call[p].at = "sending" => call[p].run \notin Begun
  /\ reply[p] = "nil" => call[p].run \in Begun
  /\ reply[p] = "error" => call[p].run # notifyStopped
  /\ \A q \in Callers \ {p} : call[q].op = "start" => call[q].run # call[p].run

CallInv ==
  \A p \in Callers : /\ reply[p] # "none" => call[p].at = "waiting"
                     /\ call[p].op = "start" => StartInv(p)

WatchInv ==
  \A r \in Watchers : /\ call[r].at = "watching" => r \in Begun
                      /\ r > starts => call[r].at = "idle"

\* The message the actor handles is that of a caller who waits and has no
\* answer, or of one who gave up.
MsgInv ==
  /\ msg.op = "start" <=> actor \in {"start", "startFetch", "startSet"}
  /\ msg.from # NoCaller =>
       /\ call[msg.from].at = "waiting" /\ reply[msg.from] = "none"
       /\ call[msg.from].op = msg.op /\ call[msg.from].run = msg.run
  /\ msg.op = "start" =>
       /\ msg.run \in 1 .. starts
       /\ \A p \in Callers \ {msg.from} : call[p].op = "start" => call[p].run # msg.run
  /\ actor \in {"start", "startFetch"} => msg.run \notin Begun
  /\ actor = "startFetch" => ~running
  /\ actor = "startSet" => msg.run = notifyStopped

RunInv == CountInv /\ CallInv /\ WatchInv /\ MsgInv

LEMMA RunInit == Init => RunInv
<1> SUFFICES ASSUME Init PROVE RunInv
  OBVIOUS
<1>1. \A p \in Callers : call[p].op = "none" /\ call[p].at = "idle" /\ reply[p] = "none"
  BY DEF Init, Idle
<1>2. CountInv /\ CallInv
  BY <1>1 DEF Init, CountInv, CallInv
<1>3. WatchInv
  BY <1>1 DEF WatchInv, Callers
<1>4. MsgInv
  BY DEF Init, MsgInv, NoMsg
<1> QED BY <1>2, <1>3, <1>4 DEF RunInv

\* Ending a run, or not, is seen by every watcher and forgets no run.
LEMMA RunEnds ==
  ASSUME TypeInv, CountInv, starts' = starts, StopRun \/ KeepRun
  PROVE  /\ CountInv' /\ notifyStopped' \in {notifyStopped, 0}
         /\ \A r \in Starts : r \in Begun' <=> r \in Begun
<1>1. notifyStopped \in Starts \cup {0} /\ stopped \subseteq Starts /\ starts \in Nat
      /\ 0 \notin Starts
  BY DEF TypeInv, TypeOK, Starts
<1>2. CASE StopRun
  BY <1>1, <1>2 DEF StopRun, CountInv, Begun
<1>3. CASE KeepRun
  BY <1>3 DEF KeepRun, CountInv, Begun
<1> QED BY <1>2, <1>3

\* Steps of the actor that answer nobody.
LEMMA RunFrame ==
  ASSUME TypeInv, RunInv, UNCHANGED <<call, reply, starts, msg>>, StopRun \/ KeepRun,
         actor' = actor \/ (msg.op # "start" /\ actor' \notin {"start", "startFetch", "startSet"}),
         actor = "startSet" => KeepRun
  PROVE  RunInv'
<1>1. /\ CountInv' /\ notifyStopped' \in {notifyStopped, 0}
      /\ \A r \in Starts : r \in Begun' <=> r \in Begun
  BY RunEnds DEF RunInv
<1>2. 1 .. starts \subseteq Starts /\ 0 \notin Starts
  BY DEF TypeInv, TypeOK, Starts
<1>3. CallInv'
  BY <1>1, <1>2 DEF RunInv, CallInv, StartInv
<1>4. WatchInv'
  BY <1>1 DEF RunInv, WatchInv, Watchers
<1>5. MsgInv'
  BY <1>1, <1>2 DEF RunInv, MsgInv, KeepRun, StopRun
<1> QED BY <1>1, <1>3, <1>4, <1>5 DEF RunInv

\* Steps of the actor that answer the caller.
LEMMA RunAnswer ==
  ASSUME TypeInv, RunInv, UNCHANGED <<call, starts>>, StopRun \/ KeepRun,
         NEW r \in {"nil", "error", "already"}, Answer(r),
         msg.op = "start" => /\ r = "nil" => msg.run \in Begun
                             /\ r = "error" => msg.run # notifyStopped'
  PROVE  RunInv'
<1>1. /\ CountInv' /\ notifyStopped' \in {notifyStopped, 0}
      /\ \A q \in Starts : q \in Begun' <=> q \in Begun
  BY RunEnds DEF RunInv
<1>2. 1 .. starts \subseteq Starts /\ 0 \notin Starts
  BY DEF TypeInv, TypeOK, Starts
<1>3. /\ msg' = NoMsg /\ actor' = "select"
      /\ \A p \in Callers : p # msg.from => reply'[p] = reply[p]
      /\ msg.from \in Callers => reply'[msg.from] = r
      /\ msg.from \in Callers \cup {NoCaller}
  BY DEF Answer, TypeInv, TypeOK, Messages
<1>4. CallInv'
  <2>1. ASSUME NEW p \in Callers PROVE reply'[p] # "none" => call'[p].at = "waiting"
    BY <1>3 DEF RunInv, CallInv, MsgInv
  <2>2. ASSUME NEW p \in Callers, call[p].op = "start" PROVE StartInv(p)'
    <3>1. StartInv(p)
      BY <2>2 DEF RunInv, CallInv
    <3>2. CASE p # msg.from
      BY <1>1, <1>2, <1>3, <3>1, <3>2 DEF StartInv
    <3>3. CASE p = msg.from
      <4>1. msg.op = "start" /\ msg.run = call[p].run
        BY <2>2, <3>3 DEF RunInv, MsgInv
      <4> QED BY <1>1, <1>2, <1>3, <3>1, <3>3, <4>1 DEF StartInv
    <3> QED BY <3>2, <3>3
  <2> QED BY <2>1, <2>2 DEF CallInv
<1>5. WatchInv'
  BY <1>1 DEF RunInv, WatchInv, Watchers
<1>6. MsgInv'
  BY <1>3 DEF MsgInv, NoMsg
<1> QED BY <1>1, <1>4, <1>5, <1>6 DEF RunInv

\* The handler of start begins a run: its number is new to everyone.
LEMMA RunStartFetched == TypeInv /\ RunInv /\ StartFetched => RunInv'
<1> SUFFICES ASSUME TypeInv, RunInv, StartFetched PROVE RunInv'
  OBVIOUS
<1>1. /\ actor = "startFetch" /\ running' = TRUE /\ notifyStopped' = msg.run
      /\ UNCHANGED <<stopped, call, starts>>
      /\ \/ actor' = "startSet" /\ UNCHANGED <<msg, reply>>
         \/ Answer("nil")
  BY DEF StartFetched, actorRest
<1>2. /\ msg.op = "start" /\ msg.run \in 1 .. starts /\ msg.run \notin Begun
      /\ ~running /\ notifyStopped = 0
  BY <1>1 DEF RunInv, MsgInv, CountInv
<1>3. starts \in Nat /\ 1 .. starts \subseteq Starts /\ 0 \notin Starts /\ 0 \notin 1 .. starts
  BY DEF TypeInv, TypeOK, Starts
<1>4. Begun' = stopped \cup {msg.run} /\ \A q \in Starts : q \in Begun => q \in Begun'
  BY <1>1, <1>2, <1>3 DEF Begun
<1>5. CountInv'
  BY <1>1, <1>2, <1>3 DEF RunInv, CountInv, Begun
<1>6. WatchInv'
  BY <1>1, <1>4 DEF RunInv, WatchInv, Watchers
<1>7. ASSUME NEW p \in Callers, call[p].op = "start", p # msg.from, reply'[p] = reply[p]
      PROVE  StartInv(p)'
  <2>1. StartInv(p) /\ call[p].run # msg.run
    BY <1>2, <1>7 DEF RunInv, CallInv, MsgInv
  <2>2. call[p].run \in Begun' <=> call[p].run \in Begun
    BY <1>2, <1>3, <1>4, <2>1 DEF StartInv, Begun
  <2> QED BY <1>1, <1>3, <1>7, <2>1, <2>2 DEF StartInv
<1>8. ASSUME NEW p \in Callers, call[p].op = "start", p = msg.from,
             reply'[p] \in {"none", "nil"}
      PROVE  StartInv(p)'
  <2>1. StartInv(p) /\ call[p].run = msg.run /\ call[p].at = "waiting"
    BY <1>8 DEF RunInv, CallInv, MsgInv, TypeInv, TypeOK, Messages, StartInv
  <2>2. msg.run \in Begun'
    BY <1>4
  <2> QED BY <1>1, <1>8, <2>1, <2>2 DEF StartInv
<1>9. CASE actor' = "startSet" /\ UNCHANGED <<msg, reply>>
  <2>1. CallInv'
    <3>1. ASSUME NEW p \in Callers, p = msg.from PROVE reply[p] = "none"
      BY <3>1, CallersAssumption DEF RunInv, MsgInv
    <3> QED BY <1>1, <1>7, <1>8, <1>9, <3>1 DEF RunInv, CallInv
  <2>2. MsgInv'
    BY <1>1, <1>2, <1>9 DEF RunInv, MsgInv
  <2> QED BY <1>5, <1>6, <2>1, <2>2 DEF RunInv
<1>10. CASE Answer("nil")
  <2>1. /\ msg' = NoMsg /\ actor' = "select"
        /\ \A p \in Callers : p # msg.from => reply'[p] = reply[p]
        /\ msg.from \in Callers => reply'[msg.from] = "nil"
    BY <1>10 DEF Answer, TypeInv, TypeOK, Messages
  <2>2. CallInv'
    <3>1. ASSUME NEW p \in Callers PROVE reply'[p] # "none" => call'[p].at = "waiting"
      BY <1>1, <2>1 DEF RunInv, CallInv, MsgInv
    <3>2. ASSUME NEW p \in Callers, call[p].op = "start" PROVE StartInv(p)'
      <4>1. CASE p = msg.from
        BY <1>8, <2>1, <3>2, <4>1
      <4>2. CASE p # msg.from
        BY <1>7, <2>1, <3>2, <4>2
      <4> QED BY <4>1, <4>2
    <3> QED BY <1>1, <3>1, <3>2 DEF CallInv
  <2>3. MsgInv'
    BY <2>1 DEF MsgInv, NoMsg
  <2> QED BY <1>5, <1>6, <2>2, <2>3 DEF RunInv
<1> QED BY <1>1, <1>9, <1>10

LEMMA RunHandler == TypeInv /\ RunInv /\ Handler => RunInv'
<1> SUFFICES ASSUME TypeInv, RunInv, Handler PROVE RunInv'
  OBVIOUS
<1> USE DEF actorVars, actorRest
<1>0. "start" \notin StopOps \cup SetOps \cup {"stopWait", "stopFetch", "stopCommit",
                         "setFetchOld", "setFetchNew", "setTicker", "windDown"}
  BY DEF StopOps, SetOps
<1>1. msg.op = "start" <=> actor \in {"start", "startFetch", "startSet"}
  BY DEF RunInv, MsgInv
<1>2. CASE StartRefused
  BY <1>2, RunAnswer DEF StartRefused, KeepRun
<1>3. CASE StartWaited
  BY <1>1, <1>3 DEF StartWaited, RunInv, CountInv, CallInv, StartInv, WatchInv, MsgInv, Begun
<1>4. CASE StartFetched
  BY <1>4, RunStartFetched
<1>5. CASE StartSet
  <2>1. PICK outcome \in {"ok", "clearFailed", "drawFailed"} :
          IF outcome = "ok" THEN KeepRun /\ Answer("nil") ELSE StopRun /\ Answer("error")
    BY <1>5 DEF StartSet
  <2>2. msg.run = notifyStopped /\ msg.run # 0 /\ UNCHANGED <<call, starts>>
    BY <1>1, <1>5 DEF StartSet, RunInv, MsgInv
  <2>3. CASE KeepRun /\ Answer("nil")
    BY <2>2, <2>3, RunAnswer DEF Begun
  <2>4. CASE StopRun /\ Answer("error")
    BY <2>2, <2>4, RunAnswer DEF StopRun
  <2> QED BY <2>1, <2>3, <2>4
<1>6. CASE StopIdle
  BY <1>0, <1>1, <1>6, RunAnswer DEF StopIdle, StopOps, KeepRun
<1>7. CASE StopBegin \/ StopWaited \/ StopFetched
  <2>1. /\ UNCHANGED <<call, reply, starts, msg>>
        /\ StopRun \/ KeepRun
        /\ actor \notin {"start", "startFetch", "startSet"}
        /\ actor' \notin {"start", "startFetch", "startSet"}
    BY <1>7 DEF StopBegin, StopWaited, StopFetched, StopOps, KeepRun
  <2> QED BY <1>1, <2>1, RunFrame
<1>8. CASE StopCommit
  <2>1. PICK r \in {"nil", "error"} : Answer(r)
    BY <1>8 DEF StopCommit
  <2> QED BY <1>1, <1>8, <2>1, RunAnswer DEF StopCommit, KeepRun
<1>9. CASE SetNil \/ SetStoppedRun \/ SetTicker
  <2>1. /\ UNCHANGED <<call, starts>> /\ KeepRun
        /\ Answer("nil") \/ Answer("error")
        /\ actor \notin {"start", "startFetch", "startSet"}
    BY <1>9 DEF SetNil, SetStoppedRun, SetTicker, SetOps, KeepRun
  <2> QED BY <1>1, <2>1, RunAnswer
<1>10. CASE SetWaited \/ SetFetchedOld
  <2>1. /\ UNCHANGED <<call, reply, starts, msg>> /\ KeepRun
        /\ actor \notin {"start", "startFetch", "startSet"}
        /\ actor' \notin {"start", "startFetch", "startSet"}
    BY <1>10 DEF SetWaited, SetFetchedOld, SetOps, KeepRun
  <2> QED BY <1>1, <2>1, RunFrame
<1>11. CASE SetFetchedNew
  <2>1. /\ UNCHANGED <<call, starts>> /\ actor = "setFetchNew"
        /\ StopRun \/ KeepRun
        /\ Answer("nil") \/ Answer("error")
    BY <1>11 DEF SetFetchedNew
  <2> QED BY <1>1, <2>1, RunAnswer
<1>12. CASE WindDownEnds
  <2>1. /\ UNCHANGED <<call, reply, starts, msg>> /\ KeepRun
        /\ actor = "windDown" /\ actor' = "exited"
    BY <1>12 DEF WindDownEnds, KeepRun
  <2> QED BY <1>1, <2>1, RunFrame
<1> QED BY <1>2, <1>3, <1>4, <1>5, <1>6, <1>7, <1>8, <1>9, <1>10, <1>11, <1>12
        DEF Handler, Start, Stop, SetFun

\* A call of Start takes a number no run has.
LEMMA RunInvoke ==
  ASSUME TypeInv, RunInv, NEW c \in Clients, NEW op, NEW f, Invoke(c, op, f)
  PROVE  RunInv'
<1>1. /\ call[c].at = "idle"
      /\ op = "start" => starts < MaxStarts
      /\ call' = [call EXCEPT ![c] = [at |-> "sending", op |-> op, fn |-> f,
                    run |-> IF op = "start" THEN starts + 1 ELSE 0]]
      /\ starts' = IF op = "start" THEN starts + 1 ELSE starts
      /\ UNCHANGED <<running, notifyStopped, stopped, actor, msg, reply>>
  BY DEF Invoke, actorVars
<1>2. /\ starts \in Nat /\ 1 .. starts \subseteq Starts /\ c \in Callers /\ c \notin Starts
      /\ call \in [Callers -> Calls] /\ msg.from \in Callers \cup {NoCaller}
  BY DEF TypeInv, TypeOK, Starts, Callers, Watchers, Messages
<1>3. /\ call'[c].at = "sending" /\ call'[c].op = op
      /\ op = "start" => call'[c].run = starts + 1 /\ starts + 1 \in Starts
      /\ \A p \in Callers \ {c} : call'[p] = call[p]
  BY <1>1, <1>2 DEF Starts
<1>4. \A p \in Callers : call[p].op = "start" => StartInv(p)
  BY DEF RunInv, CallInv
<1>5. CountInv'
  BY <1>1, <1>2 DEF RunInv, CountInv, TypeInv, TypeOK, Starts
<1>6. starts + 1 \notin Begun /\ reply[c] = "none"
  BY <1>1, <1>2 DEF RunInv, CountInv, CallInv, Begun
<1>7. WatchInv'
  BY <1>1, <1>2, <1>3 DEF RunInv, WatchInv, Begun, Watchers, Callers, Starts
<1>8. CallInv'
  <2>1. ASSUME NEW p \in Callers PROVE reply'[p] # "none" => call'[p].at = "waiting"
    BY <1>1, <1>3, <1>6 DEF RunInv, CallInv
  <2>2. ASSUME NEW p \in Callers \ {c}, call[p].op = "start" PROVE StartInv(p)'
    <3>1. StartInv(p)
      BY <1>4, <2>2
    <3>2. call[p].run \in Callers \ {c}
      BY <1>2, <3>1 DEF StartInv, Callers, Watchers
    <3>3. call'[c].op = "start" => call'[c].run # call[p].run
      BY <1>2, <1>3, <3>1 DEF StartInv
    <3> QED BY <1>1, <1>2, <1>3, <2>2, <3>1, <3>2, <3>3 DEF StartInv, Begun
  <2>3. ASSUME op = "start" PROVE StartInv(c)'
    <3>1. starts + 1 \in Callers \ {c} /\ call[starts + 1].at = "idle"
      BY <1>2, <1>3, <2>3 DEF RunInv, WatchInv, Callers, Watchers
    <3>2. \A q \in Callers \ {c} : call[q].op = "start" => call[q].run # starts + 1
      BY <1>2, <1>4 DEF StartInv
    <3> QED BY <1>1, <1>2, <1>3, <1>6, <2>3, <3>1, <3>2 DEF StartInv, Begun
  <2> QED BY <1>3, <2>1, <2>2, <2>3 DEF CallInv
<1>9. MsgInv'
  <2>1. msg.from # c
    BY <1>1, <1>2 DEF RunInv, MsgInv
  <2>2. msg.op = "start" => starts + 1 # msg.run /\ msg.run \in 1 .. starts'
    BY <1>1, <1>2 DEF RunInv, MsgInv
  <2> QED BY <1>1, <1>2, <1>3, <2>1, <2>2 DEF RunInv, MsgInv, Begun
<1> QED BY <1>5, <1>7, <1>8, <1>9 DEF RunInv

LEMMA RunReceive ==
  ASSUME TypeInv, RunInv, NEW p \in Callers, Receive(p)
  PROVE  RunInv'
<1>1. /\ actor = "select" /\ call[p].at = "sending" /\ actor' = call[p].op
      /\ msg' = [op |-> call[p].op, from |-> p, run |-> call[p].run, fn |-> call[p].fn]
      /\ call' = [call EXCEPT ![p].at = "waiting", ![p].fn = NoFunc]
      /\ UNCHANGED <<running, notifyStopped, stopped, reply, starts>>
  BY DEF Receive, actorVars, actorRest
<1>2. /\ call \in [Callers -> Calls] /\ p # NoCaller /\ call[p].op \in Ops
      /\ 1 .. starts \subseteq Callers /\ Watchers \subseteq Callers
  BY <1>1 DEF TypeInv, TypeOK, Callers, Watchers, Starts
<1>3. /\ call'[p].at = "waiting" /\ call'[p].op = call[p].op /\ call'[p].run = call[p].run
      /\ \A q \in Callers \ {p} : call'[q] = call[q]
  BY <1>1, <1>2 DEF Calls
<1>4. CountInv' /\ Begun' = Begun
  BY <1>1 DEF RunInv, CountInv, Begun
<1>5. reply[p] = "none"
  BY <1>1 DEF RunInv, CallInv
<1>6. WatchInv'
  BY <1>1, <1>2, <1>3, <1>4 DEF RunInv, WatchInv
<1>7. ASSUME NEW q \in Callers, call[q].op = "start" PROVE StartInv(q)'
  <2>1. StartInv(q) /\ call[q].run # p
    BY <1>1, <1>7 DEF RunInv, CallInv, StartInv
  <2> QED BY <1>1, <1>2, <1>3, <1>4, <2>1 DEF StartInv
<1>8. CallInv'
  BY <1>1, <1>3, <1>7 DEF RunInv, CallInv
<1>9. MsgInv'
  <2>1. call[p].op = "start" =>
          /\ call[p].run \in 1 .. starts /\ call[p].run \notin Begun
          /\ \A q \in Callers \ {p} : call[q].op = "start" => call[q].run # call[p].run
    BY <1>1 DEF RunInv, CallInv, StartInv
  <2>2. actor' \in Ops /\ actor' \notin {"startFetch", "startSet"}
    BY <1>1, <1>2 DEF Ops, StopOps, SetOps
  <2> QED BY <1>1, <1>2, <1>3, <1>4, <1>5, <2>1, <2>2 DEF MsgInv
<1> QED BY <1>4, <1>6, <1>8, <1>9 DEF RunInv

\* An accepted Start leaves the watcher of its run, which has begun.
LEMMA RunReturn ==
  ASSUME TypeInv, RunInv, NEW p \in Callers, Return(p)
  PROVE  RunInv'
<1> DEFINE r == call[p].run
           accepted == call[p].op = "start" /\ reply[p] = "nil"
<1>1. /\ call[p].at = "waiting" /\ reply[p] # "none"
      /\ reply' = [reply EXCEPT ![p] = "none"]
      /\ UNCHANGED <<running, notifyStopped, stopped, actor, msg, starts>>
      /\ ~accepted => call' = [call EXCEPT ![p] = Idle]
      /\ accepted => call' = [[call EXCEPT ![p] = Idle] EXCEPT ![r].at = "watching"]
  BY DEF Return, actorVars
<1>2. /\ call \in [Callers -> Calls] /\ reply \in [Callers -> {"none", "nil", "error", "already"}]
      /\ 1 .. starts \subseteq Watchers /\ Watchers \subseteq Callers
      /\ Clients \cap Watchers = {} /\ msg.from \in Callers \cup {NoCaller}
  BY DEF TypeInv, TypeOK, Callers, Watchers, Starts, Messages
<1>3. /\ \A q \in Callers : call[q].op = "start" => StartInv(q)
      /\ msg.from # p
  BY <1>1 DEF RunInv, CallInv, MsgInv
<1>4. accepted => /\ r \in 1 .. starts /\ r # p /\ call[r].at = "idle" /\ r \in Begun
                  /\ call[r].op # "start"
                  /\ \A q \in Callers \ {p} : call[q].op = "start" => call[q].run # r
  BY <1>1, <1>2, <1>3 DEF StartInv
<1>5. /\ call'[p].at = "idle" /\ call'[p].op = "none"
      /\ \A q \in Callers \ {p} : ~accepted \/ q # r => call'[q] = call[q]
      /\ accepted => call'[r].at = "watching" /\ call'[r].op = call[r].op
  BY <1>1, <1>2, <1>4 DEF Idle, Calls
<1>6. /\ reply'[p] = "none"
      /\ \A q \in Callers \ {p} : reply'[q] = reply[q]
  BY <1>1, <1>2
<1>7. CountInv' /\ Begun' = Begun
  BY <1>1 DEF RunInv, CountInv, Begun
<1>8. WatchInv'
  <2>1. ASSUME NEW t \in Watchers
        PROVE  /\ call'[t].at = "watching" => t \in Begun
               /\ t > starts => call'[t].at = "idle"
    <3>1. /\ call[t].at = "watching" => t \in Begun
          /\ t > starts => call[t].at = "idle"
      BY DEF RunInv, WatchInv
    <3>2. CASE t = p
      BY <1>5, <3>2
    <3>3. CASE t # p /\ accepted /\ t = r
      <4>1. ~(t > starts)
        BY <1>4, <3>3 DEF TypeInv, TypeOK
      <4> QED BY <1>4, <3>3, <4>1
    <3>4. CASE t # p /\ (~accepted \/ t # r)
      BY <1>2, <1>5, <3>1, <3>4
    <3> QED BY <3>2, <3>3, <3>4
  <2> QED BY <1>1, <1>7, <2>1 DEF WatchInv
<1>9. ASSUME NEW q \in Callers, call'[q].op = "start" PROVE StartInv(q)'
  <2>1. q # p /\ call[q].op = "start" /\ call'[q] = call[q] /\ reply'[q] = reply[q]
    BY <1>4, <1>5, <1>6, <1>9
  <2>2. StartInv(q) /\ call[q].run \in Callers \ {p}
    BY <1>2, <1>3, <2>1, <1>1 DEF StartInv
  <2>3. call'[call[q].run].at = "idle"
    BY <1>4, <1>5, <2>1, <2>2 DEF StartInv
  <2>4. \A t \in Callers \ {q} : call'[t].op = "start" => call'[t].run # call[q].run
    BY <1>4, <1>5, <2>1, <2>2 DEF StartInv
  <2> QED BY <1>1, <1>7, <2>1, <2>2, <2>3, <2>4 DEF StartInv
<1>10. ASSUME NEW q \in Callers PROVE reply'[q] # "none" => call'[q].at = "waiting"
  BY <1>4, <1>5, <1>6 DEF RunInv, CallInv
<1>11. MsgInv'
  <2>1. msg.from # NoCaller => call'[msg.from] = call[msg.from] /\ reply'[msg.from] = reply[msg.from]
    BY <1>2, <1>3, <1>4, <1>5, <1>6 DEF RunInv, MsgInv
  <2>2. \A q \in Callers : call'[q].op = "start" => call'[q] = call[q]
    BY <1>4, <1>5
  <2> QED BY <1>1, <1>7, <2>1, <2>2 DEF RunInv, MsgInv
<1> QED BY <1>7, <1>8, <1>9, <1>10, <1>11 DEF RunInv, CallInv

\* Steps that free a caller: nobody waits for it, and it ends or, a watcher,
\* asks for a Stop.
LEMMA RunLeave ==
  ASSUME TypeInv, RunInv, NEW p \in Callers, NEW k,
         call' = [call EXCEPT ![p] = k], k.op # "start", k.at # "watching",
         k.at = "idle" \/ call[p].at # "idle" \/ p \in Clients,
         call[p].at # "waiting" \/ reply' = [reply EXCEPT ![p] = "none"],
         reply' = reply \/ reply' = [reply EXCEPT ![p] = "none"],
         msg.from = p => msg' = [msg EXCEPT !.from = NoCaller],
         msg.from # p => msg' = msg,
         UNCHANGED <<running, notifyStopped, stopped, actor, starts>>
  PROVE  RunInv'
<1>2. /\ call \in [Callers -> Calls] /\ reply \in [Callers -> {"none", "nil", "error", "already"}]
      /\ 1 .. starts \subseteq Watchers /\ Watchers \subseteq Callers
      /\ Clients \cap Watchers = {} /\ msg.from \in Callers \cup {NoCaller} /\ msg \in Messages
  BY DEF TypeInv, TypeOK, Callers, Watchers, Starts, Messages
<1>3. call'[p] = k /\ \A q \in Callers \ {p} : call'[q] = call[q] /\ reply'[q] = reply[q]
  BY <1>2
<1>4. reply'[p] = "none"
  BY <1>2 DEF RunInv, CallInv
<1>5. CountInv' /\ Begun' = Begun
  BY DEF RunInv, CountInv, Begun
<1>6. WatchInv'
  BY <1>2, <1>3, <1>5 DEF RunInv, WatchInv, Watchers, Callers
<1>7. ASSUME NEW q \in Callers \ {p}, call[q].op = "start" PROVE StartInv(q)'
  <2>1. StartInv(q) /\ call[q].run \in Callers
    BY <1>2, <1>7 DEF RunInv, CallInv, StartInv
  <2>2. call'[call[q].run].at = "idle"
    BY <1>2, <1>3, <2>1 DEF StartInv
  <2> QED BY <1>3, <1>5, <1>7, <2>1, <2>2 DEF StartInv
<1>8. CallInv'
  BY <1>3, <1>4, <1>7 DEF RunInv, CallInv
<1>9. MsgInv'
  BY <1>2, <1>3, <1>5 DEF RunInv, MsgInv, Messages
<1> QED BY <1>5, <1>6, <1>8, <1>9 DEF RunInv

LEMMA RunStepInv == TypeInv /\ RunInv /\ [Next]_vars => RunInv'
<1> SUFFICES ASSUME TypeInv, RunInv, [Next]_vars PROVE RunInv'
  OBVIOUS
<1> USE DEF actorVars, actorRest
<1>0. msg.op = "start" <=> actor \in {"start", "startFetch", "startSet"}
  BY DEF RunInv, MsgInv
<1>1. CASE Handler
  BY <1>1, RunHandler
<1>2. CASE WindDown
  <2>1. /\ UNCHANGED <<call, reply, starts, msg>> /\ StopRun
        /\ actor = "select" /\ actor' = "windDown"
    BY <1>2 DEF WindDown
  <2> QED BY <1>0, <2>1, RunFrame
<1>3. CASE TickerClosed \/ WriteFails \/ ParentDone \/ UNCHANGED vars
  <2>1. UNCHANGED <<call, reply, starts, msg, actor>> /\ KeepRun
    BY <1>3 DEF TickerClosed, WriteFails, ParentDone, vars, KeepRun
  <2> QED BY <2>1, RunFrame
<1>4. ASSUME NEW c \in Clients, NEW op, NEW f, Invoke(c, op, f) PROVE RunInv'
  BY <1>4, RunInvoke
<1>5. ASSUME NEW c \in Clients, Close(c) \/ CloseReturn(c) PROVE RunInv'
  <2>1. /\ c \in Callers /\ UNCHANGED <<running, notifyStopped, stopped, actor, starts, msg, reply>>
        /\ call[c].at \in {"idle", "closing"}
        /\ \/ call' = [call EXCEPT ![c].at = "closing"]
           \/ call' = [call EXCEPT ![c] = Idle]
    BY <1>5 DEF Close, CloseReturn, Callers
  <2>2. call[c].op # "start" /\ msg.from # c /\ call \in [Callers -> Calls]
    BY <2>1, CallersAssumption DEF RunInv, CallInv, StartInv, MsgInv, TypeInv, TypeOK
  <2>3. CASE call' = [call EXCEPT ![c].at = "closing"]
    <3>1. call' = [call EXCEPT ![c] = [call[c] EXCEPT !.at = "closing"]]
      BY <2>3
    <3>2. /\ [call[c] EXCEPT !.at = "closing"].op # "start"
          /\ [call[c] EXCEPT !.at = "closing"].at = "closing"
      BY <2>1, <2>2 DEF Calls
    <3> QED BY <1>5, <2>1, <2>2, <3>1, <3>2, RunLeave
  <2>4. CASE call' = [call EXCEPT ![c] = Idle]
    <3>1. Idle.op # "start" /\ Idle.at = "idle"
      BY DEF Idle
    <3> QED BY <1>5, <2>1, <2>2, <2>4, <3>1, RunLeave
  <2> QED BY <2>1, <2>3, <2>4
<1>6. ASSUME NEW p \in Callers, Receive(p) PROVE RunInv'
  BY <1>6, RunReceive
<1>7. ASSUME NEW p \in Callers, Return(p) PROVE RunInv'
  BY <1>7, RunReturn
<1>8. ASSUME NEW p \in Callers, Abandon(p) PROVE RunInv'
  <2>1. Idle.op # "start" /\ Idle.at = "idle"
    BY DEF Idle
  <2> QED BY <1>8, <2>1, RunLeave DEF Abandon
<1>9. ASSUME NEW r \in Watchers, Cancel(r) PROVE RunInv'
  BY <1>9, RunFrame DEF Cancel, KeepRun
<1>10. ASSUME NEW r \in Watchers, WatcherStops(r) \/ WatcherLeaves(r) PROVE RunInv'
  <2> DEFINE k == call'[r]
  <2>1. /\ r \in Callers /\ call[r].at = "watching" /\ call \in [Callers -> Calls]
        /\ UNCHANGED <<running, notifyStopped, stopped, actor, starts, msg, reply>>
        /\ \/ call' = [call EXCEPT ![r] = [Idle EXCEPT !.at = "sending", !.op = "stop"]]
           \/ call' = [call EXCEPT ![r] = Idle]
    BY <1>10 DEF WatcherStops, WatcherLeaves, Callers, TypeInv, TypeOK
  <2>2. call' = [call EXCEPT ![r] = k]
    BY <2>1
  <2>4. k = [Idle EXCEPT !.at = "sending", !.op = "stop"] \/ k = Idle
    BY <2>1
  <2>5. k.op # "start" /\ k.at \in {"idle", "sending"}
    <3>1. LET e == [Idle EXCEPT !.at = "sending", !.op = "stop"]
          IN  e.at = "sending" /\ e.op = "stop" /\ Idle.at = "idle" /\ Idle.op = "none"
      BY DEF Idle
    <3> HIDE DEF k
    <3> QED BY <2>4, <3>1
  <2>3. msg.from # r
    BY <2>1, CallersAssumption DEF RunInv, MsgInv
  <2> HIDE DEF k
  <2> QED BY <2>1, <2>2, <2>3, <2>5, RunLeave
<1>11. ASSUME NEW g \in Fetchers, Tick(g) \/ FetchReturns(g) \/ FetchDropped(g) PROVE RunInv'
  BY <1>11, RunFrame DEF Tick, FetchReturns, FetchDropped, KeepRun
<1>12. ASSUME NEW g \in Fetchers, DrawFrame(g) PROVE RunInv'
  <2>1. /\ UNCHANGED <<call, reply, starts, msg, actor>> /\ actor = "select"
        /\ StopRun \/ KeepRun
    BY <1>12 DEF DrawFrame
  <2> QED BY <2>1, RunFrame
<1>13. ASSUME NEW r \in reports, ReportError(r) \/ ReportTimeout(r) PROVE RunInv'
  <2>1. /\ UNCHANGED <<call, reply, starts, msg, actor>>
        /\ KeepRun \/ (StopRun /\ actor = "select")
    BY <1>13 DEF ReportError, ReportTimeout, KeepRun
  <2> QED BY <2>1, RunFrame
<1> QED BY <1>1, <1>2, <1>3, <1>4, <1>5, <1>6, <1>7, <1>8, <1>9, <1>10, <1>11,
           <1>12, <1>13 DEF Next

LEMMA RunInvariance == Spec => [](TypeInv /\ RunInv)
BY TypeInit, TypeStep, RunInit, RunStepInv, PTL DEF Spec

\* Whatever way a run ends, the channel its watcher waits on is closed, once.
THEOREM WatchersLeave == Spec => []WatcherCanLeave
<1>1. RunInv => WatcherCanLeave
  BY DEF RunInv, CountInv, WatchInv, Begun, WatcherCanLeave
<1> QED BY <1>1, RunInvariance, PTL

\* A Start that reports an error has left no run behind.
THEOREM FailedStarts == Spec => []FailedStartIsOver
<1>1. RunInv => FailedStartIsOver
  BY DEF RunInv, CallInv, StartInv, FailedStartIsOver
<1> QED BY <1>1, RunInvariance, PTL

-----------------------------------------------------------------------------
(* Revisions. *)

\* No fetch is ahead of the revision, and one that a SetFrame overtook is behind
\* it.
SwapInv ==
  /\ \A g \in Fetchers : fetch[g].at # "idle" => fetch[g].rev <= revision
  /\ \A g \in overtaken : g \in Fetchers /\ fetch[g].at # "idle" /\ fetch[g].rev < revision

LEMMA SwapBegins == SwapInit => SwapInv
BY DEF SwapInit, Init, SwapInv, NoFetch

\* A new FrameFunc comes with the next revision.
Numbered ==
  /\ fetch' = fetch
  /\ UNCHANGED <<getFrame, revision>> \/ revision' = revision + 1

\* The FrameFunc stays, every fetch that is out keeps its revision or ends, a
\* new one has the current, and what ends without being current shows nothing.
Kept ==
  /\ UNCHANGED <<getFrame, revision>>
  /\ \A g \in Fetchers : fetch'[g].at # "idle" =>
       fetch'[g].rev = IF fetch[g].at = "idle" THEN revision ELSE fetch[g].rev
  /\ \A g \in Fetchers :
       fetch[g].at # "idle" /\ fetch'[g].at = "idle" /\ fetch[g].rev # revision
         => UNCHANGED <<frame, running>>

\* Only SetFrame gives a new revision.
LEMMA HandlerNumbers ==
  ASSUME Handler
  PROVE  Numbered
<1>1. fetch' = fetch
  BY DEF Handler, Start, Stop, SetFun, StartRefused, StartWaited, StartFetched, StartSet,
         StopIdle, StopBegin, StopWaited, StopFetched, StopCommit, SetNil, SetStoppedRun,
         SetWaited, SetFetchedOld, SetFetchedNew, SetTicker, WindDownEnds, actorRest
<1>2. UNCHANGED <<getFrame, revision>> \/ revision' = revision + 1
  BY DEF Handler, Start, Stop, SetFun, StartRefused, StartWaited, StartFetched, StartSet,
         StopIdle, StopBegin, StopWaited, StopFetched, StopCommit, SetNil, SetStoppedRun,
         SetWaited, SetFetchedOld, SetFetchedNew, SetTicker, WindDownEnds, Install, actorVars
<1> QED BY <1>1, <1>2 DEF Numbered

\* Of the others, only a tick and the end of a fetch touch the fetches.
LEMMA StepKeeps ==
  ASSUME TypeInv, Next
  PROVE  Numbered \/ Kept
<1> USE DEF actorVars, actorRest
<1>0. UNCHANGED <<fetch, getFrame, revision>> => Numbered
  BY DEF Numbered
<1>1. CASE Handler
  BY <1>1, HandlerNumbers
<1>2. CASE WindDown \/ TickerClosed \/ WriteFails \/ ParentDone
  BY <1>0, <1>2 DEF WindDown, TickerClosed, WriteFails, ParentDone
<1>3. ASSUME NEW c \in Clients,
             \/ \E op \in Used, f \in Funcs \cup {NoFunc} : Invoke(c, op, f)
             \/ Close(c) \/ CloseReturn(c)
      PROVE  Numbered
  BY <1>0, <1>3 DEF Invoke, Close, CloseReturn
<1>4. ASSUME NEW p \in Callers, Receive(p) \/ Return(p) \/ Abandon(p)
      PROVE  Numbered
  BY <1>0, <1>4 DEF Receive, Return, Abandon
<1>5. ASSUME NEW r \in Watchers, Cancel(r) \/ WatcherStops(r) \/ WatcherLeaves(r)
      PROVE  Numbered
  BY <1>0, <1>5 DEF Cancel, WatcherStops, WatcherLeaves
<1>6. ASSUME NEW r \in reports, ReportError(r) \/ ReportTimeout(r)
      PROVE  Numbered
  BY <1>0, <1>6 DEF ReportError, ReportTimeout
<1>7. ASSUME NEW g \in Fetchers, Tick(g) PROVE Kept
  BY <1>7 DEF Tick, Kept, TypeInv, TypeOK
<1>8. ASSUME NEW g \in Fetchers, FetchReturns(g) \/ FetchDropped(g)
      PROVE  Kept
  BY <1>8 DEF FetchReturns, FetchDropped, TypeInv, TypeOK, Fetches, NoFetch, Kept
<1>9. ASSUME NEW g \in Fetchers, DrawFrame(g)
      PROVE  Kept
  <2>1. \A h \in Fetchers : fetch'[h] = IF h = g THEN NoFetch ELSE fetch[h]
    BY <1>9 DEF DrawFrame, TypeInv, TypeOK
  <2>2. fetch[g].rev # revision => UNCHANGED <<frame, running>>
    BY <1>9 DEF DrawFrame, Stale, KeepRun
  <2>3. UNCHANGED <<getFrame, revision>> /\ fetch[g].at # "idle"
    BY <1>9 DEF DrawFrame
  <2> QED BY <2>1, <2>2, <2>3 DEF Kept, NoFetch
<1> QED BY <1>1, <1>2, <1>3, <1>4, <1>5, <1>6, <1>7, <1>8, <1>9 DEF Next

LEMMA SwapStep ==
  TypeInv /\ SwapInv /\ [SwapNext]_swapVars =>
    /\ SwapInv'
    /\ \A g \in overtaken :
         fetch[g].at = "sending" /\ fetch'[g].at = "idle" => UNCHANGED <<frame, running>>
<1> SUFFICES ASSUME TypeInv, SwapInv, [SwapNext]_swapVars
             PROVE  /\ SwapInv'
                    /\ \A g \in overtaken :
                         fetch[g].at = "sending" /\ fetch'[g].at = "idle"
                           => UNCHANGED <<frame, running>>
  OBVIOUS
<1>1. CASE UNCHANGED swapVars
  BY <1>1 DEF swapVars, vars, actorVars, SwapInv
<1>2. revision \in Nat /\ \A g \in Fetchers : fetch[g].rev \in Nat
  BY DEF TypeInv, TypeOK, Fetches
<1>3. CASE SwapNext /\ Numbered
  BY <1>2, <1>3 DEF SwapNext, Numbered, SwapInv
<1>4. CASE SwapNext /\ Kept
  BY <1>2, <1>4 DEF SwapNext, Kept, SwapInv
<1> QED BY <1>1, <1>3, <1>4, StepKeeps DEF SwapNext

\* A frame that a SetFrame overtook is never drawn and ends no run, however
\* often the FrameFuncs are exchanged and whichever is installed again.
THEOREM OvertakenIsNeverDrawn == SwapSpec => OvertakenIsDropped
<1>1. SwapInit => TypeInv
  BY TypeInit DEF SwapInit
<1>2. TypeInv /\ [SwapNext]_swapVars => TypeInv'
  <2>1. [SwapNext]_swapVars => [Next]_vars
    BY DEF SwapNext, swapVars
  <2> QED BY <2>1, TypeStep
<1>3. TypeInv /\ SwapInv /\ [SwapNext]_swapVars =>
        [\A g \in overtaken :
           fetch[g].at = "sending" /\ fetch'[g].at = "idle"
             => UNCHANGED <<frame, running>>]_swapVars
  BY SwapStep
<1> QED BY <1>1, <1>2, <1>3, SwapBegins, SwapStep, PTL DEF SwapSpec, OvertakenIsDropped

-----------------------------------------------------------------------------
(* Stops. *)

Stopping == {"stopWait", "stopFetch", "stopCommit"}

\* The message of a Stop is answered by a handler of Stop, which has ended the
\* run with its first step, and no other message comes in between.
StopInv == /\ msg.op \in StopOps => actor \in StopOps \cup Stopping
           /\ actor \in Stopping => ~running

LEMMA StopInit == Init => StopInv
BY DEF Init, StopInv, NoMsg, StopOps, Stopping

\* Steps of everyone else.
LEMMA StopFrame ==
  ASSUME StopInv, UNCHANGED actor, msg'.op = msg.op, running' => running
  PROVE  StopInv'
BY DEF StopInv

LEMMA StopHandler ==
  ASSUME TypeInv, RunInv, StopInv, Handler
  PROVE  /\ StopInv'
         /\ \A p \in Callers :
              call[p].op \in StopOps /\ reply[p] = "none" /\ reply'[p] # "none" => ~running'
<1> USE DEF actorVars, actorRest
<1>0. ASSUME NEW r \in {"nil", "error", "already"}, Answer(r)
      PROVE  /\ StopInv'
             /\ \A p \in Callers : reply'[p] # reply[p] => p = msg.from /\ call[p].op = msg.op
  <2>1. StopInv'
    BY <1>0 DEF Answer, NoMsg, StopInv, StopOps, Stopping
  <2>2. \A p \in Callers : reply'[p] # reply[p] => p = msg.from
    BY <1>0 DEF Answer, TypeInv, TypeOK
  <2> QED BY <2>1, <2>2 DEF RunInv, MsgInv
<1>1. CASE StartRefused \/ SetNil \/ SetStoppedRun \/ SetTicker \/ SetFetchedNew \/ StartSet
  <2>1. /\ actor \in {"start", "startSet", "setTicker", "setFetchNew"} \cup SetOps
        /\ \E r \in {"nil", "error", "already"} : Answer(r)
    BY <1>1 DEF StartRefused, SetNil, SetStoppedRun, SetTicker, SetFetchedNew, StartSet
  <2>2. msg.op \notin StopOps
    BY <2>1 DEF StopInv, StopOps, SetOps, Stopping
  <2> QED BY <1>0, <2>1, <2>2
<1>2. CASE StopIdle \/ StopCommit
  <2>1. ~running' /\ \E r \in {"nil", "error", "already"} : Answer(r)
    BY <1>2 DEF StopIdle, StopCommit, StopInv, Stopping
  <2> QED BY <1>0, <2>1
<1>3. CASE StartFetched
  <2>1. actor = "startFetch"
    BY <1>3 DEF StartFetched
  <2>2. msg.op \notin StopOps
    BY <2>1 DEF StopInv, StopOps, Stopping
  <2>3. CASE actor' = "startSet" /\ UNCHANGED <<msg, reply>>
    BY <2>2, <2>3 DEF StopInv, StopOps, Stopping
  <2>4. CASE Answer("nil")
    BY <1>0, <2>2, <2>4
  <2> QED BY <1>3, <2>3, <2>4 DEF StartFetched
<1>4. CASE StopBegin \/ StopWaited \/ StopFetched
  BY <1>4 DEF StopBegin, StopWaited, StopFetched, StopRun, StopInv, StopOps, Stopping
<1>5. CASE StartWaited \/ SetWaited \/ SetFetchedOld \/ WindDownEnds
  <2>1. /\ actor \in {"start", "setFetchOld", "windDown"} \cup SetOps
        /\ actor' \in {"startFetch", "setFetchNew", "setFetchOld", "exited"}
        /\ UNCHANGED <<msg, reply>>
    BY <1>5 DEF StartWaited, SetWaited, SetFetchedOld, WindDownEnds
  <2>2. msg.op \notin StopOps
    BY <2>1 DEF StopInv, StopOps, SetOps, Stopping
  <2> QED BY <2>1, <2>2 DEF StopInv, Stopping
<1> QED BY <1>1, <1>2, <1>3, <1>4, <1>5 DEF Handler, Start, Stop, SetFun

LEMMA StopStep ==
  TypeInv /\ RunInv /\ StopInv /\ [Next]_vars =>
    /\ StopInv'
    /\ \A p \in Callers :
         call[p].op \in StopOps /\ reply[p] = "none" /\ reply'[p] # "none" => ~running'
<1> SUFFICES ASSUME TypeInv, RunInv, StopInv, [Next]_vars
             PROVE  /\ StopInv'
                    /\ \A p \in Callers :
                         call[p].op \in StopOps /\ reply[p] = "none" /\ reply'[p] # "none"
                           => ~running'
  OBVIOUS
<1> USE DEF actorVars, actorRest
<1>1. CASE Handler
  BY <1>1, StopHandler
<1>2. CASE TickerClosed \/ WriteFails \/ ParentDone \/ UNCHANGED vars
  BY <1>2, StopFrame DEF TickerClosed, WriteFails, ParentDone, vars
<1>3. CASE WindDown
  <2>1. msg.op \notin StopOps
    BY <1>3 DEF WindDown, StopInv, StopOps, Stopping
  <2> QED BY <1>3, <2>1 DEF WindDown, StopInv, Stopping
<1>4. ASSUME NEW c \in Clients,
             \/ \E op \in Used, f \in Funcs \cup {NoFunc} : Invoke(c, op, f)
             \/ Close(c) \/ CloseReturn(c)
      PROVE  StopInv' /\ reply' = reply
  BY <1>4, StopFrame DEF Invoke, Close, CloseReturn
<1>5. ASSUME NEW p \in Callers, Receive(p) PROVE StopInv' /\ reply' = reply
  <2>1. call[p].op \in Ops
    BY <1>5 DEF Receive, TypeInv
  <2> QED BY <1>5, <2>1 DEF Receive, StopInv, Ops, StopOps, SetOps, Stopping
<1>6. ASSUME NEW p \in Callers, Return(p) \/ Abandon(p)
      PROVE  StopInv' /\ \A q \in Callers : reply'[q] \in {reply[q], "none"}
  <2>1. msg'.op = msg.op
    BY <1>6 DEF Return, Abandon, TypeInv, TypeOK, Messages
  <2>2. \A q \in Callers : reply'[q] \in {reply[q], "none"}
    BY <1>6 DEF Return, Abandon, TypeInv, TypeOK
  <2> QED BY <1>6, <2>1, <2>2, StopFrame DEF Return, Abandon
<1>7. ASSUME NEW r \in Watchers, Cancel(r) \/ WatcherStops(r) \/ WatcherLeaves(r)
      PROVE  StopInv' /\ reply' = reply
  BY <1>7, StopFrame DEF Cancel, WatcherStops, WatcherLeaves
<1>8. ASSUME NEW g \in Fetchers, Tick(g) \/ FetchReturns(g) \/ FetchDropped(g)
      PROVE  StopInv' /\ reply' = reply
  BY <1>8, StopFrame DEF Tick, FetchReturns, FetchDropped
<1>9. ASSUME NEW g \in Fetchers, DrawFrame(g) PROVE StopInv' /\ reply' = reply
  <2>1. UNCHANGED <<actor, msg, reply>> /\ (running' => running)
    BY <1>9 DEF DrawFrame, KeepRun, StopRun
  <2> QED BY <2>1, StopFrame
<1>10. ASSUME NEW r \in reports, ReportError(r) \/ ReportTimeout(r)
       PROVE  StopInv' /\ reply' = reply
  BY <1>10, StopFrame DEF ReportError, ReportTimeout, StopRun
<1>11. UNCHANGED reply \/ (\A q \in Callers : reply'[q] \in {reply[q], "none"}) =>
         \A p \in Callers : ~(reply[p] = "none" /\ reply'[p] # "none")
  OBVIOUS
<1>12. CASE TickerClosed \/ WriteFails \/ ParentDone \/ UNCHANGED vars \/ WindDown
  BY <1>2, <1>3, <1>12 DEF TickerClosed, WriteFails, ParentDone, vars, WindDown
<1> QED BY <1>1, <1>4, <1>5, <1>6, <1>7, <1>8, <1>9, <1>10, <1>11, <1>12 DEF Next

\* An answered Stop has stopped the run, for any number of callers.
THEOREM StopsStop == Spec => StopReplyMeansStopped
<1>1. TypeInv /\ RunInv /\ StopInv /\ [Next]_vars =>
        [\A p \in Callers :
           call[p].op \in StopOps /\ reply[p] = "none" /\ reply'[p] # "none"
             => ~running']_vars
  BY StopStep
<1> QED BY <1>1, TypeInit, TypeStep, RunInit, RunStepInv, StopInit, StopStep, PTL
        DEF Spec, StopReplyMeansStopped
=============================================================================
