------------------------------- MODULE Actor -------------------------------
(***************************************************************************)
(* The goroutines of one spinner and the channels between them: the actor  *)
(* loop of background.go, the lifecycle calls that send it messages and    *)
(* wait for its reply (spinner-state.go), the goroutine each tick starts   *)
(* to call the FrameFunc, the watcher each successful Start leaves behind, *)
(* and the goroutines a failing Write starts to report its error.          *)
(*                                                                         *)
(* What is on the screen is the business of module Display.  Here a frame  *)
(* is known only by the FrameFunc it came from, and a write to the wrapped *)
(* io.Writer either succeeds or fails.                                     *)
(***************************************************************************)
EXTENDS Integers, FiniteSets

CONSTANTS Clients,    \* goroutines that use the Writer
          Fetchers,   \* goroutines the ticker case may start
          Funcs,      \* FrameFuncs
          NoFunc,     \* no FrameFunc: an empty st.frame, a nil argument
          Used,       \* the operations the clients call
          NoCaller,   \* the caller gave up: nobody reads the reply
          MaxStarts,  \* bound: calls of Start
          MaxSets,    \* bound: calls of SetFrame that install a FrameFunc
          MaxReports  \* bound: goroutines waiting to send a reportError

Starts   == 1 .. MaxStarts    \* a Start, and its notifyStopped channel
Watchers == Starts            \* the watcher goroutine of that Start
Callers  == Clients \cup Watchers

ASSUME BoundsAssumption == MaxStarts \in Nat /\ MaxSets \in Nat /\ MaxReports \in Nat
ASSUME CallersAssumption == Clients \cap Watchers = {} /\ NoCaller \notin Callers
ASSUME FuncsAssumption == NoFunc \notin Funcs

StopOps == {"stop", "stopNoClear"}
SetOps  == {"setFrame", "setFrameNoClear"}
Ops     == {"start", "setTicker"} \cup StopOps \cup SetOps

ASSUME UsedAssumption == Used \subseteq Ops

VARIABLES
  running,        \* st.running
  inFlight,       \* st.inFlight
  revision,       \* st.revision
  getFrame,       \* st.getFrame
  frame,          \* the FrameFunc st.frame came from, NoFunc when empty
  ticker,         \* st.ticker: "live" or "off" (nil, or never ticking)
  notifyStopped,  \* st.notifyStopped, 0 when nil
  stopped,        \* the notifyStopped channels that have been closed
  wg,             \* st.wg
  errOpen,        \* st.errCh has not been closed
  ctxDone,        \* st.ctx is cancelled (by Close or by the parent)
  actor,          \* where the actor is: "select" or inside a handler
  msg,            \* the message being handled
  call,           \* what each caller is doing
  reply,          \* msg.notify of each caller
  cancelled,      \* the Starts whose own ctx is done and whose watcher has not seen it
  fetch,          \* the goroutines of the ticker case
  reports,        \* goroutines with a reportError to send, by run
  starts, sets    \* calls made so far, for the bounds

actorVars == <<running, inFlight, revision, getFrame, frame, ticker,
               notifyStopped, stopped, errOpen>>
vars == <<actorVars, wg, ctxDone, actor, msg, call, reply, cancelled, fetch,
          reports, starts, sets>>

NoMsg   == [op |-> "none", from |-> NoCaller, run |-> 0, fn |-> NoFunc]
Idle    == [at |-> "idle", op |-> "none", run |-> 0, fn |-> NoFunc]
NoFetch == [at |-> "idle", rev |-> 0, fn |-> NoFunc]

Init ==
  /\ running = FALSE /\ inFlight = FALSE /\ revision = 0
  /\ getFrame \in Funcs /\ frame = NoFunc /\ ticker \in {"live", "off"}
  /\ notifyStopped = 0 /\ stopped = {} /\ wg = 0 /\ errOpen = TRUE
  /\ ctxDone = FALSE /\ actor = "select" /\ msg = NoMsg
  /\ call = [p \in Callers |-> Idle] /\ reply = [p \in Callers |-> "none"]
  /\ cancelled = {} /\ fetch = [g \in Fetchers |-> NoFetch]
  /\ reports = {} /\ starts = 0 /\ sets = 0

-----------------------------------------------------------------------------
(* Building blocks of the handlers. *)

\* Forms a slip could give the definitions below; the properties tell them
\* apart.  StopRun without its nil check, without its close, without its flag:
StopRunUnchecked ==
  running' = FALSE /\ stopped' = stopped \cup {notifyStopped} /\ notifyStopped' = 0
StopRunSilent == running' = FALSE /\ notifyStopped' = 0 /\ UNCHANGED stopped
StopRunGoesOn ==
  stopped' = stopped \cup ({notifyStopped} \ {0}) /\ notifyStopped' = 0 /\ UNCHANGED running

\* stopFromActor: the run is over and its watcher is told.
StopRun ==
  /\ running' = FALSE
  /\ stopped' = stopped \cup ({notifyStopped} \ {0})
  /\ notifyStopped' = 0

KeepRun == UNCHANGED <<running, stopped, notifyStopped>>

\* The handler is done: the reply goes to the caller if it still waits.
Answer(r) ==
  /\ actor' = "select" /\ msg' = NoMsg
  /\ reply' = IF msg.from = NoCaller THEN reply
                                     ELSE [reply EXCEPT ![msg.from] = r]

\* set(frame): the frame is shown, or the clear or the draw fails.
Set(f, outcome) ==
  /\ outcome \in {"ok", "clearFailed", "drawFailed"}
  /\ frame' = CASE outcome = "ok"          -> f
                [] outcome = "clearFailed" -> frame
                [] outcome = "drawFailed"  -> NoFunc

-----------------------------------------------------------------------------
(* The callers of spinner-state.go and writer.go. *)

Invoke(c, op, f) ==
  /\ call[c].at = "idle"
  /\ op = "start" => starts < MaxStarts
  /\ op \in SetOps => sets < MaxSets \/ f = NoFunc
  /\ op \notin SetOps => f = NoFunc
  /\ call' = [call EXCEPT ![c] =
       [at |-> "sending", op |-> op, fn |-> f,
        run |-> IF op = "start" THEN starts + 1 ELSE 0]]
  /\ starts' = IF op = "start" THEN starts + 1 ELSE starts
  /\ sets' = IF f # NoFunc THEN sets + 1 ELSE sets
  /\ UNCHANGED <<actorVars, wg, ctxDone, actor, msg, reply, cancelled, fetch,
                 reports>>

\* The caller reads the reply.  A Start that was accepted starts a watcher.
Return(p) ==
  /\ call[p].at = "waiting" /\ reply[p] # "none"
  /\ LET back == [call EXCEPT ![p] = Idle] IN
       call' = IF call[p].op = "start" /\ reply[p] = "nil"
                 THEN [back EXCEPT ![call[p].run].at = "watching"]
                 ELSE back
  /\ reply' = [reply EXCEPT ![p] = "none"]
  /\ UNCHANGED <<actorVars, wg, ctxDone, actor, msg, cancelled, fetch, reports,
                 starts, sets>>

\* Abandon, where only the second select waits for st.ctx.
AbandonReceived(p) ==
  /\ call[p].at = "waiting" /\ ctxDone
  /\ call' = [call EXCEPT ![p] = Idle]
  /\ reply' = [reply EXCEPT ![p] = "none"]
  /\ msg' = IF msg.from = p THEN [msg EXCEPT !.from = NoCaller] ELSE msg
  /\ UNCHANGED <<actorVars, wg, ctxDone, actor, cancelled, fetch, reports,
                 starts, sets>>

\* Both selects of a call also wait for st.ctx: the call returns ErrClosed.
Abandon(p) ==
  /\ call[p].at \in {"sending", "waiting"} /\ ctxDone
  /\ call' = [call EXCEPT ![p] = Idle]
  /\ reply' = [reply EXCEPT ![p] = "none"]
  /\ msg' = IF msg.from = p THEN [msg EXCEPT !.from = NoCaller] ELSE msg
  /\ UNCHANGED <<actorVars, wg, ctxDone, actor, cancelled, fetch, reports,
                 starts, sets>>

Close(c) ==
  /\ call[c].at = "idle"
  /\ call' = [call EXCEPT ![c].at = "closing"]
  /\ ctxDone' = TRUE
  /\ UNCHANGED <<actorVars, wg, actor, msg, reply, cancelled, fetch, reports,
                 starts, sets>>

CloseReturn(c) ==
  /\ call[c].at = "closing" /\ actor = "exited"
  /\ call' = [call EXCEPT ![c] = Idle]
  /\ UNCHANGED <<actorVars, wg, ctxDone, actor, msg, reply, cancelled, fetch,
                 reports, starts, sets>>

\* The context passed to Start r is cancelled (before the watcher runs, or
\* after it left, that has no effect of its own).
Cancel(r) ==
  /\ call[r].at = "watching" /\ r \notin cancelled
  /\ cancelled' = cancelled \cup {r}
  /\ UNCHANGED <<actorVars, wg, ctxDone, actor, msg, call, reply, fetch, reports,
                 starts, sets>>

\* The parent of st.ctx is cancelled without a Close.
ParentDone ==
  /\ ~ctxDone /\ ctxDone' = TRUE
  /\ UNCHANGED <<actorVars, wg, actor, msg, call, reply, cancelled, fetch,
                 reports, starts, sets>>

\* WatcherStops, where the watcher leaves without its st.stop().
WatcherStopsNothing(r) ==
  /\ call[r].at = "watching" /\ (r \in cancelled \/ ctxDone)
  /\ call' = [call EXCEPT ![r] = Idle]
  /\ cancelled' = cancelled \ {r}
  /\ UNCHANGED <<actorVars, wg, ctxDone, actor, msg, reply, fetch, reports,
                 starts, sets>>

\* The watcher sees its context done (st.ctx when Start had none) and calls
\* st.stop().
WatcherStops(r) ==
  /\ call[r].at = "watching" /\ (r \in cancelled \/ ctxDone)
  /\ call' = [call EXCEPT ![r] = [Idle EXCEPT !.at = "sending", !.op = "stop"]]
  /\ cancelled' = cancelled \ {r}
  /\ UNCHANGED <<actorVars, wg, ctxDone, actor, msg, reply, fetch, reports,
                 starts, sets>>

\* WatcherLeaves, without its case <-notify.
WatcherLeavesLate(r) ==
  /\ call[r].at = "watching" /\ ctxDone
  /\ call' = [call EXCEPT ![r] = Idle]
  /\ cancelled' = cancelled \ {r}
  /\ UNCHANGED <<actorVars, wg, ctxDone, actor, msg, reply, fetch, reports,
                 starts, sets>>

\* The watcher sees st.ctx done or its run over.
WatcherLeaves(r) ==
  /\ call[r].at = "watching" /\ (ctxDone \/ r \in stopped)
  /\ call' = [call EXCEPT ![r] = Idle]
  /\ cancelled' = cancelled \ {r}
  /\ UNCHANGED <<actorVars, wg, ctxDone, actor, msg, reply, fetch, reports,
                 starts, sets>>

-----------------------------------------------------------------------------
(* The actor: one action per case of its select and per blocking point of  *)
(* a handler.                                                              *)

actorRest == <<wg, ctxDone, cancelled, fetch, reports, starts, sets>>

\* case task := <-st.task, sent by a lifecycle call.
Receive(p) ==
  /\ actor = "select" /\ call[p].at = "sending"
  /\ actor' = call[p].op
  /\ msg' = [op |-> call[p].op, from |-> p, run |-> call[p].run, fn |-> call[p].fn]
  /\ call' = [call EXCEPT ![p].at = "waiting", ![p].fn = NoFunc]
  /\ UNCHANGED <<actorVars, actorRest, reply>>

StartRefused ==
  /\ actor = "start" /\ running
  /\ Answer("already")
  /\ UNCHANGED <<actorVars, actorRest, call>>

\* StartWaited without its st.wg.Wait().
StartUnwaited ==
  /\ actor = "start" /\ ~running
  /\ actor' = "startFetch"
  /\ UNCHANGED <<actorVars, actorRest, call, msg, reply>>

\* StartWaited without its test of st.running.
StartWaitedTwice ==
  /\ actor = "start" /\ wg = 0
  /\ actor' = "startFetch"
  /\ UNCHANGED <<actorVars, actorRest, call, msg, reply>>

\* st.wg.Wait(), then the actor is inside the FrameFunc.
StartWaited ==
  /\ actor = "start" /\ ~running /\ wg = 0
  /\ actor' = "startFetch"
  /\ UNCHANGED <<actorVars, actorRest, call, msg, reply>>

StartFetched ==
  /\ actor = "startFetch"
  /\ running' = TRUE /\ notifyStopped' = msg.run
  /\ \/ actor' = "startSet" /\ UNCHANGED <<msg, reply>>
     \/ Answer("nil")                  \* the FrameFunc gave no frame
  /\ UNCHANGED <<inFlight, revision, getFrame, frame, ticker, stopped, errOpen,
                 actorRest, call>>

\* StartSet without its stopFromActor().
StartSetGoesOn ==
  /\ actor = "startSet"
  /\ \E outcome \in {"ok", "clearFailed", "drawFailed"} :
       /\ Set(getFrame, outcome) /\ KeepRun
       /\ Answer(IF outcome = "ok" THEN "nil" ELSE "error")
  /\ UNCHANGED <<inFlight, revision, getFrame, ticker, errOpen, actorRest, call>>

StartSet ==
  /\ actor = "startSet"
  /\ \E outcome \in {"ok", "clearFailed", "drawFailed"} :
       /\ Set(getFrame, outcome)
       /\ IF outcome = "ok" THEN KeepRun /\ Answer("nil")
                            ELSE StopRun /\ Answer("error")
  /\ UNCHANGED <<inFlight, revision, getFrame, ticker, errOpen, actorRest, call>>

StopIdle ==
  /\ actor \in StopOps /\ ~running
  /\ Answer("nil")
  /\ UNCHANGED <<actorVars, actorRest, call>>

StopBegin ==
  /\ actor \in StopOps /\ running
  /\ StopRun
  /\ actor' = IF actor = "stop" THEN "stopCommit" ELSE "stopWait"
  /\ UNCHANGED <<inFlight, revision, getFrame, frame, ticker, errOpen,
                 actorRest, call, msg, reply>>

StopWaited ==
  /\ actor = "stopWait" /\ wg = 0
  /\ actor' = "stopFetch"
  /\ UNCHANGED <<actorVars, actorRest, call, msg, reply>>

StopFetched ==
  /\ actor = "stopFetch"
  /\ actor' = "stopCommit"
  /\ UNCHANGED <<actorVars, actorRest, call, msg, reply>>

\* The locked section: clear, forget the frame, write what is left behind.
StopCommit ==
  /\ actor = "stopCommit"
  /\ frame' = NoFunc
  /\ \E r \in {"nil", "error"} : Answer(r)
  /\ UNCHANGED <<running, inFlight, revision, getFrame, ticker, notifyStopped,
                 stopped, errOpen, actorRest, call>>

SetNil ==
  /\ actor \in SetOps /\ msg.fn = NoFunc
  /\ Answer("error")
  /\ UNCHANGED <<actorVars, actorRest, call>>

Install == getFrame' = msg.fn /\ revision' = revision + 1

SetStoppedRun ==
  /\ actor \in SetOps /\ msg.fn # NoFunc /\ wg = 0 /\ ~running
  /\ Install
  /\ Answer("nil")
  /\ UNCHANGED <<running, inFlight, frame, ticker, notifyStopped, stopped,
                 errOpen, actorRest, call>>

SetWaited ==
  /\ actor \in SetOps /\ msg.fn # NoFunc /\ wg = 0 /\ running
  /\ actor' = IF actor = "setFrame" THEN "setFetchNew" ELSE "setFetchOld"
  /\ UNCHANGED <<actorVars, actorRest, call, msg, reply>>

SetFetchedOld ==
  /\ actor = "setFetchOld"
  /\ actor' = "setFetchNew"
  /\ UNCHANGED <<actorVars, actorRest, call, msg, reply>>

\* The new FrameFunc returned; the locked section follows.  Left at the
\* clear or the write of the outgoing frame, nothing is installed.
SetFetchedNew ==
  /\ actor = "setFetchNew"
  /\ \/ /\ StopRun /\ Answer("error")
        /\ frame' \in {frame} \cup IF msg.op = "setFrameNoClear" THEN {getFrame} ELSE {}
        /\ UNCHANGED <<getFrame, revision>>
     \/ /\ KeepRun /\ Answer("nil") /\ Install
        /\ \/ frame' = msg.fn
           \/ frame' \in {frame} \cup     \* no first frame: the old one stays
                IF msg.op = "setFrameNoClear" THEN {getFrame} ELSE {}
     \/ /\ StopRun /\ Answer("error") /\ Install
        /\ frame' = NoFunc                \* the draw failed
  /\ UNCHANGED <<inFlight, ticker, errOpen, actorRest, call>>

SetTicker ==
  /\ actor = "setTicker"
  /\ ticker' \in {"live", "off"}
  /\ Answer("nil")
  /\ UNCHANGED <<running, inFlight, revision, getFrame, frame, notifyStopped,
                 stopped, errOpen, actorRest, call>>

\* case <-st.ticker on a closed channel.
TickerClosed ==
  /\ actor = "select" /\ ticker = "live" /\ ticker' = "off"
  /\ UNCHANGED <<running, inFlight, revision, getFrame, frame, notifyStopped,
                 stopped, errOpen, actorRest, actor, call, msg, reply>>

-----------------------------------------------------------------------------
(* Ticks, and the goroutine a tick starts. *)

\* case <-st.ticker: at most one fetch at a time, and only while running.
Tick(g) ==
  /\ actor = "select" /\ ticker = "live" /\ running /\ ~inFlight
  /\ fetch[g].at = "idle"
  /\ wg' = wg + 1 /\ inFlight' = TRUE
  /\ fetch' = [fetch EXCEPT ![g] =
                 [at |-> "fetching", rev |-> revision, fn |-> getFrame]]
  /\ UNCHANGED <<running, revision, getFrame, frame, ticker, notifyStopped,
                 stopped, errOpen, ctxDone, actor, msg, call, reply, cancelled,
                 reports, starts, sets>>

\* FetchReturns without its st.wg.Done().
FetchReturnsUndone(g) ==
  /\ fetch[g].at = "fetching"
  /\ fetch' = [fetch EXCEPT ![g].at = "sending"]
  /\ UNCHANGED <<actorVars, wg, ctxDone, actor, msg, call, reply, cancelled,
                 reports, starts, sets>>

\* The FrameFunc returns or panics; st.wg.Done().
FetchReturns(g) ==
  /\ fetch[g].at = "fetching"
  /\ fetch' = [fetch EXCEPT ![g].at = "sending"]
  /\ wg' = wg - 1
  /\ UNCHANGED <<actorVars, ctxDone, actor, msg, call, reply, cancelled,
                 reports, starts, sets>>

\* Stale by the FrameFunc in place of the revision.
StaleByFunc(g) == fetch[g].fn # getFrame \/ ~running

\* The drawFrame message is dropped unless it is of this revision.
Stale(g) == fetch[g].rev # revision \/ ~running

DrawFrame(g) ==
  /\ actor = "select" /\ fetch[g].at = "sending"
  /\ fetch' = [fetch EXCEPT ![g] = NoFetch]
  /\ inFlight' = FALSE
  /\ \/ KeepRun /\ UNCHANGED frame      \* stale, or the FrameFunc gave no frame
     \/ /\ ~Stale(g)
        /\ \E outcome \in {"ok", "clearFailed", "drawFailed"} :
             /\ Set(fetch[g].fn, outcome)
             /\ IF outcome = "ok" THEN KeepRun ELSE StopRun
  /\ UNCHANGED <<revision, getFrame, ticker, errOpen, wg, ctxDone, actor, msg,
                 call, reply, cancelled, reports, starts, sets>>

\* FetchDropped, giving up for another reason than st.ctx.
FetchGivesUp(g) ==
  /\ fetch[g].at = "sending"
  /\ fetch' = [fetch EXCEPT ![g] = NoFetch]
  /\ UNCHANGED <<actorVars, wg, ctxDone, actor, msg, call, reply, cancelled,
                 reports, starts, sets>>

\* case <-st.ctx.Done() of the goroutine: nobody will take the frame.
FetchDropped(g) ==
  /\ fetch[g].at = "sending" /\ ctxDone
  /\ fetch' = [fetch EXCEPT ![g] = NoFetch]
  /\ UNCHANGED <<actorVars, wg, ctxDone, actor, msg, call, reply, cancelled,
                 reports, starts, sets>>

-----------------------------------------------------------------------------
(* Write.  Its clear and its draw may fail; the error is sent to the actor *)
(* by a goroutine that waits 10ms and no longer.  A report is known by the *)
(* run the Write failed in, 0 when none was running.                       *)

WriteFails ==
  /\ starts > 0 /\ notifyStopped \notin reports
  /\ Cardinality(reports) < MaxReports
  /\ reports' = reports \cup {notifyStopped}
  /\ UNCHANGED <<actorVars, wg, ctxDone, actor, msg, call, reply, cancelled,
                 fetch, starts, sets>>

ReportError(r) ==
  /\ actor = "select" /\ r \in reports
  /\ StopRun
  /\ reports' = reports \ {r}
  /\ UNCHANGED <<inFlight, revision, getFrame, frame, ticker, errOpen, wg,
                 ctxDone, actor, msg, call, reply, cancelled, fetch, starts, sets>>

\* fireEvent gives up.  An actor back at its select would have taken the
\* report in time.
ReportTimeout(r) ==
  /\ actor # "select" /\ r \in reports
  /\ reports' = reports \ {r}
  /\ UNCHANGED <<actorVars, wg, ctxDone, actor, msg, call, reply, cancelled,
                 fetch, starts, sets>>

-----------------------------------------------------------------------------
(* case <-st.ctx.Done(): windDown. *)

WindDown ==
  /\ actor = "select" /\ ctxDone
  /\ StopRun
  /\ actor' = "windDown"
  /\ UNCHANGED <<inFlight, revision, getFrame, frame, ticker, errOpen, wg,
                 ctxDone, msg, call, reply, cancelled, fetch, reports, starts, sets>>

\* WindDownEnds without its st.wg.Wait().
WindDownUnwaited ==
  /\ actor = "windDown"
  /\ errOpen' = FALSE /\ actor' = "exited"
  /\ UNCHANGED <<running, inFlight, revision, getFrame, frame, ticker,
                 notifyStopped, stopped, wg, ctxDone, msg, call, reply,
                 cancelled, fetch, reports, starts, sets>>

WindDownEnds ==
  /\ actor = "windDown" /\ wg = 0
  /\ errOpen' = FALSE /\ actor' = "exited"
  /\ UNCHANGED <<running, inFlight, revision, getFrame, frame, ticker,
                 notifyStopped, stopped, wg, ctxDone, msg, call, reply,
                 cancelled, fetch, reports, starts, sets>>

-----------------------------------------------------------------------------
Start  == StartRefused \/ StartWaited \/ StartFetched \/ StartSet
Stop   == StopIdle \/ StopBegin \/ StopWaited \/ StopFetched \/ StopCommit
SetFun == SetNil \/ SetStoppedRun \/ SetWaited \/ SetFetchedOld \/ SetFetchedNew

\* A handler runs by itself until the actor is back at its select.
Handler == Start \/ Stop \/ SetFun \/ SetTicker \/ WindDownEnds

Next ==
  \/ Handler \/ TickerClosed \/ WindDown \/ WriteFails \/ ParentDone
  \/ \E c \in Clients :
       \/ \E op \in Used, f \in Funcs \cup {NoFunc} : Invoke(c, op, f)
       \/ Close(c) \/ CloseReturn(c)
  \/ \E p \in Callers : Receive(p) \/ Return(p) \/ Abandon(p)
  \/ \E r \in Watchers : Cancel(r) \/ WatcherStops(r) \/ WatcherLeaves(r)
  \/ \E g \in Fetchers : Tick(g) \/ FetchReturns(g) \/ DrawFrame(g) \/ FetchDropped(g)
  \/ \E r \in reports : ReportError(r) \/ ReportTimeout(r)

Spec == Init /\ [][Next]_vars

\* What each goroutine does on its own, whatever the others do.
CallerStep(p) ==
  \/ Receive(p) \/ Return(p) \/ Abandon(p)
  \/ p \in Clients /\ CloseReturn(p)
  \/ p \in Watchers /\ (WatcherStops(p) \/ WatcherLeaves(p))
FetchStep(g) == FetchReturns(g) \/ DrawFrame(g) \/ FetchDropped(g)

\* A goroutine that can go on does: FrameFuncs and the wrapped writer return.
\* A Go select picks at random among its ready cases and a channel serves its
\* senders in order, so no sender, and not the end of st.ctx, is passed over
\* for ever: strong fairness.
Fairness ==
  /\ WF_vars(Handler) /\ SF_vars(WindDown)
  /\ \A p \in Callers : SF_vars(CallerStep(p))
  /\ \A g \in Fetchers : SF_vars(FetchStep(g))
  /\ \A r \in 0 .. MaxStarts : SF_vars(ReportError(r))

FairSpec == Spec /\ Fairness

-----------------------------------------------------------------------------
(* Properties. *)

Handling == Ops \cup {"startFetch", "startSet", "stopWait", "stopFetch",
                      "stopCommit", "setFetchOld", "setFetchNew"}

Calls    == [at : {"idle", "sending", "waiting", "closing", "watching"},
             op : Ops \cup {"none"}, run : 0 .. MaxStarts, fn : Funcs \cup {NoFunc}]
Messages == [op : Ops \cup {"none"}, from : Callers \cup {NoCaller},
             run : 0 .. MaxStarts, fn : Funcs \cup {NoFunc}]
Fetches  == [at : {"idle", "fetching", "sending"}, rev : Nat,
             fn : Funcs \cup {NoFunc}]

\* The types of the state.
TypeOK ==
  /\ running \in BOOLEAN /\ inFlight \in BOOLEAN /\ errOpen \in BOOLEAN
  /\ ctxDone \in BOOLEAN
  /\ revision \in Nat /\ wg \in Int /\ starts \in 0 .. MaxStarts /\ sets \in Nat
  /\ getFrame \in Funcs /\ frame \in Funcs \cup {NoFunc} /\ ticker \in {"live", "off"}
  /\ notifyStopped \in 0 .. MaxStarts /\ stopped \subseteq Starts
  /\ cancelled \subseteq Starts /\ reports \subseteq 0 .. MaxStarts
  /\ actor \in Handling \cup {"select", "windDown", "exited"}
  /\ msg \in Messages /\ call \in [Callers -> Calls]
  /\ reply \in [Callers -> {"none", "nil", "error", "already"}]
  /\ fetch \in [Fetchers -> Fetches]

ActorFetching == actor \in {"startFetch", "stopFetch", "setFetchOld", "setFetchNew"}

\* FrameFuncs are never called concurrently with one another: neither by two
\* ticks nor by a tick and a Start, StopNoClear or SetFrame, across runs, so
\* that a FrameFunc may keep state without a lock.
FrameFuncExclusive ==
  \A g \in Fetchers : fetch[g].at = "fetching" =>
    /\ ~ActorFetching
    /\ \A h \in Fetchers \ {g} : fetch[h].at # "fetching"

\* The ticker never wedges: inFlight is only set while a goroutine still owes
\* the actor a drawFrame message, whatever Stop, Start and SetFrame did in
\* the meantime; and it owes at most one.
InFlightIsOwed ==
  /\ inFlight /\ ~ctxDone => \E g \in Fetchers : fetch[g].at # "idle"
  /\ \A g \in Fetchers : fetch[g].at # "idle" =>
       inFlight /\ \A h \in Fetchers \ {g} : fetch[h].at = "idle"

\* No watcher can leak: whatever way a run ends (Stop, a failed draw, a
\* report, SetFrame, Close), the channel its watcher waits on is closed then,
\* and no channel is closed twice, which would panic.
WatcherCanLeave ==
  /\ running <=> notifyStopped # 0
  /\ notifyStopped \notin stopped
  /\ \A r \in Watchers :
       call[r].at = "watching" => r = notifyStopped \/ r \in stopped

\* A Start that reports an error leaves nothing running that its caller does
\* not know of: the run it began is over.
FailedStartIsOver ==
  \A p \in Callers : call[p].op = "start" /\ reply[p] = "error" =>
    call[p].run # notifyStopped

\* After Close no FrameFunc runs, none can report a panic on the closed Err
\* channel, and the spinner is not running.
ClosedIsQuiet ==
  ~errOpen => /\ ~running /\ ~ActorFetching
              /\ \A g \in Fetchers : fetch[g].at # "fetching"

\* A Stop that is answered finds nothing running: no other message slips
\* between its first step and its reply.
StopReplyMeansStopped ==
  [][\A p \in Callers :
       call[p].op \in StopOps /\ reply[p] = "none" /\ reply'[p] # "none"
         => ~running']_vars

\* Every lifecycle call returns, Close included, whoever else is calling.
EveryCallReturns == \A c \in Clients : call[c].at # "idle" ~> call[c].at = "idle"

\* The goroutine of a finished run ends.
WatcherEnds ==
  \A r \in Watchers :
    (call[r].at # "idle" /\ r \in stopped) ~> call[r].at = "idle"

\* Cancelling the context given to Start ends that run.
ContextEndsRun == \A r \in Watchers : r \in cancelled ~> r \in stopped

\* Once the governing context is done, Err() is closed: ranging over it ends.
ErrCloses == ctxDone ~> ~errOpen

\* What the documentation of Start promises, and the code does not: a run
\* lasts until it is stopped or its own ctx is cancelled, so the watcher of
\* an earlier Start never ends it.
OwnContextOnly ==
  [][running /\ ~running' /\ actor \in StopOps /\ msg.from \in Watchers /\ ~ctxDone
       => msg.from = notifyStopped]_vars

-----------------------------------------------------------------------------
(* The abstract specification the goroutines implement. *)

\* What a caller knows of its call: not where the message is.
Seen(p) ==
  CASE call[p].at = "sending" -> [call[p] EXCEPT !.at = "called"]
    [] call[p].at = "waiting" /\ reply[p] = "none" ->
         [call[p] EXCEPT !.at = "called", !.fn = msg.fn]
    [] call[p].at = "waiting" /\ reply[p] # "none" -> [Idle EXCEPT !.at = reply[p]]
    [] OTHER -> Idle

\* A Start takes effect when it is answered, at the end of its set.
Promised == INSTANCE Lifecycle WITH
  run     <- IF actor = "startSet" THEN 0 ELSE notifyStopped,
  over    <- stopped,
  closing <- ctxDone,
  open    <- errOpen,
  asked   <- starts,
  view    <- [p \in Callers |-> Seen(p)],
  orphan  <- IF msg.op # "none" /\ msg.from = NoCaller
               THEN [at |-> "called", op |-> msg.op, run |-> msg.run, fn |-> msg.fn]
               ELSE Idle

\* Lifecycle calls are linearizable: however the calls of the clients, the
\* watchers and Close overlap, and whatever the actor interleaves with them,
\* each call takes effect at one moment between its invocation and its return
\* and answers what that moment gives; ErrClosed comes only after Close.
CallsLinearize == Promised!Spec
=============================================================================
