-------------------------- MODULE LifecycleProofs --------------------------
(***************************************************************************)
(* The goroutines of module Actor implement the promise of module          *)
(* Lifecycle, for any number of clients, Starts and SetFrames: every step  *)
(* of the actor, of a caller or of a fetch goroutine is one step of the    *)
(* promise or leaves what the promise speaks of alone.  What the actor     *)
(* knows of the task it handles comes first (TaskInv), then the callers'   *)
(* steps, then those of the handlers.                                      *)
(***************************************************************************)
EXTENDS ActorProofs

USE BoundsAssumption, CallersAssumption, FuncsAssumption, UsedAssumption

-----------------------------------------------------------------------------
(* The task the actor handles. *)

\* The actor handles a task exactly while it is inside a handler; the handler
\* is that of the task's operation; and a caller whose message was taken and
\* not answered is the sender of that task.  The actor only winds down once
\* st.ctx is done.
TaskInv ==
  /\ msg.op = "none" <=> actor \in {"select", "windDown", "exited"}
  /\ msg.op = "none" => msg.from = NoCaller
  /\ actor \in SetOps \cup {"setTicker"} => msg.op = actor
  /\ actor \in {"setFetchOld", "setFetchNew"} => msg.op \in SetOps /\ running
  /\ actor \in StopOps \cup Stopping => msg.op \in StopOps
  /\ actor \in {"windDown", "exited"} => ctxDone
  /\ \A p \in Callers : call[p].at = "waiting" /\ reply[p] = "none" => msg.from = p

LEMMA TaskInit == Init => TaskInv
<1> SUFFICES ASSUME Init PROVE TaskInv
  OBVIOUS
<1>1. \A p \in Callers : call[p].at = "idle"
  BY DEF Init, Idle
<1> QED BY <1>1 DEF Init, TaskInv, NoMsg, SetOps, StopOps, Stopping

\* Steps that leave the task and its handler alone.
LEMMA TaskFrame ==
  ASSUME TaskInv, UNCHANGED <<actor, msg>>, ctxDone => ctxDone',
         actor = "select" \/ running' = running,
         \A p \in Callers : call'[p].at = "waiting" /\ reply'[p] = "none" =>
                              call[p].at = "waiting" /\ reply[p] = "none"
  PROVE  TaskInv'
BY DEF TaskInv

\* Steps from one blocking point of a handler to the next.
LEMMA TaskMove ==
  ASSUME TaskInv, UNCHANGED <<msg, call, reply, ctxDone>>,
         actor' \notin SetOps \cup StopOps \cup {"setTicker"},
         msg.op = "none" <=> actor' \in {"select", "windDown", "exited"},
         actor' \in {"windDown", "exited"} => ctxDone,
         actor' \in {"setFetchOld", "setFetchNew"} => msg.op \in SetOps /\ running',
         actor' \in Stopping => msg.op \in StopOps
  PROVE  TaskInv'
BY DEF TaskInv

\* Steps that answer the task.
LEMMA TaskAnswer ==
  ASSUME TypeInv, TaskInv, call' = call, ctxDone' = ctxDone,
         NEW r \in {"nil", "error", "already"}, Answer(r)
  PROVE  TaskInv'
<1>1. /\ msg' = NoMsg /\ actor' = "select"
      /\ \A p \in Callers : reply'[p] = IF p = msg.from THEN r ELSE reply[p]
  BY DEF Answer, TypeInv, TypeOK
<1>2. \A p \in Callers : ~(call'[p].at = "waiting" /\ reply'[p] = "none")
  BY <1>1 DEF TaskInv
<1> QED BY <1>1, <1>2 DEF TaskInv, NoMsg, SetOps, StopOps, Stopping

LEMMA TaskHandler == TypeInv /\ RunInv /\ TaskInv /\ Handler => TaskInv'
<1> SUFFICES ASSUME TypeInv, RunInv, TaskInv, Handler PROVE TaskInv'
  OBVIOUS
<1> USE DEF actorVars, actorRest
<1>1. CASE StartRefused \/ StartSet \/ StopIdle \/ StopCommit \/ SetNil
           \/ SetStoppedRun \/ SetFetchedNew \/ SetTicker
  <2>1. /\ UNCHANGED <<call, ctxDone>>
        /\ \E r \in {"nil", "error", "already"} : Answer(r)
    BY <1>1 DEF StartRefused, StartSet, StopIdle, StopCommit, SetNil, SetStoppedRun,
                SetFetchedNew, SetTicker
  <2> QED BY <2>1, TaskAnswer
<1>2. CASE StartWaited \/ (StartFetched /\ actor' = "startSet" /\ UNCHANGED <<msg, reply>>)
  <2>1. /\ UNCHANGED <<msg, call, reply, ctxDone>>
        /\ actor' \in {"startFetch", "startSet"} /\ actor \in {"start", "startFetch"}
    BY <1>2 DEF StartWaited, StartFetched
  <2>2. msg.op # "none"
    BY <2>1 DEF TaskInv
  <2> QED BY <2>1, <2>2, TaskMove DEF SetOps, StopOps, Stopping
<1>3. CASE StartFetched /\ Answer("nil")
  BY <1>3, TaskAnswer DEF StartFetched
<1>4. CASE StopBegin \/ StopWaited \/ StopFetched
  <2>1. /\ UNCHANGED <<msg, call, reply, ctxDone>>
        /\ actor' \in Stopping /\ actor \in StopOps \cup Stopping
    BY <1>4 DEF StopBegin, StopWaited, StopFetched, Stopping
  <2>2. msg.op \in StopOps /\ msg.op # "none"
    BY <2>1 DEF TaskInv, StopOps
  <2> QED BY <2>1, <2>2, TaskMove DEF SetOps, StopOps, Stopping
<1>5. CASE SetWaited \/ SetFetchedOld
  <2>1. /\ UNCHANGED <<msg, call, reply, ctxDone, running>>
        /\ actor' \in {"setFetchOld", "setFetchNew"}
        /\ (actor \in SetOps /\ running) \/ actor = "setFetchOld"
    BY <1>5 DEF SetWaited, SetFetchedOld
  <2>2. msg.op \in SetOps /\ msg.op # "none" /\ running
    BY <2>1 DEF TaskInv, SetOps
  <2> QED BY <2>1, <2>2, TaskMove DEF SetOps, StopOps, Stopping
<1>6. CASE WindDownEnds
  <2>1. msg.op = "none" /\ ctxDone
    BY <1>6 DEF WindDownEnds, TaskInv
  <2> QED BY <1>6, <2>1, TaskMove DEF WindDownEnds, SetOps, StopOps, Stopping
<1> QED BY <1>1, <1>2, <1>3, <1>4, <1>5, <1>6
  DEF Handler, Start, Stop, SetFun, StartFetched

LEMMA TaskStep == TypeInv /\ RunInv /\ TaskInv /\ [Next]_vars => TaskInv'
<1> SUFFICES ASSUME TypeInv, RunInv, TaskInv, [Next]_vars PROVE TaskInv'
  OBVIOUS
<1> USE DEF actorVars, actorRest
<1>0. call \in [Callers -> Calls]
  BY DEF TypeInv, TypeOK
<1>1. CASE Handler
  BY <1>1, TaskHandler
<1>2. CASE TickerClosed \/ WriteFails \/ ParentDone \/ UNCHANGED vars
  BY <1>2, TaskFrame DEF TickerClosed, WriteFails, ParentDone, vars
<1>3. CASE WindDown
  <2>1. msg.op = "none"
    BY <1>3 DEF WindDown, TaskInv
  <2> QED BY <1>3, <2>1, TaskMove DEF WindDown, SetOps, StopOps, Stopping
<1>4. ASSUME NEW c \in Clients,
             \/ \E op \in Used, f \in Funcs \cup {NoFunc} : Invoke(c, op, f)
             \/ Close(c) \/ CloseReturn(c)
      PROVE  TaskInv'
  <2>1. c \in Callers
    BY DEF Callers
  <2>2. /\ UNCHANGED <<actor, msg, running, reply>> /\ (ctxDone => ctxDone')
        /\ \A p \in Callers : call'[p].at = "waiting" => call[p].at = "waiting"
    BY <1>0, <1>4, <2>1 DEF Invoke, Close, CloseReturn, Idle, Calls
  <2> QED BY <2>2, TaskFrame
<1>5. ASSUME NEW p \in Callers, Receive(p) PROVE TaskInv'
  <2>1. call[p].op \in Ops /\ actor = "select"
    BY <1>5 DEF Receive, TypeInv
  <2>2. \A q \in Callers \ {p} : ~(call[q].at = "waiting" /\ reply[q] = "none")
    BY <2>1, CallersAssumption DEF TaskInv
  <2>3. \A q \in Callers : q # p => call'[q] = call[q]
    BY <1>0, <1>5 DEF Receive
  <2>4. /\ msg' = [op |-> call[p].op, from |-> p, run |-> call[p].run, fn |-> call[p].fn]
        /\ actor' = call[p].op /\ UNCHANGED <<reply, running, ctxDone>>
    BY <1>5 DEF Receive
  <2>5. /\ call[p].op \notin {"none", "select", "windDown", "exited", "setFetchOld",
                              "setFetchNew"} \cup Stopping
        /\ call[p].op \in SetOps \cup {"setTicker"} => call[p].op \notin StopOps
    BY <2>1 DEF Ops, StopOps, SetOps, Stopping
  <2> QED BY <2>2, <2>3, <2>4, <2>5 DEF TaskInv
<1>6. ASSUME NEW p \in Callers, Return(p) PROVE TaskInv'
  <2>1. /\ call[p].at = "waiting" /\ reply[p] # "none"
        /\ UNCHANGED <<actor, msg, running, ctxDone>>
        /\ \A q \in Callers : q # p => reply'[q] = reply[q]
    BY <1>6 DEF Return, TypeInv, TypeOK
  <2>2. \A q \in Callers : call'[q].at = "waiting" => q # p /\ call[q].at = "waiting"
    <3> DEFINE back == [call EXCEPT ![p] = Idle]
    <3>1. back \in [Callers -> Calls] /\ back[p] = Idle
          /\ \A q \in Callers : q # p => back[q] = call[q]
      BY <1>0, CallsType
    <3>2. CASE call' = back
      BY <3>1, <3>2 DEF Idle
    <3>3. CASE call' = [back EXCEPT ![call[p].run].at = "watching"]
      <4>1. \A q \in Callers : q # call[p].run => call'[q] = back[q]
        BY <3>1, <3>3
      <4>2. call[p].run \in Callers => call'[call[p].run].at = "watching"
        <5>1. SUFFICES ASSUME call[p].run \in Callers
                       PROVE  [back[call[p].run] EXCEPT !.at = "watching"].at = "watching"
          BY <3>1, <3>3
        <5>2. back[call[p].run] \in Calls
          BY <3>1, <5>1
        <5> QED BY <5>2 DEF Calls
      <4> QED BY <3>1, <4>1, <4>2 DEF Idle
    <3> QED BY <1>6, <3>2, <3>3 DEF Return
  <2> QED BY <2>1, <2>2, TaskFrame
<1>7. ASSUME NEW p \in Callers, Abandon(p) PROVE TaskInv'
  <2>1. /\ msg'.op = msg.op /\ UNCHANGED <<actor, running, ctxDone>>
        /\ msg'.from = IF msg.from = p THEN NoCaller ELSE msg.from
    BY <1>7 DEF Abandon, TypeInv, TypeOK, Messages
  <2>2. /\ \A q \in Callers : q # p => call'[q] = call[q] /\ reply'[q] = reply[q]
        /\ call'[p] = Idle
    BY <1>0, <1>7 DEF Abandon, TypeInv, TypeOK
  <2>3. \A q \in Callers : call'[q].at = "waiting" /\ reply'[q] = "none" =>
          q # p /\ msg.from = q
    BY <2>2 DEF TaskInv, Idle
  <2> QED BY <2>1, <2>3 DEF TaskInv
<1>8. ASSUME NEW r \in Watchers, Cancel(r) \/ WatcherStops(r) \/ WatcherLeaves(r)
      PROVE  TaskInv'
  <2>1. /\ UNCHANGED <<actor, msg, running, reply, ctxDone>>
        /\ r \in Callers
    BY <1>8 DEF Cancel, WatcherStops, WatcherLeaves, Callers
  <2>2. \A p \in Callers : call'[p].at = "waiting" => call[p].at = "waiting"
    <3>1. /\ Idle.at = "idle"
          /\ [Idle EXCEPT !.at = "sending", !.op = "stop"].at = "sending"
      BY DEF Idle
    <3> QED BY <1>0, <1>8, <2>1, <3>1 DEF Cancel, WatcherStops, WatcherLeaves
  <2> QED BY <2>1, <2>2, TaskFrame
<1>9. ASSUME NEW g \in Fetchers,
             Tick(g) \/ FetchReturns(g) \/ FetchDropped(g) \/ DrawFrame(g)
      PROVE  TaskInv'
  BY <1>9, TaskFrame DEF Tick, FetchReturns, FetchDropped, DrawFrame
<1>10. ASSUME NEW r \in reports, ReportError(r) \/ ReportTimeout(r) PROVE TaskInv'
  BY <1>10, TaskFrame DEF ReportError, ReportTimeout
<1> QED BY <1>1, <1>2, <1>3, <1>4, <1>5, <1>6, <1>7, <1>8, <1>9, <1>10 DEF Next

-----------------------------------------------------------------------------
(* The promise's variables, as the actor's state gives them (the INSTANCE  *)
(* at the end of module Actor), and what a caller sees.                    *)

\* The run the promise speaks of: a Start takes effect at the end of its set.
RunOf == IF actor = "startSet" THEN 0 ELSE notifyStopped

View == [p \in Callers |-> Seen(p)]

\* The task the actor handles, as its caller sees it.
Task == [at |-> "called", op |-> msg.op, run |-> msg.run, fn |-> msg.fn]

Orphan == IF msg.op # "none" /\ msg.from = NoCaller THEN Task ELSE Idle

\* A step of the promise, or none.
PromisedStep == [Promised!Next]_(Promised!vars)

\* Promised!vars under the names above.
LEMMA Stutter ==
  ASSUME UNCHANGED <<RunOf, stopped, getFrame, ctxDone, errOpen, starts, View, Orphan>>
  PROVE  PromisedStep
BY DEF PromisedStep, Promised!vars, RunOf, View, Orphan, Task

\* Changing one field of a call, or two.
LEMMA OneField ==
  ASSUME NEW k \in Calls, NEW a
  PROVE  [k EXCEPT !.at = a] = [at |-> a, op |-> k.op, run |-> k.run, fn |-> k.fn]
BY DEF Calls

LEMMA TwoFields ==
  ASSUME NEW k \in Calls, NEW a, NEW f
  PROVE  [k EXCEPT !.at = a, !.fn = f] = [at |-> a, op |-> k.op, run |-> k.run, fn |-> f]
<1> DEFINE e == [k EXCEPT !.at = a, !.fn = f]
<1>1. e.at = a /\ e.op = k.op /\ e.run = k.run /\ e.fn = f
  BY DEF Calls
<1>2. e \in [at : {a}, op : {k.op}, run : {k.run}, fn : {f}]
  BY DEF Calls
<1>3. e = [at |-> e.at, op |-> e.op, run |-> e.run, fn |-> e.fn]
  <2> HIDE DEF e
  <2> QED BY <1>2
<1> QED BY <1>1, <1>3

\* What a caller sees depends on how far its call went.
LEMMA SeenCases ==
  ASSUME TypeInv, TaskInv, NEW p \in Callers
  PROVE  /\ call[p].at \in {"idle", "closing", "watching"} => Seen(p) = Idle
         /\ call[p].at = "sending" =>
              Seen(p) = [at |-> "called", op |-> call[p].op, run |-> call[p].run,
                         fn |-> call[p].fn]
         /\ call[p].at = "waiting" /\ reply[p] = "none" =>
              /\ Seen(p) = [at |-> "called", op |-> call[p].op, run |-> call[p].run,
                            fn |-> msg.fn]
              /\ msg.from = p /\ Orphan = Idle
         /\ call[p].at = "waiting" /\ reply[p] # "none" =>
              Seen(p) = [Idle EXCEPT !.at = reply[p]]
<1>1. call[p] \in Calls
  BY DEF TypeInv, TypeOK
<1>2. [call[p] EXCEPT !.at = "called"] =
        [at |-> "called", op |-> call[p].op, run |-> call[p].run, fn |-> call[p].fn]
  BY <1>1, OneField, Zenon
<1>4. [call[p] EXCEPT !.at = "called", !.fn = msg.fn] =
        [at |-> "called", op |-> call[p].op, run |-> call[p].run, fn |-> msg.fn]
  BY <1>1, TwoFields, Zenon
<1>3. call[p].at = "waiting" /\ reply[p] = "none" => msg.from = p /\ Orphan = Idle
  BY CallersAssumption DEF TaskInv, Orphan
<1> QED BY <1>2, <1>3, <1>4 DEF Seen

\* A caller whose call and reply stay as they are sees no difference, unless it
\* waits for the answer of a message that changes.
LEMMA SeenFrame ==
  ASSUME NEW q \in Callers, call'[q] = call[q], reply'[q] = reply[q],
         msg'.fn = msg.fn \/ ~(call[q].at = "waiting" /\ reply[q] = "none")
  PROVE  Seen(q)' = Seen(q)
BY DEF Seen

LEMMA ViewFrame ==
  ASSUME UNCHANGED <<call, reply, msg>>
  PROVE  View' = View /\ Orphan' = Orphan /\ Task' = Task
BY DEF View, Orphan, Task, Seen

LEMMA ViewUpdate ==
  ASSUME NEW p \in Callers, \A q \in Callers : q # p => Seen(q)' = Seen(q)
  PROVE  View' = [View EXCEPT ![p] = Seen(p)']
BY DEF View

\* Answering the task is answering the call of the caller who waits for it, or
\* the call its caller gave up.
LEMMA AnswerTask ==
  ASSUME TypeInv, RunInv, TaskInv, call' = call, msg.op # "none",
         NEW r \in {"nil", "error", "already"}, Answer(r)
  PROVE  Promised!Pending(Task) /\ Promised!Answer(Task, r)
<1>1. /\ msg' = NoMsg /\ Orphan' = Idle
      /\ \A p \in Callers : reply'[p] = IF p = msg.from THEN r ELSE reply[p]
  BY CallersAssumption DEF Answer, TypeInv, TypeOK, Orphan, NoMsg
<1>2. \A q \in Callers : q # msg.from => Seen(q)' = Seen(q)
  BY <1>1, SeenFrame DEF TaskInv
<1>3. CASE msg.from = NoCaller
  <2>1. Orphan = Task
    BY <1>3 DEF Orphan
  <2>2. View' = View
    BY <1>2, <1>3, CallersAssumption DEF View
  <2> QED BY <1>1, <2>1, <2>2
      DEF Promised!Pending, Promised!Answer, Promised!Idle, Idle, Orphan, View, Task
<1>4. ASSUME NEW p \in Callers, msg.from = p
      PROVE  Promised!Pending(Task) /\ Promised!Answer(Task, r)
  <2>1. /\ call[p].at = "waiting" /\ reply[p] = "none"
        /\ call[p].op = msg.op /\ call[p].run = msg.run
    BY <1>4, CallersAssumption DEF RunInv, MsgInv
  <2>2. Seen(p) = Task /\ Orphan = Idle
    BY <1>4, <2>1, SeenCases DEF Task
  <2>3. Seen(p)' = [Idle EXCEPT !.at = r]
    BY <1>1, <1>4, <2>1 DEF Seen
  <2>4. View' = [View EXCEPT ![p] = [Idle EXCEPT !.at = r]]
    BY <1>2, <1>4, <2>3, ViewUpdate
  <2>5. View[p] = Task
    BY <1>4, <2>2 DEF View
  <2>6. Promised!Pending(Task)
    BY <2>5 DEF Promised!Pending, View, Task
  <2>7. Promised!Answer(Task, r)
    BY <1>1, <2>2, <2>4, <2>5 DEF Promised!Answer, Promised!Idle, Idle, Orphan, View, Task
  <2> QED BY <2>6, <2>7
<1> QED BY <1>3, <1>4 DEF TypeInv, TypeOK, Messages

\* An effect of the task is a step of the promise.
LEMMA EffectOfTask ==
  ASSUME Promised!Pending(Task),
         \/ Promised!Start(Task) \/ Promised!Stop(Task)
         \/ Promised!SetFrame(Task) \/ Promised!SetTicker(Task)
  PROVE  PromisedStep
<1>1. Promised!Effect(Task)
  BY DEF Promised!Effect
<1>2. Task = Orphan \/ \E p \in Callers : View[p] = Task
  BY DEF Promised!Pending, Orphan, View, Task
<1>3. Promised!Effect(Orphan) \/ \E p \in Callers : Promised!Effect(View[p])
  BY <1>1, <1>2
<1> QED BY <1>3 DEF PromisedStep, Promised!Next, Orphan, View, Task

-----------------------------------------------------------------------------
(* The callers' steps. *)

\* A client invokes an operation, or a watcher its Stop.
LEMMA CallRefines ==
  ASSUME NEW p \in Callers, Seen(p) = Idle,
         NEW op \in Ops, NEW f \in IF op \in SetOps THEN Funcs \cup {NoFunc} ELSE {NoFunc},
         starts' = IF op = "start" THEN starts + 1 ELSE starts,
         Seen(p)' = [at |-> "called", op |-> op, fn |-> f,
                     run |-> IF op = "start" THEN starts' ELSE 0],
         \A q \in Callers : q # p => Seen(q)' = Seen(q),
         UNCHANGED <<RunOf, stopped, getFrame, ctxDone, errOpen, Orphan>>
  PROVE  PromisedStep
<1>1. View' = [View EXCEPT ![p] = Seen(p)'] /\ View[p].at = "idle"
  BY ViewUpdate DEF View, Idle
<1>2. Promised!Ops = Ops /\ Promised!SetOps = SetOps
  BY DEF Promised!Ops, Promised!SetOps, Promised!StopOps, Ops, SetOps, StopOps
<1>3. Promised!Call(p)
  BY <1>1, <1>2 DEF Promised!Call, View, RunOf, Orphan, Task
<1> QED BY <1>3 DEF PromisedStep, Promised!Next

LEMMA InvokeRefines ==
  ASSUME TypeInv, TaskInv, NEW c \in Clients, NEW op \in Used, NEW f \in Funcs \cup {NoFunc},
         Invoke(c, op, f)
  PROVE  PromisedStep
<1>1. c \in Callers /\ op \in Ops
  BY UsedAssumption DEF Callers
<1>2. /\ call[c].at = "idle" /\ call \in [Callers -> Calls]
      /\ call' = [call EXCEPT ![c] =
           [at |-> "sending", op |-> op, fn |-> f, run |-> IF op = "start" THEN starts + 1 ELSE 0]]
      /\ UNCHANGED <<actorVars, ctxDone, actor, msg, reply>>
  BY DEF Invoke, TypeInv, TypeOK
<1>3. Seen(c) = Idle
  BY <1>1, <1>2, SeenCases
<1>4. Seen(c)' = [at |-> "called", op |-> op, fn |-> f,
                  run |-> IF op = "start" THEN starts + 1 ELSE 0]
  BY <1>1, <1>2 DEF Seen
<1>5. \A q \in Callers : q # c => Seen(q)' = Seen(q)
  BY <1>2, SeenFrame
<1>6. /\ starts' = IF op = "start" THEN starts + 1 ELSE starts
      /\ f \in IF op \in SetOps THEN Funcs \cup {NoFunc} ELSE {NoFunc}
  BY DEF Invoke
<1>7. UNCHANGED <<RunOf, stopped, getFrame, ctxDone, errOpen, Orphan>>
  BY <1>2 DEF actorVars, RunOf, Orphan, Task
<1> QED BY <1>1, <1>3, <1>4, <1>5, <1>6, <1>7, CallRefines

LEMMA WatcherStopsRefines ==
  ASSUME TypeInv, TaskInv, NEW r \in Watchers, WatcherStops(r)
  PROVE  PromisedStep
<1>1. r \in Callers /\ "stop" \in Ops /\ "stop" \notin SetOps
  BY DEF Callers, Ops, StopOps, SetOps
<1>2. /\ call[r].at = "watching" /\ call \in [Callers -> Calls]
      /\ call' = [call EXCEPT ![r] = [Idle EXCEPT !.at = "sending", !.op = "stop"]]
      /\ UNCHANGED <<actorVars, ctxDone, actor, msg, reply, starts>>
  BY DEF WatcherStops, TypeInv, TypeOK
<1>3. Seen(r) = Idle
  BY <1>1, <1>2, SeenCases
<1>4. Seen(r)' = [at |-> "called", op |-> "stop", fn |-> NoFunc, run |-> 0]
  <2>1. call'[r] = [at |-> "sending", op |-> "stop", run |-> 0, fn |-> NoFunc]
    BY <1>1, <1>2 DEF Idle
  <2> QED BY <2>1 DEF Seen
<1>5. \A q \in Callers : q # r => Seen(q)' = Seen(q)
  BY <1>2, SeenFrame
<1>6. UNCHANGED <<RunOf, stopped, getFrame, ctxDone, errOpen, Orphan>>
  BY <1>2 DEF actorVars, RunOf, Orphan, Task
<1> QED BY <1>1, <1>2, <1>3, <1>4, <1>5, <1>6, CallRefines

LEMMA ReceiveRefines ==
  ASSUME TypeInv, RunInv, TaskInv, NEW p \in Callers, Receive(p)
  PROVE  PromisedStep
<1>1. /\ call[p].at = "sending" /\ call \in [Callers -> Calls] /\ actor = "select"
      /\ call' = [call EXCEPT ![p] = [call[p] EXCEPT !.at = "waiting", !.fn = NoFunc]]
      /\ msg' = [op |-> call[p].op, from |-> p, run |-> call[p].run, fn |-> call[p].fn]
      /\ actor' = call[p].op /\ call[p].op \in Ops
      /\ UNCHANGED <<actorVars, ctxDone, reply, starts>>
  BY DEF Receive, TypeInv, TypeOK, actorRest
<1>2. \A q \in Callers : ~(call[q].at = "waiting" /\ reply[q] = "none")
  BY <1>1, CallersAssumption DEF TaskInv
<1>3. \A q \in Callers : q # p => Seen(q)' = Seen(q)
  BY <1>1, <1>2, SeenFrame
<1>4. Seen(p)' = Seen(p)
  <2>1. Seen(p) = [at |-> "called", op |-> call[p].op, run |-> call[p].run, fn |-> call[p].fn]
    BY <1>1, SeenCases
  <2>2. call'[p] = [at |-> "waiting", op |-> call[p].op, run |-> call[p].run, fn |-> NoFunc]
    BY <1>1, TwoFields
  <2>3. reply[p] = "none"
    BY <1>1 DEF RunInv, CallInv, TypeInv, TypeOK
  <2>5. call'[p] \in Calls
    BY <1>1, CallsType
  <2>4. [call'[p] EXCEPT !.at = "called", !.fn = msg'.fn] =
          [at |-> "called", op |-> call[p].op, run |-> call[p].run, fn |-> call[p].fn]
    <3>1. [call'[p] EXCEPT !.at = "called", !.fn = msg'.fn] =
            [at |-> "called", op |-> call'[p].op, run |-> call'[p].run, fn |-> msg'.fn]
      BY <2>5, TwoFields, Zenon
    <3>2. call'[p].op = call[p].op /\ call'[p].run = call[p].run /\ msg'.fn = call[p].fn
      BY <1>1, <2>2
    <3> QED BY <3>1, <3>2
  <2> QED BY <1>1, <2>1, <2>2, <2>3, <2>4 DEF Seen
<1>5. View' = View
  BY <1>3, <1>4 DEF View
<1>6. Orphan' = Orphan
  BY <1>1, CallersAssumption DEF Orphan, TaskInv
<1>7. UNCHANGED <<RunOf, stopped, getFrame, ctxDone, errOpen, starts>>
  BY <1>1 DEF actorVars, RunOf, Ops, StopOps, SetOps
<1> QED BY <1>5, <1>6, <1>7, Stutter

LEMMA ReturnRefines ==
  ASSUME TypeInv, RunInv, TaskInv, NEW p \in Callers, Return(p)
  PROVE  PromisedStep
<1>1. /\ call[p].at = "waiting" /\ reply[p] # "none" /\ call \in [Callers -> Calls]
      /\ reply[p] \in {"nil", "error", "already"}
      /\ \A q \in Callers : q # p => reply'[q] = reply[q]
      /\ UNCHANGED <<actorVars, ctxDone, actor, msg, starts>>
  BY DEF Return, TypeInv, TypeOK
<1>0. PICK r : r = call[p].run
  OBVIOUS
<1> DEFINE back == [call EXCEPT ![p] = Idle]
<1>2. back \in [Callers -> Calls] /\ back[p] = Idle
      /\ \A q \in Callers : q # p => back[q] = call[q]
  BY <1>1, CallsType
<1>3. \/ call' = back
      \/ call[p].op = "start" /\ call' = [back EXCEPT ![r] = [back[r] EXCEPT !.at = "watching"]]
  BY <1>0 DEF Return
<1>4. Seen(p)' = Idle /\ \A q \in Callers : q # p => Seen(q)' = Seen(q)
  <2>1. CASE call' = back
    <3>1. Seen(p)' = Idle
      BY <1>2, <2>1 DEF Seen, Idle
    <3>2. \A q \in Callers : q # p => Seen(q)' = Seen(q)
      BY <1>1, <1>2, <2>1, SeenFrame
    <3> QED BY <3>1, <3>2
  <2>2. CASE call[p].op = "start" /\ call' = [back EXCEPT ![r] = [back[r] EXCEPT !.at = "watching"]]
    <3>1. StartInv(p) /\ r \in Watchers /\ r \in Callers /\ r # p
      BY <1>0, <2>2, CallersAssumption
      DEF RunInv, CallInv, StartInv, TypeInv, TypeOK, Starts, Watchers, Callers
    <3>2. call[r].at = "idle" /\ Seen(r) = Idle
      BY <1>0, <3>1, SeenCases DEF StartInv
    <3>3. call'[r].at = "watching" /\ \A q \in Callers : q # r => call'[q] = back[q]
      BY <1>2, <2>2, <3>1 DEF Calls
    <3>4. Seen(r)' = Idle
      BY <3>3 DEF Seen
    <3>5. Seen(p)' = Idle
      BY <1>2, <3>1, <3>3 DEF Seen, Idle
    <3>6. \A q \in Callers : q # p /\ q # r => Seen(q)' = Seen(q)
      BY <1>1, <1>2, <3>3, SeenFrame
    <3> QED BY <3>2, <3>4, <3>5, <3>6
  <2> QED BY <1>3, <2>1, <2>2
<1>5. View' = [View EXCEPT ![p] = Idle]
  BY <1>4, ViewUpdate
<1>6. View[p].at = reply[p]
  <2>1. Seen(p) = [Idle EXCEPT !.at = reply[p]]
    BY <1>1, SeenCases
  <2> QED BY <2>1 DEF View, Idle
<1>7. UNCHANGED <<RunOf, stopped, getFrame, ctxDone, errOpen, starts, Orphan>>
  BY <1>1 DEF actorVars, RunOf, Orphan, Task
<1>8. Promised!Return(p)
  BY <1>1, <1>5, <1>6, <1>7
  DEF Promised!Return, Promised!Idle, Idle, View, RunOf, Orphan, Task
<1> QED BY <1>8 DEF PromisedStep, Promised!Next
LEMMA AbandonRefines ==
  ASSUME TypeInv, RunInv, TaskInv, NEW p \in Callers, Abandon(p)
  PROVE  PromisedStep
<1>1. /\ call[p].at \in {"sending", "waiting"} /\ ctxDone
      /\ call' = [call EXCEPT ![p] = Idle] /\ reply' = [reply EXCEPT ![p] = "none"]
      /\ msg' = IF msg.from = p THEN [msg EXCEPT !.from = NoCaller] ELSE msg
      /\ call \in [Callers -> Calls] /\ msg \in Messages
      /\ reply \in [Callers -> {"none", "nil", "error", "already"}]
      /\ UNCHANGED <<actorVars, ctxDone, actor, starts>>
  BY DEF Abandon, TypeInv, TypeOK
<1>2. /\ msg'.op = msg.op /\ msg'.run = msg.run /\ msg'.fn = msg.fn
      /\ msg'.from = IF msg.from = p THEN NoCaller ELSE msg.from
  BY <1>1 DEF Messages
<1>3. Seen(p)' = Idle
  BY <1>1 DEF Seen, Idle
<1>4. \A q \in Callers : q # p => Seen(q)' = Seen(q)
  BY <1>1, <1>2, SeenFrame
<1>5. View' = [View EXCEPT ![p] = Idle]
  BY <1>3, <1>4, ViewUpdate
<1>6. View[p].at # "idle"
  <2>1. CASE call[p].at = "sending" \/ reply[p] = "none"
    <3>1. Seen(p).at = "called"
      BY <1>1, <2>1, SeenCases
    <3> QED BY <3>1 DEF View
  <2>2. CASE call[p].at = "waiting" /\ reply[p] # "none"
    <3>1. Seen(p).at = reply[p]
      BY <2>2, SeenCases DEF Idle
    <3> QED BY <1>1, <3>1 DEF View
  <2> QED BY <1>1, <2>1, <2>2
<1>7. \/ Orphan' = Orphan
      \/ Orphan' = View[p] /\ View[p].at = "called" /\ Orphan = Idle
  <2>1. CASE msg.from = p
    <3>1. /\ call[p].at = "waiting" /\ reply[p] = "none" /\ msg.op # "none"
          /\ call[p].op = msg.op /\ call[p].run = msg.run
      BY <2>1, CallersAssumption DEF RunInv, MsgInv, TaskInv
    <3>2. View[p] = Task /\ Orphan = Idle
      BY <3>1, SeenCases DEF View, Task
    <3>3. Orphan' = Task
      BY <1>2, <2>1, <3>1 DEF Orphan, Task
    <3> QED BY <3>2, <3>3 DEF Task
  <2>2. CASE msg.from # p
    BY <1>1, <2>2 DEF Orphan, Task
  <2> QED BY <2>1, <2>2
<1>8. UNCHANGED <<RunOf, stopped, getFrame, ctxDone, errOpen, starts>>
  BY <1>1 DEF actorVars, RunOf
<1>9. Promised!ReturnClosed(p)
  BY <1>1, <1>5, <1>6, <1>7, <1>8
  DEF Promised!ReturnClosed, Promised!Idle, Idle, View, RunOf, Orphan, Task
<1> QED BY <1>9 DEF PromisedStep, Promised!Next

\* Steps a caller does not see: it leaves Close, its context is cancelled, its
\* watcher leaves.
LEMMA UnseenRefines ==
  ASSUME TypeInv, TaskInv, NEW p \in Callers,
         \/ CloseReturn(p) \/ Cancel(p) \/ WatcherLeaves(p)
  PROVE  PromisedStep
<1>1. /\ call \in [Callers -> Calls]
      /\ call' = call \/ (call[p].at \in {"closing", "watching"} /\ call' = [call EXCEPT ![p] = Idle])
      /\ UNCHANGED <<actorVars, ctxDone, actor, msg, reply, starts>>
  BY DEF CloseReturn, Cancel, WatcherLeaves, TypeInv, TypeOK
<1>2. \A q \in Callers : Seen(q)' = Seen(q)
  <2>1. CASE call' = call
    BY <1>1, <2>1, SeenFrame
  <2>2. CASE call[p].at \in {"closing", "watching"} /\ call' = [call EXCEPT ![p] = Idle]
    <3>1. Seen(p) = Idle
      BY <2>2, SeenCases
    <3>2. Seen(p)' = Idle
      BY <1>1, <2>2 DEF Seen, Idle
    <3> QED BY <1>1, <2>2, <3>1, <3>2, SeenFrame
  <2> QED BY <1>1, <2>1, <2>2
<1>3. UNCHANGED <<RunOf, stopped, getFrame, ctxDone, errOpen, starts, View, Orphan>>
  BY <1>1, <1>2 DEF actorVars, RunOf, Orphan, Task, View
<1> QED BY <1>3, Stutter

LEMMA ClosingRefines ==
  ASSUME TypeInv, TaskInv, ParentDone \/ \E c \in Clients : Close(c)
  PROVE  PromisedStep
<1>1. /\ ctxDone' = TRUE /\ UNCHANGED <<actorVars, actor, msg, reply, starts>>
      /\ \A q \in Callers : \/ call'[q] = call[q]
                            \/ call[q].at = "idle" /\ call'[q].at = "closing"
  BY DEF ParentDone, Close, TypeInv, TypeOK, Calls
<1>2. ASSUME NEW q \in Callers PROVE Seen(q)' = Seen(q)
  <2>1. CASE call'[q] = call[q]
    BY <1>1, <2>1, SeenFrame
  <2>2. CASE call[q].at = "idle" /\ call'[q].at = "closing"
    BY <2>2, SeenCases DEF Seen
  <2> QED BY <1>1, <2>1, <2>2
<1>3. UNCHANGED <<RunOf, stopped, getFrame, errOpen, starts, View, Orphan>>
  BY <1>1, <1>2 DEF actorVars, RunOf, Orphan, Task, View
<1>4. Promised!Closing
  BY <1>1, <1>3 DEF Promised!Closing, RunOf, View, Orphan, Task
<1> QED BY <1>4 DEF PromisedStep, Promised!Next

-----------------------------------------------------------------------------
(* The actor's steps. *)

\* Steps that neither answer nor end a run.
LEMMA QuietRefines ==
  ASSUME UNCHANGED <<notifyStopped, stopped, getFrame, ctxDone, errOpen, starts, call, reply, msg>>,
         actor = "startSet" <=> actor' = "startSet"
  PROVE  PromisedStep
BY ViewFrame, Stutter DEF RunOf

\* The run ends and nobody is answered.
LEMMA EndRefines ==
  ASSUME StopRun \/ KeepRun, actor # "startSet", actor' # "startSet",
         UNCHANGED <<getFrame, ctxDone, errOpen, starts, call, reply, msg>>
  PROVE  PromisedStep
<1>1. UNCHANGED <<View, Orphan>>
  BY ViewFrame
<1>2. CASE UNCHANGED <<notifyStopped, stopped>>
  BY <1>1, <1>2, Stutter DEF RunOf
<1>3. CASE StopRun /\ notifyStopped = 0
  <2>1. UNCHANGED <<notifyStopped, stopped>>
    BY <1>3 DEF StopRun
  <2> QED BY <1>2, <2>1
<1>4. CASE StopRun /\ notifyStopped # 0
  <2>1. Promised!RunEnds
    BY <1>1, <1>4
    DEF Promised!RunEnds, Promised!EndRun, Promised!Keep, StopRun, RunOf, View, Orphan, Task
  <2> QED BY <2>1 DEF PromisedStep, Promised!Next
<1> QED BY <1>2, <1>3, <1>4 DEF KeepRun

LEMMA StartRefines ==
  ASSUME TypeInv, FetchInv, RunInv, TaskInv, Start
  PROVE  PromisedStep
<1> USE DEF actorVars, actorRest
<1>1. /\ actor \in {"start", "startFetch", "startSet"} /\ UNCHANGED <<call, ctxDone, errOpen, starts, getFrame>>
      /\ errOpen /\ msg.op = "start" /\ Task.op = "start" /\ Task.run = msg.run
  <2>1. actor \in {"start", "startFetch", "startSet"}
        /\ UNCHANGED <<call, ctxDone, errOpen, starts, getFrame>>
    BY DEF Start, StartRefused, StartWaited, StartFetched, StartSet
  <2> QED BY <2>1 DEF FetchInv, RunInv, MsgInv, Task
<1>2. ASSUME NEW r \in {"nil", "error", "already"}, Answer(r)
      PROVE  Promised!Pending(Task) /\ Promised!Answer(Task, r) /\ actor' = "select"
  BY <1>1, <1>2, AnswerTask DEF Answer
<1>3. CASE StartRefused
  <2>1. /\ Answer("already") /\ actor = "start" /\ notifyStopped # 0
        /\ UNCHANGED <<notifyStopped, stopped>>
    BY <1>3 DEF StartRefused, RunInv, CountInv
  <2>2. Promised!Start(Task)
    BY <1>1, <1>2, <2>1 DEF Promised!Start, Promised!Keep, RunOf
  <2> QED BY <1>2, <2>1, <2>2, EffectOfTask
<1>4. CASE StartWaited
  BY <1>4, QuietRefines DEF StartWaited
<1>5. CASE StartFetched
  <2>1. /\ actor = "startFetch" /\ notifyStopped' = msg.run /\ UNCHANGED stopped
        /\ notifyStopped = 0
    BY <1>5 DEF StartFetched, RunInv, MsgInv, CountInv
  <2>2. CASE actor' = "startSet" /\ UNCHANGED <<msg, reply>>
    BY <1>1, <2>1, <2>2, ViewFrame, Stutter DEF RunOf
  <2>3. CASE Answer("nil")
    <3>1. Promised!Start(Task)
      BY <1>1, <1>2, <2>1, <2>3 DEF Promised!Start, Promised!Keep, RunOf
    <3> QED BY <1>2, <2>3, <3>1, EffectOfTask
  <2> QED BY <1>5, <2>2, <2>3 DEF StartFetched
<1>6. CASE StartSet
  <2>1. /\ actor = "startSet" /\ notifyStopped = msg.run /\ msg.run # 0
        /\ (KeepRun /\ Answer("nil")) \/ (StopRun /\ Answer("error"))
    BY <1>1, <1>6 DEF StartSet, RunInv, MsgInv
  <2>2. CASE KeepRun /\ Answer("nil")
    <3>1. Promised!Start(Task)
      BY <1>1, <1>2, <2>1, <2>2 DEF Promised!Start, Promised!Keep, RunOf, KeepRun
    <3> QED BY <1>2, <2>2, <3>1, EffectOfTask
  <2>3. CASE StopRun /\ Answer("error")
    <3>1. Promised!Start(Task)
      BY <1>1, <1>2, <2>1, <2>3 DEF Promised!Start, Promised!Keep, RunOf, StopRun
    <3> QED BY <1>2, <2>3, <3>1, EffectOfTask
  <2> QED BY <2>1, <2>2, <2>3
<1> QED BY <1>3, <1>4, <1>5, <1>6 DEF Start
LEMMA StopRefines ==
  ASSUME TypeInv, RunInv, StopInv, TaskInv, Stop
  PROVE  PromisedStep
<1> USE DEF actorVars, actorRest
<1>1. /\ actor \in StopOps \cup Stopping
      /\ UNCHANGED <<call, ctxDone, errOpen, starts, getFrame>>
  BY DEF Stop, StopIdle, StopBegin, StopWaited, StopFetched, StopCommit, Stopping
<1>2. /\ actor # "startSet" /\ Task.op = msg.op /\ msg.op # "none"
      /\ msg.op \in Promised!StopOps
  BY <1>1 DEF TaskInv, StopOps, Stopping, Task, Promised!StopOps
<1>3. CASE StopBegin \/ StopWaited \/ StopFetched
  <2>1. /\ UNCHANGED <<msg, reply>> /\ actor' # "startSet"
        /\ StopRun \/ KeepRun
    BY <1>3 DEF StopBegin, StopWaited, StopFetched, KeepRun
  <2> QED BY <1>1, <1>2, <2>1, EndRefines
<1>4. CASE StopIdle \/ StopCommit
  <2>1. /\ notifyStopped = 0 /\ UNCHANGED <<notifyStopped, stopped>>
        /\ \E r \in {"nil", "error"} : Answer(r)
    BY <1>4 DEF StopIdle, StopCommit, StopInv, Stopping, RunInv, CountInv
  <2>2. PICK r \in {"nil", "error"} : Answer(r)
    BY <2>1
  <2>3. Promised!Pending(Task) /\ Promised!Answer(Task, r) /\ actor' = "select"
    BY <1>1, <1>2, <2>2, AnswerTask DEF Answer
  <2>4. Promised!Stop(Task)
    BY <1>1, <1>2, <2>1, <2>3 DEF Promised!Stop, Promised!Keep, RunOf
  <2> QED BY <2>3, <2>4, EffectOfTask
<1> QED BY <1>3, <1>4 DEF Stop

LEMMA SetFunRefines ==
  ASSUME TypeInv, RunInv, TaskInv, SetFun
  PROVE  PromisedStep
<1> USE DEF actorVars, actorRest
<1>1. /\ actor \in SetOps \cup {"setFetchOld", "setFetchNew"}
      /\ UNCHANGED <<call, ctxDone, errOpen, starts>>
  BY DEF SetFun, SetNil, SetStoppedRun, SetWaited, SetFetchedOld, SetFetchedNew
<1>2. /\ actor # "startSet" /\ Task.op = msg.op /\ Task.fn = msg.fn /\ msg.op # "none"
      /\ msg.op \in Promised!SetOps
  BY <1>1 DEF TaskInv, SetOps, Task, Promised!SetOps
<1>3. ASSUME NEW r \in {"nil", "error", "already"}, Answer(r)
      PROVE  Promised!Pending(Task) /\ Promised!Answer(Task, r) /\ actor' = "select"
  BY <1>1, <1>2, <1>3, AnswerTask DEF Answer
<1>4. CASE SetWaited \/ SetFetchedOld
  BY <1>2, <1>4, QuietRefines DEF SetWaited, SetFetchedOld
<1>5. CASE SetNil
  <2>1. Promised!SetFrame(Task)
    BY <1>1, <1>2, <1>3, <1>5 DEF SetNil, Promised!SetFrame, Promised!Keep, RunOf
  <2> QED BY <1>3, <1>5, <2>1, EffectOfTask DEF SetNil
<1>6. CASE SetStoppedRun
  <2>1. Promised!SetFrame(Task)
    BY <1>1, <1>2, <1>3, <1>6
    DEF SetStoppedRun, Install, Promised!SetFrame, Promised!Keep, RunOf
  <2> QED BY <1>3, <1>6, <2>1, EffectOfTask DEF SetStoppedRun
<1>7. CASE SetFetchedNew
  <2>1. /\ actor = "setFetchNew" /\ notifyStopped # 0 /\ msg.fn # NoFunc
        /\ \/ KeepRun /\ Answer("nil") /\ getFrame' = msg.fn
           \/ StopRun /\ Answer("error") /\ getFrame' \in {getFrame, msg.fn}
    BY <1>7, FuncsAssumption
    DEF SetFetchedNew, Install, TypeInv, TaskInv, RunInv, CountInv
  <2>2. CASE KeepRun /\ Answer("nil") /\ getFrame' = msg.fn
    <3>1. Promised!SetFrame(Task)
      BY <1>1, <1>2, <1>3, <2>1, <2>2
      DEF KeepRun, Promised!SetFrame, Promised!Keep, RunOf
    <3> QED BY <1>3, <2>2, <3>1, EffectOfTask
  <2>3. CASE StopRun /\ Answer("error") /\ getFrame' \in {getFrame, msg.fn}
    <3>1. Promised!SetFrame(Task)
      BY <1>1, <1>2, <1>3, <2>1, <2>3
      DEF StopRun, Promised!SetFrame, Promised!EndRun, Promised!Keep, RunOf
    <3> QED BY <1>3, <2>3, <3>1, EffectOfTask
  <2> QED BY <2>1, <2>2, <2>3
<1> QED BY <1>4, <1>5, <1>6, <1>7 DEF SetFun

LEMMA SetTickerRefines ==
  ASSUME TypeInv, RunInv, TaskInv, SetTicker
  PROVE  PromisedStep
<1>1. /\ actor = "setTicker" /\ Answer("nil")
      /\ UNCHANGED <<call, ctxDone, errOpen, starts, getFrame, notifyStopped, stopped>>
  BY DEF SetTicker, actorRest
<1>2. msg.op = "setTicker" /\ Task.op = "setTicker"
  BY <1>1 DEF TaskInv, Task
<1>3. Promised!Pending(Task) /\ Promised!Answer(Task, "nil") /\ actor' = "select"
  BY <1>1, <1>2, AnswerTask DEF Answer
<1>4. Promised!SetTicker(Task)
  BY <1>1, <1>2, <1>3 DEF Promised!SetTicker, Promised!Keep, RunOf
<1> QED BY <1>3, <1>4, EffectOfTask

LEMMA WindDownEndsRefines ==
  ASSUME TypeInv, FetchInv, RunInv, TaskInv, WindDownEnds
  PROVE  PromisedStep
<1>1. /\ actor = "windDown" /\ actor' = "exited" /\ errOpen' = FALSE
      /\ UNCHANGED <<call, reply, msg, ctxDone, starts, getFrame, notifyStopped, stopped>>
  BY DEF WindDownEnds
<1>2. ctxDone /\ notifyStopped = 0
  BY <1>1 DEF TaskInv, FetchInv, RunInv, CountInv
<1>3. UNCHANGED <<View, Orphan>>
  BY <1>1, ViewFrame
<1>4. Promised!Closed
  BY <1>1, <1>2, <1>3 DEF Promised!Closed, RunOf, View, Orphan, Task
<1> QED BY <1>4 DEF PromisedStep, Promised!Next

-----------------------------------------------------------------------------

LEMMA InitRefines == Init => Promised!Init
<1> SUFFICES ASSUME Init PROVE Promised!Init
  OBVIOUS
<1>1. \A p \in Callers : Seen(p) = Idle
  BY DEF Init, Seen, Idle
<1> QED BY <1>1 DEF Init, NoMsg, Promised!Init, Promised!Idle, Idle

LEMMA StepRefines ==
  TypeInv /\ FetchInv /\ RunInv /\ StopInv /\ TaskInv /\ [Next]_vars => PromisedStep
<1> SUFFICES ASSUME TypeInv, FetchInv, RunInv, StopInv, TaskInv, [Next]_vars
             PROVE  PromisedStep
  OBVIOUS
<1> USE DEF actorVars, actorRest
<1>1. CASE Handler
  BY <1>1, StartRefines, StopRefines, SetFunRefines, SetTickerRefines, WindDownEndsRefines
  DEF Handler
<1>2. CASE TickerClosed \/ WriteFails \/ UNCHANGED vars
  BY <1>2, QuietRefines DEF TickerClosed, WriteFails, vars
<1>3. CASE WindDown
  BY <1>3, EndRefines DEF WindDown
<1>4. CASE ParentDone \/ \E c \in Clients : Close(c)
  BY <1>4, ClosingRefines
<1>5. ASSUME NEW c \in Clients,
             (\E op \in Used, f \in Funcs \cup {NoFunc} : Invoke(c, op, f)) \/ CloseReturn(c)
      PROVE  PromisedStep
  BY <1>5, InvokeRefines, UnseenRefines DEF Callers
<1>6. ASSUME NEW p \in Callers, Receive(p) \/ Return(p) \/ Abandon(p) PROVE PromisedStep
  BY <1>6, ReceiveRefines, ReturnRefines, AbandonRefines
<1>7. ASSUME NEW r \in Watchers, Cancel(r) \/ WatcherStops(r) \/ WatcherLeaves(r)
      PROVE  PromisedStep
  BY <1>7, WatcherStopsRefines, UnseenRefines DEF Callers
<1>8. ASSUME NEW g \in Fetchers, Tick(g) \/ FetchReturns(g) \/ FetchDropped(g)
      PROVE  PromisedStep
  BY <1>8, QuietRefines DEF Tick, FetchReturns, FetchDropped
<1>9. ASSUME NEW g \in Fetchers, DrawFrame(g) PROVE PromisedStep
  <2>1. /\ actor = "select" /\ actor' = "select"
        /\ StopRun \/ KeepRun
        /\ UNCHANGED <<getFrame, ctxDone, errOpen, starts, call, reply, msg>>
    BY <1>9 DEF DrawFrame
  <2> QED BY <2>1, EndRefines
<1>10. ASSUME NEW r \in reports, ReportError(r) \/ ReportTimeout(r) PROVE PromisedStep
  BY <1>10, EndRefines, QuietRefines DEF ReportError, ReportTimeout
<1> QED BY <1>1, <1>2, <1>3, <1>4, <1>5, <1>6, <1>7, <1>8, <1>9, <1>10 DEF Next

\* Lifecycle calls are linearizable, however many goroutines call and whatever
\* the actor interleaves: each call takes effect at one moment between its
\* invocation and its return, and is answered what that moment gives.
THEOREM Linearizable == Spec => CallsLinearize
<1>1. Init => Promised!Init
  BY InitRefines
<1>2. TypeInv /\ FetchInv /\ RunInv /\ StopInv /\ TaskInv /\ [Next]_vars
        => [Promised!Next]_(Promised!vars)
  BY StepRefines DEF PromisedStep
<1> QED BY <1>1, <1>2, TypeInit, TypeStep, FetchInit, FetchStepInv, RunInit, RunStepInv,
           StopInit, StopStep, TaskInit, TaskStep, PTL
        DEF Spec, CallsLinearize, Promised!Spec
=============================================================================
