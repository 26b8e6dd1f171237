----------------------------- MODULE Lifecycle -----------------------------
(***************************************************************************)
(* What the lifecycle calls of a Writer promise, whoever calls and however *)
(* many calls overlap: a call takes effect in one step between its         *)
(* invocation and its return, and its answer tells of that step.  There    *)
(* are no channels, no goroutines and no actor here; module Actor          *)
(* implements this one.                                                    *)
(***************************************************************************)
EXTENDS Naturals

CONSTANTS Callers,   \* whoever calls: clients and watchers
          Funcs,     \* FrameFuncs
          NoFunc     \* a nil FrameFunc

VARIABLES run,       \* the Start whose run is on, 0 when none is
          over,      \* the Starts whose run is over
          getFrame,  \* the FrameFunc that is installed
          closing,   \* Close was called, or the governing context is done
          open,      \* Err() is not closed yet
          asked,     \* how many Starts were called
          view,      \* how each caller sees its own call
          orphan     \* a call its caller gave up that may still take effect

vars == <<run, over, getFrame, closing, open, asked, view, orphan>>

StopOps == {"stop", "stopNoClear"}
SetOps  == {"setFrame", "setFrameNoClear"}
Ops     == {"start", "setTicker"} \cup StopOps \cup SetOps

Idle == [at |-> "idle", op |-> "none", run |-> 0, fn |-> NoFunc]

Init ==
  /\ run = 0 /\ over = {} /\ getFrame \in Funcs /\ closing = FALSE /\ open = TRUE
  /\ asked = 0 /\ view = [p \in Callers |-> Idle] /\ orphan = Idle

-----------------------------------------------------------------------------
(* The caller's side. *)

Call(p) ==
  /\ view[p].at = "idle"
  /\ \E op \in Ops :
       /\ asked' = IF op = "start" THEN asked + 1 ELSE asked
       /\ \E f \in IF op \in SetOps THEN Funcs \cup {NoFunc} ELSE {NoFunc} :
            view' = [view EXCEPT ![p] =
              [at |-> "called", op |-> op, fn |-> f,
               run |-> IF op = "start" THEN asked' ELSE 0]]
  /\ UNCHANGED <<run, over, getFrame, closing, open, orphan>>

Return(p) ==
  /\ view[p].at \in {"nil", "error", "already"}
  /\ view' = [view EXCEPT ![p] = Idle]
  /\ UNCHANGED <<run, over, getFrame, closing, open, asked, orphan>>

\* ErrClosed, and only then: the call was never taken, or is under way, or its
\* answer came too late to be read.
ReturnClosed(p) ==
  /\ closing /\ view[p].at # "idle"
  /\ view' = [view EXCEPT ![p] = Idle]
  /\ orphan' \in {orphan} \cup {v \in {view[p]} : v.at = "called" /\ orphan = Idle}
  /\ UNCHANGED <<run, over, getFrame, closing, open, asked>>

-----------------------------------------------------------------------------
(* The effects.  A call is that of a caller or the orphan. *)

Pending(k) == k.at = "called" /\ (k = orphan \/ \E p \in Callers : view[p] = k)

\* The call is answered: its caller will return r.
Answer(k, r) ==
  \/ k = orphan /\ orphan' = Idle /\ UNCHANGED view
  \/ \E p \in Callers : /\ view[p] = k /\ UNCHANGED orphan
                        /\ view' = [view EXCEPT ![p] = [Idle EXCEPT !.at = r]]

EndRun == run' = 0 /\ over' = over \cup ({run} \ {0})

Keep == UNCHANGED <<closing, open, asked>>

\* A run begins, for a Start that answers nil; a Start that answers an error
\* leaves its run over.
Start(k) ==
  /\ k.op = "start" /\ open /\ Keep /\ UNCHANGED getFrame
  /\ \/ run # 0 /\ Answer(k, "already") /\ UNCHANGED <<run, over>>
     \/ run = 0 /\ Answer(k, "nil") /\ run' = k.run /\ UNCHANGED over
     \/ run = 0 /\ Answer(k, "error") /\ over' = over \cup {k.run} /\ UNCHANGED run

\* Whatever Stop answers, nothing runs when it does.
Stop(k) ==
  /\ k.op \in StopOps /\ run = 0
  /\ \E r \in {"nil", "error"} : Answer(k, r)
  /\ Keep /\ UNCHANGED <<run, over, getFrame>>

\* SetFrame answers nil once the FrameFunc is installed and the run goes on; an
\* error means nil was given, or that the run is over.
SetFrame(k) ==
  /\ k.op \in SetOps /\ Keep
  /\ \/ /\ Answer(k, "nil") /\ k.fn # NoFunc /\ getFrame' = k.fn
        /\ UNCHANGED <<run, over>>
     \/ /\ Answer(k, "error") /\ k.fn # NoFunc /\ run # 0 /\ EndRun
        /\ getFrame' \in {getFrame, k.fn}
     \/ Answer(k, "error") /\ k.fn = NoFunc /\ UNCHANGED <<run, over, getFrame>>

SetTicker(k) ==
  /\ k.op = "setTicker" /\ Answer(k, "nil")
  /\ Keep /\ UNCHANGED <<run, over, getFrame>>

Effect(k) == Pending(k) /\ (Start(k) \/ Stop(k) \/ SetFrame(k) \/ SetTicker(k))

\* A run ends by itself: a stop has begun, or a write to the terminal failed.
RunEnds == /\ run # 0 /\ EndRun
           /\ Keep /\ UNCHANGED <<getFrame, view, orphan>>

Closing == /\ closing' = TRUE
           /\ UNCHANGED <<run, over, getFrame, open, asked, view, orphan>>

Closed == /\ closing /\ run = 0 /\ open' = FALSE
          /\ UNCHANGED <<run, over, getFrame, closing, asked, view, orphan>>

Next ==
  \/ RunEnds \/ Closing \/ Closed \/ Effect(orphan)
  \/ \E p \in Callers : Return(p) \/ ReturnClosed(p) \/ Effect(view[p])
                        \/ Call(p)

Spec == Init /\ [][Next]_vars
=============================================================================
