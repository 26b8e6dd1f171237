----------------------------- MODULE JustStart -----------------------------
(***************************************************************************)
(* JustStart (spinq.go): it folds its options, wraps os.Stdout and         *)
(* os.Stderr (pair.go) in real writers or, where frames do no good, in     *)
(* ones that pass through (writer.go), and starts the spinner, which draws *)
(* the frames of module Frames from then on.  How a run ends after its     *)
(* context, concurrently with other calls, is the subject of module Actor: *)
(* here it is one step.                                                    *)
(***************************************************************************)
EXTENDS Frames

CONSTANTS Contexts,     \* contexts of the caller
          Nil,          \* a nil argument, or a field left unset
          MaxOptions    \* bound: options given to JustStart

ASSUME OptionsAssumption == MaxOptions \in Nat /\ Nil \notin Contexts

VARIABLES env,         \* whether CI is set, and which streams are terminals
          phase,       \* where JustStart is
          opt,         \* opt, the options applied so far
          args,        \* the options given
          want,        \* what they ask for
          pair,        \* the writers: "real" or "plain"
          running,     \* the spinner runs
          cancelled    \* contexts that are cancelled

vars == <<frameVars, env, phase, opt, args, want, pair, running, cancelled>>

\* Default; background is never cancelled.
Default == [context |-> "background", start |-> Nil, ticker |-> "every", frame |-> Nil]

Zero == [context |-> Nil, start |-> Nil, ticker |-> Nil, frame |-> Nil]

Init ==
  /\ env \in [ci : BOOLEAN, out : BOOLEAN, err : BOOLEAN] /\ width \in Widths
  /\ phase = "options" /\ opt = Default /\ args = <<>> /\ want = Zero
  /\ pair = [standard |-> "plain", spinner |-> "plain"]
  /\ running = FALSE /\ cancelled = {}
  /\ f = Join(<<Noop>>, <<>>, FALSE) /\ calls = 0 /\ past = <<>>
  /\ answer = NoFrame /\ shown = NoFrame

-----------------------------------------------------------------------------
(* The options. *)

Given(field, values) == {[set |-> field, to |-> v] : v \in values \cup {Nil}}

Options ==
  Given("context", Contexts) \cup Given("start", Contexts) \cup Given("frame", {"own"})
  \cup Given("ticker", {"every"})
  \cup {[set |-> "options", to |-> o] :
          o \in {Zero} \cup {[Default EXCEPT !.start = c, !.frame = "own"] : c \in Contexts}}

\* With a nil argument these do nothing; the others reset their field.
NoOp(o) == o.set \in {"context", "frame"} /\ o.to = Nil

\* Apply, where no option takes nil for an answer.
ApplyNoNil(o) ==
  IF o.set = "options" THEN o.to
  ELSE IF o.to = Nil THEN opt
  ELSE [opt EXCEPT ![o.set] = o.to]

Apply(o) ==
  IF o.set = "options" THEN o.to
  ELSE IF NoOp(o) THEN opt
  ELSE [opt EXCEPT ![o.set] = o.to]

With(o) ==
  /\ phase = "options" /\ Len(args) < MaxOptions
  /\ opt' = Apply(o) /\ args' = Append(args, o)
  /\ UNCHANGED <<frameVars, env, phase, want, pair, running, cancelled>>

\* What a list of options asks for in a field: the last one that says
\* something of it.
Asked(field) ==
  LET says(o) == \/ o.set = "options"
                 \/ o.set = field /\ (o.to # Nil \/ field \in {"start", "ticker"})
      k       == SelectLastInSeq(args, says)
  IN IF k = 0 THEN Default[field]
     ELSE IF args[k].set = "options" THEN args[k].to[field] ELSE args[k].to

-----------------------------------------------------------------------------
(* WrapOS, WrapFilePair and Start. *)

\* The default template, and FrameFuncs of the caller.
Template(n) ==
  Join(<<Surrounded(Animation("cycle", n, 1)), DurationFrom(-1), Static>>, <<>>, FALSE)

\* RandomOnceEvery draws its first state when it is built.
Drawn(leaf) ==
  {[leaf EXCEPT !.idx = d] : d \in IF leaf.kind = "random" THEN 0 .. leaf.n - 1 ELSE {0}}

Leaves ==
  (UNION {Drawn(Animation(kind, n, m)) : kind \in {"cycle", "random"}, n \in Sizes, m \in Mods})
  \cup {DurationFrom(t) : t \in {-1, MaxTime}} \cup {Leaf("nil", 0, 1), Leaf("caller", 0, 1)}

Own ==
  {Join(<<leaf, Surrounded(Leaf("caller", 0, 1))>>, << <<"divider", 0>> >>, fit) :
     leaf \in Leaves, fit \in BOOLEAN}

\* WrapFilePair, where only the spinner's stream is looked at.
WrapOSUnlooked ==
  IF env.ci \/ ~env.err THEN [standard |-> "plain", spinner |-> "plain"]
  ELSE [standard |-> "plain", spinner |-> "real"]

\* Standard is real too when both streams are terminals.
WrapOS ==
  IF env.ci \/ ~env.err THEN [standard |-> "plain", spinner |-> "plain"]
  ELSE [standard |-> IF env.out THEN "real" ELSE "plain", spinner |-> "real"]

StartContext == IF opt.start = Nil THEN opt.context ELSE opt.start

Wrap ==
  /\ phase = "options" /\ phase' = "wrapped"
  /\ opt' = [opt EXCEPT !.start = StartContext]
  /\ want' = [field \in DOMAIN Default |-> Asked(field)] /\ args' = <<>>
  /\ \E g \in IF opt.frame = Nil THEN {Template(n) : n \in Sizes} ELSE Own :
       f' = g /\ past' = <<>>
  /\ pair' = WrapOS
  /\ UNCHANGED <<calls, answer, shown, width, env, running, cancelled>>

Done(c) == c \in cancelled

\* Start of a plain writer, and of one whose context is done, may do nothing.
\* Otherwise it fetches the first frame, and runs on without one if that is an
\* error.
Start ==
  /\ phase = "wrapped" /\ phase' = "returned"
  /\ \/ /\ pair.spinner = "plain" \/ Done(opt.context)
        /\ UNCHANGED <<frameVars, running>>
     \/ /\ pair.spinner = "real"
        /\ GetFrame
        /\ running' = (cancelled \cap {opt.context, opt.start} = {})
  /\ UNCHANGED <<env, opt, args, want, pair, cancelled>>

Tick ==
  /\ running /\ opt.ticker # Nil
  /\ GetFrame
  /\ UNCHANGED <<env, phase, opt, args, want, pair, running, cancelled>>

\* While nothing runs, nobody asks for the width.
Resize(w) ==
  /\ running /\ Resized(w)
  /\ UNCHANGED <<env, phase, opt, args, want, pair, running, cancelled>>

\* The watcher of Start, or windDown, ends the run.
Cancel(c) ==
  /\ ~Done(c) /\ cancelled' = cancelled \cup {c}
  /\ running' = (running /\ c \notin {opt.context, opt.start})
  /\ UNCHANGED <<frameVars, env, phase, opt, args, want, pair>>

Next ==
  \/ \E o \in Options : With(o)
  \/ Wrap \/ Start \/ Tick
  \/ \E c \in Contexts : Cancel(c)
  \/ \E w \in Widths : Resize(w)

Spec == Init /\ [][Next]_vars

-----------------------------------------------------------------------------
(* Properties. *)

\* The types of the state.
TypeOK ==
  /\ FramesTypeOK /\ running \in BOOLEAN /\ cancelled \subseteq Contexts
  /\ phase \in {"options", "wrapped", "returned"}
  /\ pair \in [standard : {"plain", "real"}, spinner : {"plain", "real"}]
  /\ {opt.context, opt.start, want.context, want.start}
       \subseteq Contexts \cup {Nil, "background"}

\* No frame reaches a pipe, a file or a CI log.  While the spinner runs, the
\* other stream is written in turn with the frames exactly when it is a terminal
\* as well; when it is none, the spinner runs all the same (the comment of
\* WrapOS has it disabled when either stream is not a terminal).
StreamsSafe ==
  /\ shown # NoFrame \/ running => ~env.ci /\ env.err
  /\ running => pair.standard = IF env.out THEN "real" ELSE "plain"
  /\ phase = "returned" /\ ~env.ci /\ env.err => pair.spinner = "real"

\* The contexts the options ask for, and no others, end the spinner JustStart
\* started: the last StartContext, or the last Context when none was given or
\* it was reset, in whatever order they came; it redraws by itself only if the
\* last ticker was not nil, and shows the default template if no FrameFunc was
\* given since.
OptionsApply ==
  /\ phase = "returned" /\ pair.spinner = "real" =>
       (running <=>
          cancelled \cap {want.context, want.start} = {})
  /\ calls > 1 => want.ticker # Nil
  /\ phase # "options" => (want.frame = Nil <=> Len(f.leaves) = 3)
=============================================================================
