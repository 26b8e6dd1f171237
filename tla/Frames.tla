------------------------------- MODULE Frames -------------------------------
(***************************************************************************)
(* FrameFuncs (frame.go): closures that keep state from one call to the    *)
(* next.  The one in use is a Join of leaves, made to fit the terminal by  *)
(* Dynamic and CropToWidth or not; a leaf alone is a Join of one.  Nobody  *)
(* calls it concurrently (module Actor), so that a call is one step.       *)
(*                                                                         *)
(* A frame is a sequence of glyphs <<name, value>>, which take no column   *)
(* (an escape sequence), one, or two.                                      *)
(***************************************************************************)
EXTENDS Integers, FiniteSets, SequencesExt

CONSTANTS Sizes,      \* numbers of states given to Simple and its relatives
          Mods,       \* after how many calls they move on
          Widths,     \* widths of the terminal
          NoFrame,    \* an error instead of a frame
          MaxCalls,   \* bound: calls of the FrameFunc
          MaxTime     \* bound: readings of the timer

\* The names of glyphs.
Names == {"state", "elapsed", "prefix", "suffix", "wide", "escape", "divider"}

ASSUME FramesAssumption ==
  /\ Sizes \subseteq Nat /\ Mods \subseteq Int /\ Widths \subseteq Nat
  /\ MaxCalls \in Nat /\ MaxTime \in Nat
  /\ NoFrame \notin Seq(Names \X Nat)

VARIABLES f,        \* the FrameFunc: its leaves and what they keep
          calls,    \* how often it was called
          past,     \* what the leaves returned in each call, for the properties
          answer,   \* what the last call returned
          shown,    \* the last frame returned
          width     \* the width of the terminal, as getWidth reports it

frameVars == <<f, calls, past, answer, shown, width>>

Takes(g) == CASE g[1] = "escape" -> 0 [] g[1] = "wide" -> 2 [] OTHER -> 1

Columns(frame) ==
  LET upTo[n \in 0 .. Len(frame)] == IF n = 0 THEN 0 ELSE upTo[n - 1] + Takes(frame[n])
  IN upTo[Len(frame)]

-----------------------------------------------------------------------------
(* The leaves. *)

Leaf(kind, n, mod) ==
  [kind |-> kind, n |-> n, mod |-> mod, idx |-> 0, skip |-> 0, start |-> -1,
   around |-> FALSE]

Noop   == Leaf("static", 0, 1)
Static == Leaf("static", 1, 1)

\* Simple, SimpleOnceEvery, Random and RandomOnceEvery of n states.
Animation(kind, n, mod) ==
  IF n = 0 \/ mod <= 0 THEN Noop ELSE IF n = 1 THEN Static ELSE Leaf(kind, n, mod)

\* The start is -1 until it is captured; a StartAt sets it at once.
DurationFrom(t) == [Leaf("duration", 0, 1) EXCEPT !.start = t]

Surrounded(leaf) == [leaf EXCEPT !.around = TRUE]

State(i) == << <<"state", i>> >>

\* What a call of a leaf depends on: a random draw, the timer, the caller.
Inputs(leaf) ==
  CASE leaf.kind = "random"   -> 0 .. leaf.n - 1
    [] leaf.kind = "duration" -> 0 .. MaxTime
    [] leaf.kind = "caller"   -> 0 .. 2
    [] OTHER                  -> {0}

\* Forms a slip could give the definitions below; the properties tell them
\* apart.  Here the animations move on one call late, or one call early, and
\* Duration trusts its timer never to be before the start.
AnimateLate(leaf, next) ==
  LET turn == leaf.mod > 1 /\ leaf.skip > leaf.mod
      i    == IF turn THEN next ELSE leaf.idx
  IN [leaf |-> [leaf EXCEPT !.idx = IF leaf.mod = 1 THEN next ELSE i,
                            !.skip = IF turn THEN 1 ELSE @ + 1],
      frame |-> State(i)]
AnimateEarly(leaf, next) ==
  LET turn == leaf.mod > 1 /\ leaf.skip + 1 = leaf.mod
      i    == IF turn THEN next ELSE leaf.idx
  IN [leaf |-> [leaf EXCEPT !.idx = IF leaf.mod = 1 THEN next ELSE i,
                            !.skip = IF turn THEN 1 ELSE @ + 1],
      frame |-> State(i)]
DurationUnchecked(leaf, now) ==
  LET start == IF leaf.start = -1 THEN now ELSE leaf.start
  IN [leaf |-> [leaf EXCEPT !.start = start], frame |-> << <<"elapsed", now - start>> >>]

\* A cycle: next is the state after the current one, shown for mod calls.
Animate(leaf, next) ==
  LET turn == leaf.mod > 1 /\ leaf.skip = leaf.mod
      i    == IF turn THEN next ELSE leaf.idx
  IN [leaf |-> [leaf EXCEPT !.idx = IF leaf.mod = 1 THEN next ELSE i,
                            !.skip = IF turn THEN 1 ELSE @ + 1],
      frame |-> State(i)]

\* The same with a draw for the next state; Random draws for this call.
AnimateRandom(leaf, draw) ==
  IF leaf.mod = 1 THEN [leaf |-> leaf, frame |-> State(draw)] ELSE Animate(leaf, draw)

Duration(leaf, now) ==
  LET start == IF leaf.start = -1 THEN now ELSE leaf.start
  IN [leaf |-> [leaf EXCEPT !.start = start],
      frame |-> IF now < start THEN <<>> ELSE << <<"elapsed", now - start>> >>]

\* One call of a leaf: what it keeps, and its frame.
Plain(leaf, x) ==
  CASE leaf.kind = "cycle"    -> Animate(leaf, (leaf.idx + 1) % leaf.n)
    [] leaf.kind = "random"   -> AnimateRandom(leaf, x)
    [] leaf.kind = "duration" -> Duration(leaf, x)
    [] leaf.kind = "caller"   ->
         [leaf |-> leaf, frame |-> <<NoFrame, <<>>, << <<"wide", 0>>, <<"escape", 0>> >> >>[x + 1]]
    [] leaf.kind = "static"   ->
         [leaf |-> leaf, frame |-> IF leaf.n = 0 THEN <<>> ELSE State(0)]

Wrapped(leaf, frame) ==
  IF leaf.around /\ frame # NoFrame
    THEN << <<"prefix", 0>> >> \o frame \o << <<"suffix", 0>> >> ELSE frame

Called(leaf, x) ==
  LET p == Plain(leaf, x) IN [p EXCEPT !.frame = Wrapped(leaf, p.frame)]

-----------------------------------------------------------------------------
(* Join, CropToWidth and Dynamic. *)

WithoutNil(leaves) ==
  LET upTo[n \in 0 .. Len(leaves)] ==
        IF n = 0 THEN <<>>
        ELSE IF leaves[n].kind = "nil" THEN upTo[n - 1] ELSE Append(upTo[n - 1], leaves[n])
  IN upTo[Len(leaves)]

\* Join over the leaves that are not nil, of which there is one at least.
Join(leaves, divider, fit) ==
  LET some == WithoutNil(leaves)
  IN [leaves |-> some, cache |-> [i \in DOMAIN some |-> <<>>],
      divider |-> divider, fit |-> fit, width |-> width]

Joined(pieces) ==
  LET upTo[n \in 0 .. Len(pieces)] ==
        IF n = 0 THEN <<>>
        ELSE (IF n = 1 THEN <<>> ELSE upTo[n - 1] \o f.divider) \o pieces[n]
  IN upTo[Len(pieces)]

\* Join that gives up the cached frame of a leaf that fails, and crop that
\* stops at the limit.
CacheBlank(cache, got) ==
  [i \in DOMAIN cache |-> IF got[i].frame = NoFrame THEN <<>> ELSE got[i].frame]
CropShort(w, frame) ==
  LET fits(n) == Columns(SubSeq(frame, 1, n)) <= w
  IN SubSeq(frame, 1, CHOOSE n \in 0 .. Len(frame) :
                        fits(n) /\ (n = Len(frame) \/ ~fits(n + 1)))

Cache(cache, got) ==
  [i \in DOMAIN cache |-> IF got[i].frame = NoFrame THEN cache[i] ELSE got[i].frame]

\* crop: the glyphs up to the limit, and what takes no column after it.
CropStep(w, c, g) ==
  LET fits == Takes(g) = 0 \/ (c.more /\ Columns(c.out) + Takes(g) <= w)
  IN [out |-> IF fits THEN Append(c.out, g) ELSE c.out, more |-> c.more /\ fits]

Crop(w, frame) ==
  LET upTo[n \in 0 .. Len(frame)] ==
        IF n = 0 THEN [out |-> <<>>, more |-> TRUE] ELSE CropStep(w, upTo[n - 1], frame[n])
  IN upTo[Len(frame)].out

\* One call of the FrameFunc, which every tick and lifecycle call makes alike.
GetFrame ==
  /\ calls < MaxCalls /\ calls' = calls + 1
  /\ \E x \in {x \in [DOMAIN f.leaves -> UNION {Inputs(f.leaves[i]) : i \in DOMAIN f.leaves}] :
                 \A i \in DOMAIN f.leaves : x[i] \in Inputs(f.leaves[i])} :
       LET got   == [i \in DOMAIN f.leaves |-> Called(f.leaves[i], x[i])]
           cache == Cache(f.cache, got)
           none  == \A i \in DOMAIN got : got[i].frame = NoFrame
       IN /\ f' = [f EXCEPT !.leaves = [i \in DOMAIN got |-> got[i].leaf],
                            !.cache = cache, !.width = IF f.fit THEN width ELSE @]
          /\ answer' = IF none THEN NoFrame
                       ELSE IF f.fit THEN Crop(f'.width, Joined(cache))
                       ELSE Joined(cache)
          /\ shown' = IF none THEN shown ELSE answer'
          /\ past' = Append(past, [i \in DOMAIN got |-> got[i].frame])
  /\ UNCHANGED width

Resized(w) == width' = w /\ w # width /\ UNCHANGED <<f, calls, past, answer, shown>>

-----------------------------------------------------------------------------
(* Properties. *)

\* The types of the state; no elapsed time is negative.
FramesTypeOK ==
  /\ calls \in 0 .. MaxCalls /\ width \in Widths
  /\ \A g \in (IF shown = NoFrame THEN {} ELSE ToSet(shown)) : g[1] \in Names /\ g[2] \in Nat

\* The last frame a leaf returned, if it ever did.
Latest(i) ==
  LET good == {k \in DOMAIN past : past[k][i] # NoFrame}
  IN IF good = {} THEN <<>> ELSE past[Max(good)][i]

latest == [i \in DOMAIN f.leaves |-> Latest(i)]

\* A cycle shows each of its states for mod calls, in order and from the first,
\* whatever the FrameFuncs joined with it answer and however often Dynamic was
\* rebuilt.
CycleIsRegular ==
  \A i \in DOMAIN f.leaves :
    LET leaf == f.leaves[i]
    IN leaf.kind = "cycle" /\ calls > 0 =>
         latest[i] = Wrapped(leaf, State(((calls - 1) \div leaf.mod) % leaf.n))

\* A random state stays for mod calls: it changes at their multiples only.
DrawIsHeld ==
  [][\A i \in DOMAIN f.leaves :
       f.leaves[i].kind = "random" /\ calls' > calls /\ calls > 0
       /\ latest'[i] # latest[i] => calls % f.leaves[i].mod = 0]_frameVars

\* What is on the screen is the join of the last frame each leaf returned in all
\* the calls so far, those included that fail now, that failed in the first
\* call, or that failed in a call together with all the others.  There is no
\* frame for a call exactly when all of them fail in that call, whatever they
\* returned before (the comment of Join says: in every call so far).
JoinShowsLatest ==
  /\ shown # NoFrame /\ ~f.fit => shown = Joined(latest)
  /\ calls > 0 =>
       (answer = NoFrame <=> \A i \in DOMAIN f.leaves : past[calls][i] = NoFrame)

\* A frame that Dynamic crops fits the terminal of the call, keeps every escape
\* sequence, also of the part that is cut, and is cut only for want of a column.
CroppedToFit ==
  [][calls' > calls /\ f.fit /\ answer' # NoFrame =>
       LET all == Joined(latest')
           escapes(s) == Cardinality({i \in DOMAIN s : s[i][1] = "escape"})
       IN /\ Columns(answer') <= width
          /\ escapes(answer') = escapes(all)
          /\ answer' = all \/ Columns(answer') + 2 > width]_frameVars
=============================================================================
