-------------------------- MODULE JustStartProofs --------------------------
(***************************************************************************)
(* A theorem about JustStart, for any options, contexts and FrameFuncs:    *)
(* what a FrameFunc answers does not matter, only who may ask it.          *)
(***************************************************************************)
EXTENDS JustStart, FramesProofs

\* A real writer was made for every terminal and for nothing else, with its
\* partner; frames are asked for, and contexts end a run, only once the writers
\* are chosen.
Inv ==
  /\ pair.spinner \in {"plain", "real"}
  /\ pair.spinner = "real" =>
       ~env.ci /\ env.err /\ pair.standard = IF env.out THEN "real" ELSE "plain"
  /\ phase # "options" /\ ~env.ci /\ env.err => pair.spinner = "real"
  /\ shown # NoFrame \/ running => pair.spinner = "real" /\ phase # "options"

\* Nothing is shown and nothing runs before JustStart.
LEMMA InitInv == Init => Inv
BY DEF Init, Inv

\* The writers are chosen once, before anything is drawn.
LEMMA WrapInv ==
  ASSUME Inv, Wrap
  PROVE  Inv'
<1>1. /\ phase = "options" /\ UNCHANGED <<shown, running, env>>
      /\ pair' = WrapOS
  BY DEF Wrap
<1>2. shown = NoFrame /\ ~running
  BY <1>1 DEF Inv
<1>3. /\ WrapOS.spinner \in {"plain", "real"}
      /\ WrapOS.spinner = "real" =>
           ~env.ci /\ env.err /\ WrapOS.standard = IF env.out THEN "real" ELSE "plain"
      /\ ~env.ci /\ env.err => WrapOS.spinner = "real"
  BY DEF WrapOS
<1> QED BY <1>1, <1>2, <1>3 DEF Inv

\* Start leaves a plain writer alone.
LEMMA StartInv ==
  ASSUME Inv, Start
  PROVE  Inv'
<1>1. phase = "wrapped" /\ phase' = "returned" /\ UNCHANGED <<env, pair>>
  BY DEF Start
<1>2. CASE pair.spinner = "real"
  BY <1>1, <1>2 DEF Inv
<1>3. CASE pair.spinner # "real"
  <2>1. ~running /\ shown = NoFrame /\ pair.spinner = "plain"
    BY <1>3 DEF Inv
  <2>2. UNCHANGED <<running, shown>>
    BY <2>1 DEF Start, frameVars
  <2> QED BY <1>1, <2>1, <2>2 DEF Inv
<1> QED BY <1>2, <1>3

\* No other step touches the writers.
LEMMA NextInv ==
  ASSUME Inv, [Next]_vars
  PROVE  Inv'
<1>1. ASSUME NEW o \in Options, With(o) PROVE Inv'
  BY <1>1 DEF With, frameVars, Inv
<1>2. CASE Wrap
  BY <1>2, WrapInv
<1>3. CASE Start
  BY <1>3, StartInv
<1>4. CASE Tick
  BY <1>4 DEF Tick, Inv
<1>5. ASSUME NEW c \in Contexts, Cancel(c) PROVE Inv'
  BY <1>5 DEF Cancel, frameVars, Inv
<1>6. ASSUME NEW w \in Widths, Resize(w) PROVE Inv'
  BY <1>6 DEF Resize, Resized, Inv
<1>7. CASE UNCHANGED vars
  BY <1>7 DEF vars, frameVars, Inv
<1> QED BY <1>1, <1>2, <1>3, <1>4, <1>5, <1>6, <1>7 DEF Next

\* Frames are drawn on a terminal only, next to a partner that is written in
\* turn with them exactly when it is a terminal as well; a terminal of the
\* spinner's own is enough for them (WrapFilePair and WrapOS).
THEOREM StreamsAreSafe == Spec => []StreamsSafe
<1>1. Inv => StreamsSafe
  BY DEF Inv, StreamsSafe
<1> QED BY <1>1, InitInv, NextInv, PTL DEF Spec
-----------------------------------------------------------------------------
(* The options. *)

Fields == {"context", "start", "ticker", "frame"}

\* An option says something of a field, and what.
Says(o, field) ==
  \/ o.set = "options"
  \/ o.set = field /\ (o.to # Nil \/ field \in {"start", "ticker"})
Said(o, field) == IF o.set = "options" THEN o.to[field] ELSE o.to

\* The last of a list of options that says something of a field.
Saying(s, field) == {i \in 1 .. Len(s) : Says(s[i], field)}
AskedIn(s, field) ==
  IF Saying(s, field) = {} THEN Default[field] ELSE Said(s[LastOf(Saying(s, field))], field)

\* The body of Asked, for the list s.
AskedBy(s, field) ==
  LET I == {i \in 1 .. Len(s) : \/ s[i].set = "options"
                                \/ s[i].set = field /\ (s[i].to # Nil \/ field \in {"start", "ticker"})}
      k == IF I # {} THEN LastOf(I) ELSE 0
  IN IF k = 0 THEN Default[field]
     ELSE IF s[k].set = "options" THEN s[k].to[field] ELSE s[k].to

\* What is asked for in a field is what the last option says that says
\* something of it.
LEMMA AskedIs ==
  ASSUME NEW s, Len(s) \in Nat, NEW field
  PROVE  AskedBy(s, field) = AskedIn(s, field)
<1> DEFINE I == {i \in 1 .. Len(s) : \/ s[i].set = "options"
                                     \/ s[i].set = field /\ (s[i].to # Nil \/ field \in {"start", "ticker"})}
           k == IF I # {} THEN LastOf(I) ELSE 0
<1>1. AskedBy(s, field) = IF k = 0 THEN Default[field]
                          ELSE IF s[k].set = "options" THEN s[k].to[field] ELSE s[k].to
  BY Zenon DEF AskedBy
<1>2. I = Saying(s, field)
  BY Zenon DEF Saying, Says
<1>3. I # {} => k \in I
  BY Greatest
<1>4. I # {} <=> k # 0
  BY <1>3
<1> QED BY <1>1, <1>2, <1>4 DEF AskedIn, Said

OptType ==
  [context : Contexts \cup {Nil, "background"}, start : Contexts \cup {Nil, "background"},
   ticker : {"every", Nil}, frame : {"own", Nil}]

\* The options are of one of these forms.
LEMMA OptionsAre ==
  ASSUME NEW o \in Options
  PROVE  \/ o.set = "options" /\ o.to \in OptType
         \/ o.set \in {"context", "start"} /\ o.to \in Contexts \cup {Nil}
         \/ o.set = "ticker" /\ o.to \in {"every", Nil}
         \/ o.set = "frame" /\ o.to \in {"own", Nil}
<1>1. Zero \in OptType /\ \A c \in Contexts : [Default EXCEPT !.start = c, !.frame = "own"] \in OptType
  BY DEF Zero, Default, OptType
<1>2. CASE o \in Given("context", Contexts) \cup Given("start", Contexts)
  BY <1>2 DEF Given
<1>3. CASE o \in Given("frame", {"own"})
  BY <1>3 DEF Given
<1>4. CASE o \in Given("ticker", {"every"})
  BY <1>4 DEF Given
<1>5. CASE o \in {[set |-> "options", to |-> x] :
                    x \in {Zero} \cup {[Default EXCEPT !.start = c, !.frame = "own"] : c \in Contexts}}
  <2>1. PICK x \in {Zero} \cup {[Default EXCEPT !.start = c, !.frame = "own"] : c \in Contexts} :
          o = [set |-> "options", to |-> x]
    BY <1>5, Zenon
  <2>2. x \in OptType
    BY <1>1, <2>1, Zenon
  <2> HIDE DEF OptType
  <2> QED BY <2>1, <2>2
<1> QED BY <1>2, <1>3, <1>4, <1>5, Zenon DEF Options

\* One option more has the last word on the fields it says something of, and
\* on no other.
LEMMA AskedAppend ==
  ASSUME args \in Seq(Options), NEW o \in Options, args' = Append(args, o), NEW field \in Fields
  PROVE  Asked(field)' = IF Says(o, field) THEN Said(o, field) ELSE Asked(field)
<1> DEFINE n == Len(args)
           s == args'
           I == Saying(args, field)
           J == Saying(s, field)
<1>1. /\ n \in Nat /\ Len(s) = n + 1 /\ s[n + 1] = o
      /\ \A i \in 1 .. n : s[i] = args[i]
  OBVIOUS
<1>2. Asked(field)' = AskedIn(s, field)
  <2>1. Asked(field)' = AskedBy(s, field)
    BY Zenon DEF Asked, AskedBy, SelectLastInSeq, Max, LastOf
  <2> QED BY <1>1, <2>1, AskedIs
<1>3. Asked(field) = AskedIn(args, field)
  <2>1. Asked(field) = AskedBy(args, field)
    BY Zenon DEF Asked, AskedBy, SelectLastInSeq, Max, LastOf
  <2> QED BY <1>1, <2>1, AskedIs
<1>4. I \subseteq 1 .. n /\ J \subseteq 1 .. n + 1
  BY <1>1 DEF Saying
<1>5. CASE Says(o, field)
  <2>1. n + 1 \in J
    BY <1>1, <1>5 DEF Saying
  <2>2. LastOf(J) \in J /\ LastOf(J) >= n + 1
    <3>1. n + 1 \in Nat /\ J # {}
      BY <1>1, <2>1
    <3> DEFINE m == n + 1
    <3> HIDE DEF m, J
    <3>2. m \in Nat /\ m \in J /\ J \subseteq 1 .. m
      BY <1>4, <2>1, <3>1 DEF m
    <3>3. LastOf(J) \in J /\ \A y \in J : LastOf(J) >= y
      BY <3>1, <3>2, Greatest
    <3> QED BY <3>2, <3>3 DEF m
  <2>3. LastOf(J) = n + 1
    BY <1>1, <1>4, <2>2
  <2> QED BY <1>1, <1>2, <1>5, <2>1, <2>3 DEF AskedIn
<1>6. CASE ~Says(o, field)
  <2>1. J = I
    BY <1>1, <1>6 DEF Saying
  <2>2. I # {} => LastOf(I) \in 1 .. n
    <3> HIDE DEF I, n
    <3> QED BY <1>1, <1>4, Greatest
  <2> QED BY <1>1, <1>2, <1>3, <1>6, <2>1, <2>2 DEF AskedIn
<1> QED BY <1>5, <1>6
-----------------------------------------------------------------------------
(* The FrameFuncs JustStart makes. *)

\* A leaf that has not been called keeps its pace.
LEMMA FreshLeaf ==
  ASSUME NEW leaf \in LeafType, leaf.kind \in {"cycle", "random"} => leaf.n > 0,
         leaf.skip = 0, leaf.kind = "cycle" => leaf.idx = 0
  PROVE  leaf \in Fresh
<1> SUFFICES ASSUME leaf.kind \in {"cycle", "random"} PROVE Pace(leaf, 0)
  BY DEF Fresh, LeafInv
<1>1. leaf.n \in Nat \ {0} /\ leaf.mod \in Nat \ {0}
  BY DEF LeafType
<1>2. 0 % leaf.n = 0
  <2>1. Split(0, leaf.n, 0, 0)
    BY <1>1 DEF Split
  <2> QED BY <1>1, <2>1, Divided
<1>3. 0 = 0 * leaf.mod + leaf.skip /\ leaf.skip \in 0 .. leaf.mod
  BY <1>1
<1> QED BY <1>2, <1>3 DEF Pace

\* What Drawn makes of a leaf.
LEMMA DrawnLeaf ==
  ASSUME NEW leaf \in LeafType, NEW drawn \in Drawn(leaf)
  PROVE  \E d \in Nat : /\ drawn = [leaf EXCEPT !.idx = d] /\ drawn \in LeafType
                        /\ drawn.kind = leaf.kind /\ drawn.n = leaf.n /\ drawn.skip = leaf.skip
                        /\ drawn.idx = d /\ (leaf.kind # "random" => d = 0)
<1>1. PICK d \in IF leaf.kind = "random" THEN 0 .. leaf.n - 1 ELSE {0} :
        drawn = [leaf EXCEPT !.idx = d]
  BY Zenon DEF Drawn
<1>2. d \in Nat /\ (leaf.kind # "random" => d = 0)
  BY <1>1
<1> QED BY <1>1, <1>2 DEF LeafType

\* The leaves the constructors build, and those around them.
LEMMA FreshLeaves ==
  /\ Noop \in Fresh /\ Static \in Fresh /\ Leaf("caller", 0, 1) \in Fresh
  /\ \A t \in Nat \cup {-1} : DurationFrom(t) \in Fresh
  /\ \A kind \in {"cycle", "random"}, n \in Nat, mod \in Int :
       Animation(kind, n, mod) \in Fresh /\ Drawn(Animation(kind, n, mod)) \subseteq Fresh
  /\ \A leaf \in Fresh : Surrounded(leaf) \in Fresh
<1>1. Noop \in Fresh /\ Static \in Fresh /\ Leaf("caller", 0, 1) \in Fresh
  <2>1. Noop \in LeafType /\ Static \in LeafType /\ Leaf("caller", 0, 1) \in LeafType
    BY DEF Noop, Static, Leaf, LeafType
  <2>2. /\ Noop.kind = "static" /\ Static.kind = "static" /\ Leaf("caller", 0, 1).kind = "caller"
        /\ Noop.skip = 0 /\ Static.skip = 0 /\ Leaf("caller", 0, 1).skip = 0
    BY DEF Noop, Static, Leaf
  <2> QED BY <2>1, <2>2, FreshLeaf
<1>2. ASSUME NEW t \in Nat \cup {-1} PROVE DurationFrom(t) \in Fresh
  <2> DEFINE old == Leaf("duration", 0, 1)
             new == DurationFrom(t)
  <2>1. old \in LeafType /\ old.kind = "duration" /\ old.skip = 0
    BY DEF Leaf, LeafType
  <2>2. new = [old EXCEPT !.start = t]
    BY DEF DurationFrom
  <2> HIDE DEF old, new
  <2>3. new \in LeafType /\ new.kind = "duration" /\ new.skip = 0
    BY <2>1, <2>2 DEF LeafType
  <2>4. new \in Fresh
    BY <2>3, FreshLeaf
  <2> QED BY <2>4 DEF new
<1>3. ASSUME NEW kind \in {"cycle", "random"}, NEW n \in Nat, NEW mod \in Int
      PROVE  Animation(kind, n, mod) \in Fresh /\ Drawn(Animation(kind, n, mod)) \subseteq Fresh
  <2> DEFINE leaf == Animation(kind, n, mod)
  <2>1. leaf \in LeafType /\ leaf.skip = 0 /\ leaf.idx = 0
        /\ (leaf.kind \in {"cycle", "random"} => leaf.n > 0)
    <3>1. CASE n = 0 \/ mod <= 0
      BY <3>1 DEF Animation, Noop, Leaf, LeafType
    <3>2. CASE n # 0 /\ mod > 0 /\ n = 1
      BY <3>2 DEF Animation, Static, Leaf, LeafType
    <3>3. CASE n # 0 /\ mod > 0 /\ n # 1
      BY <3>3 DEF Animation, Leaf, LeafType
    <3> QED BY <3>1, <3>2, <3>3
  <2> HIDE DEF leaf
  <2>2. leaf \in Fresh
    BY <2>1, FreshLeaf
  <2>3. ASSUME NEW drawn \in Drawn(leaf) PROVE drawn \in Fresh
    <3>1. PICK d \in Nat : /\ drawn \in LeafType /\ drawn.idx = d
                           /\ drawn.kind = leaf.kind /\ drawn.n = leaf.n /\ drawn.skip = leaf.skip
                           /\ (leaf.kind # "random" => d = 0)
      BY <2>1, DrawnLeaf
    <3> QED BY <2>1, <3>1, FreshLeaf
  <2> QED BY <2>2, <2>3 DEF leaf
<1>4. ASSUME NEW leaf \in Fresh PROVE Surrounded(leaf) \in Fresh
  <2> DEFINE new == Surrounded(leaf)
  <2>1. leaf \in LeafType /\ LeafInv(leaf, 0)
    BY DEF Fresh
  <2>2. /\ new \in LeafType /\ new.kind = leaf.kind /\ new.n = leaf.n /\ new.mod = leaf.mod
        /\ new.idx = leaf.idx /\ new.skip = leaf.skip
    BY <2>1 DEF LeafType, Surrounded
  <2> HIDE DEF new
  <2>3. leaf.kind \in {"cycle", "random"} => new.n > 0 /\ Pace(new, 0)
    BY <2>1, <2>2 DEF LeafInv, Pace
  <2>4. LeafInv(new, 0)
    BY <2>2, <2>3 DEF LeafInv
  <2> QED BY <2>2, <2>4 DEF Fresh, new
<1> QED BY <1>1, <1>2, <1>3, <1>4

\* A FrameFunc that was just made, with a leaf more than the caller's exactly
\* when it is the default template.
NewFunc(g) ==
  /\ g \in FuncType /\ Len(g.cache) = Len(g.leaves) /\ g.leaves \in Seq(Fresh)
  /\ g.cache = [i \in 1 .. Len(g.leaves) |-> <<>>]

LEMMA TemplateNew ==
  ASSUME NEW n \in Sizes, width \in Widths
  PROVE  NewFunc(Template(n)) /\ Len(Template(n).leaves) = 3
<1> DEFINE a == Surrounded(Animation("cycle", n, 1))
           b == DurationFrom(-1)
           leaves == <<a, b, Static>>
           g == Join(leaves, <<>>, FALSE)
<1>1. a \in Fresh /\ b \in Fresh /\ Static \in Fresh
  <2>1. n \in Nat /\ 1 \in Int /\ -1 \in Nat \cup {-1} /\ "cycle" \in {"cycle", "random"}
    BY FramesAssumption
  <2>2. Animation("cycle", n, 1) \in Fresh
    BY <2>1, FreshLeaves, Zenon
  <2> QED BY <2>1, <2>2, FreshLeaves, Zenon
<1>2. a.kind # "nil" /\ b.kind # "nil" /\ Static.kind # "nil"
  BY <1>1 DEF Fresh, LeafType
<1> HIDE DEF a, b
<1>3. /\ leaves \in Seq(Fresh \cup {NilLeaf}) /\ Len(leaves) = 3
      /\ \A i \in 1 .. Len(leaves) : leaves[i].kind # "nil"
  BY <1>1, <1>2
<1> DEFINE d == <<>>
           fit == FALSE
<1>4. d \in Frame /\ fit \in BOOLEAN
  BY ColumnsEmpty
<1> HIDE DEF leaves, d, fit
<1> DEFINE h == Join(leaves, d, fit)
<1>5. /\ h \in FuncType /\ Len(h.cache) = Len(h.leaves) /\ h.leaves \in Seq(Fresh)
      /\ h.cache = [i \in 1 .. Len(h.leaves) |-> <<>>]
      /\ (\A i \in 1 .. Len(leaves) : leaves[i].kind # "nil") => Len(h.leaves) = Len(leaves)
  BY <1>3, <1>4, JoinFresh, Zenon
<1>6. NewFunc(h) /\ Len(h.leaves) = 3
  BY <1>3, <1>5 DEF NewFunc
<1>7. h = Template(n)
  BY Zenon DEF Template, leaves, a, b, d, fit
<1> QED BY <1>6, <1>7

LEMMA OwnNew ==
  ASSUME NEW g \in Own, width \in Widths
  PROVE  NewFunc(g) /\ Len(g.leaves) # 3
<1> DEFINE b == Surrounded(Leaf("caller", 0, 1))
           d == << <<"divider", 0>> >>
<1>1. PICK leaf \in Leaves, fit \in BOOLEAN : g = Join(<<leaf, b>>, d, fit)
  <2>1. g \in {Join(<<leaf, b>>, d, fit) : leaf \in Leaves, fit \in BOOLEAN}
    BY DEF Own
  <2> HIDE DEF b, d
  <2> QED BY <2>1
<1>2. leaf \in Fresh \cup {NilLeaf}
  <2>1. CASE leaf = Leaf("nil", 0, 1)
    BY <2>1 DEF NilLeaf
  <2>2. DurationFrom(-1) \in Fresh /\ DurationFrom(MaxTime) \in Fresh
    <3>1. -1 \in Nat \cup {-1} /\ MaxTime \in Nat \cup {-1}
      BY FramesAssumption
    <3> QED BY <3>1, FreshLeaves, Zenon
  <2>3. ASSUME NEW kind \in {"cycle", "random"}, NEW n \in Sizes, NEW m \in Mods,
               leaf \in Drawn(Animation(kind, n, m))
        PROVE  leaf \in Fresh
    <3>1. n \in Nat /\ m \in Int
      BY FramesAssumption
    <3>2. Drawn(Animation(kind, n, m)) \subseteq Fresh
      BY <3>1, FreshLeaves, Zenon
    <3> QED BY <2>3, <3>2
  <2> DEFINE K == {"cycle", "random"}
             Old == UNION {Drawn(Animation(kind, n, m)) : kind \in K, n \in Sizes, m \in Mods}
             Durations == {DurationFrom(t) : t \in {-1, MaxTime}}
  <2>4. leaf \in Old \cup Durations \cup {Leaf("nil", 0, 1), Leaf("caller", 0, 1)}
    BY DEF Leaves
  <2>5. leaf \in Old =>
          \E kind \in K, n \in Sizes, m \in Mods : leaf \in Drawn(Animation(kind, n, m))
    <3> HIDE DEF K
    <3> QED OBVIOUS
  <2>6. leaf \in Old => leaf \in Fresh
    <3> HIDE DEF Old
    <3> QED BY <2>3, <2>5
  <2> HIDE DEF Old, Durations
  <2>7. leaf \in Durations => leaf \in Fresh
    BY <2>2 DEF Durations
  <2>8. leaf = Leaf("caller", 0, 1) => leaf \in Fresh
    BY FreshLeaves
  <2> QED BY <2>1, <2>4, <2>6, <2>7, <2>8
<1> DEFINE leaves == <<leaf, b>>
<1>3. b \in Fresh
  BY FreshLeaves
<1> HIDE DEF b
<1>4. leaves \in Seq(Fresh \cup {NilLeaf}) /\ Len(leaves) = 2
  BY <1>2, <1>3
<1>5. d \in Frame
  BY DEF Frame, Glyph, Names
<1> HIDE DEF leaves, d
<1> DEFINE h == Join(leaves, d, fit)
<1>6. /\ h \in FuncType /\ Len(h.cache) = Len(h.leaves) /\ h.leaves \in Seq(Fresh)
      /\ h.cache = [i \in 1 .. Len(h.leaves) |-> <<>>]
      /\ Len(h.leaves) <= Len(leaves)
  BY <1>1, <1>4, <1>5, JoinFresh, Zenon
<1> HIDE DEF h
<1>7. NewFunc(h) /\ Len(h.leaves) # 3
  <2>1. NewFunc(h)
    BY <1>6, Zenon DEF NewFunc
  <2>2. Len(h.leaves) # 3
    <3> DEFINE n == Len(h.leaves)
    <3>1. n <= 2
      BY <1>4, <1>6, Zenon
    <3> HIDE DEF n
    <3>2. n # 3
      BY <3>1
    <3> QED BY <3>2 DEF n
  <2> QED BY <2>1, <2>2
<1>8. h = g
  BY <1>1, Zenon DEF leaves, b, d, h
<1> QED BY <1>7, <1>8
-----------------------------------------------------------------------------
(* The whole state. *)

\* Before the writers are made the options say what is asked for; from then on
\* opt holds it, a start that was not given aside.
OptInv ==
  /\ opt \in OptType /\ want \in OptType /\ args \in Seq(Options)
  /\ phase = "options" => \A field \in Fields : opt[field] = Asked(field)
  /\ phase # "options" =>
       /\ opt.context = want.context /\ opt.ticker = want.ticker
       /\ opt.start = IF want.start = Nil THEN want.context ELSE want.start
       /\ want.frame = Nil <=> Len(f.leaves) = 3

\* Frames are asked for, and a spinner runs, from Start on; it runs as long as
\* its contexts let it.
StageInv ==
  /\ phase \in {"options", "wrapped", "returned"}
  /\ pair \in [standard : {"plain", "real"}, spinner : {"plain", "real"}]
  /\ running \in BOOLEAN /\ cancelled \subseteq Contexts
  /\ phase \in {"options", "wrapped"} => calls = 0 /\ shown = NoFrame /\ ~running
  /\ phase = "returned" /\ pair.spinner = "real" =>
       (running <=> cancelled \cap {opt.context, opt.start} = {})
  /\ calls > 1 => want.ticker # Nil

IInv == FramesInv /\ OptInv /\ StageInv

\* Nothing is cached that was not returned.
LEMMA EmptyLatest ==
  ASSUME NEW g, NewFunc(g)
  PROVE  [i \in DOMAIN g.leaves |-> LatestOf(<<>>, i)] = g.cache
<1>1. g.leaves \in Seq(Fresh) /\ g.cache = [i \in 1 .. Len(g.leaves) |-> <<>>]
  BY DEF NewFunc
<1>2. DOMAIN g.leaves = 1 .. Len(g.leaves)
  BY <1>1
<1>3. [i \in DOMAIN g.leaves |-> LatestOf(<<>>, i)] = [i \in DOMAIN g.leaves |-> <<>>]
  BY LatestEmpty
<1> QED BY <1>1, <1>2, <1>3

\* A FrameFunc that was just made is where FramesInv has it.
LEMMA NewFuncInv ==
  ASSUME NewFunc(f), past = <<>>, calls = 0, shown = NoFrame, width \in Widths
  PROVE  FramesInv
<1>1. f \in FuncType /\ Len(f.cache) = Len(f.leaves) /\ f.leaves \in Seq(Fresh)
  BY DEF NewFunc
<1>2. \A i \in 1 .. Len(f.leaves) : LeafInv(f.leaves[i], 0)
  BY <1>1 DEF Fresh
<1>3. LeavesInv
  BY <1>2 DEF LeavesInv, LeafShown
<1>4. 0 \in 0 .. MaxCalls
  BY FramesAssumption
<1>5. latest = f.cache
  BY EmptyLatest, LatestIs
<1>6. past \in Seq(Answers) /\ Len(past) = calls
  OBVIOUS
<1> QED BY <1>1, <1>3, <1>4, <1>5, <1>6 DEF FramesInv

\* JustStart begins with the defaults.
LEMMA InitWhole == Init => IInv
<1> SUFFICES ASSUME Init PROVE IInv
  OBVIOUS
<1> DEFINE leaves == <<Noop>>
           d == <<>>
           fit == FALSE
           g == Join(leaves, d, fit)
<1>1. f = Join(<<Noop>>, <<>>, FALSE) /\ past = <<>> /\ width \in Widths
      /\ calls = 0 /\ shown = NoFrame
  BY DEF Init
<1>2. leaves \in Seq(Fresh \cup {NilLeaf}) /\ Len(leaves) = 1 /\ leaves[1].kind # "nil"
  <2>1. Noop \in Fresh
    BY FreshLeaves
  <2>2. Noop.kind # "nil"
    BY <2>1 DEF Fresh, LeafType
  <2> QED BY <2>1, <2>2
<1>3. \A i \in 1 .. Len(leaves) : leaves[i].kind # "nil"
  BY <1>2
<1>4. d \in Frame /\ fit \in BOOLEAN
  BY ColumnsEmpty
<1>5. f = g
  BY <1>1
<1> HIDE DEF leaves, d, fit
<1>6. /\ g \in FuncType /\ Len(g.cache) = Len(g.leaves) /\ g.leaves \in Seq(Fresh)
      /\ g.cache = [i \in 1 .. Len(g.leaves) |-> <<>>]
      /\ (\A i \in 1 .. Len(leaves) : leaves[i].kind # "nil") => Len(g.leaves) = Len(leaves)
  BY <1>1, <1>2, <1>4, JoinFresh, Zenon
<1>7. NewFunc(f) /\ Len(f.leaves) = 1
  BY <1>2, <1>3, <1>5, <1>6 DEF NewFunc
<1>8. FramesInv
  BY <1>1, <1>7, NewFuncInv
<1>9. OptInv
  <2>1. opt = Default /\ want = Zero /\ args = <<>> /\ phase = "options"
    BY DEF Init
  <2>2. Default \in OptType /\ Zero \in OptType
    BY DEF Default, Zero, OptType
  <2>3. \A field : Asked(field) = Default[field]
    <3>1. Saying(args, 0) = {} /\ \A field : Saying(args, field) = {}
      BY <2>1 DEF Saying
    <3>2. Len(args) \in Nat
      BY <2>1
    <3>3. \A field : Asked(field) = AskedBy(args, field)
      BY Zenon DEF Asked, AskedBy, SelectLastInSeq, Max, LastOf
    <3> QED BY <3>1, <3>2, <3>3, AskedIs DEF AskedIn
  <2> QED BY <2>1, <2>2, <2>3 DEF OptInv
<1>10. StageInv
  <2>1. /\ phase = "options" /\ running = FALSE /\ cancelled = {}
        /\ pair = [standard |-> "plain", spinner |-> "plain"]
    BY DEF Init
  <2>2. pair \in [standard : {"plain", "real"}, spinner : {"plain", "real"}]
    BY <2>1
  <2>3. phase # "returned"
    BY <2>1
  <2>4. ~(calls > 1)
    BY <1>1
  <2> QED BY <1>1, <2>1, <2>2, <2>3, <2>4, Zenon DEF StageInv
<1> QED BY <1>8, <1>9, <1>10 DEF IInv

\* What is asked for depends on the options only.
LEMMA AskedSame ==
  ASSUME args' = args
  PROVE  \A field : Asked(field)' = Asked(field)
<1> SUFFICES ASSUME NEW field PROVE Asked(field)' = Asked(field)
  OBVIOUS
<1>1. Asked(field)' = AskedBy(args', field)
  BY Zenon DEF Asked, AskedBy, SelectLastInSeq, Max, LastOf
<1>2. Asked(field) = AskedBy(args, field)
  BY Zenon DEF Asked, AskedBy, SelectLastInSeq, Max, LastOf
<1> QED BY <1>1, <1>2

\* What the FrameFunc does is its own business.
LEMMA UnchangedFrames ==
  ASSUME FramesInv, UNCHANGED frameVars
  PROVE  FramesInv'
<1>1. UNCHANGED <<f, calls, latest, Answers, past, answer, shown, width>>
  <2>1. UNCHANGED <<f, calls, past, answer, shown, width>>
    BY DEF frameVars
  <2> QED BY <2>1, LatestIs DEF Answers
<1>2. Joined(latest)' = Joined(latest)
  BY <1>1, Zenon DEF Joined
<1>3. LeavesInv'
  BY <1>1 DEF FramesInv, LeavesInv
<1> QED BY <1>1, <1>2, <1>3 DEF FramesInv

\* An option.
LEMMA WithWhole ==
  ASSUME IInv, NEW o \in Options, With(o)
  PROVE  IInv'
<1>1. /\ phase = "options" /\ opt' = Apply(o) /\ args' = Append(args, o)
      /\ UNCHANGED <<frameVars, env, phase, want, pair, running, cancelled>>
  BY DEF With
<1>2. opt \in OptType /\ args \in Seq(Options) /\ \A field \in Fields : opt[field] = Asked(field)
  BY <1>1 DEF IInv, OptInv
<1>3. Apply(o) \in OptType /\ \A field \in Fields :
        Apply(o)[field] = IF Says(o, field) THEN Said(o, field) ELSE opt[field]
  <2>1. CASE o.set = "options" /\ o.to \in OptType
    <3>1. Apply(o) = o.to
      BY <2>1 DEF Apply
    <3> QED BY <2>1, <3>1 DEF Says, Said
  <2>2. CASE NoOp(o) /\ o.set # "options"
    <3>1. Apply(o) = opt
      BY <2>2 DEF Apply
    <3>2. \A field \in Fields : ~Says(o, field)
      BY <2>2 DEF Says, NoOp
    <3> QED BY <1>2, <3>1, <3>2
  <2>3. CASE o.set \in Fields /\ ~NoOp(o)
    <3> DEFINE set == o.set
               to == o.to
    <3>1. Apply(o) = [opt EXCEPT ![set] = to]
      BY <2>3 DEF Apply, Fields
    <3>2. /\ set \in {"context", "start"} => to \in Contexts \cup {Nil}
          /\ set = "ticker" => to \in {"every", Nil}
          /\ set = "frame" => to \in {"own", Nil}
      BY <2>3, OptionsAre DEF Fields
    <3>3. \A field \in Fields : Says(o, field) <=> field = set
      BY <2>3 DEF Says, NoOp, Fields
    <3>4. \A field \in Fields : Says(o, field) => Said(o, field) = to
      BY <2>3 DEF Said, Fields
    <3> HIDE DEF set, to
    <3>5. DOMAIN opt = Fields
      BY <1>2 DEF OptType, Fields
    <3>6. \A field \in Fields : [opt EXCEPT ![set] = to][field] = IF field = set THEN to ELSE opt[field]
      BY <3>5
    <3>7. [opt EXCEPT ![set] = to] \in OptType
      <4>1. set \in Fields
        BY <2>3 DEF set
      <4> QED BY <1>2, <3>2, <4>1 DEF OptType, Fields
    <3> QED BY <3>1, <3>3, <3>4, <3>6, <3>7
  <2> QED BY <2>1, <2>2, <2>3, OptionsAre DEF Fields
<1>4. \A field \in Fields : Asked(field)' = IF Says(o, field) THEN Said(o, field) ELSE Asked(field)
  BY <1>1, <1>2, AskedAppend
<1>5. \A field \in Fields : opt'[field] = Asked(field)'
  BY <1>1, <1>2, <1>3, <1>4
<1>6. args' \in Seq(Options) /\ opt' \in OptType
  BY <1>1, <1>2, <1>3
<1>7. OptInv'
  <2>1. want' \in OptType /\ phase' = "options"
    BY <1>1 DEF IInv, OptInv
  <2> QED BY <1>5, <1>6, <2>1, Zenon DEF OptInv
<1>8. FramesInv'
  <2>1. FramesInv /\ UNCHANGED frameVars
    BY <1>1 DEF IInv
  <2> QED BY <2>1, UnchangedFrames
<1>9. StageInv'
  BY <1>1 DEF IInv, StageInv, frameVars
<1> QED BY <1>7, <1>8, <1>9 DEF IInv
\* Wrap makes the writers and the FrameFunc that were asked for.
LEMMA WrapWhole ==
  ASSUME IInv, Wrap
  PROVE  IInv'
<1>1. /\ phase = "options" /\ phase' = "wrapped" /\ args' = <<>> /\ pair' = WrapOS
      /\ opt' = [opt EXCEPT !.start = StartContext]
      /\ want' = [field \in DOMAIN Default |-> Asked(field)]
      /\ UNCHANGED <<calls, answer, shown, width, env, running, cancelled>>
  BY DEF Wrap
<1>2. PICK g \in IF opt.frame = Nil THEN {Template(n) : n \in Sizes} ELSE Own :
        f' = g /\ past' = <<>>
  BY Zenon DEF Wrap
<1>3. calls = 0 /\ shown = NoFrame /\ ~running /\ width \in Widths
  BY <1>1 DEF IInv, StageInv, FramesInv
<1>4. NewFunc(g) /\ (opt.frame = Nil <=> Len(g.leaves) = 3)
  <2>1. CASE opt.frame = Nil
    <3>1. PICK n \in Sizes : g = Template(n)
      BY <1>2, <2>1
    <3> QED BY <1>3, <2>1, <3>1, TemplateNew
  <2>2. CASE opt.frame # Nil
    BY <1>2, <1>3, <2>2, OwnNew
  <2> QED BY <2>1, <2>2
<1>5. FramesInv'
  <2>1. g \in FuncType /\ Len(g.cache) = Len(g.leaves) /\ g.leaves \in Seq(Fresh)
    BY <1>4 DEF NewFunc
  <2>2. \A i \in 1 .. Len(g.leaves) : LeafInv(g.leaves[i], 0)
    BY <2>1 DEF Fresh
  <2>3. LeavesInv'
    BY <1>1, <1>2, <1>3, <2>2 DEF LeavesInv, LeafShown
  <2>4. 0 \in 0 .. MaxCalls
    BY FramesAssumption
  <2>5. latest' = g.cache
    BY <1>2, <1>4, EmptyLatest, LatestIs
  <2>6. past' \in Seq(Answers') /\ Len(past') = calls'
    BY <1>1, <1>2, <1>3
  <2> QED BY <1>1, <1>2, <1>3, <2>1, <2>3, <2>4, <2>5, <2>6 DEF FramesInv
<1>6. opt \in OptType /\ \A field \in Fields : opt[field] = Asked(field)
  BY <1>1 DEF IInv, OptInv
<1>7. want' \in OptType /\ \A field \in Fields : want'[field] = opt[field]
  <2>1. DOMAIN Default = Fields
    BY DEF Default, Fields
  <2>2. want' = [field \in Fields |-> opt[field]]
    BY <1>1, <1>6, <2>1
  <2>3. [field \in Fields |-> opt[field]] = opt
    BY <1>6 DEF OptType, Fields
  <2> QED BY <1>6, <2>2, <2>3
<1>8. opt' \in OptType /\ opt'.context = opt.context /\ opt'.ticker = opt.ticker
      /\ opt'.start = IF opt.start = Nil THEN opt.context ELSE opt.start
  BY <1>1, <1>6 DEF OptType, StartContext
<1>9. /\ want'.context = opt.context /\ want'.ticker = opt.ticker /\ want'.start = opt.start
      /\ want'.frame = opt.frame
  BY <1>7 DEF Fields
<1>10. OptInv'
  <2>1. args' \in Seq(Options)
    BY <1>1
  <2> QED BY <1>1, <1>2, <1>4, <1>7, <1>8, <1>9, <2>1 DEF OptInv
<1>11. StageInv'
  <2>1. WrapOS \in [standard : {"plain", "real"}, spinner : {"plain", "real"}]
    BY DEF WrapOS
  <2> QED BY <1>1, <1>3, <2>1 DEF IInv, StageInv
<1> QED BY <1>5, <1>10, <1>11 DEF IInv

\* A call of the FrameFunc.
LEMMA GetFrameWhole ==
  ASSUME FramesInv, GetFrame
  PROVE  FramesInv' /\ Len(f'.leaves) = Len(f.leaves) /\ calls' = calls + 1
<1>1. PICK got : Fetched(got)
  BY GetFrameStep
<1> QED BY <1>1, FetchedInv, FetchedFunc DEF GetFrame

\* Start, of a writer of either kind.
LEMMA StartWhole ==
  ASSUME IInv, Start
  PROVE  IInv'
<1>1. /\ phase = "wrapped" /\ UNCHANGED <<env, opt, args, want, pair, cancelled>>
      /\ calls = 0 /\ shown = NoFrame /\ ~running
  BY DEF Start, IInv, StageInv
<1>2. FramesInv /\ OptInv /\ StageInv
  BY DEF IInv
<1>3. CASE (pair.spinner = "plain" \/ Done(opt.context)) /\ UNCHANGED <<frameVars, running>>
  <2>1. phase' = "returned"
    BY DEF Start
  <2>2. FramesInv'
    BY <1>2, <1>3, UnchangedFrames
  <2>3. calls' = 0 /\ f' = f
    BY <1>1, <1>3 DEF frameVars
  <2>4. OptInv'
    BY <1>1, <1>2, <2>1, <2>3, Zenon DEF OptInv
  <2>5. StageInv'
    BY <1>1, <1>2, <1>3, <2>1, <2>3 DEF StageInv, Done
  <2> QED BY <2>2, <2>4, <2>5 DEF IInv
<1>4. CASE GetFrame /\ running' = (cancelled \cap {opt.context, opt.start} = {})
  <2>1. phase' = "returned"
    BY DEF Start
  <2>2. FramesInv' /\ Len(f'.leaves) = Len(f.leaves) /\ calls' = 1
    BY <1>1, <1>2, <1>4, GetFrameWhole
  <2>3. OptInv'
    BY <1>1, <1>2, <2>1, <2>2 DEF OptInv
  <2>4. StageInv'
    <3>1. running' \in BOOLEAN /\ ~(calls' > 1)
      BY <1>4, <2>2
    <3> QED BY <1>1, <1>2, <1>4, <2>1, <3>1 DEF StageInv
  <2> QED BY <2>2, <2>3, <2>4 DEF IInv
<1> QED BY <1>3, <1>4 DEF Start

\* A tick.
LEMMA TickWhole ==
  ASSUME IInv, Tick
  PROVE  IInv'
<1>1. /\ running /\ opt.ticker # Nil /\ GetFrame
      /\ UNCHANGED <<env, phase, opt, args, want, pair, running, cancelled>>
  BY DEF Tick
<1>2. FramesInv /\ OptInv /\ StageInv
  BY DEF IInv
<1>3. FramesInv' /\ Len(f'.leaves) = Len(f.leaves)
  BY <1>1, <1>2, GetFrameWhole
<1>4. phase \notin {"options", "wrapped"} /\ want.ticker # Nil
  BY <1>1, <1>2 DEF StageInv, OptInv
<1>5. OptInv'
  BY <1>1, <1>2, <1>3, <1>4 DEF OptInv
<1>6. StageInv'
  BY <1>1, <1>2, <1>4 DEF StageInv
<1> QED BY <1>3, <1>5, <1>6 DEF IInv

\* A context is cancelled.
LEMMA CancelWhole ==
  ASSUME IInv, NEW c \in Contexts, Cancel(c)
  PROVE  IInv'
<1>1. /\ cancelled' = cancelled \cup {c}
      /\ running' = (running /\ c \notin {opt.context, opt.start})
      /\ UNCHANGED <<frameVars, env, phase, opt, args, want, pair>>
  BY DEF Cancel
<1>2. FramesInv /\ OptInv /\ StageInv
  BY DEF IInv
<1>3. FramesInv'
  BY <1>1, <1>2, UnchangedFrames
<1>4. UNCHANGED <<f, calls, shown>>
  BY <1>1 DEF frameVars
<1>5. OptInv'
  <2>1. \A field : Asked(field)' = Asked(field)
    BY <1>1, AskedSame
  <2> QED BY <1>1, <1>2, <1>4, <2>1 DEF OptInv
<1>6. StageInv'
  BY <1>1, <1>2, <1>4 DEF StageInv
<1> QED BY <1>3, <1>5, <1>6 DEF IInv

\* The terminal is resized.
LEMMA ResizeWhole ==
  ASSUME IInv, NEW w \in Widths, Resize(w)
  PROVE  IInv'
<1>1. /\ width' = w /\ UNCHANGED <<f, calls, latest, Answers, past, answer, shown>>
      /\ UNCHANGED <<env, phase, opt, args, want, pair, running, cancelled>>
  <2>1. /\ width' = w /\ UNCHANGED <<f, calls, past, answer, shown>>
        /\ UNCHANGED <<env, phase, opt, args, want, pair, running, cancelled>>
    BY DEF Resize, Resized
  <2> QED BY <2>1, LatestIs DEF Answers
<1>2. FramesInv /\ OptInv /\ StageInv
  BY DEF IInv
<1>3. FramesInv'
  <2>1. Joined(latest)' = Joined(latest)
    BY <1>1, Zenon DEF Joined
  <2>2. LeavesInv'
    BY <1>1, <1>2 DEF FramesInv, LeavesInv
  <2> QED BY <1>1, <1>2, <2>1, <2>2 DEF FramesInv
<1>4. OptInv'
  <2>1. \A field : Asked(field)' = Asked(field)
    BY <1>1, AskedSame
  <2> QED BY <1>1, <1>2, <2>1 DEF OptInv
<1>5. StageInv'
  BY <1>1, <1>2 DEF StageInv
<1> QED BY <1>3, <1>4, <1>5 DEF IInv
\* No step loses it.
LEMMA NextWhole ==
  ASSUME IInv, [Next]_vars
  PROVE  IInv'
<1>1. ASSUME NEW o \in Options, With(o) PROVE IInv'
  BY <1>1, WithWhole
<1>2. ASSUME NEW c \in Contexts, Cancel(c) PROVE IInv'
  BY <1>2, CancelWhole
<1>3. ASSUME NEW w \in Widths, Resize(w) PROVE IInv'
  BY <1>3, ResizeWhole
<1>4. CASE UNCHANGED vars
  <2>1. FramesInv /\ OptInv /\ StageInv /\ UNCHANGED frameVars
    BY <1>4 DEF IInv, vars
  <2>2. FramesInv'
    BY <2>1, UnchangedFrames
  <2>3. UNCHANGED <<f, calls, shown, phase, opt, args, want, pair, running, cancelled>>
    BY <1>4 DEF vars, frameVars
  <2>4. OptInv'
    <3>1. \A field : Asked(field)' = Asked(field)
      BY <2>3, AskedSame
    <3> QED BY <2>1, <2>3, <3>1 DEF OptInv
  <2>5. StageInv'
    BY <2>1, <2>3 DEF StageInv
  <2> QED BY <2>2, <2>4, <2>5 DEF IInv
<1> QED BY <1>1, <1>2, <1>3, <1>4, WrapWhole, StartWhole, TickWhole DEF Next

\* The options, the writers and the FrameFunc stay in step, whatever is given,
\* drawn, cancelled or resized.
THEOREM Invariance == Spec => []IInv
BY InitWhole, NextWhole, PTL DEF Spec

\* The variables keep their types, and no elapsed time is negative, whatever
\* start Duration was given (frame.go).
THEOREM TypeCorrect == Spec => []TypeOK
<1>1. IInv => TypeOK
  <2> SUFFICES ASSUME IInv PROVE TypeOK
    OBVIOUS
  <2>1. FramesInv /\ OptInv /\ StageInv
    BY DEF IInv
  <2>2. \A g \in (IF shown = NoFrame THEN {} ELSE ToSet(shown)) : g[1] \in Names /\ g[2] \in Nat
    <3>1. shown # NoFrame => shown \in Seq(Glyph)
      BY <2>1 DEF FramesInv, Frame
    <3>2. shown # NoFrame => \A g \in ToSet(shown) : g \in Glyph
      BY <3>1 DEF ToSet
    <3> QED BY <3>2 DEF Glyph
  <2>3. FramesTypeOK
    BY <2>1, <2>2 DEF FramesInv, FramesTypeOK
  <2>4. {opt.context, opt.start, want.context, want.start} \subseteq Contexts \cup {Nil, "background"}
    BY <2>1 DEF OptInv, OptType
  <2> QED BY <2>1, <2>3, <2>4 DEF StageInv, TypeOK
<1> QED BY <1>1, Invariance, PTL

\* Every state of SimpleOnceEvery is shown for as many calls as it should be
\* and in order, for any number of states, calls and leaves in the Join, and
\* across the rebuilds of Dynamic.
THEOREM CyclesAreRegular == Spec => []CycleIsRegular
<1>1. IInv => CycleIsRegular
  <2> SUFFICES ASSUME IInv, NEW i \in DOMAIN f.leaves, f.leaves[i].kind = "cycle", calls > 0
               PROVE  latest[i] = Wrapped(f.leaves[i],
                                    State(((calls - 1) \div f.leaves[i].mod) % f.leaves[i].n))
    BY Zenon DEF CycleIsRegular
  <2>1. f.leaves \in Seq(LeafType) /\ LeavesInv
    BY DEF IInv, FramesInv, FuncType
  <2>2. i \in 1 .. Len(f.leaves)
    BY <2>1
  <2>3. LeafShown(f.leaves[i], latest[i], calls)
    BY <2>1, <2>2 DEF LeavesInv
  <2> QED BY <2>3, Zenon DEF LeafShown
<1> QED BY <1>1, Invariance, PTL

\* What is on the screen is the join of the last frame each leaf returned in all
\* the calls so far, and a call has no frame exactly when every leaf fails in it,
\* whatever was returned before (Join, frame.go).
THEOREM JoinsShowLatest == Spec => []JoinShowsLatest
<1>1. IInv => JoinShowsLatest
  <2> SUFFICES ASSUME IInv PROVE JoinShowsLatest
    OBVIOUS
  <2>1. FramesInv /\ f.leaves \in Seq(LeafType)
    BY DEF IInv, FramesInv, FuncType
  <2>2. DOMAIN f.leaves = 1 .. Len(f.leaves)
    BY <2>1
  <2> QED BY <2>1, <2>2 DEF FramesInv, JoinShowsLatest
<1> QED BY <1>1, Invariance, PTL

\* The contexts, the ticker and the FrameFunc that are in force are those the
\* options ask for, in whatever order and number they were given (JustStart).
THEOREM OptionsAreApplied == Spec => []OptionsApply
<1>1. IInv => OptionsApply
  <2> SUFFICES ASSUME IInv PROVE OptionsApply
    OBVIOUS
  <2>1. OptInv /\ StageInv
    BY DEF IInv
  <2>2. ASSUME phase = "returned", pair.spinner = "real"
        PROVE  running <=> cancelled \cap {want.context, want.start} = {}
    <3>1. /\ opt.context = want.context
          /\ opt.start = IF want.start = Nil THEN want.context ELSE want.start
          /\ cancelled \subseteq Contexts
          /\ running <=> cancelled \cap {opt.context, opt.start} = {}
      BY <2>1, <2>2 DEF OptInv, StageInv
    <3>2. Nil \notin cancelled
      BY <3>1, OptionsAssumption
    <3>3. cancelled \cap {opt.context, opt.start} = cancelled \cap {want.context, want.start}
      BY <3>1, <3>2
    <3> QED BY <3>1, <3>3
  <2>3. phase # "options" => (want.frame = Nil <=> Len(f.leaves) = 3)
    BY <2>1 DEF OptInv
  <2>4. calls > 1 => want.ticker # Nil
    BY <2>1 DEF StageInv
  <2> QED BY <2>2, <2>3, <2>4 DEF OptionsApply
<1> QED BY <1>1, Invariance, PTL

\* A step that calls the FrameFunc is GetFrame.
LEMMA CallingStep ==
  ASSUME IInv, [Next]_vars, calls' > calls
  PROVE  \E got : Fetched(got)
<1>1. GetFrame \/ UNCHANGED calls
  BY DEF Next, With, Wrap, Start, Tick, Cancel, Resize, Resized, vars, frameVars
<1>2. calls \in Nat
  BY FramesAssumption DEF IInv, FramesInv
<1>3. GetFrame
  BY <1>1, <1>2
<1> QED BY <1>3, GetFrameStep DEF IInv

\* RandomOnceEvery keeps a state for mod calls, whatever the draws.
THEOREM DrawsAreHeld == Spec => DrawIsHeld
<1> DEFINE Held == \A i \in DOMAIN f.leaves :
                     f.leaves[i].kind = "random" /\ calls' > calls /\ calls > 0
                     /\ latest'[i] # latest[i] => calls % f.leaves[i].mod = 0
<1>1. IInv /\ [Next]_vars => [Held]_frameVars
  <2> SUFFICES ASSUME IInv, [Next]_vars, NEW i \in DOMAIN f.leaves,
                      f.leaves[i].kind = "random", calls' > calls, calls > 0,
                      latest'[i] # latest[i]
               PROVE  calls % f.leaves[i].mod = 0
    OBVIOUS
  <2>1. PICK got : Fetched(got)
    BY CallingStep
  <2> QED BY <2>1, FetchedHolds DEF IInv
<1> QED BY <1>1, Invariance, PTL DEF Spec, DrawIsHeld

\* Whatever is cropped fits the terminal of the call, keeps every escape
\* sequence, and is cut for want of a column only (CropToWidth and Dynamic).
THEOREM CropsFit == Spec => CroppedToFit
<1> DEFINE Fits == calls' > calls /\ f.fit /\ answer' # NoFrame =>
                     LET all == Joined(latest')
                         escapes(s) == Cardinality({i \in DOMAIN s : s[i][1] = "escape"})
                     IN /\ Columns(answer') <= width
                        /\ escapes(answer') = escapes(all)
                        /\ answer' = all \/ Columns(answer') + 2 > width
<1>1. IInv /\ [Next]_vars => [Fits]_frameVars
  <2> SUFFICES ASSUME IInv, [Next]_vars, calls' > calls, f.fit, answer' # NoFrame
               PROVE  /\ Columns(answer') <= width
                      /\ Escapes(answer') = Escapes(Joined(latest'))
                      /\ answer' = Joined(latest') \/ Columns(answer') + 2 > width
    BY Zenon DEF Escapes
  <2>1. PICK got : Fetched(got)
    BY CallingStep
  <2> QED BY <2>1, FetchedFits DEF IInv
<1> QED BY <1>1, Invariance, PTL DEF Spec, CroppedToFit
=============================================================================
