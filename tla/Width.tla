------------------------------- MODULE Width -------------------------------
(***************************************************************************)
(* How the width of the terminal reaches the spinner (resize.go,           *)
(* resize_unix.go).  A source turns a SIGWINCH, a poll or a value of the   *)
(* caller's own channel into a signal: a goroutine (the forwarder) takes   *)
(* it and offers it to the channel sigwinch, whose buffer holds one, and   *)
(* drops it when the buffer is full.  The goroutine of CachedGetWidth (the *)
(* cache) drains that channel, asks the terminal, and stores the answer    *)
(* that everybody else reads.                                              *)
(***************************************************************************)
EXTENDS Integers

CONSTANTS Widths,      \* widths of the terminal; 0 stands for a query that fails
          Sources,     \* of "signal", "poll", "channel"
          MaxResizes   \* bound: changes of the width

ASSUME WidthsAssumption == Widths \subseteq Nat /\ MaxResizes \in Nat
ASSUME SourcesAssumption == Sources \subseteq {"signal", "poll", "channel"}

VARIABLES term,       \* the width of the terminal
          resizes,    \* how often it has changed
          source,     \* where signals come from
          pending,    \* a signal the forwarder has not taken: a buffer of one
          forwarder,  \* where that goroutine is
          sigwinch,   \* the buffer of sigwinch holds a value
          closed,     \* sigwinch is closed
          cache,      \* where the goroutine of CachedGetWidth is
          seen,       \* the answer of its last query
          cached,     \* current, what the returned func reports
          ctxDone     \* the context is cancelled, or the caller's channel closed

sourceVars == <<source, pending, forwarder, sigwinch, closed, ctxDone>>
widthVars  == <<sourceVars, term, resizes, cache, seen, cached>>

\* Forms a slip could give the definitions below; the properties tell them
\* apart.  Here the first query comes before the registration for SIGWINCH:
Unregistered == pending \in BOOLEAN

\* A resize between the registration and the first query left a signal.
Registered == pending = (source # "poll" /\ cached # term)

\* A poller without a context or an interval is closed from the start.
WidthInit ==
  /\ term \in Widths /\ cached \in Widths /\ source \in Sources
  /\ source = "poll" => cached = term
  /\ Registered
  /\ closed \in {FALSE, source = "poll"}
  /\ ctxDone = closed /\ forwarder = IF closed THEN "ended" ELSE "wait"
  /\ sigwinch = FALSE /\ cache = "wait" /\ seen = cached /\ resizes = 0

\* The kernel's signal goes to whoever is registered; nobody writes to a
\* channel its owner has closed.
ResizeTo(w) ==
  /\ resizes < MaxResizes /\ w # term
  /\ term' = w /\ resizes' = resizes + 1
  /\ pending' = (pending \/ source = "signal" \/ (source = "channel" /\ ~ctxDone))
  /\ UNCHANGED <<source, forwarder, sigwinch, closed, ctxDone, cache, seen, cached>>

Poll ==
  /\ source = "poll" /\ forwarder # "ended" /\ pending' = TRUE
  /\ UNCHANGED <<source, forwarder, sigwinch, closed, ctxDone, term, resizes,
                 cache, seen, cached>>

Cancel ==
  /\ ~ctxDone /\ ctxDone' = TRUE
  /\ UNCHANGED <<source, pending, forwarder, sigwinch, closed, term, resizes,
                 cache, seen, cached>>

-----------------------------------------------------------------------------
(* The forwarder. *)

Take ==
  /\ forwarder = "wait" /\ pending
  /\ pending' = FALSE /\ forwarder' = "offer"
  /\ UNCHANGED <<source, sigwinch, closed, ctxDone, term, resizes, cache, seen,
                 cached>>

\* The inner select: a full buffer already promises a query.
Offer ==
  /\ forwarder = "offer"
  /\ sigwinch' = TRUE /\ forwarder' = "wait"
  /\ UNCHANGED <<source, pending, closed, ctxDone, term, resizes, cache, seen,
                 cached>>

\* ForwarderEnds without its close(sigwinch).
ForwarderEndsSilent ==
  /\ forwarder = "wait" /\ ctxDone /\ (source = "channel" => ~pending)
  /\ forwarder' = "ended"
  /\ UNCHANGED <<source, pending, sigwinch, closed, ctxDone, term, resizes,
                 cache, seen, cached>>

\* ctx.Done, or the end of a range over the caller's channel, which first
\* delivers what the channel holds.
ForwarderEnds ==
  /\ forwarder = "wait" /\ ctxDone /\ (source = "channel" => ~pending)
  /\ forwarder' = "ended" /\ closed' = TRUE
  /\ UNCHANGED <<source, pending, sigwinch, ctxDone, term, resizes, cache, seen,
                 cached>>

-----------------------------------------------------------------------------
(* The cache. *)

CacheWakes ==
  /\ cache = "wait" /\ sigwinch
  /\ sigwinch' = FALSE /\ cache' = "drain"
  /\ UNCHANGED <<source, pending, forwarder, closed, ctxDone, term, resizes,
                 seen, cached>>

CacheDrains ==
  /\ cache = "drain" /\ sigwinch /\ sigwinch' = FALSE
  /\ UNCHANGED <<source, pending, forwarder, closed, ctxDone, term, resizes,
                 cache, seen, cached>>

\* The default of the select, or the channel is closed.
CacheDrained ==
  /\ cache = "drain" /\ ~sigwinch /\ cache' = "ask"
  /\ UNCHANGED <<sourceVars, term, resizes, seen, cached>>

\* CacheAsks, where a failed query is told as the -1 of "nothing to detect".
CacheAsksMinus ==
  /\ cache = "ask"
  /\ seen' = (IF term = 0 THEN -1 ELSE term) /\ cache' = "store"
  /\ UNCHANGED <<sourceVars, term, resizes, cached>>

\* getWidth, zero when it fails or panics.
CacheAsks ==
  /\ cache = "ask"
  /\ seen' = term /\ cache' = "store"
  /\ UNCHANGED <<sourceVars, term, resizes, cached>>

\* CacheStores, where the channel is drained only now.
CacheStoresDrained ==
  /\ cache = "store"
  /\ cached' = seen /\ cache' = "wait" /\ sigwinch' = FALSE
  /\ UNCHANGED <<source, pending, forwarder, closed, ctxDone, term, resizes, seen>>

CacheStores ==
  /\ cache = "store"
  /\ cached' = seen /\ cache' = "wait"
  /\ UNCHANGED <<sourceVars, term, resizes, seen>>

CacheEnds ==
  /\ cache = "wait" /\ closed /\ ~sigwinch
  /\ cache' = "ended"
  /\ UNCHANGED <<sourceVars, term, resizes, seen, cached>>

ForwarderStep == Take \/ Offer
CacheStep == CacheWakes \/ CacheDrains \/ CacheDrained \/ CacheAsks \/ CacheStores \/ CacheEnds

WidthNext ==
  \/ Poll \/ Cancel \/ ForwarderStep \/ ForwarderEnds \/ CacheStep
  \/ \E w \in Widths : ResizeTo(w)

\* Go runs its goroutines, and a ticker ticks; a select that finds signals and
\* ctx.Done ready picks either in the end, and signals come slower than a loop
\* without a pause drains them, so that it ends: strong fairness.  Nothing obliges a terminal to be
\* resized or a context to be cancelled.
WidthFairness ==
  /\ WF_widthVars(Poll) /\ WF_widthVars(ForwarderStep) /\ SF_widthVars(ForwarderEnds)
  /\ WF_widthVars(CacheStep) /\ SF_widthVars(CacheDrained)

-----------------------------------------------------------------------------
(* Properties. *)

WidthTypeOK ==
  /\ {term, seen, cached} \subseteq Widths /\ resizes \in 0 .. MaxResizes
  /\ source \in Sources /\ {pending, sigwinch, closed, ctxDone} \subseteq BOOLEAN
  /\ forwarder \in {"wait", "offer", "ended"}
  /\ cache \in {"wait", "drain", "ask", "store", "ended"}

\* A resize the cache has not stored yet is still on its way: a signal is
\* waiting somewhere on the path, or a query of now is not stored yet, though
\* both buffers hold one signal only and drop the others.
ResizeOnItsWay ==
  cached # term /\ ~ctxDone /\ source # "poll" =>
    pending \/ forwarder = "offer" \/ sigwinch \/ cache \in {"drain", "ask"}
    \/ (cache = "store" /\ seen = term)

\* The last resize arrives: when the terminal keeps its size, the cached width
\* is the terminal's in the end, and stays so, whatever was coalesced.
WidthArrives == <>[](cached = term \/ ctxDone)

\* Cancelling the context, or closing the caller's channel, ends both
\* goroutines: neither is left behind.
SourcesEnd == ctxDone ~> (forwarder = "ended" /\ cache = "ended")
=============================================================================
