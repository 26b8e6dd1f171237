# spinq in TLA+

spinq is a Go library that draws a spinner or a progress bar on the last row of
a terminal while a program writes its own output through the same writer. This
directory holds a TLA+ model of it, the TLC configurations that check the model
on small instances, and proofs, checked by TLAPS, of what holds for every value
of the constants. Paths such as `background.go` are those of the repository.

## The system

| Part | State | Operations | Talks to |
|---|---|---|---|
| Actor loop (`background.go`) | `getFrame`, `revision`, `inFlight`, `running`, `ticker`, `notifyStopped` | one handler per message: start, stop, setGetFrame, setTicker, drawFrame, reportError; the ticker case; `windDown` | receives on the unbuffered channel `task`, answers on a channel of each message, starts a goroutine per tick |
| Lifecycle calls (`spinner-state.go`, `writer.go`) | a message and the channel of its reply | Start, Stop, StopWith, StopNoClear, SetFrame, SetFrameWith, SetFrameNoClear, SetTicker, Close | two selects each, both also on the governing context; Start leaves a watcher goroutine |
| Tick goroutine | revision and FrameFunc it was started with | call the FrameFunc, `wg.Done()`, send drawFrame | `wg` makes the handlers wait for it |
| Write (`writer.go`) | `canWrite`, `needClear` under `writerMut` | clear, write the data, draw the frame back | shares `spinnerState` with the actor, reports an error through a goroutine that waits 10ms |
| Drawer (`clearer-drawer.go`) | `needClear`; with resize detection also `width`, `visible` | clear, draw, adjust | called under `writerMut` by Write and the actor |
| Width sources (`resize.go`, `resize_unix.go`, `resize_windows.go`) | a cached width, channels of capacity one | CachedGetWidth, DefaultSigwinch, SigwinchFromOS, SigwinchFromAny, SigwinchFromPoller | the aware drawer and Dynamic read the cached width |
| FrameFuncs (`frame.go`) | an index, a counter, a cache, a start time | Simple, OnceEvery, Duration, Join, Progress, Dynamic, CropToWidth | called by the actor and the tick goroutine, never concurrently |
| Renderers (`progress-render.go`) | none (DynamicRender: a width) | BarRender, SmoothBarRender, FractRender, PercentRender | called by Progress |
| Constructors (`pair.go`, `spinq.go`) | options | WrapPair, WrapOS, JustStart | build the initial state |

What is hard about it: three kinds of goroutines and any number of callers meet
at one actor; handlers block in the middle (for a FrameFunc, for `wg`, for
`writerMut`); Write never passes through the actor; every write to the terminal
may fail, wholly or half-way; a context may be cancelled at any moment; and
what the fields say of the row of the cursor must agree with what is on it.
`PROJECT.json` lists the hazards one by one, with the properties that watch
each of them.

What makes each part correct:

- **Actor and calls.** FrameFuncs are never called concurrently; every call
  returns; an answered Stop has stopped; a failed Start has left nothing
  running; no watcher goroutine leaks; the ticker never wedges; a frame that a
  SetFrame overtook is not drawn; after Close nothing runs and `Err()` closes.
- **Display.** The program's own output is never erased nor drawn over; the
  frame on the screen is the recorded one; a Write puts the frame back; what
  was kept stays; a stopped spinner leaves nothing live.
- **Resize-aware drawer and width sources.** A drawn frame fits the width it
  was drawn for; a clear takes away the rows the frame occupies and no other;
  the last resize is not lost, whatever is coalesced; no goroutine leaks.
- **FrameFuncs.** A segment of Join keeps its last frame; Dynamic rebuilds
  exactly when the width changes; OnceEvery shows each state for `mod` calls.
- **Progress bars.** A bar fits, has one width at all levels, Left mirrors
  Right, progress never runs backwards, and only 100% looks like 100%.
- **Constructors and JustStart.** Frames reach terminals only, never a CI log;
  the options given last decide, defaults included, in whatever order they came.

## The modules

| Module | Models | State |
|---|---|---|
| `Actor` | `background.go`, `spinner-state.go`, the calls of `writer.go`: all goroutines and channels | the fields of `spinnerState`; where the actor is; what each caller, watcher and fetch goroutine is doing |
| `Lifecycle` | what the lifecycle calls promise, without channels or goroutines: the abstract specification `Actor` implements | the run that is on and those that are over; the installed FrameFunc; how each caller sees its call |
| `Swaps` | `Actor` with a history: the fetches that a SetFrame overtook | the goroutines of these fetches |
| `ActorProofs` | theorems about `Actor` and `Swaps` | |
| `LifecycleProofs` | that `Actor` implements `Lifecycle` | |
| `Display` | the sections locked by `writerMut`: `clear`, `draw`, `set`, Write, what Stop and SetFrame leave behind | `running`; `needClear`, `canWrite`, `frame`; the row of the cursor; where the actor is between two sections |
| `DisplayProofs`, `CalmProofs` | theorems about `Display`: whatever fails, and when writes succeed | |
| `Width` | `resize.go`, `resize_unix.go`: signal sources and `CachedGetWidth` | the terminal's width, the signal on its way, where the two goroutines are, the cached width |
| `Resize` | `awareClearerDrawer` in the locked sections of Write and the actor; extends `Width` | `running`; the guarded fields, `width` and `visible`; the columns of the frame on the screen |
| `ResizeProofs` | theorems about `Resize` and `Width` | |
| `Frames` | `frame.go`: the FrameFuncs that keep state | the leaves of a Join and what they keep; what each leaf returned so far, what was answered and is shown; the width |
| `JustStart` | `spinq.go`, `WrapOS` and `WrapFilePair` of `pair.go`, the passthrough writers; extends `Frames` | the options given and in force, the environment, the kind of the two writers, whether the spinner runs |
| `FramesProofs` | lemmas about the functions and the calls of `Frames` | |
| `JustStartProofs` | theorems about `JustStart` and the FrameFuncs it draws | |
| `Bars` | `progress-render.go` and Progress of `frame.go` | the options; the terminal's width and the one the renderer was built for; the frame shown |
| `BarsProofs` | theorems about `Bars` | |
| `MCActor`, `MCSwaps`, `MCDisplay`, `MCResize`, `MCJustStart`, `MCBars` | symmetry sets and the values of constants for TLC | |

`Actor` and `Display` look at the same program at two levels. `Actor` has every
interleaving of the goroutines and knows a frame only by its FrameFunc and a
write to the terminal only by whether it failed. `Display` has the row of the
cursor and every outcome of a wrapped write, and knows of the goroutines only
what can come between two locked sections: a Write, and the report of its
failure. `Resize` is `Display` for the other drawer: it knows a frame by its
columns and the screen by the rows they take, composed with the goroutines of
`Width` that tell the drawer of a new width at any moment; what the two drawers
have in common is left to `Display`. `JustStart` puts together the program as
most callers meet it: options, environment, and the frames of `Frames` drawn by
the spinner it starts. `Bars` are what a FrameFunc returns.

### Actor

One action per blocking point. `Receive` is `case task := <-st.task` of
`startBackground`; the actions named after a call (`StartWaited`,
`StartFetched`, `StartSet`, ...) are the stretches of a handler between
`st.wg.Wait()`, the call of the FrameFunc, and the locked section; `Answer` is
the reply on `notify`. A caller is `sending` in the first select of a call,
`waiting` in the second; `Abandon` is `<-st.ctx.Done()` of either. `Return` of an
accepted Start starts its watcher, which shares the set of callers because it
ends with a call of `st.stop()`. `Tick`, `FetchReturns`, `DrawFrame` and
`FetchDropped` are the goroutine of a tick. `StopRun` is `stopFromActor`:
`stopped` collects the `notifyStopped` channels that are closed, and a Start is
numbered so that its channel can be told from others.

The actor tells a fetch that was overtaken by `st.revision`, which every SetFrame
counts up. `Swaps` takes no notice of it: its history marks every goroutine that
is out while `getFrame` changes, so that a fetch stays marked when its own
FrameFunc is installed again before its message is handled, and
`OvertakenIsDropped` asks that it be dropped then too. An actor that compared
FrameFuncs in place of revisions would violate it.

A report of a failing Write (`WriteFails`, `ReportError`, `ReportTimeout`) is
known by the run it failed in. `fireEvent` waits 10ms; a report is only dropped
when the actor is inside a handler, since an actor at its select takes it at
once.

### Lifecycle, and how Actor implements it

In `Lifecycle` a call is one step between `Call` and `Return`: `Start` begins a
run or finds one, `Stop` is answered when nothing runs, `SetFrame` installs a
FrameFunc or fails with the run, and `RunEnds` is what a failed write, a watcher
or the first half of a stop does to a run on its own. ErrClosed may answer any
call once Close was called (`ReturnClosed`), and such a call, if it was under
way, may take effect after it was answered: it is the `orphan`, of which there
is one at most because the actor handles one message at a time.

`Promised` in `Actor` is the refinement mapping. The abstract run is
`notifyStopped`, except in the locked section of a Start (`startSet`): the run
counts from the moment the Start is answered, so that one whose first draw fails
never was. A caller that is `sending`, or `waiting` without a reply, is in the
middle of its call; the orphan is the message in hand whose caller has left.
`CallsLinearize` says that every step of every goroutine is a step of
`Lifecycle` or changes nothing there: the calls are linearizable.

### Display

The row of the cursor is a set of kinds of text: `data` of a Write, `msg` of a
StopWith or SetFrameWith, a `live` frame, a `kept` one. `erased` and `over` are
history: what a ClearLine ever erased, what a frame was ever drawn over. A
wrapped write ends `ok`, with `none` of it written, or with a `part`; a clear,
whose sequence is a few bytes, is then as good as done. `SetScreen` is `set`,
`Say` the one write of StopNoClear and SetFrameNoClear of frame and message,
`Keep` what it means to leave a frame where it is, `Forget` the reset of
`st.frame`. `kept` is the frame a NoClear call left last. `NoClearKeeps` says
where it is: above the row of the cursor, or, in the two cases `SharesRow` names,
on that row, where the next live frame is drawn behind it.

### Width and Resize

The forwarder is the goroutine of DefaultSigwinch, SigwinchFromOS,
SigwinchFromAny or SigwinchFromPoller, by `source`; `pending` is the buffer it
reads, `sigwinch` the one it offers to, both of capacity one. The cache is the
goroutine of `CachedGetWidth`, with a step for every receive, for the query and
for the store, since a resize may come between any two. The first query is made
after the registration for the signal: a resize between them leaves a signal,
which is why the states `WidthInit` allows include a stale cached width.

In `Resize`, `HandleResize` is `handleResize` with its `clearMess`, and `Clear`,
`Draw` and `Adjust` are the methods of the drawer. `shown` counts the columns on
the screen, and the rows they take follow from the width of the terminal, which
rewraps a line that no longer fits. That is what the code counts on; a terminal
that does not rewrap is outside the model, and so is a resize between the query
of the width and the write (`Known` restricts the properties to the moments when
the width is known), both of which the documentation warns of.

### Frames and JustStart

A FrameFunc is a Join of leaves, with or without Dynamic and CropToWidth around
it; Progress is left to `Bars`. `Called` is one call of a leaf, `GetFrame` one
call of the whole; a random draw, the reading of the timer and what a FrameFunc
of the caller answers are its inputs. A glyph takes no column, one, or two, so
that the crop has all cases. `past` is history: what each leaf returned in every
call. The reference for Join is computed from it (`latest`, the last frame of a
leaf that is one), independently of the cache, and the closed form `((calls - 1)
\div mod) % n` the one for the counters of SimpleOnceEvery.

`JustStart` applies options in any order (`With`), wraps the two streams
(`Wrap`), starts (as the actor does: when the first fetch fails the spinner runs
on without a frame, and Start has no error), and then draws at each tick while
the terminal is resized and contexts are cancelled. `want` is computed from the
list of options by the rule the documentation gives (the last one that says
something of a field), `opt` by the code's fold.

### Bars

A bar is a sequence of cells, each a number: empty, the level of a sub-cell
divider, or full; the `>` of BarRender is a cell of its own. The two places
where float64 matters are modelled as what they compute:

- `int(float64(current) * (length / float64(total)))` and the percentage are
  `FloorOfProduct`, the floor of a product of rounded floats. For a product that
  is not whole it is the exact floor; for a whole one it is one less exactly
  when the quotient was rounded down by more than the product's rounding makes
  up for. The operator does that arithmetic on integers within 32 bits.
  It is exact for numbers of up to four digits (`Largest`), which the assumptions
  on totals and widths name; the operator was compared with the float arithmetic
  of the code's formula on several million triples of such numbers.
- The divider's level takes three more roundings. Where the exact level is not
  whole they cannot matter; where it is whole the model allows it and the one
  below (`Levels`).

Beyond `Largest` the model says nothing, and the code need not do the same: from
2^53 on `float64(current)` is itself rounded, so that `current` 2^54 - 1 of a
`total` of 2^54 draws a full bar and 100%. `FullMeansDone` and `PercentHonest` do
not hold there.

When glyphs of two columns do not fill the length (an odd one),
`lengthInUnits` is not whole and a smooth bar is full shortly before 100%; the
documentation says only that such a bar is a hair shorter, and `FullMeansDone`
is stated for the other lengths.

Edges, glyph widths and the number of dividers are the style's; the glyphs of a
style have the widths the constructor requires.

## What the runs show

| Run | Instance | Question |
|---|---|---|
| `clients` | 2 clients, 2 Starts with their watchers, 1 SetFrame, Stops, SetTickers | the calls are linearizable: `Actor` implements `Lifecycle` (`CallsLinearize`); an answered Stop has stopped (`StopReplyMeansStopped`) |
| `runs` | 1 client, 2 Starts with their watchers, whose stop is the plain one, StopNoClear, 2 SetFrameNoClear (another FrameFunc, and the first one again), 2 fetch goroutines, 1 report | FrameFuncs exclusive, ticker not wedged, no watcher leaks, a failed Start is over, a fetch that a SetFrame overtook is dropped |
| `live` | 1 client, 1 Start with its watcher, StopNoClear, 1 SetFrameNoClear, ticks, 1 report, under `FairSpec` | types; nothing runs once `Err()` is closed (`ClosedIsQuiet`); every call returns, `Err()` closes, a watcher ends, a cancelled context ends its run |
| `stale` | 1 client, 2 Starts | violated: only a run's own context ends it |
| `faults` | all operations, one frame, every outcome of every write | types; the program's output is safe (`DataSafe`) |
| `calm` | all operations, two frames, writes succeed | what is on the screen is what should be, and a kept frame has a row of its own but for two cases |
| `frozen` | Start, StopNoClear, Write | violated: a kept frame stays |
| `resize` | 3 signal sources, widths 0 (no answer), 1 and 3, 1 resize after those before the first query, frames of 2 and 3 columns, failing writes, under `FairSpec` | what is shown is cropped, a clear takes the rows it should, a resize is on its way until it is stored, arrives in the end, and both goroutines end |
| `shrink` | 1 source, 1 resize | violated: SetFrameNoClear clears every row of a frame that wraps |
| `juststart` | 3 options, 2 contexts, all environments, animations of 1 and 2 states with `mod` 0, 1, 2, 3 calls in all, widths 0 and 4 | animations keep their pace, Join and Dynamic show the latest frames cropped to fit, no frame on a plain stream, the options last given hold |
| `bars` | both renderers, both directions, glyphs of 1 and 2 columns, widths 0 to 12, totals 0, 1, 5, 11 with every reading | six invariants and one action property of the bars |
| `full` | the default smooth bar | violated: at 100% every cell is full |

### Bounds

`MaxStarts`, `MaxSets` and `MaxReports` bound how often a client may call Start,
SetFrame with a FrameFunc, and how many reports may be pending at once; nothing
else in `Actor` is bounded, and the number of ticks, Stops and cancellations is
not. Two Starts are needed for what one run may do to the next: a fetch, a
watcher or a report that outlives its run; a third run would meet the same
remains. Two SetFrames are needed for a fetch whose FrameFunc is replaced and
installed again before its message is handled. Two clients are
needed for a call that comes while another is being handled. Two fetch
goroutines are needed to see that there is never a second one. The theorems
about `Actor` hold for any bounds.

`live` has one Start only: a temporal property needs the whole graph of a fair
specification. One run has a watcher, a cancelled context, a Close and a
cancelled parent, which are all the ways a call or a goroutine may be left
waiting; what two runs add is the safety part, in `runs`. SetTicker is left to
`clients`: its handler never blocks, and its callers wait as those of the others
do.

`clients` leaves StopNoClear, SetFrameNoClear and ticks out: the first two run
the same handlers with a fetch in between, which `runs` has, and a tick changes
nothing in `Lifecycle` but the end of a run, which a failed Start, a watcher or
a SetFrame brings about as well.

`MaxResizes` counts the resizes after the first query; one before it makes two
in all, enough for one that comes while the other is on its way. Width 0 is a
query that fails. Frames of 2 and 3 columns wrap at width 1 and fit at 3. For
ordering, the signal that matters is the last, and both buffers are full with
one.

In `juststart` three options suffice for one that sets a field, one that resets
it and one that sets what it defaults to. Three calls let a cycle of two states
wrap around at `mod` 1 and move on once at `mod` 2, and let a leaf, or all of
them, fail first, succeed, and fail again. The width 4 is less than
the six columns a frame may take and more than none.

`Display` has no bound: its state is finite. One frame is enough for `faults`,
whose property is about kinds of text; `calm` has two, to tell a frame from the
next one.

The widths of `bars` are: no room, less than the edges and a cell, odd and even
inner lengths for both glyph widths. Total 11 is one for which floats fall
short.

### Fairness

`FairSpec` assumes that a goroutine that can go on does:

- weak fairness of the actor's handler: once in a handler the actor never waits
  for a client; it waits for `wg`, for `writerMut`, for a FrameFunc and for the
  wrapped writer. The documentation asks that FrameFuncs do not call back into
  the Writer, and the model assumes that they and the wrapped writer return.
- strong fairness of callers, watchers, fetch goroutines, reports and
  `WindDown`: all of them are cases of selects, enabled only while the other
  side is at its own select. Go picks at random among the ready cases of a
  select, and a channel serves its senders in order, so none is passed over for
  ever.

- for `Width`, weak fairness of the two goroutines and of a poller's ticker, and
  strong fairness of the two choices a select may put off: that the forwarder
  takes `ctx.Done()` though signals keep coming, and that the drain loop of the
  cache finds the channel empty, since a loop without a pause is faster than
  signals.

Clients need not call anything, contexts need not be cancelled, and tickers
need not tick.

### Where code and documentation disagree

Each of these is a run whose property is a sentence of the documentation, and
whose counterexample is a sequence of legal calls:

- `stale`: the watcher of run 1 has seen its context done and is about to call
  `st.stop()`; run 1 is stopped and run 2 started; the stop ends run 2, whose
  own context is not cancelled.
- `frozen`: StopNoClear leaves the frame and, when it has not changed, also
  `needClear`. The next Write erases what was to stay.
- `shrink`: SetFrameNoClear fetches the outgoing frame again, stores it and
  adjusts `visible` to it, and only then clears. When the terminal shrank since
  the last draw and the frame fetched again is shorter, `clearMess` counts its
  rows and leaves those that the frame on the screen wraps to.
- `full`: `int(float64(11) * (15.0 / 11.0))` is 14: the default smooth bar of 15
  columns shows its last divider at 100%. `PercentRender` has the same
  truncation (29 of 100 renders as 28%); `PercentHonest` states what does hold,
  that it is never too high, less than two percent too low, and 100% at the end
  and only there.

Others were met while modelling and have no run of their own. A report that
finds the actor in a handler for more than 10ms is dropped, and the write
failure does not stop the spinner (`ReportTimeout`). After a redraw by Write
failed, `st.frame` still holds the frame, and a Start whose first frame is equal
draws nothing: `StartDraws` holds in `calm`, where writes succeed, and not in
general. A StopWith message without a final newline does not reset `canWrite`.
When the first fetch of SetFrame fails, `st.frame` keeps the outgoing frame, and
an equal one of the new FrameFunc is not drawn. Integers above 2^53 are rounded
before a bar or a percentage is computed: 100% may come before the end.

Three more are stated as what the code does, in a property of a passing run:

- Join answers ErrNoFrame whenever every segment fails in one call, cached frames
  or not. Its comment (`frame.go:349-354`) says: when every segment errored on
  every call so far. The second part of `JoinShowsLatest` is what holds.
- WrapOS looks at the spinner's stream alone. Its comment (`pair.go:215-217`) has
  the spinner disabled when either stream is not a terminal; with stdout piped
  and stderr a terminal it runs, and only the other writer passes through. That
  is what `StreamsSafe` says.
- SetFrameNoClear without a suffix writes no newline when its frame is still up
  and has not changed. The new frame is drawn on the row of the one that was to
  be kept, and the next clear erases both; its comment (`writer.go:36-47`)
  promises the same handling of the newline as for a suffix, so that the new
  frame starts on a line of its own. `SharesRow` in `NoClearKeeps` is exactly
  this case, next to that of a StopNoClear without a newline.

## What is proved

Every safety invariant and every action property that a run checks, and the
refinement of `Lifecycle`, is also a theorem: for every set of clients, fetch
goroutines and FrameFuncs and all bounds (`ActorProofs`, `LifecycleProofs`), for
every set of frames and outcomes (`DisplayProofs`), for every set of widths,
sources and frames (`ResizeProofs`), for any number of leaves, states, calls and
options (`FramesProofs`, `JustStartProofs`), and for every style, and every
total and width of up to four digits (`BarsProofs`). They rest on the named
assumptions of the modules: the bounds, widths and columns are natural numbers,
the totals and widths of a bar are at most `Largest`, a client is not a number
of a Start, and the special values differ from the ordinary ones. The theorems
of `CalmProofs` have one hypothesis more, that writes succeed (`Outcomes =
{"ok"}`), as the run `calm` has: what they say is false otherwise.

| Theorem | Property | Inductive invariant |
|---|---|---|
| `ActorProofs` | | |
| `TypeCorrect` | `TypeOK` | `TypeInv`: also that a SetFrame handler that fetches has a FrameFunc, and that a call being sent is one of the operations |
| `Exclusive`, `NeverWedged`, `Quiet` | `FrameFuncExclusive`, `InFlightIsOwed`, `ClosedIsQuiet` | `FetchInv` |
| `WatchersLeave`, `FailedStarts` | `WatcherCanLeave`, `FailedStartIsOver` | `RunInv` |
| `OvertakenIsNeverDrawn` | `OvertakenIsDropped` | `SwapInv` |
| `StopsStop` | `StopReplyMeansStopped` | `StopInv` |
| `LifecycleProofs` | | |
| `Linearizable` | `CallsLinearize` | `TaskInv`, with `RunInv` and `StopInv` |
| `DisplayProofs`, `CalmProofs` | | |
| `TypeCorrect`, `OutputIsSafe` | `TypeOK`, `DataSafe` | `Inv` |
| `ShownAlways`, `NothingLeft`, `WritesDrawBack`, `NoClearsKeep`, `StartsDraw` | `ShownIsFrame`, `StoppedLeavesNothing`, `WriteDrawsBack`, `NoClearKeeps`, `StartDraws` | `CalmInv` |
| `ResizeProofs` | | |
| `TypeCorrect`, `ResizesAreNotLost`, `ScreenIsCropped`, `ClearsAreExact` | `TypeOK`, `ResizeOnItsWay`, `ShownIsCropped`, `ClearsItsRows` | `Inv` |
| `JustStartProofs` | | |
| `StreamsAreSafe` | `StreamsSafe` | `Inv` |
| `TypeCorrect`, `OptionsAreApplied` | `TypeOK`, `OptionsApply` | `OptInv`, `StageInv` |
| `CyclesAreRegular`, `DrawsAreHeld`, `JoinsShowLatest`, `CropsFit` | `CycleIsRegular`, `DrawIsHeld`, `JoinShowsLatest`, `CroppedToFit` | `FramesInv` |
| `BarsProofs` | | |
| `TypeCorrect`, `NeverWraps`, `StaysPut`, `Mirrored`, `FullIsHonest`, `PercentIsHonest`, `OnlyForwards` | `TypeOK`, `FitsTerminal`, `ConstantWidth`, `LeftMirrorsRight`, `FullMeansDone`, `PercentHonest`, `NeverBackwards` | `BarInv` |

The inductive invariants were checked with TLC, on the instances of the runs,
before they were proved.

### The actor

`FrameFuncExclusive` alone is not inductive: that `wg` is zero says nothing of
the goroutines unless `wg` counts those that are fetching, and that there is at
most one to count follows from `inFlight`. `FetchInv` ties the three together:
`inFlight` is set exactly while one goroutine is not idle, `wg` is one exactly
while it fetches, and the actor only reaches its own fetch, or the end of
`windDown`, when `wg` was zero and, being out of its select, starts no other.

`RunInv` numbers the runs. A Start whose message has not been handled has a
channel that is neither in use nor closed and a watcher that does not exist; the
message being handled is that of one waiting caller, the only one with its
number; hence `notifyStopped` is never a channel that was closed before, and a
watcher, which exists only after the reply `nil`, watches the running channel or
a closed one.

`SwapInv` says that no fetch is of a revision to come, and that one which is
marked as overtaken is of an earlier revision than the current one, which it can
never catch up with: the steps that change `getFrame` are those that count
`revision` up. `StopInv` says that
between the first step of a stop and its reply `running` is false, which needs
that only the handler of a Start sets it and that the actor handles one message
at a time.

### The refinement

`Linearizable` takes the actions of `Actor` one by one and names the step of
`Lifecycle` each of them is, or shows that `Promised` does not see it. Most of
the work is in the calls whose caller has gone: that there is at most one
orphan, and that it is the message in hand, has to be known of every handler at
every point where it blocks. `TaskInv` says so: a caller that waits without a
reply is the one whose message is in hand, there is a message exactly while the
actor is in a handler, and the handler, at each of its blocking points, is that
of the message.

### The display

`Inv` of `DisplayProofs` is what makes the ClearLine of Write safe: a frame is
up (`needClear`) only when the line was free (`canWrite`), and a free line holds
no data. That it survives failures half-way is the point: a failed clear still
resets `needClear`, and a failed draw still sets it.

`CalmInv` adds what holds between any two locked sections when writes succeed: a
live frame is on the row only while the spinner runs or between a stop and its
locked section, and a frame that is up is the recorded one; a Start finds no
frame recorded, which is why it draws. Writes may come between the sections in
any number, which is why it speaks of every place the actor may be at and not of
the idle actor only. A live frame also means that the line is free (`canWrite`),
which is what decides whether a kept frame has a row of its own.

### The resize-aware drawer

`Inv` of `ResizeProofs` has two halves. `WidthInv` adds `StaleAnswerFollowed` to
`ResizeOnItsWay`, which is not inductive: when the terminal is resized while the
cache holds an answer it has not stored yet, the cached width may still equal
the terminal's, and storing the answer would break it, if the signal of that
resize were not on its way behind it. `Faithful` says that the frame the drawer
remembers is always cropped for the width it works with, except after a failed
`clearMess`, and that one on the screen is the one it remembers and took a
single row when it was drawn. Every clear ends with nothing to clear, so that a
frame is only ever drawn cropped; and the rows a clear takes away follow: one
when the width is the old one, otherwise those `visible` wraps to. The one place
where `visible` is not what is on the screen is the middle of SetFrameNoClear
(`Refetched`). The clear that follows restores the invariant for every property
but the rows it counts, which is the run `shrink`.

### FrameFuncs and JustStart

`Columns`, `Joined`, `WithoutNil` and `Crop` are recursive functions over
sequences. The provers have no induction, but the theorem that a set of naturals
which is not empty has a least member gives it for sets (`Induction`): the least
counterexample to what is proved has a predecessor that is none. `Recursion`
shows in the same way that a function defined from its values before exists.
With the two, `CropFits` says of every frame and every width what `crop` must
do: `CropGood` holds of every prefix, that what is out so far fits, keeps the
escape sequences, and either is all there was or lacked a column for the next.

`FramesInv` says where so many calls have brought each leaf (`Pace`: the index
and the counter of SimpleOnceEvery are the quotient and the remainder of the
calls by `mod`, the counter running from 1 to `mod` once the first call was
made), that the cache of Join holds the latest frame of every leaf in the record
of all calls (`LatestAppend` says what one call more does to it), and that their
join is on the screen. `Pace` is what makes the pace inductive: `skip` is
compared before it is counted, and the closed form of `CycleIsRegular` alone does
not say where it stands.

`OptInv` says that at any point of the options a field of `opt` holds what the
last option that says something of it asks for (`AskedAppend`: one option more
has the last word on the fields it speaks of, and on no other), and later that
the only difference between what is in force and what is asked for is the
context a Start without one borrows. `StageInv` says that frames are asked for
from Start on only, and that a spinner behind a real writer runs as long as its
contexts let it, whether or not the first fetch gave a frame. `Inv`, for
`StreamsAreSafe`, says that a frame is asked for, and a spinner runs, only behind
a real writer, which exists for terminals alone, and which the other stream has
no say in.

### Progress bars

`FloorBounds` is the lemma on floats: what `FloorOfProduct` computes is never
above the true product and at most one whole below it, and the product of a
quotient that is whole is exact. The proofs use nothing else of the operator: it
does not matter which products fall short. That the code's arithmetic is within
these bounds is what `Largest` is for.
`BarInv` says that the bar shown is one `Bar` allows for the reading, the total
and the width it was drawn for, and that a bar is a row of as many cells as the
width has room for at every level; the rest follows cell by cell, from the place
of the boundary, for the two renderers and the two directions.

### What is not proved

The temporal properties of `live` and `resize` (`EveryCallReturns`, `ErrCloses`,
`WatcherEnds`, `ContextEndsRun`, `WidthArrives`, `SourcesEnd`) are only
model-checked, because the prover does not reason about fairness and ENABLED.
The violated properties have counterexamples, which is all there is to show of
them.

## What is not modelled

- Delivery on `Err()`: best effort, dropped after 10ms when nobody reads.
- The bytes of frames and messages beyond what the properties tell apart: empty
  or not, equal or not, ending in a newline or not, how many columns. Slices
  that share memory, the parsing of colours (`ansi.go`) and the measuring of
  graphemes are below that.
- go-colorable, isatty and the terminal itself, and how it rewraps; the examples.
- Offset, Portion and Clamp, and the functions that only pass one of the sources
  or options on.
- `nil` arguments of the constructors, WithText and WithDivider, which only
  change texts; WithResizeDetection is the choice between the drawers of
  `Display` and `Resize`.
- Presets and option functions of the renderers, glyphs of inconsistent width
  (the constructors return NoopRender), readings below zero.

## Plan

The modules are written, and what can be proved of the properties the runs check
is proved. What is left is to say more of what the code promises:

1. `WidthArrives` and `EveryCallReturns` have safety parts worth a theorem of
   their own: that the actor, whenever it is not at its select, is at a step it
   can take without any client, which is what the fairness argument rests on.
2. Lemmas about the ordering of the renderers for arbitrary readings, negative
   ones included, if the readings of `Bars` are extended to them.
