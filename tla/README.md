# CervTerm in TLA+

CervTerm is a terminal emulator: one process with any number of windows, each
with tabs of split panes, each pane a program behind a pseudo terminal. This
directory holds TLA+ models of the parts of it where several goroutines, or
several operations of one owner, meet in orders that are hard to test; the TLC
configurations that check them on small instances; and TLAPS proofs of the
properties that matter most for instances of any size.

Contents: the system and its parts, the modules, what each run shows, bounds,
fairness, disagreements between code and documents, proofs, what is not
modelled, and what is left.

## 1. The system

The packages are layered: `cmd/cervterm` starts `internal/frontend/glfwgl`, which
owns windows, input, drawing and configuration reload, and drives
`internal/mux`; the mux owns panes, sessions, topology, focus and image decoding
and uses `vt`, `core`, `termimage`, the image protocol packages, `pty` and
`workscheduler`.

Threads. One native thread is the owner: GLFW callbacks, the main loop
(`glfwgl/app_loop.go`), every mutation of the mux and every use of an image
store's owner happen there, under a capability (`mux/owner.go`) that refuses
other threads and nested operations. Besides it run: one reader goroutine per
pane (`mux/pane.go`), the decode workers (`workscheduler`), configuration reload
and background preparation goroutines (`glfwgl/reload_background_async.go`,
`background_prepare.go`). They reach the owner through channels it polls; the
main loop sleeps at most 500 ms (`maxWake`), so a lost wake-up delays and does
not stop it.

| Component | State | Operations | Hard behaviour | What makes it correct |
|---|---|---|---|---|
| Work scheduler (`workscheduler`) | queue, results, active keys with finish times, one-token ready channel | Submit, worker loop, TakeCompletion, Finish, CompletionTime, Close | conditions with single signals, lossy token, Close against workers and consumer | every job ends once; one work per key; nothing waits unannounced; Close leaves nothing |
| Image replies (`mux_kitty.go`, `mux_sixel.go`, `reply_queue.go`) | reply queue of each pane, pending decodes, generations | submit, complete, expire, close, shutdown | completion, deadline and close race; decodes end in any order | replies in order and accounted for; one verdict, agreed with the deadline |
| Panes and sessions (`session_registry.go`, `pane.go`, `mux*.go`) | registry, tombstones, sessions, channel, retained rollback, pending restore | bootstrap, spawn, create and roll back windows, close, restore, drain, shutdown | IDs are reused, readers run on, clean-up fails half way | every session is owned; output reaches its own pane, whole and in order; shutdown ends |
| Topology (`model*.go`, `tree.go`, `workspace.go`) | workspaces, windows, tabs, split trees, focus, allocators | split, close, move, transfer, rename, zoom | long sequences of moves | tree, focus and allocators stay consistent |
| Owner scope (`owner.go`, `ownerthread`) | active nonce, generation, closed | enter, leave, publish closed | callbacks re-enter; scopes kept too long | one operation at a time |
| Image store (`termimage`) | immutable published state, prepared replacement, transfers, candidates, byte and count budgets | transfer, decode candidate, prepare, publish, commit, abort, reset, close | workers register while the owner resets or closes | budgets exact; nothing of an old epoch is published; nothing leaks |
| Image protocol parsers (`kitty`, `sixel`, `itermimage`) | parser states | parse, decode | none concurrent | data |
| Font face cache (`fontglyph/cache`) | faces, sources, pins, bytes | Acquire, Lease.Close, eviction | loads and parses outside the lock, waiters, failure of a shared load | one load; leased faces stay; limits kept; nothing leaks |
| Glyph shaping and rasterising (`fontglyph`, `fontdesc`) | caches | shape, rasterise, discover | none concurrent | data |
| Background cache (`background`) | entries, pins, bytes | acquire, insert, trim, release, close | eviction at limits | limits and pins |
| Layout store and restore (`layoutstate`, `layoutrestore`, `windowbounds`) | a file | load, save by replacement, plan a restore | crash between any two steps | the old or the new document |
| Configuration (`config`) | source graph, overrides, published Teal output | load, compose, publish | several files published as one | all or none |
| Configuration reload (`glfwgl/reload*.go`, `config_watch.go`) | pending flag, worker, watch snapshot | poll, start worker, apply, discard | sources change while they load | last good configuration stays; no change is missed |
| Script runtime (`script`, `action`) | Lua state, timers, candidate | load, call, swap | callbacks during a swap | one runtime at a time |
| Terminal core (`vt`, `core`, `unicode*`) | parser, grid, scrollback, anchors | advance, resize, capture | none concurrent | data |
| Front end (`glfwgl`, `gpu`, `render`, `input`) | windows, projections, damage | callbacks, draw | resources of the GPU, redraw | nothing shown is stale |
| Modal and input method (`modal`, `ime`) | mode, activation, generation | open, edit, accept; start, update, commit, cancel | stale platform callbacks | old generations change nothing |
| Selection, quick select, accessibility | snapshots | compute | none | data |
| Policies, theme, diagnostics, PTY, command line | little or none | decide, log, system calls | none here | data |

How they meet. A reader goroutine hands chunks to the mux through one bounded
channel; the owner drains it, runs the terminal parser, whose image sinks submit
decodes to the work scheduler; the owner later takes completions, asks the image
store to publish, completes the reply it had reserved, and writes the ready
replies to the pane's session. Closing a pane closes its session, which ends its
reader, and clears its replies; shutdown closes scheduler, sessions and stores
and waits for the readers. The front end draws from captured snapshots and takes
fonts from the face cache.

## 2. The modules

| Module | Models |
|---|---|
| `WorkLedger` | what clients of the scheduler rely on: each work ends exactly once, one per key |
| `WorkScheduler` | `workscheduler/scheduler.go`, every operation; implements `WorkLedger` |
| `ReplyQueue` | `mux/reply_queue.go` as functions from queue to queue |
| `ImageReplies` | submission, completion, expiry and cancellation of decodes; uses `ReplyQueue` and the scheduler's entry per pane as `WorkLedger` describes it |
| `PaneStreams` | what a pane promises: its own output, whole and in order, one exit, nothing after close |
| `PaneSessions` | registry, publication, rollback, restore, close, readers, channel, shutdown; implements `PaneStreams` |
| `FontFaces` | `fontglyph/cache`, every operation |
| `ImageBudget` | `termimage/budget.go`: reserving and releasing the counters of a pane and of the process without a lock |
| `ImageStore` | the store of a pane: transfers, candidates, publication, reset, close, with decode workers beside the owner |
| `TerminalImages` | placements on the two screens of a terminal while text moves under them and decodes are under way |
| `VisualOrder`, `PaneOrder` | the panes of a tab as one sequence, and what a tab promises about it |
| `SplitTree` | the split tree of one tab, its layout, resizes and focus; its steps are those of `PaneOrder` |
| `Topology` | workspaces, windows, tabs and panes of the mux; tabs as sequences of `VisualOrder` |
| `OwnerScope` | who may change the mux, and when |
| `LayoutStore` | saving the layout file, and what a start would load, with failures, other processes and the system stopping |
| `Reload` | watching, reading and activating the configuration while its files are edited |
| `BackgroundSurface` | the layered background of a window across resizes and reloads |
| `Screen`, `Reflow`, `Terminal` | the grid, its resizing, and the terminal with its two screens, history and reader |
| `Parser` | the states of the escape parser, image frames, and the public copy of the output |
| `MC...` | instances for TLC |
| `...Proofs` | the theorems of section 7 |

Each definition of these modules has the lines it stands for in `PROJECT.json`
under `map`. The definitions commented as a mutant replace the one that follows
them to show that a property notices; they are not part of a specification.

### The work scheduler

One action is one critical section of `Scheduler.mu`, or one step outside it. A
goroutine parked in `sync.Cond.Wait` has a place of its own (`waitWork`,
`waitSpace`); `Signal` moves one of them back to its loop test and is lost when
nobody is parked, so a lost wake-up would show. `resultReady` is the channel of
capacity one. `fate` and `ends` are history: what became of each work, and how
often its job or result was disposed of.

### Image replies

The owner's thread has one operation in progress (`turn`); expiry is cut into the
steps between which a worker can finish, because `completionTime` takes the
scheduler's lock once per decode while `now` is read once before. Time is a
counter and a decode is accepted strictly before its deadline, as
`FinishedAt.Before` says. A reply is its length, the place in the queue its
sequence number. The generations of images and anchors are counters the parser's
text, placements and reflows advance; `captured` is the one a snapshot holds.

### Panes and sessions

An operation of the owner is one action, because the owner scope admits one at a
time and everything it calls is synchronous; the readers interleave freely with
them. A reservation in the registry lives and dies inside one operation, unless that
rollback() gives up: `reserved` has the ones that stay. A pane object is a Go
pointer, used once; pane IDs are numbers that can be handed out again after a
rollback. The topology is the set of pane IDs it publishes: closing a pane, a tab or a window is `ClosePanes` of the IDs involved.
`MaxRefusals` close preflights are refused by a busy image store; a commit after an
accepted preflight does not fail, since nothing else runs on the owner in between.
`CreateWindowFails` has every place where createWindow may fail and both ends of its
rollback(): the pane is closed and its ID released, or the preflight is refused and
rollback() returns before it releases anything. Such a pane is `stranded`: registered
or with its ID `reserved`, its reader at work or not, and in no list of things to
retry. Registered ones are closed by Shutdown, the others by nobody.
Retrying a retained rollback is an action of its own because the operation that
begins with it may still be refused afterwards for reasons not modelled (geometry,
limits). The front end restores before it bootstraps (`StartupOrder`).

### Topology, tabs and the owner's scope

In `Topology` and `SplitTree` a step is an operation that is accepted; a rejected
one leaves the model as it was. `Topology` keeps the panes of a tab as a sequence
and does to it what `VisualOrder` says; `SplitTree` keeps the tree of one tab with
ratios and rectangles, and its action property `OrderKept` says that every step is
the one of `PaneOrder` on the sequence of its leaves. `EveryPaneReported` relates
`Topology` to the panes the mux is told to close. `OwnerScope` leaves open what an
operation does and models how it gets in: checks before and after the swap of the
active nonce, nesting by callbacks, copies of scopes that outlive their operation,
and the order of closing and unlocking the thread in Shutdown. The run
`frontend` checks it, since windows and their callbacks are who calls.

### Images

One action of `ImageBudget` is one compare-and-swap; a call knows the counters it
has taken so far, which it takes in the order of kinds, each kind's pane before its
process, and gives back in the opposite order. One action of `ImageStore` is one
atomic access that others can tell apart: a worker reserves, registers, fills and
seals a candidate without the owner's lock, while the owner resets, closes or
publishes by replacing an immutable state. The lease of decoded memory has the
number of the candidate and moves with its pixels to the resource. `TerminalImages`
moves cells and placements separately, as the code does, and `on` remembers the text
a placement was put on.

### Font faces

One action is one critical section of `Manager.mu` with the private work before it.
Entries and source blobs are numbered as they are allocated, because goroutines go
on holding them after they leave the maps. The access clock is replaced by the order
it induces (`recency`); `makeRoomLocked` evicts along it: the model says which faces
it takes, the shortest stretch of the oldest evictable ones that makes room, and
gives them up together (`Released`, `Detached`), which is what giving them up one by
one comes to. The loader may find that a source is larger than stated, fail, or find
no room, in which case lock and failure are two steps, as in the code.

### Around the window

`Reload` cuts an attempt wherever the code looks at the disk: one file read by a
worker, the comparison before the activation, the look after it, the recheck; edits
come between any two. A file is its content and a modification time that every
edit advances. `BackgroundSurface` has the workers that compose for a size, the
reload that brings a composition of its own, and the generation that tells late
results; the pool's counter is compared with what somebody holds. Frames are drawn
only when something asks (`wanted`, the `needsRedraw` of an on-demand window): events
of the window, a notice that expires, a committed reload, and `SomethingElse` for
input, output and the cursor. The end of a composition is not among them, and neither
are the heartbeat of the loop and its polling for reloads, which draw nothing.
Continuous redrawing is the case that something always asks. `LayoutStore` cuts a
save at every call of the file system; `onDisk` has each file the path may name if
the system stops now, and `directory` whether its directory was there or was made by
a save, which flushes the directory but not its parent. Loading changes nothing and
has no action: the property says what it would find.

### The terminal core

`Screen` and `Reflow` are functions from a screen to a screen, `Terminal` the
operations that choose among them. A glyph is a number, the even ones are two cells
wide, and no glyph is printed twice, so losing, doubling or swapping text shows.
The parser takes one byte at a time, whatever the chunks, and each byte has a
`fate`: copied to the public output, held back, or dropped with its frame. What the
projection holds, defers or emits is the set of the places those bytes have in the
input; the code appends to its buffers in that order. `TerminalProfiles` has the
terminal's behaviours for TLC: text resized and scrolled over, limits that change,
output while somebody reads, the cursor moved through every size, edits in margins,
windows resized under the alternate screen (rows as well, with the history taking and
giving back lines), and cursors saved on both screens. `Reset` does nothing when the
images cannot be reset, as in the code. The run `mux` checks it, as the terminals of
the mux's panes; the run `images` checks the parser, whose properties are about the
frames of images.

## 3. The runs

Each run asks several questions of one part of the system. `mux`, `images`,
`frontend` and `image_replies` put models side by side that share no
state: a variable (`component`, `wide`) is chosen at the start, the
behaviour runs that model, and the others stay in their initial states. Since no
step reads another model's variables, this checks each of them as a run of its own
would.

| Run | Properties | What it shows |
|---|---|---|
| `scheduler` | `EndsOnce`, `ResultsAnnounced`, `NoLostSignal`, `StampIsCurrent`, `QuietAfterClose`, `ImplementsLedger`, `WorkEnds` | two workers, four works of three panes: each job and result is disposed of once; a waiting result has a token or an awake consumer; `Signal` in place of `Broadcast` strands nobody; a finish time is never that of the pane's earlier work; nothing is left after Close; the refinement of `WorkLedger`; Close and every accepted work end |
| `image_replies` | `RepliesKept`, `KeyOfPending`, `DeadlineAgreed`, `VerdictFinal`, `DecodesSettle` | the reply queue's order, bytes and slots; completion, deadline, close and shutdown give one verdict, the one the finish time calls for; every decode settles and no reply waits for ever although a worker may never return |
| `pane_streams` | `OwnOutputInOrder`, `SessionsSound`, `ImplementsStreams`, `ShutdownReturns`, `RecordsArrive` | terminals show their own program's output, in order, although IDs are reused and records of closed panes lie in the channel; sessions keep an owner; Shutdown returns and output and exits arrive although readers share a full channel |
| `font_faces` | `InUseKept`, `FacesAccounted`, `SingleFlight`, `AcquireReturns` | leased faces stay alive, bytes and pins are exact and within limits, one load and one parse at a time, every waiter is woken when loads fail |
| `mux` | `TopologySound`, `PanesTile`, `SessionsSound`, `TreeStepsKept`, `ScreensWellFormed`, `MainScreenKept`, `ViewPinned` | any sequence of accepted operations keeps membership, remembered windows, active tabs, focus and identities consistent; panes and dividers tile the window; a resize moves the edge it was asked to; sessions with three objects, restores and refusals keep an owner or stay where a refused createWindow left them; resizes, history limits, the alternate screen and scrolling lose or move no text of the primary screen; the row a reader of the history looks at stays until it drops out |
| `images` | `NothingLeaks`, `PublicationsKept`, `PlacementsKept`, `BudgetExact`, `PublicExact`, `FramesEnd` | leases are held by exactly one of candidate, resource and prepared state, or were released; nothing of an old epoch is published and names are not reused; placements stay on their text; counters are the sum of what is held; public bytes come out in order and those of image frames never; every image string ends once |
| `frontend` | `ActiveIsOnDisk`, `ShowsConfig`, `RestartFindsLatestWhole`, `OnlyTheRunningOperation`, `ReloadsSettle`, `BackgroundFits` | when reloads have settled, the active configuration is the one on the disk, and they do settle; the background shown is the configured one, and comes to fit the window if frames keep being drawn, or else its answer waits for one; a start after a stop at any step finds a whole layout no older than the last one confirmed, if the directory was there; only the running operation on the owner's thread changes the mux |
| `image_stale_capture`, `pane_retained_rollback`, `topology_rollback`, `reload_failure`, `create_window_refused` | one each | section 6: these are violated |

For every property of a run, `PROJECT.json` names at least one plausible slip of
the code (`mutants`) with which the same run finds it violated.

## 4. Bounds

* Scheduler: four works of three keys make a key reused, a queue full, results
  full and both workers wait; a fifth work adds only repetitions.
* Image replies: slots of two bytes in a queue of three, so that a reply of one
  byte fits behind a slot and one of two is suppressed; the wide instance has two
  panes whose decodes expire in one pass. `Deadline` 1 and `MaxTime` 2 leave an end
  before, at and after the deadline.
* Panes: an ID must be taken, rolled back and taken again by another object (two
  objects in `pane_streams`), while a third is retained or restored (three in
  `mux`, with `SYMMETRY`, which is sound there because nothing but the safety of
  that run is asked). Two chunks and the end fill a channel of two and leave one in
  the reader's hands. `MaxRefusals` 2 in `mux` lets a pane be stranded while a
  rollback is retained; in `pane_streams` 1 gives either.
* Fonts: three goroutines are a loader, one that follows it by another face of the
  source, and one that waits for either; two faces force eviction; three bytes are
  what one source of unknown size reserves, so another has to be refused. Three
  allocated entries allow one eviction and reload; while the third exists at most
  two goroutines are busy (`MCNext`).
* Topology: three windows in two workspaces, two tabs each, three panes; once the
  last window identity is used, windows have one tab (`LastWindow`). Trees have
  three panes, ratios a quarter and three quarters of a scale of four, extents odd
  and even, one of them too small for every split.
* Images: one worker, two names, decoded limit 3 and transfer limit 2, two epochs
  and two generations: a reset meets a candidate at every step of its life.
  Placements: three rows of two columns have regions above, below and inside.
  Budget: two panes and three goroutines contend for both counters of two kinds.
  The parser gets seven bytes of the OSC protocol, six of the others, four of any
  mixture. `"k"` stands for the digits of 1337 and `"0" "q"` for the preamble of a
  Sixel string.
* Front end: two edits of two files during a reload asked for once, since an
  automatic reload can follow each edit; two sizes, two resizes, two reloads, one
  failure; two processes, four files, a directory that exists or not; two
  goroutines, three scopes of operations, one window with two lifetimes.
* Terminal: two or three columns and one or two rows are one wide glyph and a half,
  a line that wraps and one that lies across the edge of a history of two rows;
  four glyphs, of which two wide. A reader has a history of three rows: the offset
  grows from one to two and from two to three with the row it is on, and at three the
  oldest row drops out, so both sides of `ViewPinned` decide. The profiles restrict
  what happens to each terminal, as `ProfileStep` and `MayPrint` list: text that is
  resized while somebody reads is printed before, and under changing limits nobody
  reads during a resize.

Deadlock checking is off in every passing run, because all these systems may stop:
clients need not submit, windows may all be closed, bounds are reached. The
liveness properties say where they must not stop.

## 5. Fairness

* Scheduler: weak fairness of each worker (a runnable goroutine runs, a job
  returns), of the consumer (the main loop drains at least every 500 ms) and of
  Close once called.
* Image replies: weak fairness of time and of what the owner has begun; strong
  fairness of expiry and delivery, which other turns of the owner may pre-empt but
  the main loop repeats. None for a worker's end.
* Panes: weak fairness of draining, of a reader giving up, of a read on a closed
  session, of Shutdown's end; strong fairness of sending, since Go serves blocked
  senders of a channel in their order. None for reads on an open session: a
  program may be silent for ever.
* Fonts: weak fairness of loads, parses and woken goroutines; none for closing a
  lease.
* Reload: weak fairness of the main thread, which polls for ever, and of a
  worker's reads. None for edits.
* Background: weak fairness of the frames something asked for, of telling the loop
  that the window has a new size, of the end of a notice, of the composing goroutines
  and of the drain of their results. None for anything else that asks for frames:
  `BackgroundFits` says under on-demand redrawing that the background fits in the end
  or its answer waits for a frame, and, if frames keep coming, as under continuous
  redrawing, that it fits.
* None for images, the mux, the scopes of its operations, layout files and the
  terminal, of which only safety is asked.

## 6. Where code and documents disagree

Each of these is a run whose property is the document's sentence.

* `docs/architecture.md:142` says an image command captures generations at frame
  termination. A Kitty decode records the generation of the last capture
  (`mux_kitty.go:108`); when text earlier in the same chunk changed the images, a
  sound decode is answered ECANCELED. Run `image_stale_capture`.
* `docs/validation/architecture-maturity-slice-3.1.md:22` says a retained rollback
  blocks new publication. `createWindow` does not look for one: it publishes a
  window whose pane takes the retained pane's ID, and until that window is closed
  every retry fails, so that tabs, splits and Shutdown are refused. Run
  `pane_retained_rollback`. `SessionsSound` holds all the same: both sessions keep
  an owner.
* The comment on `createWindow` (`mux_window_lifecycle.go:11`) says that every failed
  proposal leaves model IDs and registry ownership reusable. Its rollback() gives up
  when the close preflight of the pane is refused (`mux_window_lifecycle.go:44`), and
  leaves the pane registered, or its ID reserved, with nobody to try again, unlike
  those of spawnTab, spawnSplit and restores. The ID is the allocator's next, so no
  window, tab or split can be created any more. Run `create_window_refused`;
  `SessionsSound` says what of it is left where.
* `docs/troubleshooting.md:143` says a failed activation of a child window retains
  old-or-new state. `rollbackWindow` closes the window it made, which activates a
  neighbour and not the window that was active before. Run `topology_rollback`.
* The repository's `README.md:136` says invalid edits "remain watched for automatic recovery". After
  a failed reload the files are compared and then observed again for the new
  baseline (`reload.go:44`); an edit between the two is in the baseline and no poll
  reports it. Run `reload_failure`.

### Also seen

Met while translating, without a run of its own:

* A composed background waits for the next frame under on-demand redrawing:
  the resize worker sends its result and neither wakes the loop nor asks for a redraw
  (`background_prepare.go:180-183`), while `wake.go:15` says that everything
  without a deadline of its own "wakes the loop via an OS event or PostEmptyEvent" and
  that a missed wake-up heals itself. The loop does wake, but draws only what is
  wanted.
* `Save` makes the layout's directory when it is missing and flushes it, but not the
  directory it was made in: until the system has written that one back, a stop may
  take the new directory with a layout that was confirmed. No document promises
  otherwise; `RestartFindsLatestWhole` names it as its exception.
* `docs/scripting.md:173` (and `topology.go:62`) speak of growing a pane by delta
  cells; the code moves the divider by them, which shrinks the pane when it is the
  second one. `EdgeMoved` states what the code does.
* A resize drops the second cell of a wide glyph at the end of a row
  (`isBlankCell`, `screen.go:206`), and `repairWideCells` removes the half that is
  left with the next edit of the row, against `docs/product-roadmap.md:53-62`. The
  properties of the terminal speak of the glyph and allow it.
* `resizeTabStops` sets no default stop at the first new column when the old width
  is a multiple of eight. `RestoreCursor` and `MoveCursor` add the top margin a
  second time in origin mode. Leaving the alternate screen on a window that was
  widened restores a pending wrap in the middle of a row. In a plain OSC string
  `ESC ESC \` does not end the string, and an `ESC` inside a CSI sequence is
  swallowed. All of these are in the models as they are in the code.
* Outside the models: after the application cancels a composition the native input
  method goes on (`docs/wezterm-parity-roadmap.md:262`); the retries of
  `terminal_image_cache.go` are removed only by Close; and when the Teal publication
  fails to restore an output and then removes its marker, the output stays as it is
  (`teal_publish.go:403-446`).

## 7. Proofs

The theorems hold for every value of the constants that meets the assumptions the
modules name, all of which TLC evaluates in the runs:

* `WorkAssumption`, `CapacityAssumption` (the scheduler); `ReplyAssumption`,
  `ReplyBounds` (replies); `NoneAssumption`, `BoundsAssumption` (panes);
  `ReloadAssumption` (contents that are neither invalid nor require another file
  exist) and `FrontendAssumption` (the bound on layout files is a number; 0 is no size
  of a window, and to have no layers is not one of the layers);
  `MainAssumption` (the goroutine that made the owner is one of the goroutines);
  `StoreBounds` (limits and bounds of the image store are numbers).
* `KeyAssumption`, `SizeAssumption`, `CallersAssumption` (fonts: every key has a
  source, sizes and limits are numbers, the goroutines are finitely many).
* `BudgetAssumption` (no kind is listed twice; limits are numbers; goroutines, panes
  and the usages asked for are finitely many).
* `PlacementAssumption` (a screen of two columns at least, images of one cell at
  least, cursors on the screen, and image IDs chosen by programs apart from the ones
  the terminal allocates, which lie above `termimage.MaxWireImageID`).
* `FrameAssumption` (the parser's limits are numbers; a string may hold the selector
  1337, and a block a byte).
* Not of the modules but of the theorems themselves: `IsFiniteSet(Workers)` for the
  counting in `NoLostSignal` and `NothingLeaks`.

| Module | Theorems | Property of the runs |
|---|---|---|
| `WorkSchedulerProofs` | `TypeCorrect`, `DisposalExactlyOnce`, `KeyExclusion`, `QuietClose`, `CapacityKept`, `NeverUnannounced`, `StampsCurrent`, `SignalsSuffice`, `SchedulerImplementsLedger` | `EndsOnce`, `QuietAfterClose`, `ResultsAnnounced`, `StampIsCurrent`, `NoLostSignal`, `ImplementsLedger` |
| `ImageRepliesProofs` | `PaneKeyNamesDecode`, `DeadlineRespected`, `VerdictsFinal`, `RepliesNeverLost` | `KeyOfPending`, `DeadlineAgreed`, `VerdictFinal`, `RepliesKept` |
| `PaneSessionsProofs` | `Inductive`, `OutputInOrder`, `SessionsKept`, `Implements` | `OwnOutputInOrder`, `SessionsSound`, `ImplementsStreams` |
| `FontFacesProofs` | `FaceCacheSound`, `FacesInUseKept`, `LoadsOnce`, `MemoryAccounted` | `InUseKept`, `SingleFlight`, `FacesAccounted` |
| `ImageStoreProofs` | `StoreInvariant`, `PublicationsSound`, `NothingLeaked`, `BudgetAlwaysExact`, `PlacementsAlwaysKept` | `PublicationsKept`, `NothingLeaks`, `BudgetExact`, `PlacementsKept` |
| `ParserProofs` | `PublicAlwaysExact`, `FramesAlwaysEnd` | `PublicExact`, `FramesEnd` |
| `FrontendProofs` | `RestartSound`, `ActiveMatchesDisk`, `ConfigShown`, `OnlyTheRunning` | `RestartFindsLatestWhole`, `ActiveIsOnDisk`, `ShowsConfig`, `OnlyTheRunningOperation` |
| `SumLemmas` | lemmas on sums over finite sets | |

**Sums.** Bytes of replies, of font sources and of leases are sums over finite sets,
which the community modules define by a fold that picks its elements by CHOOSE.
`SumLemmas` shows, without an induction theorem, that for values in Nat the sum
obeys f(x) plus the sum of the rest, whichever x: a set for which it does not would
have a smallest subset for which it does not (proper inclusion of finite sets is
well founded), and that one is refuted. Adding, removing and changing an element,
disjoint unions and renumbering follow.

**Scheduler.** `EndsOnce` and one work per key are not inductive: that a work taken
from the queue is not also in somebody's hands needs to be known of every place a
work can be. The inductive invariant adds that the places are pairwise disjoint and
hold no work twice, that a work is in one of them exactly as its fate says, that an
outstanding work's key is active, and how far Close has come for each place it has
emptied. `StampIsCurrent` adds that a worker which waits for space has stamped its
key. `NoLostSignal` counts: the parked workers are fewer than the work they would
take only because each `Signal` moves one of them, which is followed by
cardinalities of the sets of parked workers; it also needs that nobody is parked
once the scheduler is closed. The refinement maps fates and keys as they are: every
action is an action of the ledger or changes none of its variables.

**Image replies.** `DeadlineAgreed` rests on the stamp of a finished job being that
of its token, which rests on `KeyOfPending`; that in turn needs that the tokens of
jobs are distinct and that a settled token is never pending again. The invariant
says so, and that a pass of the expiry works on a reading of the clock that is not
in the future. `VerdictFinal` follows: only a pending token is given a verdict, and
a pending token has none. `RepliesKept` rests on `QInv`: a waiting slot holds its
whole reservation of bytes until it is filled or taken away, what was written had
been given its number before what waits, and no pane but the one that is being fed
holds a reply at its head that could be delivered. That a pane has one pending
decode at most makes the slot which expiry, completion or a close takes away the one
its decode owned.

**Panes and sessions.** Two accounts are kept (`IInv`). `Accounted` is about the
registry: whoever has an open session is registered under its own ID, or was created
and not registered yet, or is kept for a retry, or is stranded; what is registered is
published or one of those, never both; `Numbered` places the allocator above every ID
that is published or closed, and `Stranding` the IDs left by a refused createWindow
at or above it, where they stay taken. It is
stated of any registry and any sets, so that lemmas can follow it through the middle
of an operation that creates panes, fails and rolls some of them back. `Flow` is
about one pane that is not closed: the channel holds exactly the chunks its reader
sent and its terminal has not shown, in order, and after them the end. `Reading` says
what a reader's position implies. All operations of the owner are shown to have one
shape (`Steady`: channel and terminals alone, no pane reopened, readers launched
once), which preserves `Flow`; the readers' steps and the drain are followed one by
one. The three theorems are corollaries, and the refinement uses `Steady` again:
closing is the only step of `PaneStreams` an owner's operation makes.

**Font faces.** Most operations go through states of the cache that no other
goroutine sees: a source is marked as in use, faces are evicted until there is room,
a source is added, then a face. The invariant is stated of any cache `m`
(`Sound(m, X)`): map, entries and blobs agree, a source has one reference for each
of its faces and one more if it is in X, the face about to be made, and the bytes
are the sum over the sources held. Eviction (`Gone`) preserves it for whatever set
of evictable faces goes, and cannot free the source in X. `CallsSound` adds what
each goroutine's place in Acquire says of its face, that no two at work share a face
or a load, and that pins and waiters count goroutines; `OwnersSound` says which
owners are open and who is about to close the others. Every operation is followed
through these three.

**Image store.** The published state is exchanged for one prepared earlier, so what
is claimed of publications has to be known of the staged state while decode jobs,
other closes and the steps of a reset pass by it. `Claimed` says that pixels that
were claimed and not closed are in one place, that what a staged state names and
what it retires are together what is published and what was made for it, and that
claimed candidates stay claimed, hence keep their epoch (`CandidatesLast`). `Phases`
says in which steps of the owner something can be prepared. `Registered` says that a
candidate or transfer that can still be closed is in its registry, or in the
publication that replaced the registry and whose commit will close it; `Jobs` gives
an open candidate its one job. Generations only grow (`Names`), so a new reference is
none that was ever published. `NothingLeaks` then counts: every action moves what the
counters stand for between disjoint sets, and the cardinalities of those sets change
by what the action adds to or takes from a counter. That last part assumes finitely
many workers, the publications do not.

**Budget.** `BInv` types the calls and says that each counter is the sum of what open
leases and calls hold of it, and within its limit. The sums are taken for any leases
and calls, so that a step is one change of one summand: a compare-and-swap changes
the counter and the call by the same amount (`CounterTaken`), a grant and a close
exchange a lease for a call that has taken all of its counters (`LeaseForCall`), and
anything else moves nothing (`CallOnly`). Since a counter is a sum of numbers and one
of them is what the call gives back, no release meets less than it needs.

**Placements.** `PInv` says of every placement that it is on its text, has an ID of
its own and a resource of its generation in the store, that there are as many as
reservations (`Backed`), that leaving the alternate screen leaves none of its
placements, and that the decode under way follows the screen it began on. Every
operation of the screen redraws: some placements retire, every other goes where its
text went (`Carries`). For each operation there are lemmas saying which text a cell
shows afterwards, and with them that a placement which is kept has moved with all of
its cells, or neither it nor its text has. `RedrawsKeepBacked` then counts:
placements are moved one to one.

**Parser.** Whether a byte is public is often decided bytes later, so `PublicExact`
says nothing inductive of the meantime. `PubInv` ties the mode of the projection to
the state of the parser proper (`Probing`): the projection holds something exactly
while the kind of the open sequence is not decided. Then nothing of that sequence has
been emitted (`HeldBack`), what is deferred lies before it and is not secret
(`PutOff`), and whatever still waits outside both is secret (`Ordered`). `FramesEnd`
needs a count besides (`StringCounted`): what the sink was told and what the block
holds are together the bytes read since the introducer, less an ESC that may begin
the terminator; and right after an ESC a string is where its terminator may end
(`Ended`). A byte is first followed through the parser proper, state by state
(`ByteMoves` for where it leads, `Counts` for what the sink is told), and then
through the projection, mode by mode (`Lands`: it is released, held, the first of a
new sequence, or taken with its frame), for a reset and the end of input likewise.

**Owner scope.** Until the close, which never comes back, the thread is locked and
no goroutine but Main passes the thread check, so Main is at one point of one
operation at most (`MainAt`). Nonces are never used twice (`Nonces`), so a copy of a
scope that has the active nonce is the active scope.

**Layout files.** The invariant ties a process's stage to its staging file, which no
other process uses (`Staging`, `Own`), says that what was ever put at the path is
whole and flushed (`Replaced`), and that whatever the path may name after a stop was
put there, no earlier than the last confirmed save (`OnPath`). A directory that is
new may be gone instead; then nothing is confirmed any more, and what the property
excepts is that one stop.

**Reload.** When nothing is left to do, the disk holds what was activated. Either
something is still to come, or the last look of the watch vouches for the activated
files (`Quiet`). A look is trusted only while its time is the file's, since contents
may come back; looks are ordered by these times.

**Background.** `ShowsConfig` needs that whoever carries the present generation
carries the present layers (`Fresh`).

Only model-checked, and why:

* every liveness property (`WorkEnds`, `DecodesSettle`, `ShutdownReturns`,
  `RecordsArrive`, `AcquireReturns`, `ReloadsSettle`, `BackgroundFits`): ENABLED
  and fairness are out of the prover's reach;
* `PanesTile`, `TreeStepsKept`, `TopologySound`: trees are defined by recursion, which
  no module with a theorem may reach, and `Topology` goes through sequences of panes
  with the higher-order operators of the community modules;
* `ScreensWellFormed`, `MainScreenKept`, `ViewPinned` of the terminal: grids are sequences of rows
  that a resize joins to lines and cuts again; what that returns for every grid takes
  an induction over data;
* of the types of `FontFaces` (not a property of its run), that the access order holds
  each face of the map: `SelectSeq` is recursive. The theorems do not need it.

## 8. Not modelled

* What is computed: what a decode yields (one of four outcomes), glyph shaping and
  rasterising, layout restore plans, selection, quick select, accessibility text.
  Sequential code over data, with tests of its own.
* The configuration's source graph, its composition and the publication of compiled
  Teal. Reading it is a step of `Reload`'s workers.
* The script runtime, its timers and callbacks: the swap by a reload is one step of
  `Reload`; callbacks into the mux are the nested calls of `OwnerScope`.
* The front end's windows, projections, texture cache, drawing and damage: they
  concern a GPU and a window system behind interfaces not in the repository. The main
  loop is the fairness of the owner's steps.
* Modal and input method controllers, policies, theme, diagnostics, PTY, command line.
* Of modelled parts: iTerm images apart from Sixel's (they take the same path),
  transfer deadlines and chunks, crop rectangles, the reflow of placements, resizing
  of sessions, titles and notifications, metrics, attributes, links, semantic marks
  and combining marks of cells, and every wording. Time in the scheduler is an order.
  `Mux.bootstrap` does not refuse to run while a restore is pending; the model takes
  the front end's order, which never does that.

## 9. What is left

1. `SessionsSound` and `OnlyTheRunningOperation` speak of the registry and of the
   scope; that a tab's tree has exactly the panes that are registered
   (`TopologySound`) would join the two, if trees are given without recursion.
2. The terminal core: a grid given as a function of cells, as `TerminalImages` has it,
   would let `MainScreenKept` be proved along the lines of its placements.
3. The Teal publication and the input method's generations as models of their own.
