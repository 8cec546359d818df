-------------------------- MODULE BackgroundSurface --------------------------
(***************************************************************************)
(* The layered background of a window (src/internal/frontend/glfwgl:       *)
(* background_prepare.go, background_pool.go, reload.go and                *)
(* reload_background_async.go).  Workers compose it for the size of the    *)
(* window and the layers of the configuration; both may change before the  *)
(* result is taken, and a reload brings a composition of its own, made for *)
(* the size the window had when the reload began.                          *)
(*                                                                         *)
(* Results are taken and sizes noticed by frames, which the main loop      *)
(* (app_loop.go) draws when something asks for one; the end of a           *)
(* composition does not.  That is render.redraw = "on_demand", the         *)
(* default; "continuous" is the case that something always asks.           *)
(*                                                                         *)
(* A size stands for a width, a height and a DPI, 0 for none.  How many    *)
(* bytes a composition takes does not matter, only that the pool counts    *)
(* it for as long as it is held.                                           *)
(***************************************************************************)
EXTENDS Naturals, Sequences, FiniteSets

CONSTANTS
    Sizes,         \* framebuffer sizes
    Layers,        \* lists of layers a configuration may have
    NoLayers,      \* the configuration without any
    MaxResizes,    \* bound on changes of the window's size
    MaxReloads,    \* bound on reloads
    MaxFailures    \* bound on preparations that fail

BackgroundAssumption == 0 \notin Sizes /\ NoLayers \notin Layers

VARIABLES
    window,       \* the framebuffer size now
    layers,       \* cfg.Background.Layers
    surface,      \* the active surface: its size, and the layers it shows
    requested,    \* backgroundRequestedWidth, backgroundRequestedHeight
    generation,   \* backgroundGeneration
    workers,      \* the resize workers that are composing
    results,      \* the channel of their results
    reload,       \* the reload under way, if any
    frame,        \* the size the frame being drawn began with, or 0
    composed,     \* the compositions the pool counts
    phase,        \* of the pool: "open", "draining", "closed", or "kept"
    wanted,       \* needsRedraw
    resized,      \* the window system has a change of size to tell
    notice,       \* a notice is shown and will expire
    resizes, reloads, failures
counters == << resizes, reloads, failures >>
demand == << wanted, resized, notice >>
vars == << window, layers, surface, requested, generation, workers, results,
           reload, frame, composed, phase, demand, counters >>

NoReload == [at |-> "none"]
Shown(size, drawn) == [size |-> size, layers |-> drawn]

Init ==
    /\ window \in Sizes
    /\ layers \in Layers
    /\ surface = Shown(window, layers) /\ requested = window
    /\ generation = 0 /\ workers = {} /\ results = << >>
    /\ reload = NoReload /\ frame = 0
    /\ composed = 0 /\ phase = "open"
    /\ wanted = TRUE /\ resized = FALSE /\ notice = FALSE
    /\ resizes = 0 /\ reloads = 0 /\ failures = 0
-----------------------------------------------------------------------------
(* The window changes its size, also while a frame is drawn...             *)
ResizeWindow ==
    /\ phase = "open" /\ resizes < MaxResizes
    /\ resizes' = resizes + 1
    /\ \E size \in Sizes \ {window} : window' = size
    /\ resized' = TRUE
    /\ UNCHANGED << layers, surface, requested, generation, workers, results, reload,
                    frame, composed, phase, wanted, notice, reloads, failures >>

Asks ==
    /\ phase = "open" /\ frame = 0
    /\ wanted' = TRUE
    /\ UNCHANGED << window, layers, surface, requested, generation, workers, results,
                    reload, frame, composed, phase, counters >>

(* ...of which the loop is told between frames, and asks for one.  So does *)
(* the end of a notice, and input or output of any kind.                   *)
PumpEvents == resized /\ Asks /\ resized' = FALSE /\ notice' = notice
NoticeExpires == notice /\ Asks /\ notice' = FALSE /\ resized' = resized
SomethingElse == Asks /\ UNCHANGED << resized, notice >>

(* drawFrameBody asks for the framebuffer size...                          *)
BeginFrame ==
    /\ phase = "open" /\ frame = 0
    /\ wanted
    /\ frame' = window
    /\ UNCHANGED << window, layers, surface, requested, generation, workers, results,
                    reload, composed, phase, demand, counters >>

(* Mutant: the composition of a result that comes too late is dropped.     *)
DropsStale(r) ==
    IF r.ok /\ r.generation = generation THEN composed - 1 ELSE composed

(* Whatever comes of a result, its composition is closed.                  *)
ResultClosed(r) == IF r.ok THEN composed - 1 ELSE composed

(* Mutant: a result is taken although another generation began.            *)
TakesStale(r) == r.ok

TakesResult(r) == r.generation = generation /\ r.ok

(* Mutant: a request that failed is not forgotten.                         *)
KeepsRequest(r) == requested

RequestAfter(r) ==
    IF r.generation = generation /\ ~r.ok THEN 0 ELSE requested

MayFail(fails) ==
    /\ fails => failures < MaxFailures
    /\ failures' = failures + (IF fails THEN 1 ELSE 0)

(* ...takes the results that came, in applyPreparedBackgroundResize (one   *)
(* may still fail to become a texture, and failures show a notice)...      *)
ApplyResult ==
    /\ frame # 0 /\ results # << >>
    /\ LET r == Head(results) IN
       /\ results' = Tail(results)
       /\ composed' = ResultClosed(r)
       /\ \E fails \in BOOLEAN :
            /\ fails => TakesResult(r)
            /\ MayFail(fails)
            /\ surface' = IF TakesResult(r) /\ ~fails THEN Shown(r.size, r.layers) ELSE surface
            /\ requested' = IF fails THEN 0 ELSE RequestAfter(r)
            /\ notice' = (notice \/ fails \/ (r.generation = generation /\ ~r.ok))
    /\ UNCHANGED << window, layers, generation, workers, reload, frame, phase,
                    wanted, resized, resizes, reloads >>

(* ...and ends with requestBackgroundResize.  What was asked for is drawn. *)
RequestResize ==
    /\ frame # 0 /\ results = << >>
    /\ IF layers = NoLayers \/ surface.size = frame \/ requested = frame
       THEN UNCHANGED << requested, generation, workers >>
       ELSE /\ generation' = generation + 1
            /\ requested' = frame
            /\ workers' = workers \cup
                   {[generation |-> generation', size |-> frame, layers |-> layers]}
    /\ frame' = 0 /\ wanted' = FALSE
    /\ UNCHANGED << window, layers, surface, results, reload, composed, phase,
                    resized, notice, counters >>

(* A worker's pool.prepare returns, and the result is sent.                *)
Compose(w) ==
    /\ \E fails \in BOOLEAN :
        /\ MayFail(fails)
        /\ results' = Append(results,
               [generation |-> w.generation, size |-> w.size,
                layers |-> w.layers, ok |-> ~fails])
        /\ composed' = composed + (IF fails THEN 0 ELSE 1)
    /\ workers' = workers \ {w}
    /\ UNCHANGED << window, layers, surface, requested, generation, reload,
                    frame, phase, demand, resizes, reloads >>

(* startConfigReloadWorker, which notes the size of the window.            *)
StartReload ==
    /\ phase = "open" /\ frame = 0
    /\ reload = NoReload /\ reloads < MaxReloads
    /\ reloads' = reloads + 1
    /\ \E next \in Layers \cup {NoLayers} :
        reload' = [at |-> "reading", size |-> window, layers |-> next]
    /\ UNCHANGED << window, layers, surface, requested, generation, workers,
                    results, frame, composed, phase, demand, resizes, failures >>

(* Its worker composes the background, if there are layers.                *)
ReloadComposes ==
    /\ reload.at = "reading"
    /\ \E fails \in BOOLEAN :
        /\ MayFail(fails)
        /\ reload' = [reload EXCEPT !.at = IF fails THEN "failed" ELSE "prepared"]
        /\ composed' = composed +
               (IF fails \/ reload.layers = NoLayers THEN 0 ELSE 1)
    /\ UNCHANGED << window, layers, surface, requested, generation, workers,
                    results, frame, phase, demand, resizes, reloads >>

Held == IF reload.at = "prepared" /\ reload.layers # NoLayers THEN 1 ELSE 0

(* Mutant: the generation of the resizes goes on when the layers change.   *)
SameGeneration(changed) == generation

(* commitLiveConfig: resizes begun for other layers are outdated.          *)
GenerationAfterCommit(changed) == IF changed THEN generation + 1 ELSE generation

(* Mutant: a commit asks for no frame.                                     *)
SameDemand(asked) == asked

DemandAfterCommit(asked) == TRUE

(* activateLoadedConfig commits the reload (or a failure of its own, such  *)
(* as the GPU budget, drops it), and the composition is closed.            *)
CommitReload ==
    LET changed == reload.layers # layers
        size == IF reload.layers = NoLayers THEN 0 ELSE reload.size
    IN  /\ phase = "open" /\ frame = 0 /\ reload.at = "prepared"
        /\ IF changed
           THEN surface' = Shown(size, reload.layers) /\ requested' = size
           ELSE UNCHANGED << surface, requested >>
        /\ generation' = GenerationAfterCommit(changed)
        /\ layers' = reload.layers
        /\ composed' = composed - Held
        /\ reload' = NoReload
        /\ wanted' = DemandAfterCommit(wanted)
        /\ UNCHANGED << window, workers, results, frame, phase, resized,
                        notice, counters >>

DropReload ==
    /\ phase = "open" /\ frame = 0
    /\ reload.at \in {"prepared", "failed"}
    /\ composed' = composed - Held
    /\ reload' = NoReload
    /\ UNCHANGED << window, layers, surface, requested, generation, workers,
                    results, frame, phase, demand, counters >>

Outstanding ==
    Cardinality(workers) + Len(results) + (IF reload = NoReload THEN 0 ELSE 1)

(* backgroundResourcePool.close refuses while a composition is counted.    *)
ClosePool == IF composed = 0 THEN "closed" ELSE "kept"

(* discardConfigReloadWorkers, when the frontend ends.                     *)
Discard ==
    /\ phase = "open" /\ frame = 0
    /\ phase' = IF Outstanding = 0 THEN ClosePool ELSE "draining"
    /\ generation' = IF Outstanding = 0 THEN generation ELSE generation + 1
    /\ UNCHANGED << window, layers, surface, requested, workers, results,
                    reload, frame, composed, demand, counters >>

(* Its goroutine receives the reload's result first and then the others,   *)
(* and closes each...                                                      *)
DrainReload ==
    /\ phase = "draining" /\ reload.at \in {"prepared", "failed"}
    /\ composed' = composed - Held
    /\ reload' = NoReload
    /\ UNCHANGED << window, layers, surface, requested, generation, workers,
                    results, frame, phase, demand, counters >>

DrainResult ==
    /\ phase = "draining" /\ reload = NoReload /\ results # << >>
    /\ composed' = ResultClosed(Head(results))
    /\ results' = Tail(results)
    /\ UNCHANGED << window, layers, surface, requested, generation, workers,
                    reload, frame, phase, demand, counters >>

(* ...and then the pool.                                                   *)
DrainEnds ==
    /\ phase = "draining" /\ Outstanding = 0
    /\ phase' = ClosePool
    /\ UNCHANGED << window, layers, surface, requested, generation, workers,
                    results, reload, frame, composed, demand, counters >>

Ended == phase \in {"closed", "kept"} /\ UNCHANGED vars

Frame == BeginFrame \/ ApplyResult \/ RequestResize
Demand == PumpEvents \/ NoticeExpires
Background == ReloadComposes \/ \E w \in workers : Compose(w)
Drain == DrainReload \/ DrainResult \/ DrainEnds

Next == \/ ResizeWindow \/ Demand \/ SomethingElse \/ Frame \/ Background
        \/ StartReload \/ CommitReload \/ DropReload
        \/ Discard \/ Drain \/ Ended

(* The main loop goes on: it draws the frames that are due, is told of     *)
(* events and wakes when a notice expires.  Workers run, and so does the   *)
(* goroutine that drains.  Nothing else need ever ask for a frame.         *)
Fairness ==
    /\ WF_vars(Frame) /\ WF_vars(PumpEvents) /\ WF_vars(NoticeExpires)
    /\ WF_vars(Background) /\ WF_vars(Drain)

Spec == Init /\ [][Next]_vars
FairSpec == Spec /\ Fairness
-----------------------------------------------------------------------------
(* What is shown is what the configuration says, whichever resizes were    *)
(* under way when it changed; and the pool counts exactly the compositions *)
(* that someone holds, so that it can be closed in the end.                *)
ShowsConfig ==
    /\ surface.layers = layers
    /\ composed = Held + Cardinality({i \in DOMAIN results : results[i].ok})
    /\ phase # "kept"

(* Once the window keeps its size and reloads cease, the frontend ends and *)
(* its pool is closed, or the background is drawn for that size: always if *)
(* frames keep coming, as they do when redrawing is continuous.  Otherwise *)
(* one thing may keep it from that, and it is no lost request: the answer  *)
(* to the latest request waits for a frame, and nothing asks for one.      *)
Settled == phase = "closed" \/ layers = NoLayers \/ surface.size = window
AnswerWaits ==
    /\ \E i \in DOMAIN results : results[i].generation = generation /\ results[i].size = window
    /\ ~wanted /\ ~resized /\ ~notice
BackgroundFits ==
    /\ <>[](Settled \/ AnswerWaits)
    /\ []<>(frame # 0) => <>[]Settled
=============================================================================
