----------------------------- MODULE MCFrontend -----------------------------
(***************************************************************************)
(* Four models around the window front end in one run: the reload of the   *)
(* configuration, the background of a window, the layout file, and how     *)
(* operations of windows and goroutines get into the mux.  They share no   *)
(* state (of a reload, the background only sees that one begins, commits   *)
(* or is dropped, at any time), so a behaviour runs one of them,           *)
(* "component", and leaves the others in their initial states.             *)
(***************************************************************************)
EXTENDS Reload

CONSTANTS Sizes, Layers, NoLayers, MaxResizes, MaxReloads, MaxFailures,
          Processes, MaxFiles,
          Goroutines, Main, WindowIDs, MaxScopes, MaxIncarnation

VARIABLES component,
    window, layers, surface, requested, bgGeneration, bgWorkers,
    bgResults, reload, frame, composed, phase, wanted, resized, notice,
    resizes, reloads, failures,
    stage, before, temp, document, flushed, entry, onDisk, order,
    directory, saved,
    onOwnerThread, threadLocked, muxClosed, scopeGeneration, activeScope, nextScope,
    entering, frames, kept, muxWindows, nextIncarnation, muxChanged

Bg == INSTANCE BackgroundSurface
                WITH generation <- bgGeneration,
                     workers <- bgWorkers, results <- bgResults
Store == INSTANCE LayoutStore
Scope == INSTANCE OwnerScope
             WITH closed <- muxClosed, generation <- scopeGeneration,
                  windows <- muxWindows, changed <- muxChanged

ASSUME FrontendAssumption == Bg!BackgroundAssumption /\ Store!FilesAssumption
ASSUME ScopeAssumption == Scope!MainAssumption

bgVars == << window, layers, surface, requested, bgGeneration,
                     bgWorkers, bgResults, reload, frame, composed,
                     phase, wanted, resized, notice,
                     resizes, reloads, failures >>
storeVars == << stage, before, temp, document, flushed, entry, onDisk, order,
                directory, saved >>
scopeVars == << onOwnerThread, threadLocked, muxClosed, scopeGeneration, activeScope,
                nextScope, entering, frames, kept, muxWindows, nextIncarnation, muxChanged >>

(* Sizes and layers are told apart only by being equal or not, so one      *)
(* initial state of the background stands for all of them.                 *)
MCInit ==
    /\ component \in {"reload", "background", "store", "scope"}
    /\ Init /\ Bg!Init /\ Store!Init /\ Scope!Init
    /\ window = CHOOSE size \in Sizes : TRUE
    /\ layers = CHOOSE drawn \in Layers : TRUE
    /\ component # "store" => directory = "durable"

ReloadStep == component = "reload" /\ Next
              /\ UNCHANGED << component, bgVars, storeVars, scopeVars >>
BackgroundStep == component = "background" /\ Bg!Next
                  /\ UNCHANGED << component, vars, storeVars, scopeVars >>
StoreStep == component = "store" /\ Store!Next
             /\ UNCHANGED << component, vars, bgVars, scopeVars >>
ScopeStep == component = "scope" /\ Scope!Next
             /\ UNCHANGED << component, vars, bgVars, storeVars >>
MCNext == ReloadStep \/ BackgroundStep \/ StoreStep \/ ScopeStep
allVars == << component, vars, bgVars, storeVars, scopeVars >>

(* The fairness of each, while it runs.                                    *)
MCSpec ==
    /\ MCInit /\ [][MCNext]_allVars
    /\ WF_allVars(ReloadStep /\ MainThread)
    /\ WF_allVars(ReloadStep /\ \E w \in workers : ReadRoot(w) \/ Evaluate(w))
    /\ WF_allVars(BackgroundStep /\ Bg!Frame)
    /\ WF_allVars(BackgroundStep /\ Bg!PumpEvents)
    /\ WF_allVars(BackgroundStep /\ Bg!NoticeExpires)
    /\ WF_allVars(BackgroundStep /\ Bg!Background)
    /\ WF_allVars(BackgroundStep /\ Bg!Drain)

(* The background shown is the configured one, and the pool counts exactly *)
(* what is held (BackgroundSurface).                                       *)
ShowsConfig == Bg!ShowsConfig
(* The background comes to fit the window once frames are drawn           *)
(* (BackgroundSurface).                                                    *)
BackgroundFits == Bg!BackgroundFits
(* A start finds a whole layout, the latest that was confirmed             *)
(* (LayoutStore).                                                          *)
RestartFindsLatestWhole == Store!RestartFindsLatestWhole
(* The mux is changed by the operation that runs, on the owner's thread    *)
(* (OwnerScope).                                                           *)
OnlyTheRunningOperation == Scope!OnlyTheRunningOperation
=============================================================================
