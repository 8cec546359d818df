------------------------------- MODULE Reload -------------------------------
(***************************************************************************)
(* Automatic reload of the configuration (src/internal/frontend/glfwgl:    *)
(* config_watch.go, reload_controller.go, reload_background_async.go,      *)
(* reload.go) while its source files are being edited.                     *)
(*                                                                         *)
(* The main thread polls the watched files, starts workers that read and   *)
(* evaluate the sources, and activates what they prepared or installs the  *)
(* files of a failed attempt in the watch.  It looks at the disk several   *)
(* times on the way; an edit may come between any two looks, and between   *)
(* any two files a worker reads.                                           *)
(*                                                                         *)
(* A file holds one of Contents, which includes whatever a missing file    *)
(* yields; every edit gives it another modification time.  What an edit    *)
(* changes in the configuration does not matter, only whether the sources  *)
(* evaluate and which files they name.                                     *)
(***************************************************************************)
EXTENDS Naturals, Sequences, FiniteSets

CONSTANTS
    Root,          \* the selected source
    Modules,       \* the files a source may require
    Contents,      \* what a file may hold
    Requiring,     \* the contents of Root that require the Modules
    Invalid,       \* the contents that do not evaluate
    MaxEdits,      \* bound on edits
    MaxRequests,   \* bound on reloads asked for by the user
    MaxAttempts    \* bound on the workers started

ASSUME ReloadAssumption ==
    /\ Root \notin Modules
    /\ Requiring \subseteq Contents /\ Invalid \subseteq Contents
    /\ Contents \ (Requiring \cup Invalid) # {}

Files == Modules \cup {Root}
WorkerCap == 2

VARIABLES
    disk,        \* what each file holds, and its modification time
    edits, requests,
    watch,       \* configWatchState
    pending,     \* App.reloadPending
    generation,  \* configReloadAsync.generation
    workers,     \* the workers that are reading
    results,     \* the channel of their results
    main,        \* what the main thread is doing
    latest       \* the last attempt that ended: its outcome, and what it read
vars == << disk, edits, requests, watch, pending, generation, workers,
           results, main, latest >>

Idle == [at |-> "idle"]

Content(files) == [f \in files |-> disk[f].content]

(* observeWatchPaths, and configWatchState.snapshot.                       *)
Observe(files) == [f \in files |-> disk[f]]
WatchPaths == watch.active \cup watch.failed
Snapshot == [generation |-> watch.generation, files |-> Observe(WatchPaths)]

(* installPaths.                                                           *)
InstallPaths(active, failed) ==
    [active |-> active, failed |-> failed,
     baseline |-> Observe(active \cup failed),
     observed |-> Observe(active \cup failed),
     dirty |-> FALSE, generation |-> watch.generation + 1]

Init ==
    /\ disk = [f \in Files |-> [content |-> CHOOSE c \in Contents :
                                    c \notin Requiring \cup Invalid,
                                time |-> 0]]
    /\ edits = 0 /\ requests = 0
    /\ watch = [active |-> {Root}, failed |-> {},
                baseline |-> [f \in {Root} |-> disk[f]],
                observed |-> [f \in {Root} |-> disk[f]],
                dirty |-> FALSE, generation |-> 1]
    /\ pending = FALSE /\ generation = 0
    /\ workers = {} /\ results = << >>
    /\ main = Idle
    /\ latest = [outcome |-> "active", read |-> Content({Root})]
-----------------------------------------------------------------------------
(* Someone saves a file.                                                   *)
Edit ==
    /\ edits < MaxEdits
    /\ edits' = edits + 1
    /\ \E f \in Files, c \in Contents :
        disk' = [disk EXCEPT ![f] = [content |-> c, time |-> edits + 1]]
    /\ UNCHANGED << requests, watch, pending, generation, workers, results,
                    main, latest >>

(* requestReload, from the key or from a script.                           *)
RequestReload ==
    /\ main = Idle /\ requests < MaxRequests
    /\ requests' = requests + 1
    /\ pending' = TRUE
    /\ UNCHANGED << disk, edits, watch, generation, workers, results, main,
                    latest >>

(* configWatchState.poll: a change is reported by the first poll that      *)
(* finds the files as the poll before it did.  The polls are configPoll-   *)
(* Interval apart, which is longer than configReloadDebounce.              *)
Polled ==
    LET seen == Observe(WatchPaths) IN
    IF seen # watch.observed
    THEN [watch EXCEPT !.observed = seen, !.dirty = seen # watch.baseline]
    ELSE IF watch.dirty
    THEN [watch EXCEPT !.baseline = seen, !.dirty = FALSE,
                       !.generation = watch.generation + 1]
    ELSE watch

(* A frame in which the poll is due.                                       *)
Poll ==
    /\ main = Idle
    /\ watch' = Polled
    /\ pending' = (pending \/ watch'.generation # watch.generation)
    /\ main' = [at |-> "drain"]
    /\ UNCHANGED << disk, edits, requests, generation, workers, results,
                    latest >>

(* reloadIsPending and reloadWorkerCount.                                 *)
MayStart ==
    pending /\ Cardinality(workers) < WorkerCap /\ generation < MaxAttempts

(* A frame in which it is not, and there is something else to do.          *)
Frame ==
    /\ main = Idle
    /\ results # << >> \/ MayStart
    /\ main' = [at |-> "drain"]
    /\ UNCHANGED << disk, edits, requests, watch, pending, generation,
                    workers, results, latest >>

(* applyReload once the results are drained: startConfigReloadWorker, with *)
(* the snapshot of the watched files taken first.                          *)
StartWorker ==
    /\ main.at = "drain" /\ results = << >>
    /\ IF MayStart
       THEN /\ pending' = FALSE
            /\ generation' = generation + 1
            /\ workers' = workers \cup
                   {[generation |-> generation', before |-> Snapshot,
                     read |-> << >>]}
       ELSE UNCHANGED << pending, generation, workers >>
    /\ main' = Idle
    /\ UNCHANGED << disk, edits, requests, watch, results, latest >>

(* A worker's LoadVersioned reads the selected source...                   *)
ReadRoot(w) ==
    /\ w.read = << >>
    /\ workers' = (workers \ {w}) \cup {[w EXCEPT !.read = Content({Root})]}
    /\ UNCHANGED << disk, edits, requests, watch, pending, generation,
                    results, main, latest >>

(* ...and then the modules this names; it sends what came of it.           *)
Evaluate(w) ==
    /\ w.read # << >>
    /\ LET needs == IF w.read[Root] \in Requiring THEN Modules ELSE {}
           read == [f \in needs \cup {Root} |->
                        IF f = Root THEN w.read[Root] ELSE disk[f].content]
       IN  results' = Append(results,
               [generation |-> w.generation, before |-> w.before, read |-> read,
                err |-> \E f \in DOMAIN read : read[f] \in Invalid])
    /\ workers' = workers \ {w}
    /\ UNCHANGED << disk, edits, requests, watch, pending, generation, main,
                    latest >>

(* applyConfigReloadWorkerResults takes a result.  The result of an older  *)
(* generation is closed, that of a failed evaluation acknowledged as a     *)
(* failure, and any other goes to activateLoadedConfig.                    *)
TakeResult ==
    /\ main.at = "drain" /\ results # << >>
    /\ results' = Tail(results)
    /\ LET r == Head(results) IN
       main' = IF r.generation # generation THEN main
               ELSE [at |-> IF r.err THEN "failed" ELSE "prepared", result |-> r]
    /\ UNCHANGED << disk, edits, requests, watch, pending, generation,
                    workers, latest >>

(* watchHashesChanged.                                                     *)
HashesChanged(read) == Content(DOMAIN read) # read

(* activateLoadedConfig cannot prepare the candidate.                      *)
PrepareFails ==
    /\ main.at = "prepared"
    /\ main' = [main EXCEPT !.at = "failed"]
    /\ UNCHANGED << disk, edits, requests, watch, pending, generation,
                    workers, results, latest >>

(* It has prepared it, and takes watchAfterEvaluation.                     *)
TakeWatchAfter ==
    /\ main.at = "prepared"
    /\ main' = [at |-> "checking", result |-> main.result, after |-> Snapshot]
    /\ UNCHANGED << disk, edits, requests, watch, pending, generation,
                    workers, results, latest >>

(* changedDuringEvaluation or candidateFilesChanged.                       *)
ChangedMeanwhile(r, after) == r.before # after \/ HashesChanged(r.read)

(* The candidate is refused if a source changed while it was prepared, and *)
(* committed otherwise.                                                    *)
Commit ==
    /\ main.at = "checking"
    /\ IF ChangedMeanwhile(main.result, main.after)
       THEN /\ pending' = TRUE
            /\ main' = [at |-> "failed", result |-> main.result]
            /\ UNCHANGED latest
       ELSE /\ latest' = [outcome |-> "active", read |-> main.result.read]
            /\ main' = [main EXCEPT !.at = "committed"]
            /\ UNCHANGED pending
    /\ UNCHANGED << disk, edits, requests, watch, generation, workers, results >>

(* acknowledgeSuccess.                                                     *)
AcknowledgeSuccess ==
    /\ main.at = "committed"
    /\ watch' = InstallPaths(DOMAIN main.result.read, {})
    /\ main' = [main EXCEPT !.at = "acknowledged"]
    /\ UNCHANGED << disk, edits, requests, pending, generation, workers,
                    results, latest >>

(* Mutant: nothing is looked at again once the candidate is committed.     *)
TrustsInstall(after, read) == FALSE

(* changedSince or watchHashesChanged: a source changed after the check.   *)
ChangedSince(after, read) ==
    Observe(DOMAIN after.files) # after.files \/ HashesChanged(read)

Recheck ==
    /\ main.at = "acknowledged"
    /\ pending' = (pending \/ ChangedSince(main.after, main.result.read))
    /\ main' = [at |-> "drain"]
    /\ UNCHANGED << disk, edits, requests, watch, generation, workers,
                    results, latest >>

(* acknowledgeConfigReloadFailure compares the watched files with those    *)
(* seen before the attempt...                                              *)
CompareFailure ==
    /\ main.at = "failed"
    /\ main' = [at |-> "comparing", result |-> main.result,
                changed |-> main.result.before # Snapshot]
    /\ UNCHANGED << disk, edits, requests, watch, pending, generation,
                    workers, results, latest >>

(* Mutant: the set is compared with the active files.                      *)
RetriesUnlessActive(changed, expected) == changed \/ expected # watch.active

(* changedDuringAttempt or failedSetChanged.                               *)
TriesAgain(changed, expected) == changed \/ expected # watch.failed

(* ...and acknowledgeFailure then looks at all of them again.              *)
AcknowledgeFailure ==
    /\ main.at = "comparing"
    /\ LET expected == DOMAIN main.result.read IN
       /\ watch' = InstallPaths(watch.active, expected)
       /\ pending' = (pending \/ TriesAgain(main.changed, expected))
    /\ latest' = [outcome |-> "failed", read |-> main.result.read]
    /\ main' = [at |-> "drain"]
    /\ UNCHANGED << disk, edits, requests, generation, workers, results >>

Next ==
    \/ Edit \/ RequestReload \/ Poll \/ Frame \/ StartWorker
    \/ \E w \in workers : ReadRoot(w) \/ Evaluate(w)
    \/ TakeResult \/ PrepareFails \/ TakeWatchAfter \/ Commit
    \/ AcknowledgeSuccess \/ Recheck \/ CompareFailure \/ AcknowledgeFailure

(* The main loop wakes up for the polls and for the results, and does not  *)
(* block; a worker runs.  Files need not change, nor reloads be asked for. *)
MainThread ==
    \/ Poll \/ StartWorker \/ TakeResult \/ PrepareFails
    \/ TakeWatchAfter \/ Commit \/ AcknowledgeSuccess \/ Recheck
    \/ CompareFailure \/ AcknowledgeFailure

Fairness ==
    /\ WF_vars(MainThread)
    /\ WF_vars(\E w \in workers : ReadRoot(w) \/ Evaluate(w))

Spec == Init /\ [][Next]_vars
FairSpec == Spec /\ Fairness
-----------------------------------------------------------------------------
(* Nothing is left to do: no attempt is under way or due, and the polls    *)
(* will find nothing new.                                                  *)
Settled ==
    /\ main.at \in {"idle", "drain"} /\ ~pending
    /\ results = << >> /\ workers = {}
    /\ ~watch.dirty /\ watch.observed = Observe(WatchPaths)

(* No edit is overlooked: when nothing is left to do, a configuration that *)
(* was activated is the one on the disk.  (Edits between the worker's      *)
(* reads, the checks, the commit and the new baseline of the watch.)       *)
ActiveIsOnDisk ==
    Settled /\ latest.outcome = "active" => ~HashesChanged(latest.read)

(* README.md:136: "Invalid edits preserve the active runtime and remain    *)
(* watched for automatic recovery."  Nothing is left to do after a failed  *)
(* attempt only if the files are still those it read.                      *)
FailureStaysWatched ==
    Settled /\ latest.outcome = "failed" => ~HashesChanged(latest.read)

(* Reloads come to an end: an attempt that failed is not tried for ever.   *)
ReloadsSettle == <>[]Settled
=============================================================================
