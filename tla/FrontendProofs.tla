---------------------------- MODULE FrontendProofs ----------------------------
(***************************************************************************)
(* Proofs about the four components around the window front end, each on   *)
(* its own variables as MCFrontend composes them: the reload of the        *)
(* configuration, then the background of a window (Bg), the layout file    *)
(* (Store), and the scopes of the mux's operations (Scope).                *)
(***************************************************************************)
EXTENDS MCFrontend, FiniteSetTheorems, TLAPS

(***************************************************************************)
(* Reload.  For any modules, contents and bounds, and wherever edits come: when     *)
(* nothing is left to do and a configuration was activated, the sources on *)
(* the disk are those it was read from.                                    *)
(*                                                                         *)
(* Either something is still to come (a reload asked for, an attempt of    *)
(* the current generation, a change the polls have seen once), or the last *)
(* look of the watch vouches for what was activated (Quiet).  The look     *)
(* taken after the commit may have missed an edit, and what the recheck    *)
(* then compares are contents, which may have come back: a look is         *)
(* therefore only trusted while its time is that of the file, and looks    *)
(* are ordered by these times (Looked).                                    *)
(***************************************************************************)

Stamps == [content : Contents, time : Nat]
Looks == UNION {[S -> Stamps] : S \in SUBSET Files}
Snapshots == [generation : Nat, files : Looks]
Reads == UNION {[S -> Contents] : S \in SUBSET Files}
Attempts == [generation : Nat, before : Snapshots, read : Reads, err : BOOLEAN]
Workers == [generation : Nat, before : Snapshots,
            read : {<< >>} \cup [{Root} -> Contents]]

MainTyped ==
    \/ main \in [at : {"idle", "drain"}]
    \/ main \in [at : {"prepared", "failed"}, result : Attempts]
    \/ main \in [at : {"checking", "committed", "acknowledged"}, result : Attempts,
                 after : Snapshots]
    \/ main \in [at : {"comparing"}, result : Attempts, changed : BOOLEAN]

WatchTyped ==
    /\ watch \in [active : SUBSET Files, failed : SUBSET Files, baseline : Looks,
                  observed : Looks, dirty : BOOLEAN, generation : Nat]
    /\ watch.baseline \in [WatchPaths -> Stamps]
    /\ watch.observed \in [WatchPaths -> Stamps]

Typed ==
    /\ edits \in Nat /\ pending \in BOOLEAN /\ generation \in Nat
    /\ disk \in [Files -> Stamps] /\ \A f \in Files : disk[f].time <= edits
    /\ WatchTyped
    /\ workers \subseteq Workers /\ results \in Seq(Attempts)
    /\ MainTyped
    /\ latest \in [outcome : {"active", "failed"}, read : Reads]

(* A look at a file, and a later one: a file that has not got a new time   *)
(* has not changed.                                                        *)
Since(old, new) == old.time <= new.time /\ (old.time = new.time => old = new)

Looked ==
    /\ \A f \in WatchPaths : /\ Since(watch.baseline[f], watch.observed[f])
                             /\ Since(watch.observed[f], disk[f])
    /\ watch.dirty <=> watch.observed # watch.baseline

(* What the main thread has activated and installed so far.                *)
Ends ==
    /\ main.at \in {"committed", "acknowledged"} =>
          latest = [outcome |-> "active", read |-> main.result.read]
    /\ main.at = "acknowledged" => WatchPaths = DOMAIN main.result.read

(* The attempt of the current generation has not ended.                    *)
Underway ==
    \/ \E w \in workers : w.generation = generation
    \/ \E i \in 1..Len(results) : results[i].generation = generation
    \/ main.at \notin {"idle", "drain"}

Vouched == \A f \in DOMAIN latest.read :
    /\ f \in WatchPaths
    /\ watch.observed[f].time = disk[f].time =>
          watch.observed[f].content = latest.read[f]

Quiet ==
    pending \/ Underway \/ watch.dirty \/ (latest.outcome = "active" => Vouched)

IInv == Typed /\ Looked /\ Ends /\ Quiet
-----------------------------------------------------------------------------
LEMMA FilesSound == Root \in Files /\ Modules \subseteq Files
  BY DEF Files

LEMMA Paths ==
  ASSUME WatchTyped
  PROVE  WatchPaths \subseteq Files
  BY DEF WatchTyped, WatchPaths

LEMMA LookTyped ==
  ASSUME disk \in [Files -> Stamps], NEW S \in SUBSET Files
  PROVE  /\ Observe(S) \in [S -> Stamps] /\ Observe(S) \in Looks
         /\ Content(S) \in [S -> Contents] /\ Content(S) \in Reads
<1>1. Observe(S) \in [S -> Stamps]
  BY DEF Observe
<1>2. Content(S) \in [S -> Contents]
  BY DEF Content, Stamps
<1> QED BY <1>1, <1>2 DEF Looks, Reads

LEMMA SnapshotTyped ==
  ASSUME disk \in [Files -> Stamps], WatchTyped
  PROVE  Snapshot \in Snapshots
<1>1. Observe(WatchPaths) \in Looks
  BY Paths, LookTyped
<1> QED BY <1>1 DEF Snapshot, Snapshots, WatchTyped

LEMMA ReadIsFunction ==
  ASSUME NEW r \in Reads
  PROVE  DOMAIN r \subseteq Files /\ r \in [DOMAIN r -> Contents]
  BY DEF Reads

(* A step that changes neither the disk nor the watch nor what is active. *)
LEMMA LooksStay ==
  ASSUME Looked, UNCHANGED << disk, edits, watch >>
  PROVE  Looked'
  BY DEF Looked, Since, WatchPaths

LEMMA VouchedStays ==
  ASSUME Vouched, UNCHANGED << disk, watch, latest >>
  PROVE  Vouched'
  BY DEF Vouched, WatchPaths

LEMMA InitInv == Init => IInv
<1> SUFFICES ASSUME Init PROVE IInv
  OBVIOUS
<1> DEFINE plain == CHOOSE c \in Contents : c \notin Requiring \cup Invalid
           look == [content |-> plain, time |-> 0]
<1>1. plain \in Contents
  BY ReloadAssumption
<1> HIDE DEF plain
<1>2. /\ disk = [f \in Files |-> look] /\ disk \in [Files -> Stamps] /\ disk[Root] = look
      /\ look \in Stamps
  BY <1>1, FilesSound DEF Init, Stamps, plain
<1>3. WatchPaths = {Root}
  BY DEF Init, WatchPaths
<1>4. watch = [active |-> {Root}, failed |-> {}, baseline |-> [f \in {Root} |-> look],
               observed |-> [f \in {Root} |-> look], dirty |-> FALSE, generation |-> 1]
  BY <1>2 DEF Init
<1>5. [f \in {Root} |-> look] \in [{Root} -> Stamps]
  BY <1>2
<1>6. [f \in {Root} |-> look] \in Looks
  BY <1>5, FilesSound DEF Looks
<1>7. WatchTyped
  BY <1>3, <1>4, <1>5, <1>6, FilesSound DEF WatchTyped
<1>8. Content({Root}) \in Reads
  BY <1>2, FilesSound, LookTyped
<1>9. Typed
  <2>1. MainTyped
    BY DEF Init, MainTyped, Idle
  <2>2. disk \in [Files -> Stamps] /\ \A f \in Files : disk[f].time <= 0
    <3>1. \A f \in Files : disk[f].time = 0
      BY <1>2
    <3> QED BY <3>1, <1>2
  <2>3. /\ edits = 0 /\ pending = FALSE /\ generation = 0
        /\ workers = {} /\ results = << >>
    BY DEF Init
  <2>4. latest \in [outcome : {"active", "failed"}, read : Reads]
    BY <1>8 DEF Init
  <2>5. pending \in BOOLEAN
    BY <2>3
  <2> QED BY <2>1, <2>2, <2>3, <2>4, <2>5, <1>2, <1>7 DEF Typed
<1>10. Looked
  BY <1>2, <1>3, <1>4 DEF Looked, Since
<1>11. Quiet
  BY <1>2, <1>3, <1>4 DEF Init, Quiet, Vouched, Content
<1>12. Ends
  BY DEF Init, Ends, Idle
<1> QED BY <1>9, <1>10, <1>11, <1>12 DEF IInv

LEMMA EditStep == IInv /\ Edit => IInv'
<1> SUFFICES ASSUME IInv, Edit PROVE IInv'
  OBVIOUS
<1>1. PICK f \in Files, c \in Contents :
        disk' = [disk EXCEPT ![f] = [content |-> c, time |-> edits + 1]]
  BY DEF Edit
<1>2. /\ edits' = edits + 1
      /\ UNCHANGED << requests, watch, pending, generation, workers, results, main,
                      latest >>
  BY DEF Edit
<1> HIDE DEF Edit
<1>3. /\ disk'[f].time = edits + 1 /\ disk'[f] \in Stamps
      /\ \A g \in Files \ {f} : disk'[g] = disk[g]
      /\ disk' \in [Files -> Stamps]
  BY <1>1 DEF IInv, Typed, Stamps
<1>4. WatchTyped' /\ MainTyped' /\ WatchPaths' = WatchPaths
  BY <1>2 DEF IInv, Typed, WatchTyped, MainTyped, WatchPaths
<1>5. Typed'
  BY SMTT(30), <1>2, <1>3, <1>4 DEF IInv, Typed, Stamps
<1>6. \A g \in WatchPaths :
        /\ g \in Files /\ watch.observed[g].time \in Nat /\ disk[g].time \in Nat
        /\ watch.observed[g].time <= disk[g].time /\ disk[g].time <= edits
        /\ g = f => watch.observed[g].time < disk'[g].time
  BY <1>3, Paths DEF IInv, Typed, WatchTyped, Stamps, Looked, Since
<1>7. Looked'
  <2>1. \A g \in WatchPaths : Since(watch.observed[g], disk'[g])
    <3> SUFFICES ASSUME NEW g \in WatchPaths PROVE Since(watch.observed[g], disk'[g])
      OBVIOUS
    <3>1. CASE g = f
      <4>1. watch.observed[f].time \in Nat /\ edits \in Nat
        BY <3>1, <1>6 DEF IInv, Typed
      <4>2. watch.observed[f].time < edits + 1
        BY <3>1, <1>3, <1>6
      <4> QED BY <3>1, <4>1, <4>2, <1>3 DEF Since
    <3>2. CASE g # f
      BY <3>2, <1>3, <1>6 DEF IInv, Looked
    <3> QED BY <3>1, <3>2
  <2>2. watch' = watch
    BY <1>2
  <2>3. \A g \in WatchPaths : Since(watch.baseline[g], watch.observed[g])
    BY DEF IInv, Looked
  <2>4. \A g \in WatchPaths' : /\ Since(watch'.baseline[g], watch'.observed[g])
                                /\ Since(watch'.observed[g], disk'[g])
    BY <2>1, <2>2, <2>3, <1>4
  <2>5. (watch.dirty <=> watch.observed # watch.baseline)'
    BY <2>2 DEF IInv, Looked
  <2> QED BY <2>4, <2>5 DEF Looked, Since
<1>8. Vouched => Vouched'
  BY <1>2, <1>3, <1>4, <1>6 DEF Vouched
<1>9. Ends' /\ Quiet'
  BY <1>2, <1>4, <1>8 DEF IInv, Ends, Quiet, Underway
<1> QED BY <1>5, <1>7, <1>9 DEF IInv

LEMMA RequestStep == IInv /\ RequestReload => IInv'
<1> SUFFICES ASSUME IInv, RequestReload PROVE IInv'
  OBVIOUS
<1> USE DEF RequestReload, IInv
<1>1. Typed'
  BY DEF Typed, WatchTyped, MainTyped, WatchPaths
<1> QED BY <1>1, LooksStay DEF Ends, WatchPaths, Quiet

(* One poll: the watch keeps its shape, a change it finds makes it dirty,  *)
(* and it is clean again only by reporting the change.                     *)
LEMMA Polling ==
  ASSUME IInv, watch' = Polled, UNCHANGED << disk, edits, latest >>
  PROVE  /\ WatchTyped' /\ Looked'
         /\ \/ watch'.dirty
            \/ watch'.generation # watch.generation
            \/ watch' = watch /\ ~watch.dirty
<1> DEFINE seen == Observe(WatchPaths)
<1>1. WatchPaths \subseteq Files /\ seen \in [WatchPaths -> Stamps] /\ seen \in Looks
  BY Paths, LookTyped DEF IInv, Typed
<1>2. \A f \in WatchPaths : seen[f] = disk[f]
  BY DEF Observe
<1> HIDE DEF seen
<1>3. CASE seen # watch.observed
  <2>1. watch' = [watch EXCEPT !.observed = seen, !.dirty = seen # watch.baseline]
    BY <1>3 DEF Polled, seen
  <2>2. /\ watch'.observed = seen /\ watch'.baseline = watch.baseline
        /\ watch'.active = watch.active /\ watch'.failed = watch.failed
        /\ watch'.generation = watch.generation
        /\ watch'.dirty = (seen # watch.baseline) /\ WatchPaths' = WatchPaths
    BY <2>1 DEF IInv, Typed, WatchTyped, WatchPaths
  <2>3. WatchTyped'
    BY <2>1, <2>2, <1>1 DEF IInv, Typed, WatchTyped
  <2>4. \A f \in WatchPaths : Since(watch.baseline[f], seen[f]) /\ Since(seen[f], disk[f])
    BY <1>1, <1>2 DEF IInv, Typed, WatchTyped, Looked, Since, Stamps
  <2>5. seen # watch.baseline
    <3> SUFFICES ASSUME seen = watch.baseline PROVE FALSE
      OBVIOUS
    <3>1. \A f \in WatchPaths : watch.observed[f] = seen[f]
      BY <1>1, <1>2 DEF IInv, Typed, WatchTyped, Looked, Since, Stamps
    <3> QED BY <3>1, <1>1, <1>3 DEF IInv, Typed, WatchTyped
  <2> QED BY <2>2, <2>3, <2>4, <2>5 DEF Looked
<1>4. CASE seen = watch.observed /\ watch.dirty
  <2>1. watch' = [watch EXCEPT !.baseline = seen, !.dirty = FALSE,
                               !.generation = watch.generation + 1]
    BY <1>4 DEF Polled, seen
  <2>2. /\ watch'.observed = seen /\ watch'.baseline = seen
        /\ watch'.active = watch.active /\ watch'.failed = watch.failed
        /\ watch'.generation = watch.generation + 1
        /\ watch'.dirty = FALSE /\ WatchPaths' = WatchPaths
    BY <2>1, <1>4 DEF IInv, Typed, WatchTyped, WatchPaths
  <2>3. WatchTyped'
    <3>1. watch.generation + 1 \in Nat
      BY DEF IInv, Typed, WatchTyped
    <3>2. watch' \in [active : SUBSET Files, failed : SUBSET Files, baseline : Looks,
                      observed : Looks, dirty : BOOLEAN, generation : Nat]
      BY <2>1, <3>1, <1>1 DEF IInv, Typed, WatchTyped
    <3> QED BY <3>2, <2>2, <1>1 DEF WatchTyped
  <2>4. Looked'
    BY <2>2, <1>1, <1>2 DEF Looked, Since, Stamps
  <2> QED BY <2>2, <2>3, <2>4 DEF IInv, Typed, WatchTyped
<1>5. CASE seen = watch.observed /\ ~watch.dirty
  <2>1. watch' = watch
    BY <1>5 DEF Polled, seen
  <2> QED BY <2>1, <1>5, LooksStay DEF IInv, Typed, WatchTyped, WatchPaths
<1> QED BY <1>3, <1>4, <1>5

LEMMA PollStep == IInv /\ Poll => IInv'
<1> SUFFICES ASSUME IInv, Poll PROVE IInv'
  OBVIOUS
<1>1. /\ main = Idle /\ watch' = Polled /\ main' = [at |-> "drain"]
      /\ pending' = (pending \/ watch'.generation # watch.generation)
      /\ UNCHANGED << disk, edits, requests, generation, workers, results, latest >>
  BY DEF Poll
<1>2. /\ WatchTyped' /\ Looked'
      /\ \/ watch'.dirty
         \/ watch'.generation # watch.generation
         \/ watch' = watch /\ ~watch.dirty
  BY <1>1, Polling
<1>3. Typed'
  BY <1>1, <1>2 DEF IInv, Typed, MainTyped
<1>4. Ends'
  BY <1>1 DEF Ends
<1>5. Quiet'
  BY <1>1, <1>2, VouchedStays DEF IInv, Quiet, Underway, Idle
<1> QED BY <1>2, <1>3, <1>4, <1>5 DEF IInv

LEMMA FrameStep == IInv /\ Frame => IInv'
<1> SUFFICES ASSUME IInv, Frame PROVE IInv'
  OBVIOUS
<1> USE DEF Frame, IInv
<1>1. Typed'
  BY DEF Typed, WatchTyped, MainTyped, WatchPaths
<1>2. Quiet'
  BY VouchedStays DEF Quiet, Underway, Idle
<1> QED BY <1>1, <1>2, LooksStay DEF Ends

LEMMA StartStep == IInv /\ StartWorker => IInv'
<1> SUFFICES ASSUME IInv, StartWorker PROVE IInv'
  OBVIOUS
<1>1. /\ main.at = "drain" /\ main' = Idle
      /\ UNCHANGED << disk, edits, requests, watch, results, latest >>
  BY DEF StartWorker
<1>2. CASE UNCHANGED << pending, generation, workers >>
  <2>1. Typed'
    BY <1>1, <1>2 DEF IInv, Typed, WatchTyped, MainTyped, WatchPaths, Idle
  <2>2. Quiet'
    BY <1>1, <1>2, VouchedStays DEF IInv, Quiet, Underway, Idle
  <2> QED BY <1>1, <2>1, <2>2, LooksStay DEF IInv, Ends, Idle
<1>3. CASE /\ pending' = FALSE /\ generation' = generation + 1
           /\ workers' = workers \cup
                 {[generation |-> generation', before |-> Snapshot, read |-> << >>]}
  <2> DEFINE w == [generation |-> generation', before |-> Snapshot, read |-> << >>]
  <2>1. Snapshot \in Snapshots
    BY SnapshotTyped DEF IInv, Typed
  <2>2. w \in Workers /\ w.generation = generation'
    BY <1>3, <2>1 DEF IInv, Typed, Workers
  <2> HIDE DEF w
  <2>3. w \in workers'
    BY <1>3 DEF w
  <2>4. workers' \subseteq Workers
    BY <1>3, <2>2 DEF IInv, Typed, w
  <2>5. Typed'
    <3>1. WatchTyped' /\ MainTyped'
      BY <1>1 DEF IInv, Typed, WatchTyped, MainTyped, WatchPaths, Idle
    <3>2. generation' \in Nat
      BY <1>3 DEF IInv, Typed
    <3>3. pending' \in BOOLEAN
      BY <1>3
    <3> QED BY <3>1, <3>2, <3>3, <1>1, <2>4 DEF IInv, Typed
  <2>6. Underway'
    BY <2>2, <2>3 DEF Underway
  <2> QED BY <1>1, <2>5, <2>6, LooksStay DEF IInv, Ends, Quiet, Idle
<1> QED BY <1>2, <1>3 DEF StartWorker

LEMMA ReadStep ==
  ASSUME NEW w \in workers
  PROVE  IInv /\ ReadRoot(w) => IInv'
<1> SUFFICES ASSUME IInv, ReadRoot(w) PROVE IInv'
  OBVIOUS
<1> DEFINE v == [w EXCEPT !.read = Content({Root})]
<1>1. /\ workers' = (workers \ {w}) \cup {v}
      /\ UNCHANGED << disk, edits, requests, watch, pending, generation, results,
                      main, latest >>
  BY DEF ReadRoot
<1>2. v \in Workers /\ v.generation = w.generation
  <2>1. Content({Root}) \in [{Root} -> Contents]
    BY FilesSound, LookTyped DEF IInv, Typed
  <2> QED BY <2>1 DEF IInv, Typed, Workers
<1> HIDE DEF v
<1>3. Typed'
  BY <1>1, <1>2 DEF IInv, Typed, WatchTyped, MainTyped, WatchPaths
<1>4. Underway => Underway'
  BY <1>1, <1>2 DEF Underway
<1>5. Quiet'
  BY <1>1, <1>4, VouchedStays DEF IInv, Quiet
<1> QED BY <1>1, <1>3, <1>5, LooksStay DEF IInv, Ends, WatchPaths

LEMMA EvaluateStep ==
  ASSUME NEW w \in workers
  PROVE  IInv /\ Evaluate(w) => IInv'
<1> SUFFICES ASSUME IInv, Evaluate(w) PROVE IInv'
  OBVIOUS
<1> DEFINE needs == IF w.read[Root] \in Requiring THEN Modules ELSE {}
           read == [f \in needs \cup {Root} |->
                        IF f = Root THEN w.read[Root] ELSE disk[f].content]
           err == \E f \in DOMAIN read : read[f] \in Invalid
           r == [generation |-> w.generation, before |-> w.before, read |-> read,
                 err |-> err]
<1>1. /\ workers' = workers \ {w} /\ results' = Append(results, r)
      /\ w.read # << >>
      /\ UNCHANGED << disk, edits, requests, watch, pending, generation, main, latest >>
  BY DEF Evaluate
<1>2. w \in Workers
  BY DEF IInv, Typed
<1>3. r \in Attempts /\ r.generation = w.generation
  <2>1. w.read[Root] \in Contents
    BY <1>1, <1>2 DEF Workers
  <2>2. needs \cup {Root} \subseteq Files
    BY FilesSound
  <2>3. read \in [needs \cup {Root} -> Contents]
    BY <2>1, <2>2 DEF IInv, Typed, Stamps
  <2> HIDE DEF needs
  <2>4. read \in Reads
    BY <2>2, <2>3 DEF Reads
  <2> HIDE DEF read
  <2>5. err \in BOOLEAN
    OBVIOUS
  <2> HIDE DEF err
  <2> QED BY <1>2, <2>4, <2>5 DEF Workers, Attempts
<1> HIDE DEF r
<1>4. Typed'
  BY <1>1, <1>3 DEF IInv, Typed, WatchTyped, MainTyped, WatchPaths
<1>5. Underway => Underway'
  <2>1. /\ Len(results') = Len(results) + 1 /\ Len(results) \in Nat
        /\ results'[Len(results) + 1] = r
        /\ \A i \in 1..Len(results) : results'[i] = results[i]
    BY <1>1, <1>3 DEF IInv, Typed
  <2>2. CASE w.generation = generation
    BY <2>1, <2>2, <1>1, <1>3 DEF Underway
  <2>3. CASE w.generation # generation
    BY <2>1, <2>3, <1>1 DEF Underway
  <2> QED BY <2>2, <2>3
<1>6. Quiet'
  BY <1>1, <1>5, VouchedStays DEF IInv, Quiet
<1> QED BY <1>1, <1>4, <1>6, LooksStay DEF IInv, Ends, WatchPaths

LEMMA TakeStep == IInv /\ TakeResult => IInv'
<1> SUFFICES ASSUME IInv, TakeResult PROVE IInv'
  OBVIOUS
<1> DEFINE r == Head(results)
<1>1. /\ main.at = "drain" /\ results # << >> /\ results' = Tail(results)
      /\ main' = IF r.generation # generation THEN main
                 ELSE [at |-> IF r.err THEN "failed" ELSE "prepared", result |-> r]
      /\ UNCHANGED << disk, edits, requests, watch, pending, generation, workers,
                      latest >>
  BY DEF TakeResult
<1>2. /\ r \in Attempts /\ r = results[1]
      /\ results' \in Seq(Attempts) /\ Len(results') = Len(results) - 1
      /\ Len(results) \in Nat
      /\ \A i \in 1..Len(results') : results'[i] = results[i + 1]
  BY <1>1 DEF IInv, Typed
<1> HIDE DEF r
<1>3. CASE r.generation # generation
  <2>1. main' = main
    BY <1>1, <1>3
  <2>2. Typed'
    BY <2>1, <1>1, <1>2 DEF IInv, Typed, WatchTyped, MainTyped, WatchPaths
  <2>3. ASSUME NEW i \in 1..Len(results), results[i].generation = generation
        PROVE  \E j \in 1..Len(results') : results'[j].generation = generation'
    <3>1. i # 1
      BY <2>3, <1>2, <1>3
    <3>2. i - 1 \in 1..Len(results') /\ results'[i - 1] = results[i]
      BY <3>1, <1>2
    <3> QED BY <2>3, <3>2, <1>1
  <2>4. Underway => Underway'
    BY <2>1, <2>3, <1>1 DEF Underway
  <2>5. Quiet'
    BY <2>4, <1>1, VouchedStays DEF IInv, Quiet
  <2> QED BY <2>1, <2>2, <2>5, <1>1, LooksStay DEF IInv, Ends, WatchPaths
<1>4. CASE r.generation = generation
  <2>1. \E a \in {"failed", "prepared"} : main' = [at |-> a, result |-> r]
    BY <1>1, <1>4
  <2>2. Typed'
    BY <2>1, <1>1, <1>2 DEF IInv, Typed, WatchTyped, MainTyped, WatchPaths
  <2>3. Ends' /\ Underway'
    BY <2>1 DEF Ends, Underway
  <2> QED BY <2>2, <2>3, <1>1, LooksStay DEF IInv, Quiet
<1> QED BY <1>3, <1>4

(* The steps of the main thread that only look at the disk. *)
LEMMA LookingStep ==
  ASSUME IInv, PrepareFails \/ TakeWatchAfter \/ CompareFailure
  PROVE  IInv'
<1>1. /\ main.at \in {"prepared", "failed"}
      /\ UNCHANGED << disk, edits, requests, watch, pending, generation, workers,
                      results, latest >>
  BY DEF PrepareFails, TakeWatchAfter, CompareFailure
<1>2. main.result \in Attempts
  BY <1>1 DEF IInv, Typed, MainTyped
<1>3. Snapshot \in Snapshots
  BY SnapshotTyped DEF IInv, Typed
<1>4. MainTyped' /\ main'.at \in {"failed", "checking", "comparing"}
  <2>1. CASE PrepareFails
    BY <2>1 DEF PrepareFails, IInv, Typed, MainTyped
  <2>2. CASE TakeWatchAfter
    BY <2>2, <1>2, <1>3 DEF TakeWatchAfter, MainTyped
  <2>3. CASE CompareFailure
    <3> DEFINE changed == main.result.before # Snapshot
    <3>1. main' = [at |-> "comparing", result |-> main.result, changed |-> changed]
      BY <2>3 DEF CompareFailure
    <3>2. changed \in BOOLEAN
      OBVIOUS
    <3> HIDE DEF changed
    <3> QED BY <3>1, <3>2, <1>2 DEF MainTyped
  <2> QED BY <2>1, <2>2, <2>3
<1>5. Typed'
  BY <1>1, <1>4 DEF IInv, Typed, WatchTyped, WatchPaths
<1>6. Ends' /\ Quiet'
  BY <1>4 DEF Ends, Quiet, Underway
<1> QED BY <1>1, <1>5, <1>6, LooksStay DEF IInv

LEMMA CommitStep == IInv /\ Commit => IInv'
<1> SUFFICES ASSUME IInv, Commit PROVE IInv'
  OBVIOUS
<1>1. /\ main.at = "checking"
      /\ UNCHANGED << disk, edits, requests, watch, generation, workers, results >>
  BY DEF Commit
<1>2. main.result \in Attempts /\ main.result.read \in Reads
  BY <1>1 DEF IInv, Typed, MainTyped, Attempts
<1>3. CASE /\ pending' = TRUE /\ main' = [at |-> "failed", result |-> main.result]
           /\ UNCHANGED latest
  <2>1. MainTyped' /\ Ends' /\ Quiet'
    BY <1>2, <1>3 DEF MainTyped, Ends, Quiet
  <2>2. Typed'
    BY <2>1, <1>1, <1>3 DEF IInv, Typed, WatchTyped, WatchPaths
  <2> QED BY <1>1, <2>1, <2>2, LooksStay DEF IInv
<1>4. CASE /\ latest' = [outcome |-> "active", read |-> main.result.read]
           /\ main' = [main EXCEPT !.at = "committed"] /\ UNCHANGED pending
  <2>1. MainTyped' /\ main'.at = "committed" /\ main'.result = main.result
    BY <1>1, <1>4 DEF IInv, Typed, MainTyped
  <2>2. Typed'
    BY <2>1, <1>1, <1>2, <1>4 DEF IInv, Typed, WatchTyped, WatchPaths
  <2>3. Ends' /\ Quiet'
    BY <2>1, <1>4 DEF Ends, Quiet, Underway
  <2> QED BY <1>1, <2>2, <2>3, LooksStay DEF IInv
<1> QED BY <1>3, <1>4 DEF Commit

(* A new watch looks at all of its files at once. *)
LEMMA Installed ==
  ASSUME IInv, NEW active \in SUBSET Files, NEW failed \in SUBSET Files,
         watch' = InstallPaths(active, failed), UNCHANGED << disk, edits >>
  PROVE  WatchTyped' /\ Looked' /\ WatchPaths' = active \cup failed
<1> DEFINE look == Observe(active \cup failed)
<1>1. look \in [active \cup failed -> Stamps] /\ look \in Looks
  BY LookTyped DEF IInv, Typed
<1>2. \A f \in active \cup failed : look[f] = disk[f]
  BY DEF Observe
<1> HIDE DEF look
<1>3. watch' = [active |-> active, failed |-> failed, baseline |-> look,
                observed |-> look, dirty |-> FALSE, generation |-> watch.generation + 1]
  BY DEF InstallPaths, look
<1>4. watch.generation + 1 \in Nat
  BY DEF IInv, Typed, WatchTyped
<1>5. WatchPaths' = active \cup failed
  BY <1>3 DEF WatchPaths
<1>6. watch' \in [active : SUBSET Files, failed : SUBSET Files, baseline : Looks,
                  observed : Looks, dirty : BOOLEAN, generation : Nat]
  BY <1>1, <1>3, <1>4
<1>7. WatchTyped'
  BY <1>1, <1>3, <1>5, <1>6 DEF WatchTyped
<1>8. Looked'
  BY <1>1, <1>2, <1>3, <1>5 DEF Looked, Since, Stamps
<1> QED BY <1>5, <1>7, <1>8

LEMMA AcknowledgeStep == IInv /\ AcknowledgeSuccess => IInv'
<1> SUFFICES ASSUME IInv, AcknowledgeSuccess PROVE IInv'
  OBVIOUS
<1>1. /\ main.at = "committed" /\ watch' = InstallPaths(DOMAIN main.result.read, {})
      /\ main' = [main EXCEPT !.at = "acknowledged"]
      /\ UNCHANGED << disk, edits, requests, pending, generation, workers, results,
                      latest >>
  BY DEF AcknowledgeSuccess
<1>2. MainTyped' /\ main'.at = "acknowledged" /\ main'.result = main.result
  BY <1>1 DEF IInv, Typed, MainTyped
<1>3. DOMAIN main.result.read \subseteq Files
  BY <1>1, ReadIsFunction DEF IInv, Typed, MainTyped, Attempts
<1>4. WatchTyped' /\ Looked' /\ WatchPaths' = DOMAIN main.result.read
  BY <1>1, <1>3, Installed
<1>5. Typed'
  BY <1>1, <1>2, <1>4 DEF IInv, Typed
<1>6. Ends' /\ Quiet'
  BY <1>1, <1>2, <1>4 DEF IInv, Ends, Quiet, Underway
<1> QED BY <1>4, <1>5, <1>6 DEF IInv

LEMMA RecheckStep == IInv /\ Recheck => IInv'
<1> SUFFICES ASSUME IInv, Recheck PROVE IInv'
  OBVIOUS
<1>1. /\ main.at = "acknowledged" /\ main' = [at |-> "drain"]
      /\ pending' = (pending \/ ChangedSince(main.after, main.result.read))
      /\ UNCHANGED << disk, edits, requests, watch, generation, workers, results,
                      latest >>
  BY DEF Recheck
<1>2. /\ latest = [outcome |-> "active", read |-> main.result.read]
      /\ WatchPaths = DOMAIN latest.read
  BY <1>1 DEF IInv, Ends
<1>3. pending' \in BOOLEAN
  BY <1>1
<1>4. Typed'
  BY <1>1, <1>3 DEF IInv, Typed, WatchTyped, MainTyped, WatchPaths
<1>5. ASSUME ~HashesChanged(latest.read) PROVE Vouched
  <2>1. \A f \in DOMAIN latest.read : latest.read[f] = disk[f].content
    BY <1>5 DEF HashesChanged, Content
  <2> QED BY <2>1, <1>2 DEF IInv, Looked, Since, Vouched
<1>6. Quiet'
  BY <1>1, <1>2, <1>5, VouchedStays DEF Quiet, ChangedSince
<1> QED BY <1>1, <1>4, <1>6, LooksStay DEF IInv, Ends

LEMMA AcknowledgeFailureStep == IInv /\ AcknowledgeFailure => IInv'
<1> SUFFICES ASSUME IInv, AcknowledgeFailure PROVE IInv'
  OBVIOUS
<1> DEFINE expected == DOMAIN main.result.read
<1>1. /\ main.at = "comparing" /\ main' = [at |-> "drain"]
      /\ watch' = InstallPaths(watch.active, expected)
      /\ pending' = (pending \/ TriesAgain(main.changed, expected))
      /\ latest' = [outcome |-> "failed", read |-> main.result.read]
      /\ UNCHANGED << disk, edits, requests, generation, workers, results >>
  BY DEF AcknowledgeFailure
<1>2. main.result.read \in Reads /\ expected \subseteq Files
  BY <1>1, ReadIsFunction DEF IInv, Typed, MainTyped, Attempts
<1>3. WatchTyped' /\ Looked'
  <2>1. watch.active \subseteq Files
    BY DEF IInv, Typed, WatchTyped
  <2> QED BY <2>1, <1>1, <1>2, Installed
<1>4. pending' \in BOOLEAN
  BY <1>1
<1>5. Typed'
  BY <1>1, <1>2, <1>3, <1>4 DEF IInv, Typed, MainTyped
<1>6. Ends' /\ Quiet'
  BY <1>1 DEF Ends, Quiet
<1> QED BY <1>3, <1>5, <1>6 DEF IInv

LEMMA StepInv == IInv /\ [Next]_vars => IInv'
<1> SUFFICES ASSUME IInv, [Next]_vars PROVE IInv'
  OBVIOUS
<1>1. CASE UNCHANGED vars
  BY <1>1 DEF IInv, Typed, WatchTyped, MainTyped, WatchPaths, Looked, Since, Ends,
              Quiet, Underway, Vouched, vars
<1>2. ASSUME NEW w \in workers, ReadRoot(w) \/ Evaluate(w) PROVE IInv'
  BY <1>2, ReadStep, EvaluateStep
<1> QED BY <1>1, <1>2, EditStep, RequestStep, PollStep, FrameStep, StartStep, TakeStep,
           LookingStep, CommitStep, AcknowledgeStep, RecheckStep,
           AcknowledgeFailureStep DEF Next

LEMMA SettledSound == IInv => ActiveIsOnDisk
<1> SUFFICES ASSUME IInv, Settled, latest.outcome = "active"
             PROVE  ~HashesChanged(latest.read)
  BY DEF ActiveIsOnDisk
<1>1. Vouched
  BY DEF IInv, Quiet, Underway, Settled
<1>2. \A f \in DOMAIN latest.read : latest.read[f] = disk[f].content
  BY <1>1 DEF Settled, Observe, Vouched
<1>3. latest.read \in [DOMAIN latest.read -> Contents]
  BY ReadIsFunction DEF IInv, Typed
<1> QED BY <1>2, <1>3 DEF HashesChanged, Content

(* No edit is overlooked: whenever edits come between the worker's reads,  *)
(* the checks, the commit and the new baseline of the watch, a reload that *)
(* has come to rest has activated what is on the disk (configWatchState,   *)
(* activateLoadedConfig, watchHashesChanged).                              *)
THEOREM ActiveMatchesDisk == Spec => []ActiveIsOnDisk
<1>1. Init => IInv
  BY InitInv
<1>2. IInv /\ [Next]_vars => IInv'
  BY StepInv
<1>3. IInv => ActiveIsOnDisk
  BY SettledSound
<1> QED BY <1>1, <1>2, <1>3, PTL DEF Spec

(* An instantiated module has definitions of its own of what it extends.   *)
LEMMA SameCardinality ==
    ASSUME NEW S
    PROVE  Bg!Cardinality(S) = Cardinality(S) /\ Store!Cardinality(S) = Cardinality(S)
BY DEF Bg!Cardinality, Store!Cardinality, Cardinality

-----------------------------------------------------------------------------
(***************************************************************************)
(* BackgroundSurface.  The background shown is always the configured one   *)
(* and the pool counts exactly the compositions somebody holds, for any    *)
(* sizes, layers and numbers of resizes, reloads and failures.             *)
(*                                                                         *)
(* ShowsConfig is not inductive: a result that is taken must have been     *)
(* composed for the layers configured now.  What makes it so is Fresh:     *)
(* whoever carries the present generation carries the present layers.      *)
(***************************************************************************)

AllLayers == Layers \cup {NoLayers}
Result == [generation : Nat, size : Sizes \cup {0}, layers : AllLayers, ok : BOOLEAN]
Reloading == [at : {"reading", "prepared", "failed"}, size : Sizes, layers : AllLayers]

BgTyped ==
    /\ window \in Sizes /\ frame \in Sizes \cup {0}
    /\ layers \in AllLayers
    /\ bgGeneration \in Nat
    /\ bgWorkers \subseteq [generation : Nat, size : Sizes \cup {0}, layers : AllLayers]
    /\ IsFiniteSet(bgWorkers)
    /\ bgResults \in Seq(Result)
    /\ reload \in {Bg!NoReload} \cup Reloading

Outdates(x) ==
    x.generation <= bgGeneration /\ (x.generation = bgGeneration => x.layers = layers)

Fresh ==
    /\ \A w \in bgWorkers : Outdates(w)
    /\ \A i \in DOMAIN bgResults : Outdates(bgResults[i])

BgInv == BgTyped /\ Fresh /\ Bg!ShowsConfig

Passed(s) == {i \in DOMAIN s : s[i].ok}

(* The compositions among the results, when a result is sent...            *)
LEMMA PassedAppend ==
    ASSUME NEW s \in Seq(Result), NEW r \in Result
    PROVE  /\ IsFiniteSet(Passed(s))
           /\ Cardinality(Passed(Append(s, r)))
                = Cardinality(Passed(s)) + (IF r.ok THEN 1 ELSE 0)
<1>1. IsFiniteSet(1..Len(s)) BY FS_Interval
<1>2. IsFiniteSet(Passed(s)) BY <1>1, FS_Subset DEF Passed
<1>3. Len(s) + 1 \notin Passed(s) BY DEF Passed
<1>4. Passed(Append(s, r)) = IF r.ok THEN Passed(s) \cup {Len(s) + 1} ELSE Passed(s)
    BY DEF Passed
<1>5. Cardinality(Passed(s) \cup {Len(s) + 1}) = Cardinality(Passed(s)) + 1
    BY <1>2, <1>3, FS_AddElement
<1>6. Cardinality(Passed(s)) \in Nat BY <1>2, FS_CardinalityType
<1> QED BY <1>2, <1>4, <1>5, <1>6

(* ...and when one is received.                                            *)
LEMMA PassedTail ==
    ASSUME NEW s \in Seq(Result), s # << >>
    PROVE  Cardinality(Passed(s))
             = Cardinality(Passed(Tail(s))) + (IF Head(s).ok THEN 1 ELSE 0)
<1>1. IsFiniteSet(1..Len(s)) BY FS_Interval
<1>2. IsFiniteSet(Passed(s)) BY <1>1, FS_Subset DEF Passed
<1>a. Tail(s) \in Seq(Result) OBVIOUS
<1>3. IsFiniteSet(Passed(Tail(s))) BY <1>a, FS_Interval, FS_Subset DEF Passed
<1> DEFINE Later == Passed(s) \ {1}
           shift == [i \in Passed(Tail(s)) |-> i + 1]
<1>4. shift \in Bijection(Passed(Tail(s)), Later)
    <2>1. shift \in [Passed(Tail(s)) -> Later] BY DEF Passed
    <2>2. shift \in Injection(Passed(Tail(s)), Later)
        BY <2>1 DEF Injection, IsInjective, Passed
    <2>3. shift \in Surjection(Passed(Tail(s)), Later)
        <3>1. \A j \in Later : j - 1 \in Passed(Tail(s)) /\ shift[j - 1] = j
            BY DEF Passed
        <3> QED BY <2>1, <3>1 DEF Surjection
    <2> QED BY <2>2, <2>3 DEF Bijection
<1>5. IsFiniteSet(Later) /\ Cardinality(Later) = Cardinality(Passed(Tail(s)))
    BY <1>3, <1>4, FS_Bijection DEF ExistsBijection
<1>6. 1 \in Passed(s) <=> Head(s).ok BY DEF Passed
<1>7. CASE Head(s).ok
    <2>1. Passed(s) = Later \cup {1} BY <1>6, <1>7
    <2>2. 1 \notin Later OBVIOUS
    <2>3. Cardinality(Later \cup {1}) = Cardinality(Later) + 1
        BY <1>5, <2>2, FS_AddElement
    <2> QED BY <1>5, <1>7, <2>1, <2>3
<1>8. CASE ~Head(s).ok
    <2>1. Passed(s) = Later BY <1>6, <1>8
    <2>2. Cardinality(Later) \in Nat BY <1>5, FS_CardinalityType
    <2>3. (IF Head(s).ok THEN 1 ELSE 0) = 0 BY <1>8
    <2> HIDE DEF Later
    <2> QED BY <1>5, <2>1, <2>2, <2>3
<1> QED BY <1>7, <1>8

(* The pool can be closed once nothing is outstanding.                     *)
LEMMA NothingOutstanding ==
    ASSUME BgInv, Bg!Outstanding = 0
    PROVE  /\ Bg!ClosePool = "closed" /\ bgWorkers = {}
           /\ bgResults = << >> /\ reload = Bg!NoReload
<1> USE DEF BgInv, BgTyped
<1>1. Cardinality(bgWorkers) \in Nat BY FS_CardinalityType
<1>2. Len(bgResults) \in Nat OBVIOUS
<1>3. Cardinality(bgWorkers) = 0 /\ Len(bgResults) = 0 /\ reload = Bg!NoReload
    BY <1>1, <1>2, SameCardinality DEF Bg!Outstanding
<1>4. bgWorkers = {} BY <1>3, FS_EmptySet
<1>5. bgResults = << >> BY <1>3
<1>6. Bg!Held = 0 BY <1>3 DEF Bg!Held, Bg!NoReload
<1>7. {i \in DOMAIN bgResults : bgResults[i].ok} = {} BY <1>5
<1>8. composed = 0
    <2>1. Cardinality({i \in DOMAIN bgResults : bgResults[i].ok}) = 0 BY <1>7, FS_EmptySet
    <2>2. composed = Bg!Held + Cardinality({i \in DOMAIN bgResults : bgResults[i].ok})
        BY SameCardinality DEF Bg!ShowsConfig
    <2> QED BY <1>6, <2>1, <2>2
<1> QED BY <1>3, <1>4, <1>5, <1>8 DEF Bg!ClosePool

LEMMA Initially == ASSUME Bg!Init PROVE BgInv
<1> USE DEF Bg!Init
<1>1. BgTyped
    <2>1. IsFiniteSet(bgWorkers) BY FS_EmptySet
    <2>2. bgResults \in Seq(Result) OBVIOUS
    <2> QED BY <2>1, <2>2 DEF BgTyped, AllLayers
<1>2. Fresh BY DEF Fresh
<1>3. Bg!Held = 0 BY DEF Bg!Held, Bg!NoReload
<1>4. {i \in DOMAIN bgResults : bgResults[i].ok} = {} OBVIOUS
<1>5. Bg!ShowsConfig BY <1>3, <1>4, FS_EmptySet, SameCardinality DEF Bg!ShowsConfig, Bg!Shown
<1> QED BY <1>1, <1>2, <1>5 DEF BgInv

LEMMA TypedStep == ASSUME BgInv, Bg!Next PROVE BgTyped'
<1> USE DEF BgInv, BgTyped
<1>1. CASE Bg!ResizeWindow \/ Bg!Demand \/ Bg!SomethingElse
    BY <1>1 DEF Bg!ResizeWindow, Bg!Demand, Bg!PumpEvents, Bg!NoticeExpires,
                Bg!SomethingElse, Bg!Asks
<1>2. CASE Bg!BeginFrame BY <1>2 DEF Bg!BeginFrame
<1>3. CASE Bg!ApplyResult BY <1>3 DEF Bg!ApplyResult
<1>4. CASE Bg!RequestResize
    <2> DEFINE w == [generation |-> bgGeneration + 1, size |-> frame, layers |-> layers]
    <2>1. IsFiniteSet(bgWorkers \cup {w}) BY FS_AddElement
    <2>2. \/ bgWorkers' = bgWorkers
          \/ bgWorkers' = bgWorkers \cup {w} /\ bgGeneration' = bgGeneration + 1
        BY <1>4 DEF Bg!RequestResize
    <2>3. bgGeneration' \in Nat BY <1>4 DEF Bg!RequestResize
    <2> HIDE DEF w
    <2>4. IsFiniteSet(bgWorkers') BY <2>1, <2>2
    <2>5. bgWorkers' \subseteq [generation : Nat, size : Sizes \cup {0}, layers : AllLayers]
        BY <2>2 DEF w
    <2> QED BY <1>4, <2>3, <2>4, <2>5 DEF Bg!RequestResize
<1>5. ASSUME NEW w \in bgWorkers, Bg!Compose(w) PROVE BgTyped'
    <2>1. IsFiniteSet(bgWorkers \ {w}) BY FS_RemoveElement
    <2>2. PICK fails \in BOOLEAN :
            bgResults' = Append(bgResults, [generation |-> w.generation, size |-> w.size,
                                        layers |-> w.layers, ok |-> ~fails])
        BY <1>5 DEF Bg!Compose
    <2>3. bgResults' \in Seq(Result) BY <2>2 DEF Result
    <2> QED BY <1>5, <2>1, <2>3 DEF Bg!Compose
<1>6. CASE Bg!StartReload BY <1>6 DEF Bg!StartReload, Reloading, AllLayers
<1>7. CASE Bg!ReloadComposes BY <1>7 DEF Bg!ReloadComposes, Reloading, Bg!NoReload
<1>8. CASE Bg!CommitReload BY <1>8
    DEF Bg!CommitReload, Reloading, Bg!NoReload, Bg!GenerationAfterCommit
<1>9. CASE Bg!DropReload BY <1>9 DEF Bg!DropReload
<1>10. CASE Bg!Discard BY <1>10 DEF Bg!Discard
<1>11. CASE Bg!Drain BY <1>11 DEF Bg!Drain, Bg!DrainReload, Bg!DrainResult, Bg!DrainEnds
<1>12. CASE Bg!Ended BY <1>12 DEF Bg!Ended, Bg!vars
<1> QED BY <1>1, <1>2, <1>3, <1>4, <1>5, <1>6, <1>7, <1>8, <1>9, <1>10, <1>11, <1>12
        DEF Bg!Next, Bg!Frame, Bg!Background

(* A change of the layers, like a request, begins a generation.            *)
LEMMA FreshStep == ASSUME BgInv, Bg!Next PROVE Fresh'
<1> USE DEF BgInv, BgTyped, Fresh, Outdates
<1>0. \A i \in DOMAIN bgResults : bgResults[i] \in Result OBVIOUS
<1>1. CASE \/ Bg!ResizeWindow \/ Bg!Demand \/ Bg!SomethingElse \/ Bg!BeginFrame
           \/ Bg!StartReload \/ Bg!ReloadComposes \/ Bg!DropReload
    BY <1>1
        DEF Bg!ResizeWindow, Bg!Demand, Bg!PumpEvents, Bg!NoticeExpires, Bg!SomethingElse,
            Bg!Asks, Bg!BeginFrame, Bg!StartReload, Bg!ReloadComposes, Bg!DropReload
<1>2. ASSUME bgResults' = Tail(bgResults), bgResults # << >>,
             UNCHANGED << bgGeneration, layers, bgWorkers >>
      PROVE  Fresh'
    <2>1. \A i \in DOMAIN Tail(bgResults) :
             i + 1 \in DOMAIN bgResults /\ Tail(bgResults)[i] = bgResults[i + 1]
        BY <1>2
    <2> QED BY <1>2, <2>1
<1>3. CASE Bg!ApplyResult BY <1>2, <1>3 DEF Bg!ApplyResult
<1>4. CASE Bg!DrainResult BY <1>2, <1>4 DEF Bg!DrainResult
<1>5. CASE Bg!RequestResize
    <2>1. UNCHANGED << bgResults, layers >> BY <1>5 DEF Bg!RequestResize
    <2>2. CASE UNCHANGED << bgGeneration, bgWorkers >> BY <2>1, <2>2
    <2>3. CASE bgGeneration' = bgGeneration + 1
               /\ bgWorkers' = bgWorkers \cup
                    {[generation |-> bgGeneration', size |-> frame, layers |-> layers]}
        <3>1. \A x \in bgWorkers : x.generation \in Nat OBVIOUS
        <3>2. \A i \in DOMAIN bgResults : bgResults[i].generation \in Nat BY <1>0 DEF Result
        <3> QED BY <2>1, <2>3, <3>1, <3>2
    <2> QED BY <1>5, <2>2, <2>3 DEF Bg!RequestResize
<1>6. ASSUME NEW w \in bgWorkers, Bg!Compose(w) PROVE Fresh'
    <2>1. PICK fails \in BOOLEAN :
            bgResults' = Append(bgResults, [generation |-> w.generation, size |-> w.size,
                                        layers |-> w.layers, ok |-> ~fails])
        BY <1>6 DEF Bg!Compose
    <2>2. UNCHANGED << bgGeneration, layers >> /\ bgWorkers' \subseteq bgWorkers
        BY <1>6 DEF Bg!Compose
    <2>3. \A i \in DOMAIN bgResults' :
            \/ i \in DOMAIN bgResults /\ bgResults'[i] = bgResults[i]
            \/ bgResults'[i].generation = w.generation /\ bgResults'[i].layers = w.layers
        BY <2>1
    <2> QED BY <2>2, <2>3
<1>7. CASE Bg!CommitReload
    <2>1. UNCHANGED << bgWorkers, bgResults >> BY <1>7 DEF Bg!CommitReload
    <2>2. \/ layers' = layers /\ bgGeneration' = bgGeneration
          \/ bgGeneration' = bgGeneration + 1
        BY <1>7 DEF Bg!CommitReload, Bg!GenerationAfterCommit
    <2>3. \A x \in bgWorkers : x.generation \in Nat OBVIOUS
    <2>4. \A i \in DOMAIN bgResults : bgResults[i].generation \in Nat BY <1>0 DEF Result
    <2> QED BY <2>1, <2>2, <2>3, <2>4
<1>8. CASE Bg!Discard
    <2>1. UNCHANGED << bgWorkers, bgResults, layers >> BY <1>8 DEF Bg!Discard
    <2>2. bgGeneration' = bgGeneration \/ bgGeneration' = bgGeneration + 1 BY <1>8
        DEF Bg!Discard
    <2>3. \A x \in bgWorkers : x.generation \in Nat OBVIOUS
    <2>4. \A i \in DOMAIN bgResults : bgResults[i].generation \in Nat BY <1>0 DEF Result
    <2> QED BY <2>1, <2>2, <2>3, <2>4
<1>9. CASE Bg!DrainReload \/ Bg!DrainEnds BY <1>9 DEF Bg!DrainReload, Bg!DrainEnds
<1>10. CASE Bg!Ended BY <1>10 DEF Bg!Ended, Bg!vars
<1> QED BY <1>1, <1>3, <1>4, <1>5, <1>6, <1>7, <1>8, <1>9, <1>10
        DEF Bg!Next, Bg!Frame, Bg!Background, Bg!Drain

LEMMA LayersShown == ASSUME BgInv, Bg!Next PROVE surface'.layers = layers'
<1> USE DEF BgInv, Bg!ShowsConfig, Bg!Shown
<1>1. CASE Bg!ApplyResult
    <2>1. bgResults # << >> /\ Head(bgResults) = bgResults[1] /\ 1 \in DOMAIN bgResults
        BY <1>1 DEF Bg!ApplyResult, BgTyped
    <2>2. Bg!TakesResult(Head(bgResults)) => Head(bgResults).layers = layers
        BY <2>1 DEF Fresh, Outdates, Bg!TakesResult
    <2> QED BY <1>1, <2>2 DEF Bg!ApplyResult
<1>2. CASE Bg!CommitReload BY <1>2 DEF Bg!CommitReload
<1>3. CASE UNCHANGED << surface, layers >> BY <1>3
<1> QED BY <1>1, <1>2, <1>3
        DEF Bg!Next, Bg!Frame, Bg!Background, Bg!Drain, Bg!ResizeWindow, Bg!Demand,
            Bg!PumpEvents, Bg!NoticeExpires, Bg!SomethingElse, Bg!Asks, Bg!BeginFrame,
            Bg!RequestResize, Bg!StartReload, Bg!ReloadComposes, Bg!Compose, Bg!DropReload,
            Bg!Discard, Bg!DrainReload, Bg!DrainResult, Bg!DrainEnds, Bg!Ended, Bg!vars

LEMMA CompositionsCounted ==
    ASSUME BgInv, Bg!Next
    PROVE  composed' = Bg!Held' + Cardinality(Passed(bgResults'))
<1> USE DEF BgInv
<1>1. composed = Bg!Held + Cardinality(Passed(bgResults)) 
    BY SameCardinality DEF Bg!ShowsConfig, Passed
<1>2. IsFiniteSet(Passed(bgResults)) /\ Cardinality(Passed(bgResults)) \in Nat
    <2>0. Len(bgResults) \in Nat BY DEF BgTyped
    <2>1. IsFiniteSet(1..Len(bgResults)) BY <2>0, FS_Interval
    <2>2. IsFiniteSet(Passed(bgResults)) BY <2>1, FS_Subset DEF Passed, BgTyped
    <2> QED BY <2>2, FS_CardinalityType
<1>3. Bg!Held \in {0, 1} BY DEF Bg!Held
<1>4. CASE UNCHANGED << composed, reload, bgResults >> BY <1>1, <1>4 DEF Bg!Held
<1>5. ASSUME bgResults # << >>, bgResults' = Tail(bgResults),
             composed' = Bg!ResultClosed(Head(bgResults)), reload' = reload
      PROVE  composed' = Bg!Held' + Cardinality(Passed(bgResults'))
    <2>1. Cardinality(Passed(bgResults)) =
            Cardinality(Passed(bgResults')) + (IF Head(bgResults).ok THEN 1 ELSE 0)
        BY <1>5, PassedTail DEF BgTyped
    <2>2. bgResults' \in Seq(Result) BY <1>5 DEF BgTyped
    <2>3. IsFiniteSet(Passed(bgResults'))
        BY <2>2, FS_Interval, FS_Subset DEF Passed
    <2>4. Cardinality(Passed(bgResults')) \in Nat BY <2>3, FS_CardinalityType
    <2>5. Bg!Held' = Bg!Held BY <1>5 DEF Bg!Held
    <2>6. composed' = composed - (IF Head(bgResults).ok THEN 1 ELSE 0)
        BY <1>1, <1>2, <1>3, <1>5 DEF Bg!ResultClosed
    <2> QED BY <1>1, <1>3, <2>1, <2>4, <2>5, <2>6
<1>6. CASE Bg!ApplyResult BY <1>5, <1>6 DEF Bg!ApplyResult
<1>7. CASE Bg!DrainResult BY <1>5, <1>7 DEF Bg!DrainResult
<1>8. ASSUME NEW w \in bgWorkers, Bg!Compose(w)
      PROVE  composed' = Bg!Held' + Cardinality(Passed(bgResults'))
    <2>1. PICK fails \in BOOLEAN :
            /\ bgResults' = Append(bgResults, [generation |-> w.generation, size |-> w.size,
                                           layers |-> w.layers, ok |-> ~fails])
            /\ composed' = composed + (IF fails THEN 0 ELSE 1)
        BY <1>8 DEF Bg!Compose
    <2> DEFINE r == [generation |-> w.generation, size |-> w.size,
                     layers |-> w.layers, ok |-> ~fails]
    <2>2. r \in Result BY DEF BgTyped, Result
    <2>3. Cardinality(Passed(Append(bgResults, r)))
            = Cardinality(Passed(bgResults)) + (IF r.ok THEN 1 ELSE 0)
        BY <2>2, PassedAppend DEF BgTyped
    <2>4. r.ok = ~fails OBVIOUS
    <2>5. Bg!Held' = Bg!Held BY <1>8 DEF Bg!Compose, Bg!Held
    <2>6. (IF r.ok THEN 1 ELSE 0) = (IF fails THEN 0 ELSE 1) BY <2>4
    <2>7. bgResults' = Append(bgResults, r) BY <2>1
    <2> HIDE DEF r
    <2> QED BY <1>1, <1>2, <1>3, <2>1, <2>3, <2>5, <2>6, <2>7
<1>9. CASE Bg!StartReload
    <2>1. /\ UNCHANGED << composed, bgResults >>
          /\ reload = Bg!NoReload /\ reload'.at = "reading"
        BY <1>9 DEF Bg!StartReload
    <2> QED BY <1>1, <2>1 DEF Bg!Held, Bg!NoReload
<1>10. CASE Bg!ReloadComposes
    <2>1. PICK fails \in BOOLEAN :
            /\ reload' = [reload EXCEPT !.at = IF fails THEN "failed" ELSE "prepared"]
            /\ composed' = composed +
                 (IF fails \/ reload.layers = NoLayers THEN 0 ELSE 1)
        BY <1>10 DEF Bg!ReloadComposes
    <2>2. reload.at = "reading" /\ bgResults' = bgResults BY <1>10 DEF Bg!ReloadComposes
    <2>3. reload \in Reloading BY <2>2 DEF BgTyped, Bg!NoReload
    <2>4. /\ reload'.layers = reload.layers
          /\ reload'.at = IF fails THEN "failed" ELSE "prepared"
        BY <2>1, <2>3 DEF Reloading
    <2>5. Bg!Held = 0 BY <2>2 DEF Bg!Held
    <2>6. Bg!Held' = IF fails \/ reload.layers = NoLayers THEN 0 ELSE 1
        BY <2>4 DEF Bg!Held
    <2> QED BY <1>1, <1>2, <2>1, <2>2, <2>5, <2>6
<1>11. ASSUME composed' = composed - Bg!Held, reload' = Bg!NoReload, bgResults' = bgResults
       PROVE  composed' = Bg!Held' + Cardinality(Passed(bgResults'))
    <2>1. Bg!Held' = 0 BY <1>11 DEF Bg!Held, Bg!NoReload
    <2> QED BY <1>1, <1>2, <1>3, <1>11, <2>1
<1>12. CASE Bg!CommitReload \/ Bg!DropReload \/ Bg!DrainReload
    BY <1>11, <1>12 DEF Bg!CommitReload, Bg!DropReload, Bg!DrainReload
<1> QED BY <1>4, <1>6, <1>7, <1>8, <1>9, <1>10, <1>12
        DEF Bg!Next, Bg!Frame, Bg!Background, Bg!Drain, Bg!ResizeWindow, Bg!Demand,
            Bg!PumpEvents, Bg!NoticeExpires, Bg!SomethingElse, Bg!Asks, Bg!BeginFrame,
            Bg!RequestResize, Bg!Discard, Bg!DrainEnds, Bg!Ended, Bg!vars

LEMMA NeverKept == ASSUME BgInv, Bg!Next PROVE phase' # "kept"
<1>1. phase # "kept" BY DEF BgInv, Bg!ShowsConfig
<1>2. CASE phase' = phase BY <1>1, <1>2
<1>3. CASE Bg!Discard \/ Bg!DrainEnds
    <2>1. phase' \in {"draining"} \/ (Bg!Outstanding = 0 /\ phase' = Bg!ClosePool)
        BY <1>3 DEF Bg!Discard, Bg!DrainEnds
    <2> QED BY <2>1, NothingOutstanding
<1> QED BY <1>2, <1>3
        DEF Bg!Next, Bg!Frame, Bg!Background, Bg!Drain, Bg!ResizeWindow, Bg!Demand,
            Bg!PumpEvents, Bg!NoticeExpires, Bg!SomethingElse, Bg!Asks, Bg!BeginFrame,
            Bg!ApplyResult, Bg!RequestResize, Bg!StartReload, Bg!ReloadComposes, Bg!Compose,
            Bg!CommitReload, Bg!DropReload,
            Bg!DrainReload, Bg!DrainResult, Bg!Ended, Bg!vars

(* The surface shows the configured layers, the pool counts exactly the    *)
(* compositions somebody holds, and it is never kept open for one nobody   *)
(* holds: background_prepare.go, background_pool.go,                       *)
(* reload_background_async.go.                                             *)
THEOREM ConfigShown == Bg!Spec => []ShowsConfig
<1>1. Bg!Init => BgInv BY Initially
<1>2. BgInv /\ [Bg!Next]_(Bg!vars) => BgInv'
    <2>1. ASSUME BgInv, Bg!Next PROVE BgInv'
        BY <2>1, TypedStep, FreshStep, LayersShown, CompositionsCounted, NeverKept,
           SameCardinality
        DEF BgInv, Bg!ShowsConfig, Passed
    <2>2. ASSUME BgInv, UNCHANGED Bg!vars PROVE BgInv'
        BY <2>2 DEF BgInv, BgTyped, Fresh, Outdates, Bg!ShowsConfig, Bg!Held, Bg!vars
    <2> QED BY <2>1, <2>2
<1>3. BgInv => ShowsConfig BY DEF BgInv, ShowsConfig
<1> QED BY <1>1, <1>2, <1>3, PTL DEF Bg!Spec
-----------------------------------------------------------------------------
(***************************************************************************)
(* LayoutStore.  For any number of processes and files, and wherever a     *)
(* process or the system stops: a restart finds a whole layout, and none   *)
(* older than the last one a Save has confirmed, as long as the directory  *)
(* it is saved to is still there.                                          *)
(*                                                                         *)
(* The invariant ties a process's stage to its staging file (Staging),     *)
(* which no other process uses (Own); says that what was ever put at the   *)
(* path is whole and flushed (Replaced); and that whatever the path may    *)
(* name was put there, no earlier than the last confirmed save, itself no  *)
(* later than the newest replacement (OnPath).                             *)
(***************************************************************************)

Stages == {"idle", "staged", "written", "flushed", "verified", "replaced"}

StoreTyped ==
    /\ stage \in [Processes -> Stages]
    /\ temp \in [Processes -> Store!Files \cup {0}]
    /\ document \in [Store!Files -> {"none", "empty", "partial", "whole"}]
    /\ flushed \subseteq Store!Files
    /\ entry \in Store!Files \cup {0} /\ onDisk \subseteq Store!Files \cup {0}
    /\ order \in [Store!Files -> Nat] /\ saved \in Nat
    /\ directory \in {"none", "new", "durable"}

(* How old what the path names is; 0 when there is nothing.                *)
Age(e) == IF e = 0 THEN 0 ELSE order[e]

(* What is true of the staging file at every stage.                        *)
StagedAt(p) ==
    /\ stage[p] # "idle" => temp[p] \in Store!Files /\ document[temp[p]] # "none"
    /\ stage[p] \in {"written", "flushed", "verified", "replaced"} =>
          document[temp[p]] = "whole"
    /\ stage[p] \in {"flushed", "verified", "replaced"} => temp[p] \in flushed
    /\ stage[p] \in {"staged", "written", "flushed", "verified"} =>
          order[temp[p]] = 0
    /\ stage[p] = "replaced" => order[temp[p]] # 0 /\ Age(entry) >= order[temp[p]]
Staging == \A p \in Processes : StagedAt(p)

Own == \A p, q \in Processes :
    p # q /\ stage[p] # "idle" /\ stage[q] # "idle" => temp[p] # temp[q]

Replaced == \A f \in Store!Files : order[f] # 0 =>
    document[f] = "whole" /\ f \in flushed /\ order[f] <= Store!Latest

OnPath ==
    /\ entry \in onDisk /\ saved <= Store!Latest
    /\ \A e \in onDisk : (e # 0 => order[e] # 0) /\ Age(e) >= saved

StoreInv == StoreTyped /\ Staging /\ Own /\ Replaced /\ OnPath
-----------------------------------------------------------------------------
LEMMA LatestInNat ==
  ASSUME Store!FilesAssumption
  PROVE  Store!Latest \in Nat /\ IsFiniteSet({f \in Store!Files : order[f] # 0})
<1>1. IsFiniteSet(Store!Files)
  BY FS_Interval DEF Store!Files, Store!FilesAssumption
<1>2. IsFiniteSet({f \in Store!Files : order[f] # 0})
  BY <1>1, FS_Subset
<1> QED BY <1>2, FS_CardinalityType, SameCardinality DEF Store!Latest

(* The next file to be put at the path is the newest. *)
LEMMA LatestGrows ==
  ASSUME Store!FilesAssumption, StoreTyped, NEW f \in Store!Files, order[f] = 0,
         order' = [order EXCEPT ![f] = Store!Latest + 1]
  PROVE  Store!Latest' = Store!Latest + 1
<1> DEFINE S == {g \in Store!Files : order[g] # 0}
<1>1. IsFiniteSet(S) /\ f \notin S
  BY LatestInNat
<1>2. {g \in Store!Files : order'[g] # 0} = S \cup {f}
  BY LatestInNat DEF StoreTyped
<1>3. Cardinality(S \cup {f}) = Cardinality(S) + 1
  BY <1>1, FS_AddElement
<1> QED BY <1>2, <1>3, SameCardinality DEF Store!Latest

LEMMA StoreInitInv ==
  ASSUME Store!FilesAssumption
  PROVE  Store!Init => StoreInv
<1> SUFFICES ASSUME Store!Init PROVE StoreInv
  OBVIOUS
<1>1. Store!Latest \in Nat
  BY LatestInNat
<1> QED BY <1>1
    DEF Store!Init, StoreInv, StoreTyped, Stages, Age, StagedAt, Staging, Own, Replaced,
        OnPath

LEMMA CreateStep ==
  ASSUME Store!FilesAssumption, NEW p \in Processes
  PROVE  StoreInv /\ Store!CreateTemp(p) => StoreInv'
<1> SUFFICES ASSUME StoreInv, Store!CreateTemp(p) PROVE StoreInv'
  OBVIOUS
<1>1. PICK f \in Store!Files \ Store!Created : temp' = [temp EXCEPT ![p] = f]
                                   /\ document' = [document EXCEPT ![f] = "empty"]
  BY DEF Store!CreateTemp
<1>2. document[f] = "none" /\ order[f] = 0
  BY <1>1 DEF StoreInv, Store!Created, Replaced
<1>3. /\ stage[p] = "idle" /\ stage' = [stage EXCEPT ![p] = "staged"]
      /\ directory' = (IF directory = "none" THEN "new" ELSE directory)
      /\ UNCHANGED << flushed, entry, onDisk, order, saved >>
  BY DEF Store!CreateTemp, Store!At
<1> HIDE DEF Store!CreateTemp
<1>4. StoreTyped'
  BY <1>1, <1>3 DEF StoreInv, StoreTyped, Stages
<1>5. Staging'
  BY <1>1, <1>2, <1>3 DEF StoreInv, StoreTyped, Staging, StagedAt, Age
<1>6. Own'
  BY <1>1, <1>2, <1>3 DEF StoreInv, StoreTyped, Own, Staging, StagedAt
<1>7. Replaced' /\ OnPath'
  BY <1>1, <1>2, <1>3 DEF StoreInv, StoreTyped, Replaced, OnPath, Age, Store!Latest
<1> QED BY <1>4, <1>5, <1>6, <1>7 DEF StoreInv

LEMMA WriteStep ==
  ASSUME NEW p \in Processes
  PROVE  StoreInv /\ Store!Write(p) => StoreInv'
<1> SUFFICES ASSUME StoreInv, Store!Write(p) PROVE StoreInv'
  OBVIOUS
<1>1. /\ stage[p] = "staged" /\ temp[p] \in Store!Files /\ order[temp[p]] = 0
      /\ UNCHANGED << temp, flushed, entry, onDisk, order, directory, saved >>
  BY DEF Store!Write, Store!disk, StoreInv, Staging, StagedAt
<1>2. PICK d \in {"partial", "whole"} :
        /\ document' = [document EXCEPT ![temp[p]] = d]
        /\ stage' \in {stage, [stage EXCEPT ![p] = "written"]}
        /\ d = "partial" => stage' = stage
  BY DEF Store!Write, Store!At
<1>3. StoreTyped'
  BY <1>1, <1>2 DEF StoreInv, StoreTyped, Stages
<1>4. Own'
  BY <1>1, <1>2 DEF StoreInv, StoreTyped, Own
<1>5. Staging'
  <2> SUFFICES ASSUME NEW q \in Processes PROVE StagedAt(q)'
    BY DEF Staging
  <2>1. CASE q = p
    BY <2>1, <1>1, <1>2 DEF StoreInv, StoreTyped, Staging, StagedAt
  <2>2. CASE q # p /\ stage[q] = "idle"
    BY <2>2, <1>1, <1>2 DEF StoreInv, StoreTyped, StagedAt
  <2>3. CASE q # p /\ stage[q] # "idle"
    <3>1. temp[q] # temp[p] /\ temp[q] \in Store!Files /\ StagedAt(q)
      BY <2>3, <1>1 DEF StoreInv, Own, Staging, StagedAt
    <3> QED BY <2>3, <3>1, <1>1, <1>2 DEF StoreInv, StoreTyped, StagedAt, Age
  <2> QED BY <2>1, <2>2, <2>3
<1>6. Replaced' /\ OnPath'
  BY <1>1, <1>2 DEF StoreInv, StoreTyped, Replaced, OnPath, Age, Store!Latest
<1> QED BY <1>3, <1>4, <1>5, <1>6 DEF StoreInv

LEMMA ReplaceStep ==
  ASSUME Store!FilesAssumption, NEW p \in Processes
  PROVE  StoreInv /\ Store!Replace(p) => StoreInv'
<1> SUFFICES ASSUME StoreInv, Store!Replace(p) PROVE StoreInv'
  OBVIOUS
<1> DEFINE f == temp[p]
<1>1. /\ stage[p] = "verified" /\ stage' = [stage EXCEPT ![p] = "replaced"]
      /\ entry' = f /\ onDisk' = onDisk \cup {f}
      /\ order' = [order EXCEPT ![f] = Store!Latest + 1]
      /\ UNCHANGED << temp, document, flushed, directory, saved >>
  BY DEF Store!Replace, Store!At
<1>2. f \in Store!Files /\ document[f] = "whole" /\ f \in flushed /\ order[f] = 0 /\ f # 0
  BY <1>1 DEF StoreInv, Staging, StagedAt, Store!Files
<1>3. Store!Latest \in Nat
  BY LatestInNat
<1>4. Store!Latest' = Store!Latest + 1
  BY <1>1, <1>2, <1>3, LatestGrows DEF StoreInv
<1> HIDE DEF f
<1>5. order'[f] = Store!Latest + 1 /\ \A g \in Store!Files \ {f} : order'[g] = order[g]
  BY <1>1, <1>2 DEF StoreInv, StoreTyped
<1>6. StoreTyped'
  BY <1>1, <1>2, <1>3 DEF StoreInv, StoreTyped, Stages
<1>7. Own'
  BY <1>1 DEF StoreInv, StoreTyped, Own
<1>8. Staging'
  <2> SUFFICES ASSUME NEW q \in Processes PROVE StagedAt(q)'
    BY DEF Staging
  <2>1. Age(entry)' = Store!Latest + 1
    BY <1>1, <1>2, <1>5 DEF Age
  <2>2. CASE q = p
    BY <2>1, <2>2, <1>1, <1>2, <1>3, <1>5 DEF StoreInv, StoreTyped, StagedAt, f
  <2>3. CASE q # p /\ stage[q] = "idle"
    BY <2>3, <1>1 DEF StoreInv, StoreTyped, StagedAt
  <2>4. CASE q # p /\ stage[q] # "idle"
    <3>1. temp[q] # f /\ temp[q] \in Store!Files /\ StagedAt(q)
      BY <2>4, <1>1 DEF StoreInv, Own, Staging, StagedAt, f
    <3>2. order[temp[q]] \in Nat /\ order[temp[q]] <= Store!Latest
      BY <3>1, <1>3 DEF StoreInv, StoreTyped, Replaced
    <3> QED BY <2>1, <2>4, <3>1, <3>2, <1>1, <1>3, <1>5 DEF StoreInv, StoreTyped, StagedAt
  <2> QED BY <2>2, <2>3, <2>4
<1>9. Replaced'
  BY <1>1, <1>2, <1>3, <1>4, <1>5 DEF StoreInv, StoreTyped, Replaced
<1>10. OnPath'
  <2>1. \A e \in onDisk : e # 0 => e # f /\ order'[e] = order[e]
    BY <1>2, <1>5 DEF StoreInv, StoreTyped, OnPath
  <2> QED BY <2>1, <1>1, <1>2, <1>3, <1>4, <1>5 DEF StoreInv, StoreTyped, OnPath, Age
<1> QED BY <1>6, <1>7, <1>8, <1>9, <1>10 DEF StoreInv

LEMMA SyncParentStep ==
  ASSUME Store!FilesAssumption, NEW p \in Processes
  PROVE  StoreInv /\ Store!SyncParent(p) => StoreInv'
<1> SUFFICES ASSUME StoreInv, Store!SyncParent(p) PROVE StoreInv'
  OBVIOUS
<1>1. /\ stage[p] = "replaced" /\ stage' = [stage EXCEPT ![p] = "idle"]
      /\ temp' = [temp EXCEPT ![p] = 0] /\ onDisk' = {entry}
      /\ saved' = IF order[temp[p]] > saved THEN order[temp[p]] ELSE saved
      /\ UNCHANGED << document, flushed, entry, order, directory >>
  BY DEF Store!SyncParent, Store!At
<1>2. /\ temp[p] \in Store!Files /\ order[temp[p]] \in Nat /\ order[temp[p]] # 0
      /\ order[temp[p]] <= Store!Latest /\ Age(entry) >= order[temp[p]]
  BY <1>1 DEF StoreInv, StoreTyped, Staging, StagedAt, Replaced
<1>3. Store!Latest \in Nat /\ Store!Latest' = Store!Latest
  BY <1>1, LatestInNat DEF Store!Latest
<1>4. StoreTyped'
  BY <1>1, <1>2 DEF StoreInv, StoreTyped, Stages, OnPath
<1>5. Own' /\ Staging'
  BY <1>1 DEF StoreInv, StoreTyped, Own, Staging, StagedAt, Age
<1>6. Replaced'
  BY <1>1, <1>3 DEF StoreInv, Replaced
<1>7. OnPath'
  BY <1>1, <1>2, <1>3 DEF StoreInv, StoreTyped, OnPath, Age
<1> QED BY <1>4, <1>5, <1>6, <1>7 DEF StoreInv

LEMMA StopStep ==
  ASSUME Store!FilesAssumption
  PROVE  StoreInv /\ Store!SystemStops => StoreInv'
<1> SUFFICES ASSUME StoreInv, Store!SystemStops PROVE StoreInv'
  OBVIOUS
<1>1. PICK cut \in SUBSET (Store!Created \ flushed) :
        document' = [f \in Store!Files |-> IF f \in cut THEN "partial" ELSE document[f]]
  BY DEF Store!SystemStops
<1>2. /\ stage' = [p \in Processes |-> "idle"] /\ temp' = [p \in Processes |-> 0]
      /\ flushed' = Store!Created /\ order' = order
  BY DEF Store!SystemStops
<1>3. Own' /\ Staging'
  BY <1>2 DEF Own, Staging, StagedAt
<1>4. Replaced'
  BY <1>1, <1>2 DEF StoreInv, StoreTyped, Replaced, Store!Created, Store!Latest
<1>5. CASE Store!Recovers
  <2>1. PICK e \in onDisk : entry' = e /\ onDisk' = {e}
    BY <1>5 DEF Store!Recovers
  <2>2. saved' = saved /\ directory' \in {"none", "new", "durable"}
    BY <1>5 DEF Store!Recovers, StoreInv, StoreTyped
  <2>3. StoreTyped'
    BY <2>1, <2>2, <1>1, <1>2 DEF StoreInv, StoreTyped, Stages, Store!Created
  <2>4. OnPath'
    BY <2>1, <2>2, <1>2 DEF StoreInv, OnPath, Age, Store!Latest
  <2> QED BY <2>3, <2>4, <1>3, <1>4 DEF StoreInv
<1>6. CASE Store!LosesDirectory
  <2>1. entry' = 0 /\ onDisk' = {0} /\ saved' = 0 /\ directory' = "none"
    BY <1>6 DEF Store!LosesDirectory
  <2>2. StoreTyped'
    BY <2>1, <1>1, <1>2 DEF StoreInv, StoreTyped, Stages, Store!Created
  <2>3. OnPath'
    BY <2>1, <1>2, LatestInNat DEF OnPath, Age, Store!Latest
  <2> QED BY <2>2, <2>3, <1>3, <1>4 DEF StoreInv
<1> QED BY <1>5, <1>6 DEF Store!SystemStops

LEMMA StoreStepInv ==
  ASSUME Store!FilesAssumption
  PROVE  StoreInv /\ [Store!Next]_(Store!vars) => StoreInv'
<1> SUFFICES ASSUME StoreInv, [Store!Next]_(Store!vars) PROVE StoreInv'
  OBVIOUS
<1> USE DEF Store!disk
<1>1. CASE UNCHANGED Store!vars
  BY <1>1
      DEF StoreInv, StoreTyped, Staging, StagedAt, Age, Own, Replaced, OnPath,
          Store!Latest, Store!vars
<1>2. ASSUME NEW p \in Processes, Store!Flush(p) PROVE StoreInv'
  <2>1. StoreTyped' /\ Own'
    BY <1>2 DEF Store!Flush, Store!At, StoreInv, StoreTyped, Stages, Staging, StagedAt, Own
  <2>2. Staging'
    BY <1>2 DEF Store!Flush, Store!At, StoreInv, StoreTyped, Staging, StagedAt, Age
  <2>3. Replaced' /\ OnPath'
    BY <1>2 DEF Store!Flush, StoreInv, StoreTyped, Replaced, OnPath, Age, Store!Latest
  <2> QED BY <2>1, <2>2, <2>3 DEF StoreInv
<1>3. ASSUME NEW p \in Processes, Store!Verify(p) PROVE StoreInv'
  <2>1. StoreTyped' /\ Own'
    BY <1>3 DEF Store!Verify, Store!At, StoreInv, StoreTyped, Stages, Own
  <2>2. Staging'
    BY <1>3 DEF Store!Verify, Store!At, StoreInv, StoreTyped, Staging, StagedAt, Age
  <2>3. Replaced' /\ OnPath'
    BY <1>3 DEF Store!Verify, StoreInv, Replaced, OnPath, Age, Store!Latest
  <2> QED BY <2>1, <2>2, <2>3 DEF StoreInv
<1>4. ASSUME NEW p \in Processes, Store!Fail(p) PROVE StoreInv'
  <2>1. StoreTyped' /\ Own' /\ Staging'
    BY <1>4 DEF Store!Fail, StoreInv, StoreTyped, Stages, Own, Staging, StagedAt, Age
  <2>2. Replaced' /\ OnPath'
    BY <1>4 DEF Store!Fail, StoreInv, Replaced, OnPath, Age, Store!Latest
  <2> QED BY <2>1, <2>2 DEF StoreInv
<1> QED BY <1>1, <1>2, <1>3, <1>4, CreateStep, WriteStep, ReplaceStep, SyncParentStep,
           StopStep DEF Store!Next, Store!Step

(* Whenever the system stops, the next start finds a whole document at the *)
(* path, or none if there never was one, and none older than the last one  *)
(* that a Save has confirmed (store.Save and replace of layoutstate); only *)
(* a directory that a Save has made, and that no restart has found yet,    *)
(* may be gone with what is in it.                                         *)
THEOREM RestartSound ==
  ASSUME Store!FilesAssumption
  PROVE  Store!Spec => []RestartFindsLatestWhole
<1>1. Store!Init => StoreInv
  BY StoreInitInv
<1>2. StoreInv /\ [Store!Next]_(Store!vars) => StoreInv'
  BY StoreStepInv
<1>3. StoreInv => RestartFindsLatestWhole
  BY DEF StoreInv, StoreTyped, Replaced, OnPath, Age, RestartFindsLatestWhole,
         Store!RestartFindsLatestWhole, Store!MayFind, Store!Lost
<1> QED BY <1>1, <1>2, <1>3, PTL DEF Store!Spec
-----------------------------------------------------------------------------
(***************************************************************************)
(* OwnerScope.  For any goroutines, windows and bounds: a change of the    *)
(* mux is made by its owner in the operation that runs, whoever calls and  *)
(* whatever copies of scopes are used.                                     *)
(*                                                                         *)
(* The argument is about the time before the close, which never comes      *)
(* back: until then the thread is locked, so no goroutine but Main gets    *)
(* past the thread check, and Main is at one point of one operation at     *)
(* most (MainAt); nonces are never used twice, so a copy of a scope that   *)
(* has the nonce of the active one is that one (Nonces).                   *)
(***************************************************************************)

ScopeTyped ==
    /\ muxClosed \in BOOLEAN /\ activeScope \in Nat /\ nextScope \in Nat
    /\ entering \in [Goroutines -> [step : {"none", "check", "swap", "recheck"},
                                    origin : Scope!Origins, nonce : Nat]]
    /\ frames = [g \in Goroutines |-> frames[g]]
    /\ \A s \in kept : s.nonce \in 1..nextScope

(* Only Main is on the owner's thread, and only Main has entered.          *)
Locked ==
    /\ threadLocked /\ onOwnerThread = {Main} /\ scopeGeneration = 1
    /\ \A g \in Goroutines \ {Main} :
          entering[g].step \in {"none", "check"} /\ frames[g] = << >>

Nonces == \A s, t \in kept : s.nonce = t.nonce => s = t

(* A nonce that was drawn and is in no scope yet.                          *)
Drawn(n) == n \in 1..nextScope /\ \A s \in kept : s.nonce # n

(* Where Main is: between the check and the swap, between the swap and the *)
(* second check, in no operation or in one.                                *)
MainAt ==
    CASE entering[Main].step = "swap" ->
            activeScope = 0 /\ frames[Main] = << >> /\ Drawn(entering[Main].nonce)
      [] entering[Main].step = "recheck" ->
            /\ activeScope = entering[Main].nonce
            /\ frames[Main] = << >> /\ Drawn(entering[Main].nonce)
      [] OTHER ->
            \/ activeScope = 0 /\ frames[Main] = << >>
            \/ \E s \in kept : frames[Main] = << s >> /\ activeScope = s.nonce

ScopeOpen == Locked /\ Nonces /\ MainAt
ScopeInv == ScopeTyped /\ (~muxClosed => ScopeOpen)
-----------------------------------------------------------------------------
LEMMA ScopeBegins ==
  ASSUME Scope!MainAssumption
  PROVE  Scope!Init => ScopeInv
<1> SUFFICES ASSUME Scope!Init PROVE ScopeInv
  OBVIOUS
<1> USE DEF Scope!Init, Scope!MainAssumption, Scope!NotCalling, Scope!NoOrigin
<1>1. ScopeTyped
  BY DEF ScopeTyped, Scope!Origins
<1>2. ScopeOpen
  BY DEF ScopeOpen, Locked, Nonces, MainAt
<1> QED BY <1>1, <1>2 DEF ScopeInv

(* A copy of a scope that is valid is that of the operation Main is in. *)
LEMMA ValidIsRunning ==
  ASSUME ScopeInv, NEW g \in Goroutines, NEW scope \in kept, Scope!Valid(g, scope)
  PROVE  /\ g = Main /\ ~muxClosed /\ frames[Main] = << scope >>
<1>1. ~muxClosed /\ g = Main
  BY DEF Scope!Valid, ScopeInv, ScopeOpen, Locked
<1>2. activeScope = scope.nonce /\ scope.nonce # 0
  BY DEF Scope!Valid
<1>3. PICK s \in kept : frames[Main] = << s >> /\ activeScope = s.nonce
  BY <1>1, <1>2 DEF ScopeInv, ScopeOpen, MainAt, Drawn
<1>4. s = scope
  BY <1>1, <1>2, <1>3 DEF ScopeInv, ScopeOpen, Nonces
<1> QED BY <1>1, <1>3, <1>4

LEMMA ScopeCheckStep ==
  ASSUME Scope!MainAssumption, NEW g \in Goroutines
  PROVE  ScopeInv /\ Scope!Check(g) => ScopeInv'
<1> SUFFICES ASSUME ScopeInv, Scope!Check(g) PROVE ScopeInv'
  OBVIOUS
<1> USE DEF Scope!Check, Scope!Refuse, Scope!NotCalling, Scope!NoOrigin, Scope!MainAssumption
<1>1. ScopeTyped'
  BY DEF ScopeInv, ScopeTyped, Scope!Origins
<1>2. ASSUME ~muxClosed PROVE ScopeOpen'
  <2>1. Locked' /\ Nonces'
    <3>1. Locked'
      <4>1. \A h \in Goroutines \ {Main} : entering'[h].step \in {"none", "check"}
        BY SMTT(30), <1>2 DEF ScopeInv, ScopeOpen, Locked, ScopeTyped
      <4> QED BY <4>1, <1>2 DEF ScopeInv, ScopeOpen, Locked
    <3>2. Nonces'
      BY <1>2 DEF ScopeInv, ScopeOpen, Nonces
    <3> QED BY <3>1, <3>2
  <2>2. MainAt'
    <3>1. CASE g # Main
      <4>1. UNCHANGED << nextScope, activeScope, kept >>
            /\ frames' = frames /\ entering'[Main] = entering[Main]
        BY <3>1, <1>2 DEF ScopeInv, ScopeOpen, Locked, ScopeTyped
      <4> QED BY <4>1, <1>2 DEF ScopeInv, ScopeOpen, MainAt, Drawn
    <3>2. CASE g = Main /\ activeScope # 0
      BY <3>2, <1>2 DEF ScopeInv, ScopeOpen, ScopeTyped, MainAt
    <3>3. CASE g = Main /\ activeScope = 0
      <4>1. frames[Main] = << >>
        BY <3>3, <1>2 DEF ScopeInv, ScopeOpen, ScopeTyped, MainAt
      <4>2. /\ entering'[Main].step = "swap" /\ entering'[Main].nonce = nextScope'
            /\ nextScope' = nextScope + 1 /\ activeScope' = 0 /\ frames' = frames
            /\ kept' = kept
        BY <3>3, <1>2 DEF ScopeInv, ScopeOpen, Locked, ScopeTyped
      <4>3. Drawn(nextScope)'
        BY <4>2 DEF ScopeInv, ScopeTyped, Drawn
      <4> QED BY <4>1, <4>2, <4>3 DEF MainAt, Drawn
    <3> QED BY <3>1, <3>2, <3>3
  <2> QED BY <2>1, <2>2 DEF ScopeOpen
<1> QED BY <1>1, <1>2 DEF ScopeInv

LEMMA ScopeSwapStep ==
  ASSUME Scope!MainAssumption, NEW g \in Goroutines
  PROVE  ScopeInv /\ Scope!Swap(g) => ScopeInv'
<1> SUFFICES ASSUME ScopeInv, Scope!Swap(g) PROVE ScopeInv'
  OBVIOUS
<1> USE DEF Scope!Swap, Scope!Refuse, Scope!NotCalling, Scope!NoOrigin, Scope!MainAssumption
<1>1. ScopeTyped'
  BY DEF ScopeInv, ScopeTyped, Scope!Origins
<1>2. ASSUME ~muxClosed PROVE ScopeOpen'
  <2>1. g = Main
    BY <1>2 DEF ScopeInv, ScopeOpen, Locked
  <2>2. activeScope = 0 /\ frames[Main] = << >> /\ Drawn(entering[Main].nonce)
    BY <2>1, <1>2 DEF ScopeInv, ScopeOpen, MainAt
  <2>3. Locked' /\ Nonces'
    BY <2>1, <1>2 DEF ScopeInv, ScopeOpen, Locked, Nonces, ScopeTyped
  <2>4. MainAt'
    BY <2>1, <2>2, <1>2 DEF ScopeInv, ScopeTyped, MainAt, Drawn
  <2> QED BY <2>3, <2>4 DEF ScopeOpen
<1> QED BY <1>1, <1>2 DEF ScopeInv

LEMMA ScopeRecheckStep ==
  ASSUME Scope!MainAssumption, NEW g \in Goroutines
  PROVE  ScopeInv /\ Scope!Recheck(g) => ScopeInv'
<1> SUFFICES ASSUME ScopeInv, Scope!Recheck(g) PROVE ScopeInv'
  OBVIOUS
<1> USE DEF Scope!Recheck, Scope!Refuse, Scope!NotCalling, Scope!NoOrigin, Scope!MainAssumption
<1>1. CASE muxClosed
  BY <1>1 DEF ScopeInv, ScopeTyped, Scope!Origins
<1>2. CASE ~muxClosed
  <2> DEFINE scope == [nonce |-> entering[g].nonce, generation |-> scopeGeneration,
                       origin |-> entering[g].origin]
  <2>1. g = Main /\ scopeGeneration = 1
    BY <1>2 DEF ScopeInv, ScopeOpen, Locked
  <2>2. /\ activeScope = entering[Main].nonce
        /\ frames[Main] = << >> /\ Drawn(entering[Main].nonce)
    BY <2>1, <1>2 DEF ScopeInv, ScopeOpen, MainAt
  <2>3. /\ frames' = [frames EXCEPT ![Main] = << scope >>]
        /\ kept' = kept \cup {scope} /\ UNCHANGED activeScope
    BY <2>1, <2>2, <1>2 DEF ScopeInv, ScopeTyped
  <2>4. scope.nonce = entering[Main].nonce
    BY <2>1
  <2> HIDE DEF scope
  <2>5. ScopeTyped'
    BY <2>2, <2>3, <2>4 DEF ScopeInv, ScopeTyped, Scope!Origins, Drawn
  <2>6. Locked'
    BY <2>1, <2>3, <1>2 DEF ScopeInv, ScopeOpen, Locked, ScopeTyped
  <2>7. Nonces'
    BY <2>2, <2>3, <2>4, <1>2 DEF ScopeInv, ScopeOpen, Nonces, Drawn
  <2>8. MainAt'
    BY <2>1, <2>2, <2>3, <2>4, <1>2 DEF ScopeInv, ScopeTyped, MainAt
  <2> QED BY <2>5, <2>6, <2>7, <2>8 DEF ScopeInv, ScopeOpen
<1> QED BY <1>1, <1>2

LEMMA ScopeLeaveStep ==
  ASSUME Scope!MainAssumption, NEW g \in Goroutines
  PROVE  ScopeInv /\ Scope!Leave(g) => ScopeInv'
<1> SUFFICES ASSUME ScopeInv, Scope!Leave(g) PROVE ScopeInv'
  OBVIOUS
<1> USE DEF Scope!Leave, Scope!NotCalling, Scope!MainAssumption
<1>1. activeScope' \in {0, activeScope}
  OBVIOUS
<1>2. ScopeTyped'
  BY <1>1 DEF ScopeInv, ScopeTyped
<1>3. ASSUME ~muxClosed PROVE ScopeOpen'
  <2>1. g = Main
    BY <1>3 DEF ScopeInv, ScopeOpen, Locked
  <2>2. PICK s \in kept : frames[Main] = << s >> /\ activeScope = s.nonce
    BY <2>1, <1>3 DEF ScopeInv, ScopeOpen, MainAt
  <2>3. activeScope' = 0 /\ frames'[Main] = << >>
    BY <2>1, <2>2 DEF ScopeInv, ScopeTyped
  <2>4. Locked' /\ Nonces'
    BY <2>1, <1>3 DEF ScopeInv, ScopeOpen, Locked, Nonces, ScopeTyped
  <2>5. MainAt'
    BY <2>1, <2>3 DEF MainAt
  <2> QED BY <2>4, <2>5 DEF ScopeOpen
<1> QED BY <1>2, <1>3 DEF ScopeInv

LEMMA ScopeStepInv ==
  ASSUME Scope!MainAssumption
  PROVE  ScopeInv /\ [Scope!Next]_(Scope!vars) => ScopeInv'
<1> SUFFICES ASSUME ScopeInv, [Scope!Next]_(Scope!vars) PROVE ScopeInv'
  OBVIOUS
<1> USE DEF Scope!MainAssumption, Scope!gate
<1>1. CASE UNCHANGED Scope!vars
  BY <1>1 DEF ScopeInv, ScopeTyped, ScopeOpen, Locked, Nonces, MainAt, Drawn, Scope!vars
<1>2. ASSUME NEW g \in Goroutines, Scope!Reschedule(g) PROVE ScopeInv'
  BY <1>2 DEF Scope!Reschedule, ScopeInv, ScopeTyped, ScopeOpen, Locked
<1>3. ASSUME NEW g \in Goroutines, NEW origin \in Scope!Origins, Scope!Call(g, origin) PROVE ScopeInv'
  <2>1. ScopeTyped'
    BY <1>3 DEF Scope!Call, ScopeInv, ScopeTyped
  <2>2. ASSUME ~muxClosed PROVE ScopeOpen'
    <3>1. Locked' /\ Nonces'
      BY <1>3, <2>2 DEF Scope!Call, ScopeInv, ScopeTyped, ScopeOpen, Locked, Nonces
    <3>2. MainAt'
      BY <1>3, <2>2 DEF Scope!Call, Scope!NotCalling, ScopeInv, ScopeTyped, ScopeOpen, MainAt, Drawn
    <3> QED BY <3>1, <3>2 DEF ScopeOpen
  <2> QED BY <2>1, <2>2, <1>3 DEF Scope!Call, ScopeInv
<1>4. ASSUME NEW g \in Goroutines, Scope!PublishClosed(g) PROVE ScopeInv'
  BY <1>4 DEF Scope!PublishClosed, ScopeInv, ScopeTyped
<1>5. ASSUME NEW g \in Goroutines, Scope!Unlock(g) PROVE ScopeInv'
  BY <1>5 DEF Scope!Unlock, ScopeInv, ScopeTyped
<1>6. ASSUME NEW g \in Goroutines, NEW scope \in kept, Scope!Change(g, scope) PROVE ScopeInv'
  BY <1>6 DEF Scope!Change, ScopeInv, ScopeTyped, ScopeOpen, Locked, Nonces, MainAt, Drawn
<1> QED BY <1>1, <1>2, <1>3, <1>4, <1>5, <1>6, ScopeCheckStep, ScopeSwapStep,
           ScopeRecheckStep, ScopeLeaveStep DEF Scope!Next

LEMMA OnlyTheRunningStep ==
  ASSUME ScopeInv, [Scope!Next]_(Scope!vars), muxChanged' # muxChanged
  PROVE  LET g == muxChanged'[1]
             scope == muxChanged'[2]
         IN /\ g = Main /\ ~muxClosed
            /\ scope = Scope!Innermost(Main) /\ Len(frames[Main]) = 1
            /\ scope.origin \in Scope!Identities \cup {Scope!NoOrigin}
<1>1. PICK g \in Goroutines, scope \in kept : Scope!Change(g, scope)
  BY DEF Scope!Next, Scope!vars, Scope!Reschedule, Scope!Check, Scope!Swap, Scope!Recheck,
         Scope!Leave, Scope!PublishClosed, Scope!Unlock, Scope!Call
<1>2. muxChanged' = << g, scope >> /\ Scope!Valid(g, scope)
  BY <1>1 DEF Scope!Change
<1>3. g = Main /\ ~muxClosed /\ frames[Main] = << scope >>
  BY <1>2, ValidIsRunning
<1>4. scope.origin \in Scope!Identities \cup {Scope!NoOrigin}
  BY <1>2 DEF Scope!Valid
<1> QED BY <1>2, <1>3, <1>4 DEF Scope!Innermost

(* Whatever goroutines, callbacks and copies of scopes do, the mux is      *)
(* changed by the goroutine that owns it, in the one operation that runs,  *)
(* before the shutdown and for a window that is still the one meant        *)
(* (mutationScope.valid, enterAttested, publishClosed of owner.go).        *)
THEOREM OnlyTheRunning ==
  ASSUME Scope!MainAssumption
  PROVE  Scope!Spec => OnlyTheRunningOperation
<1>1. Scope!Spec => []ScopeInv
  <2>1. Scope!Init => ScopeInv
    BY ScopeBegins
  <2>2. ScopeInv /\ [Scope!Next]_(Scope!vars) => ScopeInv'
    BY ScopeStepInv
  <2> QED BY <2>1, <2>2, PTL DEF Scope!Spec
<1>2. ScopeInv /\ [Scope!Next]_(Scope!vars) =>
        [muxChanged' # muxChanged =>
            LET g == muxChanged'[1]
                scope == muxChanged'[2]
            IN /\ g = Main /\ ~muxClosed
               /\ scope = Scope!Innermost(Main) /\ Len(frames[Main]) = 1
               /\ scope.origin \in Scope!Identities \cup {Scope!NoOrigin}]_(Scope!vars)
  BY OnlyTheRunningStep
<1> QED BY <1>1, <1>2, PTL DEF Scope!Spec, OnlyTheRunningOperation, Scope!OnlyTheRunningOperation
=============================================================================
