----------------------------- MODULE LayoutStore -----------------------------
(***************************************************************************)
(* The layout file (src/internal/layoutstate/store.go, with the Unix       *)
(* replacement of atomic_replace_unix.go), saved by one or more processes  *)
(* that share its path, while a process or the system may stop between any *)
(* two steps.                                                              *)
(*                                                                         *)
(* A file is an inode.  What is written to it may be lost until it is      *)
(* flushed; what the directory says of the path may be lost until the      *)
(* directory is flushed: `onDisk` has every file the path may name when    *)
(* the system comes back.  A directory that a Save had to make may itself  *)
(* be lost with all that is in it, for nothing flushes its own parent.     *)
(* Which layout a document holds does not matter; files are told apart by  *)
(* the order in which they replaced the path.                              *)
(***************************************************************************)
EXTENDS Naturals, FiniteSets

CONSTANTS Processes,
          MaxFiles     \* bound on the files created

FilesAssumption == MaxFiles \in Nat

VARIABLES
    stage,       \* what a process is doing
    before,      \* the file a process saw at the path, 0 for none
    temp,        \* the staging file of a process, 0 for none
    document,    \* the files, "empty", "partial" or "whole" in memory
    flushed,     \* the files whose bytes are on the disk
    entry,       \* the file the path names, 0 for none
    onDisk,      \* the files it may name after the system stops
    order,       \* when a file replaced the path, 0 before it does
    directory,   \* the path's directory: "none", "new" (made by mkdirAll and
                 \* perhaps only in memory) or "durable"
    saved        \* the latest replacement a Save has confirmed in it
vars == << stage, before, temp, document, flushed, entry, onDisk, order, directory, saved >>

Files == 1..MaxFiles
Created == {f \in Files : document[f] # "none"}
Latest == Cardinality({f \in Files : order[f] # 0})

Init ==
    /\ stage = [p \in Processes |-> "idle"]
    /\ before = [p \in Processes |-> 0] /\ temp = [p \in Processes |-> 0]
    /\ document = [f \in Files |-> "none"] /\ flushed = {}
    /\ entry = 0 /\ onDisk = {0}
    /\ order = [f \in Files |-> 0] /\ saved = 0
    /\ directory \in {"none", "durable"}

At(p, from, to) == stage[p] = from /\ stage' = [stage EXCEPT ![p] = to]
disk == << entry, onDisk, order, directory >>
-----------------------------------------------------------------------------
(* Save: the directory is made if there is none, the path inspected, and   *)
(* an empty staging file made beside it.                                   *)
CreateTemp(p) ==
    /\ At(p, "idle", "staged")
    /\ \E f \in Files \ Created :
        /\ \A g \in Files \ Created : f <= g
        /\ temp' = [temp EXCEPT ![p] = f]
        /\ document' = [document EXCEPT ![f] = "empty"]
    /\ before' = [before EXCEPT ![p] = entry]
    /\ directory' = IF directory = "none" THEN "new" ELSE directory
    /\ UNCHANGED << flushed, entry, onDisk, order, saved >>

(* writeAll, in as many writes as it takes.                                *)
Write(p) ==
    /\ stage[p] = "staged"
    /\ \/ document' = [document EXCEPT ![temp[p]] = "partial"] /\ UNCHANGED stage
       \/ /\ document' = [document EXCEPT ![temp[p]] = "whole"]
          /\ At(p, "staged", "written")
    /\ UNCHANGED << before, temp, flushed, disk, saved >>

(* Mutant: the staging file is closed without being flushed.               *)
CloseOnly(p) ==
    /\ At(p, "written", "flushed")
    /\ UNCHANGED << before, temp, document, flushed, disk, saved >>

(* file.Sync and file.Close.                                               *)
Flush(p) ==
    /\ At(p, "written", "flushed")
    /\ flushed' = flushed \cup {temp[p]}
    /\ UNCHANGED << before, temp, document, disk, saved >>

(* verifyDestination and validateStaging.                                  *)
Verify(p) ==
    /\ entry = before[p]
    /\ At(p, "flushed", "verified")
    /\ UNCHANGED << before, temp, document, flushed, disk, saved >>

(* replace: the path names the staging file.                               *)
Replace(p) ==
    /\ At(p, "verified", "replaced")
    /\ entry' = temp[p]
    /\ onDisk' = onDisk \cup {temp[p]}
    /\ order' = [order EXCEPT ![temp[p]] = Latest + 1]
    /\ UNCHANGED << before, temp, document, flushed, directory, saved >>

(* Mutant: the save is confirmed without flushing the directory.           *)
ConfirmsUnflushed(p) ==
    /\ At(p, "replaced", "idle")
    /\ saved' = IF order[temp[p]] > saved THEN order[temp[p]] ELSE saved
    /\ temp' = [temp EXCEPT ![p] = 0]
    /\ UNCHANGED << before, document, flushed, disk >>

(* syncParent succeeds and Save returns no error.                          *)
SyncParent(p) ==
    /\ At(p, "replaced", "idle")
    /\ onDisk' = {entry}
    /\ saved' = IF order[temp[p]] > saved THEN order[temp[p]] ELSE saved
    /\ temp' = [temp EXCEPT ![p] = 0]
    /\ UNCHANGED << before, document, flushed, entry, order, directory >>

(* Any step may fail, and the process may stop: before the replacement the *)
(* staging file is removed, or stays behind and nothing names it; after it *)
(* Save reports ErrDurabilityUncertain, or nothing.                        *)
Fail(p) ==
    /\ stage[p] # "idle"
    /\ stage' = [stage EXCEPT ![p] = "idle"]
    /\ temp' = [temp EXCEPT ![p] = 0]
    /\ UNCHANGED << before, document, flushed, disk, saved >>

(* The system stops and comes back: the path names one of the files the    *)
(* disk may hold, and a file that was not flushed may be cut short.  A new *)
(* directory is there with what it has on the disk, or is gone, and what   *)
(* was confirmed with it.                                                  *)
Recovers ==
    /\ \E e \in onDisk : entry' = e /\ onDisk' = {e}
    /\ directory' = IF directory = "new" THEN "durable" ELSE directory
    /\ saved' = saved
LosesDirectory ==
    /\ directory = "new" /\ directory' = "none"
    /\ entry' = 0 /\ onDisk' = {0} /\ saved' = 0

SystemStops ==
    /\ stage' = [p \in Processes |-> "idle"]
    /\ before' = [p \in Processes |-> 0] /\ temp' = [p \in Processes |-> 0]
    /\ Recovers \/ LosesDirectory
    /\ \E cut \in SUBSET (Created \ flushed) :
        document' = [f \in Files |-> IF f \in cut THEN "partial" ELSE document[f]]
    /\ flushed' = Created
    /\ order' = order

Step(p) == \/ CreateTemp(p) \/ Write(p) \/ Flush(p) \/ Verify(p)
           \/ Replace(p) \/ SyncParent(p) \/ Fail(p)

Next == SystemStops \/ \E p \in Processes : Step(p)

Spec == Init /\ [][Next]_vars
-----------------------------------------------------------------------------
(* Whenever the system stops, the next start finds a whole document at the *)
(* path, or none if there never was one; and never an older one than the   *)
(* last that a Save has confirmed.  There is one exception, which the code *)
(* leaves open: until the system has come back once, a directory that a    *)
(* Save had to make may be gone, with everything in it.                    *)
MayFind == onDisk \cup {entry} \cup (IF directory = "new" THEN {0} ELSE {})
Lost(e) == directory = "new" /\ e = 0

RestartFindsLatestWhole ==
    \A e \in MayFind :
        /\ e # 0 => document[e] = "whole" /\ e \in flushed
        /\ (IF e = 0 THEN 0 ELSE order[e]) >= saved \/ Lost(e)
=============================================================================
