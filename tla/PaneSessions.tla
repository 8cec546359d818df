---------------------------- MODULE PaneSessions ----------------------------
(***************************************************************************)
(* Panes, PTY sessions and their reader goroutines: the local session      *)
(* registry (session_registry.go), the pane operations of the Mux that     *)
(* publish, roll back and close panes, and the channel through which       *)
(* readers hand what programs write to the owner thread.                   *)
(*                                                                         *)
(* The owner thread runs one operation at a time (owner.go), so an         *)
(* operation is one action here.  The readers run concurrently: each reads *)
(* its session, blocks on the shared bounded channel, and gives up only    *)
(* when its pane is closed or the registry is cancelled.  Pane IDs are     *)
(* reused after a rollback, pane objects never are: the difference is what *)
(* the ingress check (acceptSessionIngress) is for.                        *)
(*                                                                         *)
(* An operation releases the ID it reserved before it returns, unless it is *)
(* a createWindow whose rollback is refused: `reserved` is what is left of  *)
(* registry.reserved between operations, and `stranded`, kept for the       *)
(* properties only, the pane objects that such a rollback gave up.          *)
(***************************************************************************)
EXTENDS Integers, Sequences, FiniteSets

CONSTANTS
    Objects,            \* pane objects
    None,
    Capacity,           \* capacity of the ingress channel
    MaxChunks,          \* bound: chunks one session writes
    MaxPaneID,          \* bound: pane IDs handed out
    MaxRestore,         \* bound: panes of a restored layout
    MaxRefusals         \* bound: close preflights an image store refuses

ASSUME BoundsAssumption ==
    /\ Capacity \in Nat \ {0}
    /\ {MaxChunks, MaxPaneID, MaxRestore, MaxRefusals} \subseteq Nat
ASSUME NoneAssumption == None \notin Objects

VARIABLES
    pane,               \* each object's id, state and session
    panes,              \* registry.panes: pane ID -> object
    closed,             \* registry.closed: tombstones
    reserved,           \* registry.reserved
    reader,             \* each object's reader goroutine
    incoming,           \* registry.incoming
    terminal,           \* what each object's terminal was advanced over
    live,               \* pane IDs of the published topology
    nextPane,           \* model.nextPaneID
    bootstrapped,
    pending,            \* the panes of m.pending, in order
    rollback,           \* the panes of m.unpublishedRollback
    held,               \* those of them whose close preflight is retained
    refusals,           \* close preflights refused so far
    stranded,           \* panes of createWindow whose rollback was refused
    owner               \* "open", "closing" (waiting for readers), "closed"

sessions == <<pane, panes, closed>>
streams == <<reader, incoming, terminal>>
model == <<live, nextPane, bootstrapped>>
recovery == <<rollback, held, refusals>>
leftovers == <<reserved, stranded>>
aftermath == <<recovery, leftovers>>
vars == <<sessions, streams, model, pending, aftermath, owner>>

-----------------------------------------------------------------------------
Unused == [id |-> 0, state |-> "unused", session |-> "none"]
Idle == [at |-> "none", read |-> 0, last |-> FALSE]

Fresh == {p \in Objects : pane[p].state = "unused"}

Lookup(id) == IF id \in DOMAIN panes THEN panes[id] ELSE None

(* reserve and register succeed: the ID is neither registered nor reserved  *)
(* and has no tombstone                                                     *)
Available(id) == id \notin DOMAIN panes \cup reserved \cup closed

Created(q, p, id, state, session) ==
    [q EXCEPT ![p] = [id |-> id, state |-> state, session |-> session]]

Registered(r, id, p) ==
    [i \in DOMAIN r \cup {id} |-> IF i = id THEN p ELSE r[i]]

Deregistered(r, P) == [i \in {j \in DOMAIN r : r[j] \notin P} |-> r[i]]

(* preparedPaneClose.commit for every object of P *)
CloseAll(q, P) ==
    [p \in Objects |->
        IF p \in P
        THEN [q[p] EXCEPT !.state = "closed",
                          !.session = IF @ = "open" THEN "closed" ELSE @]
        ELSE q[p]]

Launched(P) ==
    [p \in Objects |-> IF p \in P THEN [Idle EXCEPT !.at = "reading"] ELSE reader[p]]

Range(s) == {s[i] : i \in DOMAIN s}

Init ==
    /\ pane = [p \in Objects |-> Unused]
    /\ panes = [i \in {} |-> None]
    /\ closed = {}
    /\ reader = [p \in Objects |-> Idle]
    /\ incoming = <<>>
    /\ terminal = [p \in Objects |-> <<>>]
    /\ live = {1}
    /\ nextPane = 2
    /\ bootstrapped = FALSE
    /\ pending = <<>>
    /\ rollback = {}
    /\ held = {}
    /\ refusals = 0
    /\ reserved = {} /\ stranded = {}
    /\ owner = "open"

-----------------------------------------------------------------------------
RollBackForgetful(q, r, P, h) ==     \* a mutant: nothing is retained
    \E refused \in SUBSET (P \ h) :
        LET freed == P \ refused
        IN /\ refusals + Cardinality(refused) <= MaxRefusals
           /\ refusals' = refusals + Cardinality(refused)
           /\ pane' = CloseAll(q, freed)
           /\ panes' = Deregistered(r, freed)
           /\ rollback' = {}
           /\ held' = {}

(* rollbackUnpublishedPanes over the objects P, of which those in h have    *)
(* already a close preflight.  A store may refuse a new preflight; an       *)
(* object whose ID is registered to another object cannot be detached.      *)
(* Both stay behind as the retained rollback.                               *)
RollBack(q, r, P, h) ==
    LET collided == {p \in P : q[p].id \in DOMAIN r /\ r[q[p].id] # p}
    IN \E refused \in SUBSET (P \ h) :
          LET freed == P \ (refused \cup collided)
          IN /\ refusals + Cardinality(refused) <= MaxRefusals
             /\ refusals' = refusals + Cardinality(refused)
             /\ pane' = CloseAll(q, freed)
             /\ panes' = Deregistered(r, freed)
             /\ rollback' = P \ freed
             /\ held' = (P \ freed) \ refused

(* retryUnpublishedRollback, the first thing bootstrap, spawnSplit,         *)
(* spawnTab, prepareRestore, a repeated abortRestore and shutdown do.  The  *)
(* operation may still be refused afterwards (geometry, limits), so the     *)
(* retry is a step of its own and they go on with nothing retained.         *)
RetryRollback ==
    /\ owner = "open" /\ rollback # {}
    /\ RollBack(pane, panes, rollback, held)
    /\ UNCHANGED <<closed, streams, model, pending, leftovers, owner>>

(* The frontend tries the restore first and bootstraps only when it failed  *)
(* and was aborted; the Mux itself does not check this.                     *)
StartupOrder == pending = <<>>

Bootstrap ==
    /\ owner = "open" /\ rollback = {} /\ ~bootstrapped /\ StartupOrder
    /\ Available(1)
    /\ bootstrapped' = TRUE
    /\ \E p \in Fresh :
          /\ panes' = Registered(panes, 1, p)
          /\ \/ /\ pane' = Created(pane, p, 1, "running", "open")
                /\ reader' = Launched({p})
             \/ \* the spawn fails: a fallback pane without a session
                /\ pane' = Created(pane, p, 1, "failed", "none")
                /\ UNCHANGED reader
    /\ UNCHANGED <<closed, incoming, terminal, live, nextPane, pending,
                   aftermath, owner>>

(* spawnSplit and spawnTab *)
SpawnPane ==
    /\ owner = "open" /\ rollback = {} /\ bootstrapped
    /\ nextPane <= MaxPaneID /\ Available(nextPane)
    /\ \E p \in Fresh :
          /\ pane' = Created(pane, p, nextPane, "running", "open")
          /\ panes' = Registered(panes, nextPane, p)
          /\ reader' = Launched({p})
    /\ live' = live \cup {nextPane}
    /\ nextPane' = nextPane + 1
    /\ UNCHANGED <<closed, incoming, terminal, bootstrapped, pending,
                   aftermath, owner>>

(* Their failures: the spawn (with or without a session), the close         *)
(* preflight, or the model commit after the pane was registered.  No reader *)
(* was launched and the ID goes to the next pane.  (An unpublished object   *)
(* counts as "starting": nothing tells it from a running one.)              *)
SpawnPaneFails ==
    /\ owner = "open" /\ rollback = {} /\ bootstrapped
    /\ nextPane <= MaxPaneID /\ Available(nextPane)
    /\ \E p \in Fresh, session \in {"none", "open"},
          registered \in BOOLEAN : \E h \in SUBSET {p} :
          /\ session = "none" => ~registered /\ h = {}
          /\ RollBack(Created(pane, p, nextPane, "starting", session),
                      IF registered THEN Registered(panes, nextPane, p) ELSE panes,
                      {p}, h)
    /\ UNCHANGED <<closed, streams, model, pending, leftovers, owner>>

(* createWindow neither retries a retained rollback nor looks for one. *)
CreateWindow ==
    /\ owner = "open" /\ bootstrapped
    /\ nextPane <= MaxPaneID /\ Available(nextPane)
    /\ \E p \in Fresh :
          /\ pane' = Created(pane, p, nextPane, "running", "open")
          /\ panes' = Registered(panes, nextPane, p)
          /\ reader' = Launched({p})
    /\ live' = live \cup {nextPane}
    /\ nextPane' = nextPane + 1
    /\ UNCHANGED <<closed, incoming, terminal, bootstrapped, pending,
                   aftermath, owner>>

CreateWindowFailsTidy ==            \* a mutant: the refused pane is deregistered all the same
    /\ owner = "open" /\ bootstrapped
    /\ nextPane <= MaxPaneID /\ Available(nextPane) /\ refusals < MaxRefusals
    /\ \E p \in Fresh :
          /\ pane' = Created(pane, p, nextPane, "running", "open")
          /\ reader' = Launched({p})
    /\ refusals' = refusals + 1
    /\ UNCHANGED <<panes, closed, incoming, terminal, model, pending,
                   rollback, held, leftovers, owner>>

(* The spawn fails, or the registration, or the start of the reader, or the *)
(* model refuses the window after its reader was launched.  rollback()      *)
(* closes the pane, detached without a tombstone (a launched reader is left *)
(* to notice) and releases the ID.  But when the store refuses the close    *)
(* preflight it returns at once and nobody tries again: the pane stays,     *)
(* registered or with its ID reserved, its reader at work or not.           *)
CreateWindowFails ==
    /\ owner = "open" /\ bootstrapped
    /\ nextPane <= MaxPaneID /\ Available(nextPane)
    /\ \E p \in Fresh, failed \in {"spawn", "register", "start", "commit"} :
          /\ reader' = IF failed = "commit" THEN Launched({p}) ELSE reader
          /\ \/ /\ pane' = Created(pane, p, nextPane, "closed",
                                    IF failed = "spawn" THEN "none" ELSE "closed")
                /\ UNCHANGED <<panes, refusals, leftovers>>
             \/ /\ refusals < MaxRefusals
                /\ refusals' = refusals + 1
                /\ stranded' = stranded \cup {p}
                /\ pane' = IF failed = "spawn"
                           THEN Created(pane, p, nextPane, "starting", "none")
                           ELSE Created(pane, p, nextPane, "running", "open")
                /\ IF failed \in {"start", "commit"}
                   THEN panes' = Registered(panes, nextPane, p) /\ UNCHANGED reserved
                   ELSE reserved' = reserved \cup {nextPane} /\ UNCHANGED panes
    /\ UNCHANGED <<closed, incoming, terminal, model, pending,
                   rollback, held, owner>>

RollbackWindowAnyone(S) ==          \* a mutant: any window steps the allocator back
    LET P == {panes[i] : i \in S}
    IN /\ owner = "open"
       /\ S # {} /\ S \subseteq live \cap DOMAIN panes
       /\ panes' = Deregistered(panes, P)
       /\ pane' = CloseAll(pane, P)
       /\ live' = live \ S
       /\ nextPane' = nextPane - 1
       /\ UNCHANGED <<closed, streams, bootstrapped, pending, aftermath, owner>>

(* rollbackWindow of a window whose panes are S.  Only a window that holds  *)
(* just the newest pane gives its ID back; for another window the panes are *)
(* closed before the model refuses.                                         *)
RollbackWindow(S) ==
    LET P == {panes[i] : i \in S}
    IN /\ owner = "open"
       /\ S # {} /\ S \subseteq live \cap DOMAIN panes
       /\ panes' = Deregistered(panes, P)
       /\ pane' = CloseAll(pane, P)
       /\ live' = live \ S
       /\ \/ S = {nextPane - 1} /\ nextPane' = nextPane - 1
          \/ UNCHANGED nextPane
       /\ UNCHANGED <<closed, streams, bootstrapped, pending, aftermath, owner>>

(* closePane, closeTab and closeWindow: S is the pane, or all the panes of  *)
(* the tab or window.                                                       *)
ClosePanes(S) ==
    LET P == {panes[i] : i \in S}
    IN /\ owner = "open"
       /\ S # {} /\ S \subseteq live \cap DOMAIN panes
       /\ panes' = Deregistered(panes, P)
       /\ closed' = closed \cup S
       /\ pane' = CloseAll(pane, P)
       /\ live' = live \ S
       /\ UNCHANGED <<streams, nextPane, bootstrapped, pending, aftermath, owner>>

-----------------------------------------------------------------------------
(* The panes of a restored layout: distinct fresh objects, numbered from    *)
(* the model's next ID.                                                     *)
Candidates ==
    {c \in UNION {[1..k -> Fresh] : k \in 1..MaxRestore} :
        \A i, j \in DOMAIN c : i # j => c[i] # c[j]}

IndexOf(c, p) == CHOOSE i \in DOMAIN c : c[i] = p

(* The objects of c after provisionRestore reached the n-th of them; the    *)
(* next one may hold a session its failed spawn returned.                   *)
Provisioned(c, n, session) ==
    [p \in Objects |->
        IF p \notin Range(c) THEN pane[p]
        ELSE LET i == IndexOf(c, p)
             IN [id |-> nextPane + i - 1,
                 state |-> IF i <= n THEN "running" ELSE "starting",
                 session |-> IF i <= n THEN "open"
                             ELSE IF i = n + 1 THEN session ELSE "none"]]

ProvisionedIn(c, n) ==
    [i \in DOMAIN panes \cup {nextPane + j - 1 : j \in 1..n} |->
        IF i \in DOMAIN panes THEN panes[i] ELSE c[i - nextPane + 1]]

RestoreReady ==
    /\ owner = "open" /\ rollback = {} /\ pending = <<>>
    /\ ~bootstrapped /\ panes = [i \in {} |-> None]

PrepareRestore ==
    /\ RestoreReady
    /\ \E c \in Candidates :
          /\ nextPane + Len(c) - 1 <= MaxPaneID
          /\ pane' = Provisioned(c, Len(c), "none")
          /\ panes' = ProvisionedIn(c, Len(c))
          /\ pending' = c
    /\ UNCHANGED <<closed, streams, model, aftermath, owner>>

(* The preparation fails before anything was spawned, at a spawn (all close *)
(* preflights held), or when the preflights are given up at the end.        *)
PrepareRestoreFails ==
    /\ RestoreReady
    /\ \E c \in Candidates, n \in 0..MaxRestore, session \in {"none", "open"} :
          /\ n <= Len(c) /\ nextPane + Len(c) - 1 <= MaxPaneID
          /\ n = Len(c) => session = "none"
          /\ \E h \in SUBSET Range(c) :
                /\ (n \in 1..Len(c) - 1 \/ session = "open") => h = Range(c)
                /\ RollBack(Provisioned(c, n, session), ProvisionedIn(c, n), Range(c), h)
    /\ UNCHANGED <<closed, streams, model, pending, leftovers, owner>>

(* commitRestore publishes the candidate's model, then launches the readers. *)
CommitRestore ==
    /\ owner = "open" /\ pending # <<>>
    /\ \A p \in Range(pending) :
          /\ Lookup(pane[p].id) = p
          /\ pane[p].state = "running" /\ pane[p].session = "open"
    /\ reader' = Launched(Range(pending))
    /\ live' = {pane[p].id : p \in Range(pending)}
    /\ nextPane' = nextPane + Len(pending)
    /\ bootstrapped' = TRUE
    /\ pending' = <<>>
    /\ UNCHANGED <<sessions, incoming, terminal, aftermath, owner>>

AbortRestoreDrops ==                \* a mutant: the candidate is only forgotten
    /\ owner = "open" /\ pending # <<>>
    /\ pending' = <<>>
    /\ UNCHANGED <<sessions, streams, model, aftermath, owner>>

AbortRestore ==
    /\ owner = "open" /\ pending # <<>>
    /\ RollBack(pane, panes, Range(pending), Range(pending))
    /\ pending' = <<>>
    /\ UNCHANGED <<closed, streams, model, leftovers, owner>>

-----------------------------------------------------------------------------
(* The reader goroutine of p (launchReader).  A read returns a chunk, a     *)
(* chunk with an error, or an error: the program's end, or the closed PTY.  *)
ReadChunk(p) ==
    /\ reader[p].at = "reading" /\ pane[p].session = "open"
    /\ reader[p].read < MaxChunks
    /\ \E last \in BOOLEAN :
          reader' = [reader EXCEPT ![p] =
                        [at |-> "data", read |-> @.read + 1, last |-> last]]
    /\ UNCHANGED <<sessions, incoming, terminal, model, pending, aftermath, owner>>

ReadEnd(p) ==
    /\ reader[p].at = "reading"
    /\ reader' = [reader EXCEPT ![p].at = "end", ![p].last = TRUE]
    /\ UNCHANGED <<sessions, incoming, terminal, model, pending, aftermath, owner>>

Record(p) ==
    [pane |-> pane[p].id, owner |-> p,
     chunk |-> IF reader[p].at = "data" THEN reader[p].read ELSE 0]


EnqueueSwallowsEnd(p) ==            \* a mutant: returns after data read with an error
    /\ reader[p].at \in {"data", "end"} /\ Len(incoming) < Capacity
    /\ incoming' = Append(incoming, Record(p))
    /\ reader' = [reader EXCEPT ![p].at =
                     IF @ = "end" \/ reader[p].last THEN "ended" ELSE "reading"]
    /\ UNCHANGED <<sessions, terminal, model, pending, aftermath, owner>>

(* enqueueIngress: the channel has room ... *)
Enqueue(p) ==
    /\ reader[p].at \in {"data", "end"} /\ Len(incoming) < Capacity
    /\ incoming' = Append(incoming, Record(p))
    /\ reader' = [reader EXCEPT ![p].at =
                     CASE @ = "end" -> "ended"
                       [] @ = "data" /\ reader[p].last -> "end"
                       [] OTHER -> "reading"]
    /\ UNCHANGED <<sessions, terminal, model, pending, aftermath, owner>>

GiveUpLossy(p) ==                   \* a mutant: a full channel drops the record
    /\ reader[p].at \in {"data", "end"}
    /\ \/ /\ pane[p].state = "closed" \/ owner # "open"
          /\ reader' = [reader EXCEPT ![p].at = "ended"]
       \/ /\ reader[p].at = "data" /\ Len(incoming) = Capacity
          /\ reader' = [reader EXCEPT ![p].at =
                           IF reader[p].last THEN "end" ELSE "reading"]
    /\ UNCHANGED <<sessions, incoming, terminal, model, pending, aftermath, owner>>

GiveUpWhileOpen(p) ==               \* a mutant: blind to the cancelled context
    /\ reader[p].at \in {"data", "end"}
    /\ pane[p].state = "closed" /\ owner = "open"
    /\ reader' = [reader EXCEPT ![p].at = "ended"]
    /\ UNCHANGED <<sessions, incoming, terminal, model, pending, aftermath, owner>>

(* ... or the pane's done channel, or the registry's context, is closed.    *)
(* With both ready, select takes either.                                    *)
GiveUp(p) ==
    /\ reader[p].at \in {"data", "end"}
    /\ pane[p].state = "closed" \/ owner # "open"
    /\ reader' = [reader EXCEPT ![p].at = "ended"]
    /\ UNCHANGED <<sessions, incoming, terminal, model, pending, aftermath, owner>>

AcceptsRegistered(record) ==        \* a mutant: any holder of the ID will do
    LET p == Lookup(record.pane)
    IN p # None /\ pane[p].state # "closed"

(* adaptSessionIngressRecord and acceptSessionIngress *)
Accepts(record) ==
    LET p == Lookup(record.pane)
    IN p # None /\ p = record.owner /\ pane[p].state # "closed"

(* One record of Mux.Drain.  Data goes to the registered pane's terminal,   *)
(* an end makes a running pane exited.                                      *)
Drain ==
    /\ owner = "open" /\ incoming # <<>>
    /\ incoming' = Tail(incoming)
    /\ LET record == Head(incoming)
           p == Lookup(record.pane)
       IN IF ~Accepts(record)
          THEN UNCHANGED <<pane, terminal>>
          ELSE IF record.chunk > 0
          THEN /\ terminal' = [terminal EXCEPT ![p] = Append(@, record)]
               /\ UNCHANGED pane
          ELSE /\ pane' = [pane EXCEPT ![p].state =
                              IF @ = "running" THEN "exited" ELSE @]
               /\ UNCHANGED terminal
    /\ UNCHANGED <<panes, closed, reader, model, pending, aftermath, owner>>

-----------------------------------------------------------------------------
(* Owner.Shutdown: cancel, tombstone and close every registered pane, ...   *)
Shutdown ==
    LET P == {panes[i] : i \in DOMAIN panes}
    IN /\ owner = "open" /\ rollback = {}
       /\ owner' = "closing"
       /\ panes' = [i \in {} |-> None]
       /\ closed' = closed \cup DOMAIN panes
       /\ pane' = CloseAll(pane, P)
       /\ UNCHANGED <<streams, model, pending, aftermath>>

ReaderAlive(p) == reader[p].at \notin {"none", "ended"}

ShutdownDoneAtOnce ==               \* a mutant: does not wait for the readers
    /\ owner = "closing"
    /\ owner' = "closed"
    /\ UNCHANGED <<sessions, streams, model, pending, aftermath>>

(* ... wait for the readers, then publish the owner as closed. *)
ShutdownDone ==
    /\ owner = "closing"
    /\ \A p \in Objects : ~ReaderAlive(p)
    /\ owner' = "closed"
    /\ UNCHANGED <<sessions, streams, model, pending, aftermath>>

ReaderStep(p) == ReadChunk(p) \/ ReadEnd(p) \/ Enqueue(p) \/ GiveUp(p)

OwnerStep ==
    \/ RetryRollback \/ Bootstrap \/ SpawnPane \/ SpawnPaneFails
    \/ CreateWindow \/ CreateWindowFails
    \/ \E S \in SUBSET live : RollbackWindow(S) \/ ClosePanes(S)
    \/ PrepareRestore \/ PrepareRestoreFails \/ CommitRestore \/ AbortRestore
    \/ Drain \/ Shutdown \/ ShutdownDone

Next == OwnerStep \/ \E p \in Objects : ReaderStep(p)

Spec == Init /\ [][Next]_vars

(* The main loop drains, a read on a closed session returns, and blocked    *)
(* senders on a Go channel are served in arrival order.                     *)
Fairness ==
    /\ WF_vars(Drain) /\ WF_vars(ShutdownDone)
    /\ \A p \in Objects :
          /\ SF_vars(Enqueue(p))
          /\ WF_vars(GiveUp(p))
          /\ WF_vars(ReadEnd(p) /\ pane[p].session = "closed")

FairSpec == Spec /\ Fairness
-----------------------------------------------------------------------------
TypeOK ==
    /\ pane \in [Objects -> [id : 0..MaxPaneID,
                             state : {"unused", "starting", "running", "failed",
                                      "exited", "closed"},
                             session : {"none", "open", "closed"}]]
    /\ DOMAIN panes \subseteq 1..MaxPaneID /\ Range(panes) \subseteq Objects
    /\ closed \subseteq 1..MaxPaneID
    /\ reader \in [Objects -> [at : {"none", "reading", "data", "end", "ended"},
                               read : 0..MaxChunks, last : BOOLEAN]]
    /\ Len(incoming) <= Capacity
    /\ live \subseteq 1..MaxPaneID /\ nextPane \in 1..MaxPaneID + 1
    /\ bootstrapped \in BOOLEAN
    /\ Range(pending) \subseteq Objects
    /\ held \subseteq rollback /\ rollback \subseteq Objects
    /\ refusals \in 0..MaxRefusals
    /\ reserved \subseteq 1..MaxPaneID /\ stranded \subseteq Objects
    /\ owner \in {"open", "closing", "closed"}

(* Every open session has an owner that will close it: its pane is         *)
(* registered under its own ID, where close and shutdown find it, or it is  *)
(* in the retained rollback.  A failed spawn, a partly provisioned restore  *)
(* or a rolled back window never leaves a program running unowned, with one *)
(* exception: a pane that createWindow could not roll back (stranded).  It  *)
(* is never published, it keeps its ID, registered or reserved, and the     *)
(* allocator never gets past that ID again.  And whenever the owner is      *)
(* between operations, the registry agrees with the published topology:     *)
(* what else is registered belongs to the pending restore or the retained   *)
(* rollback, or is stranded.  Once Shutdown has returned, no reader that    *)
(* could still send is left, and no session is open but one whose stranded  *)
(* pane had not been registered.                                            *)
SessionsOwned ==
    /\ \A p \in Objects :
        pane[p].session = "open" =>
            \/ Lookup(pane[p].id) = p \/ p \in rollback
            \/ p \in stranded /\ pane[p].id \in reserved
    /\ owner = "open" =>
        /\ bootstrapped => live \subseteq DOMAIN panes
        /\ \A id \in DOMAIN panes :
              \/ bootstrapped /\ id \in live
              \/ panes[id] \in Range(pending) \cup rollback \cup stranded
        /\ \A p \in stranded :
              /\ pane[p].id \notin live /\ nextPane <= pane[p].id
              /\ Lookup(pane[p].id) = p \/ pane[p].id \in reserved
    /\ owner = "closed" => \A p \in Objects :
        /\ ~ReaderAlive(p)
        /\ pane[p].session = "open" => p \in stranded

(* A terminal shows what its own program wrote, from the first chunk and    *)
(* without a gap, although pane IDs are handed out again and records of the *)
(* previous holder of an ID may still sit in the channel.                   *)
OwnOutputInOrder ==
    \A p \in Objects : \A i \in DOMAIN terminal[p] :
        terminal[p][i].owner = p /\ terminal[p][i].chunk = i

(* The ID of a closed pane is never used again: it is neither registered    *)
(* nor published, and the allocator is past it, although the allocator      *)
(* steps back when a window is rolled back.                                 *)
ClosedIdsRetired ==
    owner = "open" =>
        /\ closed \cap (DOMAIN panes \cup live) = {}
        /\ \A id \in closed : id < nextPane

(* Both: every session has its owner, every ID its one pane.               *)
SessionsSound == SessionsOwned /\ ClosedIdsRetired

(* Every pane object behaves as PaneStreams says: nothing its program wrote *)
(* is skipped, the exit is reported once and after the last chunk, and a    *)
(* closed pane shows nothing more.                                          *)
Streams == INSTANCE PaneStreams WITH
    written <- [p \in Objects |-> reader[p].read],
    ended <- [p \in Objects |-> reader[p].last],
    shown <- [p \in Objects |-> Len(terminal[p])],
    phase <- [p \in Objects |-> CASE pane[p].state = "closed" -> "gone"
                                  [] pane[p].state = "exited" -> "exited"
                                  [] OTHER -> "open"]

ImplementsStreams == Streams!Spec

(* "... and blocks new publication until retry completes"                   *)
(* (docs/validation/architecture-maturity-slice-3.1.md:22): while a         *)
(* rollback is retained, no pane is published.                              *)
RetainedBlocksPublication == [][rollback # {} => live' \subseteq live]_vars

(* "Every failed proposal leaves model IDs and registry ownership reusable" *)
(* (src/internal/mux/mux_window_lifecycle.go:11-12): with no restore and no *)
(* rollback outstanding, the next window can have the next ID.              *)
FailedWindowReusable ==
    bootstrapped /\ owner = "open" /\ pending = <<>> /\ rollback = {}
        => Available(nextPane)

(* Shutdown returns: the readers, even those blocked on a full channel      *)
(* nobody drains any more, all end.                                         *)
ShutdownReturns == owner = "closing" ~> owner = "closed"

(* What a reader read reaches the terminal of its pane, and an end is       *)
(* reported, unless the pane is closed or the owner shuts down first.       *)
RecordsArrive ==
    \A p \in Objects :
        /\ \A n \in 1..MaxChunks :
            reader[p].read >= n
                ~> \/ Len(terminal[p]) >= n
                   \/ pane[p].state = "closed" \/ owner # "open"
        /\ reader[p].last
            ~> pane[p].state \in {"exited", "closed"} \/ owner # "open"
============================================================================
