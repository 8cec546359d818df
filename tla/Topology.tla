------------------------------ MODULE Topology ------------------------------
(***************************************************************************)
(* Workspaces, windows, tabs and panes of the mux (src/internal/mux:       *)
(* model.go, model_close.go, model_tabs.go, model_window_lifecycle.go,     *)
(* model_cross_window_transfer.go, workspace.go).                          *)
(*                                                                         *)
(* A workspace orders its windows and remembers one; a window orders its   *)
(* tabs and has an active one; a tab is its panes in visual order and a    *)
(* focused one (SplitTree has the tree behind it).  IDs come from counters *)
(* and 0 is none.  Workspaces are never removed, so a workspace's ID is    *)
(* its place.  A step is an operation that is accepted: a rejected one     *)
(* leaves the model as it was.  Names, titles and revisions are left out.  *)
(***************************************************************************)
EXTENDS VisualOrder, Sequences, FiniteSets, SequencesExt

CONSTANTS MaxWorkspaces, MaxWindows, MaxTabs,
          MaxPaneID, MaxIncarnation   \* bounds on the counters

LimitsAssumption == /\ MaxWorkspaces \in Nat \ {0}
                    /\ MaxWindows \in Nat \ {0}
                    /\ MaxTabs \in Nat \ {0}

VARIABLES
    workspaces,        \* sequence of [windows, active]
    activeWorkspace, activeWindow,
    windows,           \* live WindowID -> [incarnation, workspace, tabs, active]
    nextWindow, nextIncarnation, nextTab, nextPane,
    unpublished,       \* the window just created, until the front end has it
    wasActive,         \* the window that was active before it
    reported,          \* panes whose removal was reported to the mux
    retired            \* identities of windows that ended
vars == << workspaces, activeWorkspace, activeWindow, windows, nextWindow,
           nextIncarnation, nextTab, nextPane, unpublished, wasActive,
           reported, retired >>
counters == << nextWindow, nextIncarnation, nextTab, nextPane >>
history == << unpublished, wasActive, reported, retired >>

Tab(id, pane) == [id |-> id, panes |-> << pane >>, focused |-> pane]

Init ==
    /\ workspaces = << [windows |-> << 1 >>, active |-> 1] >>
    /\ activeWorkspace = 1 /\ activeWindow = 1
    /\ windows = 1 :> [incarnation |-> 1, workspace |-> 1,
                       tabs |-> << Tab(1, 1) >>, active |-> 1]
    /\ nextWindow = 2 /\ nextIncarnation = 2 /\ nextTab = 2 /\ nextPane = 2
    /\ unpublished = 0 /\ wasActive = 0 /\ reported = {} /\ retired = {}
-----------------------------------------------------------------------------
Live == DOMAIN windows
TabIDs(w) == {t.id : t \in Elements(windows[w].tabs)}
TabIndex(tabs, id) == CHOOSE i \in DOMAIN tabs : tabs[i].id = id
TabPanes(tabs) == UNION {Elements(t.panes) : t \in Elements(tabs)}
Identity(w) == << w, windows[w].incarnation >>

ActiveTabs == IF activeWindow = 0 THEN << >> ELSE windows[activeWindow].tabs
ActiveTab == ActiveTabs[TabIndex(ActiveTabs, windows[activeWindow].active)]

(* The tabs without the one at i, and the one active then: the neighbour   *)
(* that takes its place when it was the active one.                        *)
WithoutTab(win, i) ==
    LET rest == RemoveAt(win.tabs, i) IN
    [win EXCEPT !.tabs = rest,
                !.active = IF rest = << >> THEN 0
                           ELSE IF @ # win.tabs[i].id THEN @
                           ELSE Neighbour(rest, i, 0).id]

WithoutPane(tab, pane) ==
    [tab EXCEPT !.panes = Dropped(@, pane),
                !.focused = FocusWithout(tab.panes, @, pane)]

(* The window after a pane of its tab i is removed: the last one takes the *)
(* tab with it.                                                            *)
DropPane(win, i, pane) ==
    IF Len(win.tabs[i].panes) = 1 THEN WithoutTab(win, i)
    ELSE [win EXCEPT !.tabs[i] = WithoutPane(@, pane)]

(* A window leaves a workspace; the neighbour is remembered in its place.  *)
WithoutWindow(ws, w) ==
    LET rest == Dropped(ws.windows, w) IN
    [ws EXCEPT !.windows = rest,
               !.active = IF @ # w THEN @ ELSE Neighbour(rest, Place(ws.windows, w), 0)]

Places == {<< w, i >> \in Live \X (1..MaxTabs) : i \in DOMAIN windows[w].tabs}
-----------------------------------------------------------------------------
(* Panes.                                                                  *)

(* SplitWithRatioAndMetrics, in the active tab.                            *)
Split(pane) ==
    /\ ActiveTabs # << >> /\ pane \in Elements(ActiveTab.panes)
    /\ nextPane <= MaxPaneID
    /\ windows' = [windows EXCEPT ![activeWindow].tabs[TabIndex(ActiveTabs, ActiveTab.id)] =
            [@ EXCEPT !.panes = SplitAt(@, pane, nextPane), !.focused = nextPane]]
    /\ nextPane' = nextPane + 1
    /\ UNCHANGED << workspaces, activeWorkspace, activeWindow,
                    nextWindow, nextIncarnation, nextTab, history >>

(* Focus, FocusNext and FocusDirection, in the active tab.                 *)
Focus(pane) ==
    /\ ActiveTabs # << >> /\ pane \in Elements(ActiveTab.panes)
    /\ windows' = [windows EXCEPT
            ![activeWindow].tabs[TabIndex(ActiveTabs, ActiveTab.id)].focused = pane]
    /\ UNCHANGED << workspaces, activeWorkspace, activeWindow, counters, history >>

(* Close, in any window: a pane may exit in the background.                *)
Close(w, i, pane) ==
    /\ pane \in Elements(windows[w].tabs[i].panes)
    /\ windows' = [windows EXCEPT ![w] = DropPane(@, i, pane)]
    /\ reported' = reported \cup {pane}
    /\ UNCHANGED << workspaces, activeWorkspace, activeWindow, counters,
                    unpublished, wasActive, retired >>
-----------------------------------------------------------------------------
(* Tabs, in the active window.                                             *)

(* prepareTab and commitTab.                                               *)
SpawnTab ==
    /\ activeWindow # 0 /\ Len(ActiveTabs) < MaxTabs /\ nextPane <= MaxPaneID
    /\ windows' = [windows EXCEPT ![activeWindow] =
            [@ EXCEPT !.tabs = Append(@, Tab(nextTab, nextPane)), !.active = nextTab]]
    /\ nextTab' = nextTab + 1 /\ nextPane' = nextPane + 1
    /\ UNCHANGED << workspaces, activeWorkspace, activeWindow,
                    nextWindow, nextIncarnation, history >>

ActivateTab(id) ==
    /\ activeWindow # 0 /\ id \in TabIDs(activeWindow)
    /\ windows' = [windows EXCEPT ![activeWindow].active = id]
    /\ UNCHANGED << workspaces, activeWorkspace, activeWindow, counters, history >>

MoveTab(from, position) ==
    /\ {from, position} \subseteq DOMAIN ActiveTabs /\ from # position
    /\ windows' = [windows EXCEPT ![activeWindow].tabs =
            InsertAt(RemoveAt(@, from), position, @[from])]
    /\ UNCHANGED << workspaces, activeWorkspace, activeWindow, counters, history >>

(* detachTab.                                                              *)
CloseTab(i) ==
    /\ i \in DOMAIN ActiveTabs
    /\ windows' = [windows EXCEPT ![activeWindow] = WithoutTab(@, i)]
    /\ reported' = reported \cup Elements(ActiveTabs[i].panes)
    /\ UNCHANGED << workspaces, activeWorkspace, activeWindow, counters,
                    unpublished, wasActive, retired >>
-----------------------------------------------------------------------------
(* Windows.                                                                *)

(* reconcileActiveWorkspaceWindow: a window that became active is          *)
(* remembered by the active workspace, or the remembered one is active     *)
(* again when it belongs to another.                                       *)
Reconcile(candidate) ==
    IF candidate \in Live /\ windows[candidate].workspace = activeWorkspace
    THEN /\ activeWindow' = candidate
         /\ workspaces' = [workspaces EXCEPT ![activeWorkspace].active = candidate]
    ELSE /\ activeWindow' = workspaces[activeWorkspace].active
         /\ UNCHANGED workspaces

(* TransferPaneBetweenWindows.                                             *)
TransferPane(source, i, pane, destination, j, at) ==
    LET emptied == DropPane(windows[source], i, pane)
        after == [windows EXCEPT ![source] = emptied]
        from == windows[source].tabs[i].id
        to == windows[destination].tabs[j].id
        k == TabIndex(after[destination].tabs, to)
        leaves == emptied.tabs = << >> /\ activeWindow = source
    IN /\ pane \in Elements(windows[source].tabs[i].panes)
       /\ from # to
       /\ at \in Elements(windows[destination].tabs[j].panes)
       /\ windows' = [after EXCEPT
              ![destination].tabs[k] = [@ EXCEPT !.panes = SplitAt(@, at, pane),
                                                 !.focused = pane],
              ![destination].active = IF leaves THEN to ELSE @]
       /\ Reconcile(IF leaves THEN destination ELSE activeWindow)
       /\ UNCHANGED << activeWorkspace, counters, history >>

(* Mutant: the destination becomes active whatever its workspace.          *)
TransferTabActivates(source, i, destination, position) ==
    LET moved == windows[source].tabs[i]
        to == windows[destination].tabs
    IN /\ source # destination /\ Len(to) < MaxTabs
       /\ position \in 1..(Len(to) + 1)
       /\ windows' = [windows EXCEPT
              ![source] = WithoutTab(@, i),
              ![destination] = [@ EXCEPT !.tabs = InsertAt(@, position, moved),
                                         !.active = moved.id]]
       /\ activeWindow' = destination
       /\ UNCHANGED << workspaces, activeWorkspace, counters, history >>

(* TransferTabBetweenWindows.                                              *)
TransferTab(source, i, destination, position) ==
    LET moved == windows[source].tabs[i]
        to == windows[destination].tabs
    IN /\ source # destination /\ Len(to) < MaxTabs
       /\ position \in 1..(Len(to) + 1)
       /\ windows' = [windows EXCEPT
              ![source] = WithoutTab(@, i),
              ![destination] = [@ EXCEPT !.tabs = InsertAt(@, position, moved),
                                         !.active = moved.id]]
       /\ Reconcile(destination)
       /\ UNCHANGED << activeWorkspace, counters, history >>

(* PrepareWindow and CommitWindow.                                         *)
CreateWindow ==
    /\ Cardinality(Live) < MaxWindows
    /\ nextPane <= MaxPaneID /\ nextIncarnation <= MaxIncarnation
    /\ windows' = windows @@ (nextWindow :>
            [incarnation |-> nextIncarnation, workspace |-> activeWorkspace,
             tabs |-> << Tab(nextTab, nextPane) >>, active |-> nextTab])
    /\ workspaces' = [workspaces EXCEPT ![activeWorkspace] =
            [windows |-> Append(@.windows, nextWindow), active |-> nextWindow]]
    /\ activeWindow' = nextWindow
    /\ unpublished' = nextWindow /\ wasActive' = activeWindow
    /\ nextWindow' = nextWindow + 1 /\ nextIncarnation' = nextIncarnation + 1
    /\ nextTab' = nextTab + 1 /\ nextPane' = nextPane + 1
    /\ UNCHANGED << activeWorkspace, reported, retired >>

(* The front end has bound, attached and focused the new window.           *)
PublishWindow ==
    /\ unpublished # 0 /\ unpublished' = 0 /\ wasActive' = 0
    /\ UNCHANGED << workspaces, activeWorkspace, activeWindow, windows,
                    counters, reported, retired >>

ActivateWindow(w) ==
    /\ windows[w].workspace = activeWorkspace
    /\ workspaces' = [workspaces EXCEPT ![activeWorkspace].active = w]
    /\ activeWindow' = w
    /\ UNCHANGED << activeWorkspace, windows, counters, history >>

(* The next workspace, in cyclic order, that has a window.                 *)
NextInhabited(wss, from) ==
    LET n == Len(wss)
        at(offset) == ((from + offset - 1) % n) + 1
        inhabited == {o \in 1..n : wss[at(o)].windows # << >>}
    IN at(CHOOSE o \in inhabited : \A p \in inhabited : o <= p)

(* Mutant: the active workspace stays, empty or not.                       *)
DetachWindowStays(w) ==
    LET ws == windows[w].workspace
        left == [workspaces EXCEPT ![ws] = WithoutWindow(@, w)]
    IN /\ windows' = [v \in Live \ {w} |-> windows[v]]
       /\ workspaces' = left
       /\ UNCHANGED << activeWorkspace, activeWindow >>

(* CloseWindow: the remembered neighbour becomes active or, when the       *)
(* active workspace is empty, the next workspace that has a window.        *)
DetachWindow(w) ==
    LET ws == windows[w].workspace
        left == [workspaces EXCEPT ![ws] = WithoutWindow(@, w)]
        shown == IF activeWorkspace # ws \/ left[ws].active # 0 \/ Live = {w}
                 THEN activeWorkspace ELSE NextInhabited(left, ws)
    IN /\ windows' = [v \in Live \ {w} |-> windows[v]]
       /\ workspaces' = left
       /\ activeWorkspace' = shown
       /\ activeWindow' = left[shown].active

CloseWindow(w) ==
    /\ DetachWindow(w)
    /\ reported' = reported \cup TabPanes(windows[w].tabs)
    /\ retired' = retired \cup {Identity(w)}
    /\ UNCHANGED << counters, unpublished, wasActive >>

(* Mutant: the incarnation is given back with the other IDs.               *)
RollbackReusesIncarnation ==
    /\ unpublished # 0
    /\ DetachWindow(unpublished)
    /\ nextWindow' = unpublished
    /\ nextTab' = windows[unpublished].tabs[1].id
    /\ nextPane' = windows[unpublished].tabs[1].panes[1]
    /\ nextIncarnation' = nextIncarnation - 1
    /\ retired' = retired \cup {Identity(unpublished)}
    /\ unpublished' = 0 /\ wasActive' = 0
    /\ UNCHANGED reported

(* Mux.rollbackWindow: the newest window is closed and its IDs, but not    *)
(* its incarnation, are given back.                                        *)
RollbackWindow ==
    /\ unpublished # 0
    /\ DetachWindow(unpublished)
    /\ nextWindow' = unpublished
    /\ nextTab' = windows[unpublished].tabs[1].id
    /\ nextPane' = windows[unpublished].tabs[1].panes[1]
    /\ retired' = retired \cup {Identity(unpublished)}
    /\ unpublished' = 0 /\ wasActive' = 0
    /\ UNCHANGED << nextIncarnation, reported >>
-----------------------------------------------------------------------------
(* Workspaces.                                                             *)

CreateWorkspace ==
    /\ Len(workspaces) < MaxWorkspaces
    /\ workspaces' = Append(workspaces, [windows |-> << >>, active |-> 0])
    /\ UNCHANGED << activeWorkspace, activeWindow, windows, counters, history >>

SwitchWorkspace(ws) ==
    /\ ws # activeWorkspace
    /\ activeWorkspace' = ws /\ activeWindow' = workspaces[ws].active
    /\ UNCHANGED << workspaces, windows, counters, history >>

(* Mutant: the workspace the window leaves still remembers it.             *)
MoveWindowRemembered(w, to) ==
    LET from == windows[w].workspace
        moved == [workspaces EXCEPT
            ![from].windows = Dropped(@, w),
            ![to] = [windows |-> Append(@.windows, w),
                     active |-> IF @.active = 0 THEN w ELSE @.active]]
    IN /\ from # to
       /\ workspaces' = moved
       /\ windows' = [windows EXCEPT ![w].workspace = to]
       /\ activeWindow' = moved[activeWorkspace].active
       /\ UNCHANGED << activeWorkspace, counters, history >>

MoveWindowToWorkspace(w, to) ==
    LET from == windows[w].workspace
        moved == [workspaces EXCEPT
            ![from] = WithoutWindow(@, w),
            ![to] = [windows |-> Append(@.windows, w),
                     active |-> IF @.active = 0 THEN w ELSE @.active]]
    IN /\ from # to
       /\ workspaces' = moved
       /\ windows' = [windows EXCEPT ![w].workspace = to]
       /\ activeWindow' = moved[activeWorkspace].active
       /\ UNCHANGED << activeWorkspace, counters, history >>
-----------------------------------------------------------------------------
(* The front end creates a window and publishes it or rolls it back before *)
(* it does anything else.                                                  *)
Operation ==
    \/ SpawnTab \/ CreateWindow \/ CreateWorkspace
    \/ \E pane \in 1..MaxPaneID : Split(pane) \/ Focus(pane)
    \/ \E i \in 1..MaxTabs : CloseTab(i) \/ \E j \in 1..MaxTabs : MoveTab(i, j)
    \/ activeWindow # 0 /\ \E id \in TabIDs(activeWindow) : ActivateTab(id)
    \/ \E w \in Live : ActivateWindow(w) \/ CloseWindow(w)
    \/ \E ws \in DOMAIN workspaces :
        \/ SwitchWorkspace(ws)
        \/ \E w \in Live : MoveWindowToWorkspace(w, ws)
    \/ \E from \in Places :
        \/ \E pane \in Elements(windows[from[1]].tabs[from[2]].panes) :
            \/ Close(from[1], from[2], pane)
            \/ \E to \in Places : \E at \in Elements(windows[to[1]].tabs[to[2]].panes) :
                    TransferPane(from[1], from[2], pane, to[1], to[2], at)
        \/ \E w \in Live, position \in 1..(MaxTabs + 1) :
            TransferTab(from[1], from[2], w, position)

Next ==
    \/ unpublished = 0 /\ Operation
    \/ PublishWindow
    \/ RollbackWindow

Spec == Init /\ [][Next]_vars
-----------------------------------------------------------------------------
(***************************************************************************)
(* Properties.                                                             *)
(***************************************************************************)
AllPanes == UNION {TabPanes(windows[w].tabs) : w \in Live}
AllTabs == {windows[p[1]].tabs[p[2]] : p \in Places}
NoRepeats(s) == Cardinality(Elements(s)) = Len(s)

(* What CheckInvariants verifies before and after the operations.          *)
EveryWindowHasAWorkspace ==
    /\ \A ws \in DOMAIN workspaces :
        /\ NoRepeats(workspaces[ws].windows)
        /\ Elements(workspaces[ws].windows) = {w \in Live : windows[w].workspace = ws}
        /\ IF workspaces[ws].windows = << >> THEN workspaces[ws].active = 0
           ELSE workspaces[ws].active \in Elements(workspaces[ws].windows)
    /\ activeWindow = workspaces[activeWorkspace].active

EveryTabHasAWindow ==
    /\ \A w \in Live : IF windows[w].tabs = << >> THEN windows[w].active = 0
                       ELSE windows[w].active \in TabIDs(w)
    /\ Cardinality({t.id : t \in AllTabs}) = Cardinality(Places)
    /\ \A t \in AllTabs : t.id < nextTab

EveryPaneHasATab ==
    /\ \A t \in AllTabs : NoRepeats(t.panes) /\ t.focused \in Elements(t.panes)
    /\ \A t, u \in AllTabs : t # u => Elements(t.panes) \cap Elements(u.panes) = {}
    /\ \A pane \in AllPanes : pane < nextPane

(* A pane that was made is in the topology or its removal was reported to  *)
(* the mux, which closes its session, and never both; and an identity of a *)
(* window names one lifetime, even when a rolled back ID is used again.    *)
EveryPaneReported ==
    /\ AllPanes \cup reported = 1..(nextPane - 1)
    /\ AllPanes \cap reported = {}
    /\ \A w \in Live : Identity(w) \notin retired

(* However windows, tabs and panes are closed, moved and carried between   *)
(* workspaces, membership, remembered windows, active tabs and focus agree *)
(* with each other: no accepted operation meets the rollback it keeps for  *)
(* a model that fails CheckInvariants; and no pane is lost.                *)
TopologySound == /\ EveryWindowHasAWorkspace /\ EveryTabHasAWindow /\ EveryPaneHasATab
                 /\ EveryPaneReported

(* docs/troubleshooting.md: when the activation of a child window fails,   *)
(* "CervTerm should retain old-or-new state": the window that was active   *)
(* before is active again.                                                 *)
RollbackRestoresActive == [][RollbackWindow => activeWindow' = wasActive]_vars
=============================================================================
