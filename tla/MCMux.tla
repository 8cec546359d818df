-------------------------------- MODULE MCMux --------------------------------
(***************************************************************************)
(* Four models of what the mux's owner keeps, in one run: Topology, the    *)
(* split tree of one tab, the sessions of the panes, and the terminal of   *)
(* one (under each of its profiles).  They share no state, so each         *)
(* behaviour runs one of them, "component", and leaves the others in their *)
(* initial states.                                                         *)
(***************************************************************************)
EXTENDS Integers, Sequences, FiniteSets, TLC

CONSTANTS MaxWorkspaces, MaxWindows, MaxTabs, MaxPaneID, MaxWindowIncarnation,
          RatioScale, Ratios, CellWidth, CellHeight, MinPaneCols, MinPaneRows,
          TopologyMin, Deltas, MaxPanes,
          Objects, None, Capacity, MaxChunks, MaxSessionPaneID, MaxRestore, MaxRefusals,
          Widths, Heights, Histories, TabWidth, MaxGlyphs

VARIABLES component,
    workspaces, activeWorkspace, activeWindow, muxWindows, nextWindow,
    windowIncarnation, nextTab, nextPane, unpublished, wasActive, reported, retired,
    root, focused, bounds, treePane, treeSplit, elsewhere,
    pane, panes, tombstones, reader, incoming, terminal, live, sessionPane,
    bootstrapped, pending, rollback, held, refusals, reserved, stranded, owner,
    profile, screen, primary, modes, tabs, printed

(* An even and an odd extent, and one too small for every split.           *)
MCBounds == {<< 9, 5 >>, << 6, 4 >>}

Windows == INSTANCE Topology
               WITH windows <- muxWindows, nextIncarnation <- windowIncarnation,
                    MaxIncarnation <- MaxWindowIncarnation
Tree == INSTANCE SplitTree
            WITH Bounds <- MCBounds, nextPane <- treePane, nextSplit <- treeSplit
Sessions == INSTANCE PaneSessions
                WITH MaxPaneID <- MaxSessionPaneID, closed <- tombstones,
                     nextPane <- sessionPane
Screens == INSTANCE TerminalProfiles
               WITH Cols <- Widths, Rows <- Heights, Capacities <- Histories

ASSUME Windows!LimitsAssumption /\ Tree!RatioAssumption
ASSUME ScreenAssumption == Screens!TerminalAssumption

MCInit == /\ component \in {"topology", "tree", "sessions", "screens"}
          /\ Windows!Init /\ Tree!Init /\ Sessions!Init /\ Screens!ProfileInit
          /\ component # "tree" => bounds = << 9, 5 >>
          /\ component # "screens" => Screens!Smallest

windowVars == << workspaces, activeWorkspace, activeWindow, muxWindows, nextWindow,
                 windowIncarnation, nextTab, nextPane, unpublished, wasActive,
                 reported, retired >>
treeVars == << root, focused, bounds, treePane, treeSplit, elsewhere >>
sessionVars == << pane, panes, tombstones, reader, incoming, terminal, live, sessionPane,
                  bootstrapped, pending, rollback, held, refusals,
                  reserved, stranded, owner >>
screenVars == << profile, screen, primary, modes, tabs, printed >>
allVars == << component, windowVars, treeVars, sessionVars, screenVars >>

(* Pane objects are told apart only by what happened to them.              *)
ObjectSymmetry == Permutations(Objects)

(* A bound: once the last window has been made, each has at most one tab.  *)
LastWindow == windowIncarnation' > MaxWindowIncarnation
              => \A w \in DOMAIN muxWindows' : Len(muxWindows'[w].tabs) <= 1
TopologyStep == /\ component = "topology" /\ Windows!Next /\ LastWindow
                /\ UNCHANGED << component, treeVars, sessionVars, screenVars >>
TreeStep == /\ component = "tree" /\ Tree!Next
            /\ UNCHANGED << component, windowVars, sessionVars, screenVars >>
SessionStep == /\ component = "sessions" /\ Sessions!Next
               /\ UNCHANGED << component, windowVars, treeVars, screenVars >>
ScreenStep == /\ component = "screens" /\ Screens!ProfileStep
              /\ UNCHANGED << component, windowVars, treeVars, sessionVars >>

MCNext == TopologyStep \/ TreeStep \/ SessionStep \/ ScreenStep

MCSpec == MCInit /\ [][MCNext]_allVars

(* Windows, tabs and panes agree, and no pane is lost (Topology).          *)
TopologySound == component = "topology" => Windows!TopologySound
(* Every pixel belongs to one pane or divider (SplitTree).                 *)
PanesTile == component = "tree" => Tree!PanesTile
(* The tree is a visual order only the operation at hand changes, and a    *)
(* resize that is accepted moves the edge by the cells asked for           *)
(* (SplitTree, PaneOrder).                                                 *)
TreeStepsKept == [][component = "tree" => Tree!OrderKept /\ Tree!EdgeMoved]_treeVars
(* Every session has one owner, to the end of Shutdown, and pane IDs are   *)
(* handed out again only after a rollback (PaneSessions).                  *)
SessionsSound == component = "sessions" => Sessions!SessionsSound
(* Both screens keep the shape that unchecked indexing relies on           *)
(* (Terminal).                                                             *)
ScreensWellFormed == component = "screens" => Screens!TypeOK
(* The primary screen survives resizes, history limits and visits to the   *)
(* alternate screen (Terminal).                                            *)
MainScreenKept == Screens!MainScreenKept
(* Output does not move the rows that somebody reads (Terminal).           *)
ViewPinned == Screens!ViewPinned
==============================================================================
