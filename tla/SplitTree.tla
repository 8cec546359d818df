----------------------------- MODULE SplitTree -----------------------------
(***************************************************************************)
(* The split tree of one tab and its geometry (src/internal/mux/tree.go,   *)
(* layout.go, topology.go and the tree operations of model.go,             *)
(* model_close.go and model_cross_window_transfer.go).                     *)
(*                                                                         *)
(* A leaf is [pane], a branch [split, axis, ratio, first, second].         *)
(* Rectangles are in pixels, half open.  A step is an operation that is    *)
(* accepted: a rejected one leaves everything as it was.                   *)
(***************************************************************************)
EXTENDS VisualOrder, Integers, Sequences, FiniteSets, SequencesExt

CONSTANTS
    RatioScale,   \* the denominator of a ratio
    Ratios,       \* the ratios asked for
    CellWidth, CellHeight,
    MinPaneCols, MinPaneRows,   \* the floor for a new split
    TopologyMin,                \* the floor (cells) for changes of a tree
    Bounds,       \* the sizes the window may have: << width, height >>
    Deltas,       \* the cells a pane is asked to grow by
    MaxPanes      \* bound on the panes ever made

RatioAssumption == Ratios \subseteq 1..(RatioScale - 1)

VARIABLES root, focused, bounds, nextPane, nextSplit,
          elsewhere   \* the panes that moved to another tab
vars == << root, focused, bounds, nextPane, nextSplit, elsewhere >>

(***************************************************************************)
(* Trees.                                                                  *)
(***************************************************************************)
NoTree == [pane |-> 0]          \* a nil node
LeafNode(pane) == [pane |-> pane]
BranchNode(split, axis, ratio, first, second) ==
    [split |-> split, axis |-> axis, ratio |-> ratio,
     first |-> first, second |-> second]
IsLeaf(n) == "pane" \in DOMAIN n
WithChildren(n, first, second) == [n EXCEPT !.first = first, !.second = second]

RECURSIVE PaneIDs(_)
PaneIDs(n) == IF n = NoTree THEN << >>
              ELSE IF IsLeaf(n) THEN << n.pane >>
              ELSE PaneIDs(n.first) \o PaneIDs(n.second)

Holds(n, pane) == pane \in Elements(PaneIDs(n))

RECURSIVE Splits(_)
Splits(n) == IF IsLeaf(n) THEN {}
             ELSE {n.split} \cup Splits(n.first) \cup Splits(n.second)

RECURSIVE ReplaceLeaf(_, _, _)
ReplaceLeaf(n, pane, replacement) ==
    IF IsLeaf(n) THEN IF n.pane = pane THEN replacement ELSE n
    ELSE IF Holds(n.first, pane)
         THEN WithChildren(n, ReplaceLeaf(n.first, pane, replacement), n.second)
         ELSE WithChildren(n, n.first, ReplaceLeaf(n.second, pane, replacement))

(* A branch that loses a child collapses to the other.                     *)
RECURSIVE RemoveLeaf(_, _)
RemoveLeaf(n, pane) ==
    IF IsLeaf(n) THEN IF n.pane = pane THEN NoTree ELSE n
    ELSE IF Holds(n.first, pane)
         THEN LET first == RemoveLeaf(n.first, pane) IN
              IF first = NoTree THEN n.second ELSE WithChildren(n, first, n.second)
         ELSE LET second == RemoveLeaf(n.second, pane) IN
              IF second = NoTree THEN n.first ELSE WithChildren(n, n.first, second)

RECURSIVE ReplaceSplitRatio(_, _, _)
ReplaceSplitRatio(n, split, ratio) ==
    IF IsLeaf(n) THEN n
    ELSE IF n.split = split THEN [n EXCEPT !.ratio = ratio]
    ELSE WithChildren(n, ReplaceSplitRatio(n.first, split, ratio),
                         ReplaceSplitRatio(n.second, split, ratio))

RECURSIVE SwapLeaves(_, _, _)
SwapLeaves(n, p, q) ==
    IF IsLeaf(n) THEN LeafNode(Exchanged(<< n.pane >>, p, q)[1])
    ELSE WithChildren(n, SwapLeaves(n.first, p, q), SwapLeaves(n.second, p, q))

(***************************************************************************)
(* Geometry.                                                               *)
(***************************************************************************)
Rect(x, y, w, h) == [x |-> x, y |-> y, w |-> w, h |-> h]
Right(r) == r.x + r.w
Bottom(r) == r.y + r.h
Window(b) == Rect(0, 0, b[1], b[2])

DividerPixels == 1
(* Mutant: both shares are rounded down.                                   *)
ExtentRoundsBoth(total, ratio) ==
    IF total <= 0 THEN << 0, 0, 0 >>
    ELSE LET available == total - DividerPixels
         IN << (available * ratio) \div RatioScale, DividerPixels,
               (available * (RatioScale - ratio)) \div RatioScale >>

SplitExtent(total, ratio) ==
    IF total <= 0 THEN << 0, 0, 0 >>
    ELSE LET available == total - DividerPixels
             first == (available \div RatioScale) * ratio
                      + ((available % RatioScale) * ratio) \div RatioScale
         IN << first, DividerPixels, available - first >>

SplitRect(r, axis, ratio) ==
    IF axis = "columns"
    THEN LET e == SplitExtent(r.w, ratio) IN
         << Rect(r.x, r.y, e[1], r.h), Rect(r.x + e[1], r.y, e[2], r.h),
            Rect(r.x + e[1] + e[2], r.y, e[3], r.h) >>
    ELSE LET e == SplitExtent(r.h, ratio) IN
         << Rect(r.x, r.y, r.w, e[1]), Rect(r.x, r.y + e[1], r.w, e[2]),
            Rect(r.x, r.y + e[1] + e[2], r.w, e[3]) >>

(* The panes and the dividers of a tree laid out in r.                     *)
RECURSIVE LayoutPanes(_, _), LayoutDividers(_, _)
LayoutPanes(n, r) ==
    IF n = NoTree THEN {}
    ELSE IF IsLeaf(n) THEN {[pane |-> n.pane, rect |-> r]}
    ELSE LET parts == SplitRect(r, n.axis, n.ratio) IN
         LayoutPanes(n.first, parts[1]) \cup LayoutPanes(n.second, parts[3])
LayoutDividers(n, r) ==
    IF IsLeaf(n) THEN {}
    ELSE LET parts == SplitRect(r, n.axis, n.ratio) IN
         {parts[2]} \cup LayoutDividers(n.first, parts[1])
                    \cup LayoutDividers(n.second, parts[3])

RectOf(n, b, pane) == (CHOOSE g \in LayoutPanes(n, Window(b)) : g.pane = pane).rect

Cols(r) == r.w \div CellWidth
Rows(r) == r.h \div CellHeight
AtLeast(r, cols, rows) == Cols(r) >= cols /\ Rows(r) >= rows
AllAtLeast(n, b, cols, rows) ==
    \A g \in LayoutPanes(n, Window(b)) : AtLeast(g.rect, cols, rows)

(***************************************************************************)
(* The neighbour of a pane in a direction: least overlap flag, then least  *)
(* distance, then nearest centre, then least ID.                           *)
(***************************************************************************)
Directions == {"left", "right", "up", "down"}
AxisOf(direction) == IF direction \in {"left", "right"} THEN "columns" ELSE "rows"
Abs(v) == IF v < 0 THEN -v ELSE v

(* The distance from s to c in the direction; negative: not that way.      *)
Distance(direction, s, c) ==
    CASE direction = "left"  -> s.x - Right(c)
      [] direction = "right" -> c.x - Right(s)
      [] direction = "up"    -> s.y - Bottom(c)
      [] direction = "down"  -> c.y - Bottom(s)

Span(direction, r) == IF AxisOf(direction) = "columns" THEN << r.y, Bottom(r) >>
                      ELSE << r.x, Right(r) >>

DirectionalScore(direction, s, c) ==
    LET source == Span(direction, s)
        candidate == Span(direction, c)
        apart == candidate[2] <= source[1] \/ candidate[1] >= source[2]
    IN << IF apart THEN 1 ELSE 0, Distance(direction, s, c),
          Abs((source[1] + source[2]) - (candidate[1] + candidate[2])) >>

Before(s, t) == \E i \in DOMAIN s : s[i] < t[i] /\ \A j \in 1..(i - 1) : s[j] = t[j]

(* 0 when there is none.                                                   *)
DirectionalNeighbor(pane, direction) ==
    LET panes == LayoutPanes(root, Window(bounds))
        source == RectOf(root, bounds, pane)
        there == {g \in panes : g.pane # pane
                                /\ Distance(direction, source, g.rect) >= 0}
        key(g) == Append(DirectionalScore(direction, source, g.rect), g.pane)
    IN IF there = {} THEN 0
       ELSE (CHOOSE g \in there : \A h \in there \ {g} : Before(key(g), key(h))).pane

(* The branch that separates the pane from its neighbour, when it divides  *)
(* the right axis, with its rectangle.                                     *)
NoSplit == [node |-> NoTree]
RECURSIVE SeparatingSplit(_, _, _, _, _)
SeparatingSplit(n, r, pane, neighbor, axis) ==
    IF IsLeaf(n) THEN NoSplit
    ELSE LET parts == SplitRect(r, n.axis, n.ratio)
             both(child) == Holds(child, pane) /\ Holds(child, neighbor)
         IN IF both(n.first)
            THEN SeparatingSplit(n.first, parts[1], pane, neighbor, axis)
            ELSE IF both(n.second)
            THEN SeparatingSplit(n.second, parts[3], pane, neighbor, axis)
            ELSE IF n.axis = axis
            THEN [node |-> n, container |-> r, inFirst |-> Holds(n.first, pane)]
            ELSE NoSplit

(* What a divider of the axis divides of a rectangle, and a cell of it.    *)
Available(r, axis) == (IF axis = "columns" THEN r.w ELSE r.h) - DividerPixels
CellAlong(axis) == IF axis = "columns" THEN CellWidth ELSE CellHeight

(* Mutant: the ratio is rounded down.                                      *)
RatioRoundedDown(container, axis, delta) ==
    LET change == (delta * CellAlong(axis) * RatioScale) \div Available(container, axis)
    IN IF change <= 0 THEN 1 ELSE change

(* The ratio that moves the divider by delta cells, rounded up.            *)
RatioChange(container, axis, delta) ==
    LET cell == CellAlong(axis)
        extent == Available(container, axis)
        change == (delta * cell * RatioScale + extent - 1) \div extent
    IN IF change <= 0 THEN 1 ELSE change
-----------------------------------------------------------------------------
Init ==
    /\ root = LeafNode(1) /\ focused = 1 /\ bounds \in Bounds
    /\ nextPane = 2 /\ nextSplit = 1 /\ elsewhere = {}

Tree == IF root = NoTree THEN {} ELSE Elements(PaneIDs(root))

(* commitTab in the window, once the tab is gone.                          *)
OpenTab ==
    /\ root = NoTree /\ nextPane <= MaxPanes
    /\ root' = LeafNode(nextPane) /\ focused' = nextPane
    /\ nextPane' = nextPane + 1
    /\ UNCHANGED << bounds, nextSplit, elsewhere >>

(* SplitWithRatioAndMetrics: both halves of the pane must be large enough. *)
Split(pane, axis, ratio) ==
    /\ nextPane <= MaxPanes
    /\ LET parts == SplitRect(RectOf(root, bounds, pane), axis, ratio) IN
       \A part \in {parts[1], parts[3]} : AtLeast(part, MinPaneCols, MinPaneRows)
    /\ root' = ReplaceLeaf(root, pane,
                    BranchNode(nextSplit, axis, ratio, LeafNode(pane), LeafNode(nextPane)))
    /\ focused' = nextPane
    /\ nextPane' = nextPane + 1 /\ nextSplit' = nextSplit + 1
    /\ UNCHANGED << bounds, elsewhere >>

(* Mutant: the focus goes to the first pane of the tree.                   *)
RemoveFocusesFirst(pane) ==
    LET left == RemoveLeaf(root, pane) IN
    /\ root' = left
    /\ focused' = IF left # NoTree /\ focused = pane THEN PaneIDs(left)[1]
                  ELSE focused

(* Model.Close and the source side of a transfer: the parent collapses and *)
(* the focus goes to the pane that takes the place.                        *)
RemovePane(pane) ==
    LET left == RemoveLeaf(root, pane) IN
    /\ root' = left
    /\ focused' = IF left # NoTree /\ focused = pane
                  THEN Neighbour(PaneIDs(left), Place(PaneIDs(root), pane), 0)
                  ELSE focused

Close(pane) ==
    RemovePane(pane) /\ UNCHANGED << bounds, nextPane, nextSplit, elsewhere >>

(* TransferPaneBetweenWindows, seen from the source tab and from the       *)
(* destination tab.                                                        *)
TransferAway(pane) ==
    /\ RemovePane(pane)
    /\ AllAtLeast(root', bounds, TopologyMin, TopologyMin)
    /\ elsewhere' = elsewhere \cup {pane}
    /\ UNCHANGED << bounds, nextPane, nextSplit >>

TransferHere(pane, at, axis, ratio) ==
    /\ nextSplit < MaxPanes
    /\ root' = ReplaceLeaf(root, at,
                    BranchNode(nextSplit, axis, ratio, LeafNode(at), LeafNode(pane)))
    /\ AllAtLeast(root', bounds, TopologyMin, TopologyMin)
    /\ focused' = pane
    /\ nextSplit' = nextSplit + 1
    /\ elsewhere' = elsewhere \ {pane}
    /\ UNCHANGED << bounds, nextPane >>

Focus(pane) ==
    focused' = pane /\ UNCHANGED << root, bounds, nextPane, nextSplit, elsewhere >>

FocusNext ==
    /\ root # NoTree
    /\ focused' = Following(PaneIDs(root), focused)
    /\ UNCHANGED << root, bounds, nextPane, nextSplit, elsewhere >>

FocusDirection(direction) ==
    /\ DirectionalNeighbor(focused, direction) # 0
    /\ focused' = DirectionalNeighbor(focused, direction)
    /\ UNCHANGED << root, bounds, nextPane, nextSplit, elsewhere >>

(* commitTopology.                                                         *)
CommitTopology(candidate, focus) ==
    /\ AllAtLeast(candidate, bounds, TopologyMin, TopologyMin)
    /\ root' = candidate /\ focused' = focus
    /\ UNCHANGED << bounds, nextPane, nextSplit, elsewhere >>

(* SwapPaneDirection: the focus stays in its place.                        *)
SwapPane(pane, direction) ==
    LET neighbor == DirectionalNeighbor(pane, direction) IN
    /\ neighbor # 0
    /\ CommitTopology(SwapLeaves(root, pane, neighbor),
                      Exchanged(<< focused >>, pane, neighbor)[1])

(* MovePaneDirection: the focus stays with its pane.                       *)
MovePane(pane, direction) ==
    LET neighbor == DirectionalNeighbor(pane, direction) IN
    /\ neighbor # 0
    /\ CommitTopology(SwapLeaves(root, pane, neighbor), focused)

(* ResizePaneDirection: the divider between the pane and its neighbour     *)
(* moves away from the pane.                                               *)
ResizePane(pane, direction, delta) ==
    LET neighbor == DirectionalNeighbor(pane, direction)
        axis == AxisOf(direction)
        path == SeparatingSplit(root, Window(bounds), pane, neighbor, axis)
        toFirst == direction \in {"right", "down"}
    IN /\ neighbor # 0 /\ path # NoSplit
       /\ Available(path.container, axis) > 0
       /\ path.inFirst = toFirst
       /\ LET change == RatioChange(path.container, axis, delta)
              ratio == IF toFirst THEN path.node.ratio + change
                       ELSE path.node.ratio - change
          IN /\ ratio \in 1..(RatioScale - 1)
             /\ CommitTopology(ReplaceSplitRatio(root, path.node.split, ratio), focused)

(* SetSplitRatioWithMetrics (a dragged divider).                           *)
SetSplitRatio(split, ratio) ==
    /\ root' = ReplaceSplitRatio(root, split, ratio)
    /\ AllAtLeast(root', bounds, MinPaneCols, MinPaneRows)
    /\ UNCHANGED << focused, bounds, nextPane, nextSplit, elsewhere >>

(* resizeBounds: any size is accepted.                                     *)
ResizeBounds(b) ==
    bounds' = b /\ UNCHANGED << root, focused, nextPane, nextSplit, elsewhere >>

Next ==
    \/ OpenTab \/ FocusNext
    \/ \E pane \in Tree :
        \/ Close(pane) \/ TransferAway(pane) \/ Focus(pane)
        \/ \E axis \in {"columns", "rows"}, ratio \in Ratios :
            \/ Split(pane, axis, ratio)
            \/ \E p \in elsewhere : TransferHere(p, pane, axis, ratio)
        \/ \E direction \in Directions :
            \/ SwapPane(pane, direction) \/ MovePane(pane, direction)
            \/ \E delta \in Deltas : ResizePane(pane, direction, delta)
    \/ \E direction \in Directions : root # NoTree /\ FocusDirection(direction)
    \/ \E split \in Splits(root), ratio \in Ratios : SetSplitRatio(split, ratio)
    \/ \E b \in Bounds : ResizeBounds(b)

Spec == Init /\ [][Next]_vars
-----------------------------------------------------------------------------
(***************************************************************************)
(* Properties.                                                             *)
(***************************************************************************)
(* Whatever is split, collapsed, exchanged or carried to another tab, the  *)
(* tree is a visual order of panes that only the operation at hand         *)
(* changes, and the focus is on one of them: the tree implements the       *)
(* abstract specification.                                                 *)
Order == INSTANCE PaneOrder WITH
    order <- PaneIDs(root),
    focused <- IF root = NoTree THEN 0 ELSE focused,
    Panes <- 1..MaxPanes
OrderKept == Order!OrderNext \/ UNCHANGED Order!orderVars

(* Every pixel of the window is in exactly one pane or divider, however    *)
(* the window and the dividers are resized.                                *)
PanesTile ==
    LET rects == {g.rect : g \in LayoutPanes(root, Window(bounds))}
                 \cup LayoutDividers(root, Window(bounds))
        shown == {r \in rects : r.w > 0 /\ r.h > 0}
        inside(r, x, y) == x \in r.x..(Right(r) - 1) /\ y \in r.y..(Bottom(r) - 1)
    IN root # NoTree =>
       \A x \in 0..(bounds[1] - 1), y \in 0..(bounds[2] - 1) :
          Cardinality({r \in shown : inside(r, x, y)}) = 1

(* A resize that is accepted moves the edge of the pane towards its        *)
(* neighbour by at least the cells asked for.                              *)
EdgeOf(r, direction) == CASE direction = "left"  -> -r.x
                          [] direction = "right" -> Right(r)
                          [] direction = "up"    -> -r.y
                          [] direction = "down"  -> Bottom(r)
Moved(pane, direction) == EdgeOf(RectOf(root', bounds, pane), direction)
                          - EdgeOf(RectOf(root, bounds, pane), direction)
EdgeMoved ==
    /\ root' # root /\ PaneIDs(root') = PaneIDs(root)
    /\ UNCHANGED << focused, bounds, nextPane, nextSplit, elsewhere >>
    => \A pane \in Tree, direction \in Directions, delta \in Deltas :
            ResizePane(pane, direction, delta) =>
                Moved(pane, direction) >= delta * CellAlong(AxisOf(direction))
=============================================================================
