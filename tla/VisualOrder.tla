---------------------------- MODULE VisualOrder ----------------------------
(***************************************************************************)
(* The panes of one tab in visual order: what src/internal/mux/tree.go and *)
(* its callers do to the depth-first sequence of leaves (paneIDs), without *)
(* the tree.  SplitTree shows that the trees implement these operators;    *)
(* Topology uses them for the tabs of every window.                        *)
(***************************************************************************)
EXTENDS Naturals
LOCAL INSTANCE SequencesExt

(* Every element, and the place of one of them.                            *)
Elements(order) == {order[i] : i \in DOMAIN order}
Place(order, x) == CHOOSE i \in DOMAIN order : order[i] = x

(* A split puts the new pane right after the one it divides.               *)
SplitAt(order, pane, new) == InsertAt(order, Place(order, pane) + 1, new)

(* A removed pane leaves the order of the others as it was.                *)
Dropped(order, pane) == RemoveAt(order, Place(order, pane))

(* Two panes exchanged.                                                    *)
Exchanged(order, p, q) ==
    [i \in DOMAIN order |-> IF order[i] = p THEN q
                            ELSE IF order[i] = q THEN p ELSE order[i]]

(* What takes the place i of a removed element: its successor, or the new  *)
(* last one, or nothing.                                                   *)
Neighbour(order, i, none) ==
    IF order = << >> THEN none
    ELSE IF i > Len(order) THEN Last(order) ELSE order[i]

(* The focus after `pane` is removed: the pane that takes its place.       *)
FocusWithout(order, focused, pane) ==
    IF focused # pane THEN focused
    ELSE Neighbour(Dropped(order, pane), Place(order, pane), 0)

(* The pane after p in visual order, wrapping around.                      *)
Following(order, p) == order[(Place(order, p) % Len(order)) + 1]
=============================================================================
