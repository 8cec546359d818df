----------------------------- MODULE PaneOrder -----------------------------
(***************************************************************************)
(* What a tab promises about its panes, whatever the geometry: they have   *)
(* one visual order, which only splits, closings, transfers and exchanges  *)
(* change, and one of them has the focus.                                  *)
(***************************************************************************)
EXTENDS VisualOrder, Sequences

CONSTANT Panes
VARIABLES order, focused
orderVars == << order, focused >>

OrderInit == order = << >> /\ focused \in Panes \cup {0}

(* The first pane of a tab.                                                *)
Open(p) == order = << >> /\ order' = << p >> /\ focused' = p

(* A pane that is not in the tab, new or from another tab, is put after    *)
(* one that is, and takes the focus.                                       *)
Enter(at, p) ==
    /\ at \in Elements(order) /\ p \notin Elements(order)
    /\ order' = SplitAt(order, at, p) /\ focused' = p

(* A pane is closed or moves to another tab.                               *)
Leave(p) ==
    /\ p \in Elements(order)
    /\ order' = Dropped(order, p)
    /\ focused' = FocusWithout(order, focused, p)

(* The focus moves to another pane of the tab.                             *)
Refocus(p) == p \in Elements(order) /\ focused' = p /\ UNCHANGED order

(* Two panes change places; the focus stays in its place, or stays with    *)
(* its pane.                                                               *)
Exchange(p, q) ==
    /\ {p, q} \subseteq Elements(order) /\ p # q
    /\ order' = Exchanged(order, p, q)
    /\ focused' \in {focused, Exchanged(<< focused >>, p, q)[1]}

OrderNext == \E p \in Panes :
    \/ Open(p) \/ Leave(p) \/ Refocus(p)
    \/ \E q \in Panes : Enter(q, p) \/ Exchange(p, q)

OrderSpec == OrderInit /\ [][OrderNext]_orderVars
=============================================================================
