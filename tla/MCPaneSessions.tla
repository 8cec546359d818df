--------------------------- MODULE MCPaneSessions ---------------------------
EXTENDS PaneSessions, TLC

(* Pane objects are told apart only by what happened to them. *)
ObjectSymmetry == Permutations(Objects)
=============================================================================
