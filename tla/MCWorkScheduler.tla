--------------------------- MODULE MCWorkScheduler ---------------------------
(* Three works of one pane and works of two others: a key is reused, the   *)
(* queue and the results are full, and workers wait for space.             *)
EXTENDS WorkScheduler, TLC

CONSTANTS w1, w2, w3, w4, p1, p2, p3

MCWorks == {w1, w2, w3, w4}
MCKeys == {p1, p2, p3}
MCKeyOf == (w1 :> p1) @@ (w2 :> p1) @@ (w3 :> p2) @@ (w4 :> p3)
=============================================================================
