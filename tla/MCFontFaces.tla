---------------------------- MODULE MCFontFaces ----------------------------
(* Two faces of one source and one of another, room for two faces, and for *)
(* both sources only when neither grows.                                    *)
EXTENDS FontFaces, TLC

CONSTANTS a1, a2, b1, srcA, srcB

MCKeys == {a1, a2, b1}
MCSources == {srcA, srcB}
MCSourceOf == (a1 :> srcA) @@ (a2 :> srcA) @@ (b1 :> srcB)
MCKnownSize == (srcA :> 1) @@ (srcB :> 0)

(* A bound: while the last face that may be made is, at most two goroutines *)
(* are at work or hold a lease; the third may still be refused.             *)
Busy(calls) == {c \in Callers : calls[c] # NoCall}
MCNext == Next /\ (Len(cache'.entry) = MaxEntries => Cardinality(Busy(call')) <= 2)

MCFairSpec == Init /\ [][MCNext]_vars /\ \A c \in Callers : WF_vars(Step(c))
============================================================================
