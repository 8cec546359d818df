---------------------------- MODULE PaneStreams ----------------------------
(***************************************************************************)
(* What the pane layer of internal/mux promises about every pane object,   *)
(* whatever happens to the panes around it: its terminal shows the chunks  *)
(* its own program wrote, all of them and in order, as far as it got; the  *)
(* pane is reported as exited at most once, after the last chunk; and a    *)
(* pane that is gone shows nothing more.  PaneSessions, with its registry, *)
(* reader goroutines, shared channel and reused pane IDs, implements it.   *)
(***************************************************************************)
EXTENDS Naturals, FiniteSets

CONSTANT Objects        \* the pane objects (Go pointers, never pane IDs)

VARIABLES
    written,            \* chunks read from the pane's session
    ended,              \* the pane's reader has seen the end of the session
    shown,              \* chunks the pane's terminal has advanced over
    phase               \* "open", "exited" or "gone"

vars == <<written, ended, shown, phase>>

Init ==
    /\ written = [p \in Objects |-> 0]
    /\ ended = [p \in Objects |-> FALSE]
    /\ shown = [p \in Objects |-> 0]
    /\ phase = [p \in Objects |-> "open"]

(* The program writes a chunk, perhaps its last. *)
Write(p, last) ==
    /\ ~ended[p] /\ phase[p] # "exited"
    /\ written' = [written EXCEPT ![p] = @ + 1]
    /\ ended' = [ended EXCEPT ![p] = last]
    /\ UNCHANGED <<shown, phase>>

(* The session ends: the program is gone, or the pane was closed. *)
End(p) ==
    /\ ~ended[p]
    /\ ended' = [ended EXCEPT ![p] = TRUE]
    /\ UNCHANGED <<written, shown, phase>>

Show(p) ==
    /\ phase[p] = "open" /\ shown[p] < written[p]
    /\ shown' = [shown EXCEPT ![p] = @ + 1]
    /\ UNCHANGED <<written, ended, phase>>

Exit(p) ==
    /\ phase[p] = "open" /\ ended[p] /\ shown[p] = written[p]
    /\ phase' = [phase EXCEPT ![p] = "exited"]
    /\ UNCHANGED <<written, ended, shown>>

(* One operation may close several panes. *)
Close(P) ==
    /\ P # {} /\ \A p \in P : phase[p] # "gone"
    /\ phase' = [p \in Objects |-> IF p \in P THEN "gone" ELSE phase[p]]
    /\ UNCHANGED <<written, ended, shown>>

Next ==
    \/ \E p \in Objects :
          \/ \E last \in BOOLEAN : Write(p, last)
          \/ End(p)
          \/ Show(p)
          \/ Exit(p)
    \/ \E P \in SUBSET Objects : Close(P)

Spec == Init /\ [][Next]_vars
============================================================================
