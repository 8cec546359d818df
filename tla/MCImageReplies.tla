--------------------------- MODULE MCImageReplies ---------------------------
(* Two instances in one run, told apart by "wide", which never changes.  The *)
(* narrow one has one pane with replies: slots of two bytes in a queue of    *)
(* three, so that behind a slot a reply of one byte fits and one of two must *)
(* be suppressed.  The wide one has two panes and no replies: Sixel decodes  *)
(* expire in one pass of the expiry loop while workers end and the panes     *)
(* close and reflow each other.                                              *)
EXTENDS ImageReplies

CONSTANT WidePanes
VARIABLE wide

Wide == INSTANCE ImageReplies
            WITH Panes <- WidePanes, Protocols <- {"sixel"}, MaxSequence <- 0

MCInit == \/ wide = FALSE /\ Init
          \/ wide = TRUE /\ Wide!Init

NarrowStep == ~wide /\ Next /\ UNCHANGED wide
WideStep == wide /\ Wide!Next /\ UNCHANGED wide

(* ImageReplies!FairSpec, said of each of the two. *)
MCSpec ==
    /\ MCInit /\ [][NarrowStep \/ WideStep]_<<vars, wide>>
    /\ WF_vars(Tick)
    /\ WF_vars(EndFeed)
    /\ WF_vars(BeginTokens)
    /\ WF_vars(\E t \in todo : IF wide THEN Wide!ExpireOne(t) ELSE ExpireOne(t))
    /\ WF_vars(IF wide THEN Wide!EndExpiry ELSE EndExpiry)
    /\ SF_vars(IF wide THEN Wide!BeginExpiry ELSE BeginExpiry)
    /\ SF_vars(IF wide THEN Wide!Deliver ELSE Deliver)
=============================================================================
