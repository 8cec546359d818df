-------------------------- MODULE TerminalProfiles --------------------------
(***************************************************************************)
(* The terminal core for TLC.  A behaviour is of one "profile", which says  *)
(* what happens to its terminal: text that is resized and scrolled over,   *)
(* the same under changing limits of the history, output while somebody    *)
(* reads a history of three rows, the cursor and the modes moved through   *)
(* every size, editing in margins, windows resized under the alternate     *)
(* screen, and programs that save the cursor on both screens.              *)
(***************************************************************************)
EXTENDS Terminal

VARIABLE profile

Terminals == {"resized", "limited", "read", "moved", "edited", "covered", "under"}

ProfileInit == profile \in Terminals /\ Init

Smallest ==
    /\ profile = "moved"
    /\ \A c \in Cols : screen.cols <= c
    /\ \A r \in Rows : screen.rows <= r
    /\ \A n \in Capacities : screen.capacity <= n

Size == <<screen.cols, screen.rows>>
Among(profiles) ==
    /\ profile \in profiles
    /\ Main.capacity = 3 <=> profile = "read"
    /\ profile \in {"resized", "covered", "under"} => Main.capacity = 2
    /\ profile \in {"edited", "covered"} => Size = <<2, 2>>
    /\ profile = "limited" => screen.rows = 2
    /\ profile \in {"read", "under"} => screen.cols = 2
MayPrint ==
    CASE profile = "resized" -> screen.offset = 0
      [] profile = "read" -> printed < 3
      [] profile \in {"limited", "under"} -> printed < 2 /\ ~Alternate
      [] profile = "covered" -> printed = 0 \/ (printed = 1 /\ Alternate)
      [] OTHER -> printed < 2
MaySwitch == profile = "limited" => printed < 2
MayResize == profile = "limited" => screen.offset = 0
ProfileStep ==
    /\ \/ Among(Terminals \ {"moved"}) /\ MayPrint /\ Put
       \/ Among({"resized", "limited", "read", "under"}) /\ ~Alternate /\ NextLine
       \/ Among({"resized", "moved", "limited", "under"}) /\ MayResize /\ Resize
       \/ Among({"resized", "limited", "edited", "read"})
          /\ (profile = "read" \/ printed <= 2) /\ Scroll
       \/ Among({"read"}) /\ EditLines
       \/ Among({"covered", "under", "limited"}) /\ MaySwitch /\ Switch
       \/ Among({"limited"}) /\ SetScrollbackCapacity
       \/ Among({"moved"}) /\ Moving
       \/ Among({"moved", "read", "edited"}) /\ Feed
       \/ Among({"moved", "edited"}) /\ Margins
       \/ Among({"edited"}) /\ (Return \/ Editing)
       \/ Among({"edited", "covered"}) /\ Goto
       \/ Among({"covered"}) /\ (Save \/ Restore)
    /\ profile = "limited" => screen'.rows = screen.rows /\ Main'.capacity <= 2
    /\ profile = "under" => screen'.cols = screen.cols
    /\ UNCHANGED profile

ProfileSpec == ProfileInit /\ [][ProfileStep]_<<profile, vars>>
=============================================================================
