------------------------------ MODULE Terminal ------------------------------
(***************************************************************************)
(* A terminal (internal/core/terminal.go): what the parser, the pane's     *)
(* geometry and the reader of its history do to the primary and the        *)
(* alternate screen.  All of it runs on the owner's thread, one operation  *)
(* at a time; what is hard is the order of the operations: a resize while  *)
(* a line is cut by the edge of the history, or while the alternate screen *)
(* covers the primary one, and output while somebody reads the history.    *)
(***************************************************************************)
EXTENDS Reflow
LOCAL INSTANCE SequencesExt
LOCAL INSTANCE FiniteSetsExt

CONSTANTS Cols, Rows,       \* the widths and heights a window can give it
          Capacities,       \* the history limits a configuration can give it
          TabWidth,         \* 8 in the code
          MaxGlyphs         \* bound on what is printed

TerminalAssumption ==
    /\ Cols \subseteq Nat \ {0, 1} /\ Cols # {}
    /\ Rows \subseteq Nat \ {0} /\ Rows # {}
    /\ Capacities \subseteq Nat /\ Capacities # {}
    /\ TabWidth \in Nat \ {0} /\ MaxGlyphs \in Nat

VARIABLES
    screen,    \* the one that is shown
    primary,   \* primaryScreen: the one saved under the alternate screen
    modes,     \* originMode, insertMode, autoWrap
    tabs,      \* the columns, from 0, with a tab stop
    printed    \* how many glyphs have been printed

vars == <<screen, primary, modes, tabs, printed>>

NoScreen == [cols |-> 0]
Alternate == primary # NoScreen

DefaultModes == [origin |-> FALSE, insert |-> FALSE, autoWrap |-> TRUE]
DefaultTabs(cols) == {i \in 1..(cols - 1) : i % TabWidth = 0}

Init ==
    /\ \E cols \in Cols, rows \in Rows, capacity \in Capacities :
          /\ screen = Fresh(cols, rows, capacity)
          /\ tabs = DefaultTabs(cols)
    /\ primary = NoScreen
    /\ modes = DefaultModes
    /\ printed = 0

-----------------------------------------------------------------------------
(* Output: text and the controls that programs write between it. *)

Shows(s) == screen' = s /\ UNCHANGED <<primary, modes, tabs, printed>>

Put ==
    \E w \in {1, 2} :
        /\ printed < MaxGlyphs
        /\ printed' = printed + 1
        /\ screen' = PutRune(screen, modes, 2 * printed + (IF w = 2 THEN 2 ELSE 1))
        /\ UNCHANGED <<primary, modes, tabs>>

Feed == Shows(NewLine(screen))                    \* LF, IND; NEL after Return
Return == Shows(CarriageReturn(screen))
NextLine == Shows(NewLine(CarriageReturn(screen)))
BackUp == Shows(Backspace(screen))
ReverseFeed == Shows(ReverseIndex(screen))

NextStop(col) == Min({i \in tabs : i >= col} \union {screen.cols - 1}) + 1
Tab == Shows([screen EXCEPT !.col = NextStop(@), !.wrapNext = FALSE])
BackTab ==
    Shows([screen EXCEPT !.col = Largest({i \in tabs : i < @ - 1}) + 1, !.wrapNext = FALSE])
SetTabs(set) == tabs' = set /\ UNCHANGED <<screen, primary, modes, printed>>
TabStops ==
    \E set \in {tabs \union {screen.col - 1}, tabs \ {screen.col - 1}, {}} : SetTabs(set)

Output == Put \/ Feed \/ Return

-----------------------------------------------------------------------------
(* Cursor, margins, editing and modes. *)

Goto == \E r \in 1..screen.rows, c \in 1..screen.cols : Shows(SetCursor(screen, modes.origin, r, c))
Move ==                                           \* CUU CUD CUF CUB CHA
    \E dr, dc \in -1..1 :
        Shows(SetCursor(screen, modes.origin, screen.row + dr, screen.col + dc))
Save == Shows(SaveCursor(screen))
Restore == Shows(RestoreCursor(screen, modes.origin))
Margins ==
    \E top, bottom \in 1..screen.rows : Shows(SetMargins(screen, modes.origin, top, bottom))

EditChars ==
    \E n \in 1..2 : \/ Shows(InsertChars(screen, n))
                    \/ Shows(DeleteChars(screen, n))
                    \/ Shows(EraseChars(screen, n))
EditLines ==
    \E n \in 1..2 : \/ InMargins(screen) /\ Shows(InsertLines(screen, n))
                    \/ InMargins(screen) /\ Shows(DeleteLines(screen, n))
                    \/ Shows(ScrollUpRegion(screen, screen.top, screen.bottom, n))
                    \/ Shows(ScrollDownRegion(screen, screen.top, screen.bottom, n))
EraseInLine ==
    \/ Shows(ClearToEndOfLine(screen))
    \/ Shows(ClearToBeginningOfLine(screen))
    \/ Shows(ClearLine(screen, screen.row))
EraseInDisplay ==
    \/ Shows(ClearToEndOfScreen(screen))
    \/ Shows(ClearToBeginningOfScreen(screen))
    \/ Shows(Clear(screen))
    \/ Shows(ClearScrollback(screen))

SetOrigin(v) ==
    /\ modes' = [modes EXCEPT !.origin = v]
    /\ screen' = SetCursor(screen, v, 1, 1)
SetAutoWrap(v) ==
    /\ modes' = [modes EXCEPT !.autoWrap = v]
    /\ screen' = IF v THEN screen ELSE [screen EXCEPT !.wrapNext = FALSE]
SetInsert(v) == modes' = [modes EXCEPT !.insert = v] /\ screen' = screen
SetMode ==
    /\ \E v \in BOOLEAN : SetOrigin(v) \/ SetAutoWrap(v) \/ SetInsert(v)
    /\ UNCHANGED <<primary, tabs, printed>>

(* RIS: the alternate screen, the saved cursor and the history stay.  All of *)
(* the terminal does when its images cannot be reset first.                  *)
Reset ==
    /\ \/ /\ screen' = ResetMargins(Clear(screen))
          /\ modes' = DefaultModes
          /\ tabs' = DefaultTabs(screen.cols)
       \/ UNCHANGED <<screen, modes, tabs>>             \* ResetImages fails
    /\ UNCHANGED <<primary, printed>>

Moving ==
    \/ NextLine \/ ReverseFeed \/ BackUp \/ Move \/ Goto \/ Save \/ Restore
    \/ Tab \/ BackTab \/ TabStops \/ SetMode \/ Reset
Editing == EditChars \/ EditLines \/ EraseInLine \/ EraseInDisplay

-----------------------------------------------------------------------------
(* The alternate screen: 1049 saves and restores the cursor, 47 and 1047 do  *)
(* not.                                                                      *)

Covering(s) == [Fresh(s.cols, s.rows, 0) EXCEPT !.saved = s.saved]

EnterAlternate ==
    \E s \in {screen, SaveCursor(screen)} :
        /\ ~Alternate
        /\ primary' = s
        /\ screen' = Covering(s)
        /\ UNCHANGED <<modes, tabs, printed>>

ResizedTabs(set, old, cols) ==
    {i \in set : i < cols}
    \union {i \in 1..(cols - 1) : cols > old /\ i % TabWidth = 0 /\ i >= (old \div TabWidth + 1) * TabWidth}

LeavesSaved(s, alt) == [s EXCEPT !.saved = alt.saved]              \* a mutant
Uncovered(s, alt) == s

Fitted(s, cols, rows) ==
    IF <<cols, rows>> = <<s.cols, s.rows>> THEN s ELSE ResizePrimary(s, cols, rows)

LeaveAlternate ==
    /\ Alternate
    /\ \E s \in {Fitted(Uncovered(primary, screen), screen.cols, screen.rows)} :
          screen' \in {s, RestoreCursor(s, modes.origin)}
    /\ tabs' = ResizedTabs(tabs, primary.cols, screen.cols)
    /\ primary' = NoScreen
    /\ UNCHANGED <<modes, printed>>

-----------------------------------------------------------------------------
(* The window, the configuration and the reader of the history. *)

Resize ==
    \E cols \in Cols, rows \in Rows :
        /\ <<cols, rows>> # <<screen.cols, screen.rows>>
        /\ screen' = IF Alternate THEN ResizeAlternate(screen, cols, rows)
                                  ELSE ResizePrimary(screen, cols, rows)
        /\ tabs' = ResizedTabs(tabs, screen.cols, cols)
        /\ UNCHANGED <<primary, modes, printed>>

SetScrollbackCapacity ==
    \E capacity \in Capacities :
        /\ IF Alternate THEN primary' = SetCapacity(primary, capacity) /\ screen' = screen
                        ELSE screen' = SetCapacity(screen, capacity) /\ primary' = primary
        /\ UNCHANGED <<modes, tabs, printed>>

Scroll == \E lines \in {-1, 1} : Shows(ScrollViewport(screen, lines))

Switch == EnterAlternate \/ LeaveAlternate
Window == Resize \/ SetScrollbackCapacity \/ Scroll

Next == Output \/ Moving \/ Margins \/ Editing \/ Switch \/ Window

Spec == Init /\ [][Next]_vars

-----------------------------------------------------------------------------
(* Properties. *)

Main == IF Alternate THEN primary ELSE screen

WellFormed(s) ==
    /\ s.rows > 0 /\ DOMAIN s.cells = 1..s.rows /\ DOMAIN s.wrapped = 1..s.rows
    /\ \A r \in 1..s.rows : DOMAIN s.cells[r] = 1..s.cols
    /\ \A i \in DOMAIN s.history : DOMAIN s.history[i].cells = 1..s.cols
    /\ s.row \in 1..s.rows /\ s.col \in 1..s.cols
    /\ s.top = s.bottom => s.rows = 1
    /\ 1 <= s.top /\ s.top <= s.bottom /\ s.bottom <= s.rows
    /\ Len(s.history) <= s.capacity /\ s.offset \in 0..Len(s.history)

(* Whatever the order of resizes, margins, screens and limits, both screens  *)
(* keep the shape that the indexing of the code relies on without checks:    *)
(* cursor and margins inside, view inside the history, history inside its    *)
(* limit, none of it under the alternate screen.                             *)
TypeOK ==
    /\ WellFormed(screen)
    /\ Alternate => WellFormed(primary) /\ screen.history = <<>>
    /\ tabs \subseteq 0..(screen.cols - 1)
    /\ modes \in [origin : BOOLEAN, insert : BOOLEAN, autoWrap : BOOLEAN]

GlyphsOf(cells) == SelectSeq(cells, LAMBDA cell : cell > 0)
TextOf(lines) == FlattenSeq([i \in DOMAIN lines |-> GlyphsOf(lines[i].cells)])
Text(s) == TextOf(PhysicalRows(s))
LiveText(s) == TextOf([r \in 1..s.rows |-> LineAt(s, r)])

(* A resize, of the primary screen or under the alternate one, and a visit   *)
(* to the alternate screen lose, repeat and reorder nothing of the primary   *)
(* text: what is missing afterwards was pushed out of a full history.  And   *)
(* no text of the history comes back into the screen, where a repaint would  *)
(* destroy it.                                                               *)
Reshaped == <<screen.cols, screen.rows, Alternate>>
MainTextKept ==
    [][Reshaped' # Reshaped =>
          /\ IsSuffix(Text(Main'), Text(Main))
          /\ Text(Main') # Text(Main) => Len(Main'.history) = Main.capacity
          /\ IsSuffix(LiveText(Main'), LiveText(Main))]_vars

(* A program that saved the cursor on its way to the alternate screen finds  *)
(* it where it was, pending wrap included, when it leaves at the same size,  *)
(* whatever it saved in between.                                             *)
Place(s) == [row |-> s.row, col |-> s.col, wrapNext |-> s.wrapNext]
CursorReturns ==
    [][/\ Alternate /\ ~Alternate' /\ ~modes.origin
       /\ <<primary.cols, primary.rows>> = <<screen.cols, screen.rows>>
       /\ primary.saved = Place(primary)
       => Place(screen') = Place(primary)]_vars

(* The primary screen comes back as it was: both of the above.               *)
MainScreenKept == MainTextKept /\ CursorReturns

(* Output does not move the rows that somebody who has scrolled back reads:  *)
(* as long as the history still has room for the top one after `pushed` more *)
(* rows it stays the top one, and otherwise the oldest row there is becomes  *)
(* it.  (Without a new row in the history nothing moves it either, except    *)
(* the reader; that is not at stake here.)                                   *)
TopOfView(s) == PhysicalRows(s)[Len(s.history) - s.offset + 1]
Pushed(before, after, n) ==
    LET old == Largest({Len(after.history) - n})
    IN  /\ Len(after.history) = Least(Len(before.history) + n, before.capacity)
        /\ SubSeq(after.history, 1, old)
               = SubSeq(before.history, Len(before.history) - old + 1, Len(before.history))
ViewPinned ==
    [][/\ Reshaped' = Reshaped /\ screen'.capacity = screen.capacity
       /\ screen'.history # screen.history /\ screen'.history # <<>>
       /\ screen.offset > 0
       => \E n \in 1..screen.rows :
             /\ Pushed(screen, screen', n)
             /\ IF screen.offset + n <= screen.capacity
                THEN TopOfView(screen') = TopOfView(screen)
                ELSE screen'.offset = screen.capacity]_vars
=============================================================================
