------------------------------- MODULE Screen -------------------------------
(***************************************************************************)
(* The grid of a terminal (internal/core): cells, cursor, margins and      *)
(* history, as functions from a screen to a screen.  A screen is the       *)
(* record that snapshotScreen copies.  Rows and columns count from 1.      *)
(* A cell is a number: a glyph, or one of the four values below.  Glyphs   *)
(* are numbered as they are printed and the even ones are two cells wide.  *)
(* Colours, links, marks and semantic kinds are left out: no test here     *)
(* looks at them except isBlankRow's, which finds them at their defaults.  *)
(* The history is a sequence, oldest row first, in place of the ring.      *)
(***************************************************************************)
EXTENDS Integers, Sequences
LOCAL INSTANCE SequencesExt
LOCAL INSTANCE FiniteSets
LOCAL INSTANCE FiniteSetsExt

Blank == 0                        \* a space
Padding == -1                     \* Rune == 0, beyond a row split in two
Continuation == -2                \* the second cell of a wide glyph
IsGlyph(cell) == cell > 0
IsWide(cell) == IsGlyph(cell) /\ cell % 2 = 0
Width(glyph) == IF IsWide(glyph) THEN 2 ELSE 1

Least(a, b) == IF a < b THEN a ELSE b
Within(low, high, n) == IF n < low THEN low ELSE Least(high, n)
Largest(S) == Max(S \union {0})

BlankRow(cols) == [c \in 1..cols |-> Blank]
Extended(row, cols) == [c \in 1..cols |-> IF c <= Len(row) THEN row[c] ELSE Blank]

NotSaved == [row |-> 0, col |-> 0, wrapNext |-> FALSE]

Fresh(cols, rows, capacity) ==
    [cols |-> cols, rows |-> rows, capacity |-> capacity,
     cells |-> [r \in 1..rows |-> BlankRow(cols)], wrapped |-> [r \in 1..rows |-> FALSE],
     history |-> <<>>, offset |-> 0,
     row |-> 1, col |-> 1, wrapNext |-> FALSE, saved |-> NotSaved,
     top |-> 1, bottom |-> rows]

-----------------------------------------------------------------------------
(* Wide glyphs occupy a pair of cells; an edit that cuts a pair blanks both. *)

PairAt(row, c) == c \in 1..(Len(row) - 1) /\ IsWide(row[c]) /\ row[c + 1] = Continuation

WholePairs(row, from, to) ==
    (IF PairAt(row, from - 1) THEN from - 1 ELSE from)..(IF PairAt(row, to) THEN to + 1 ELSE to)

Repaired(row) ==
    [c \in DOMAIN row |-> IF \/ row[c] = Continuation /\ ~PairAt(row, c - 1)
                             \/ IsWide(row[c]) /\ ~PairAt(row, c)
                          THEN Blank ELSE row[c]]

-----------------------------------------------------------------------------
(* Scrolling. *)

(* One row leaves the top of the screen for the history; a reader who has    *)
(* scrolled back keeps the rows in view.                                     *)
FollowsOutput(s, kept) == s.offset                                 \* a mutant
JumpsToOldest(s, kept) == IF s.offset = 0 THEN 0 ELSE Len(kept)    \* another
PinnedOffset(s, kept) ==
    IF s.offset = 0 THEN 0 ELSE Least(s.offset + 1, Len(kept))

Remember(s, line) ==
    IF s.capacity = 0 THEN [s EXCEPT !.offset = 0]
    ELSE LET grown == Append(s.history, line)
             kept == SubSeq(grown, Largest({Len(grown) - s.capacity}) + 1, Len(grown))
         IN [s EXCEPT !.history = kept, !.offset = PinnedOffset(s, kept)]

LineAt(s, r) == [cells |-> s.cells[r], wrapped |-> s.wrapped[r]]

(* Rows top..bottom move up (down) by n; whole screens feed the history.     *)
ScrollUpRegion(s, top, bottom, n) ==
    LET k == Least(n, bottom - top + 1)
        leaving == IF top = 1 /\ bottom = s.rows THEN [r \in 1..k |-> LineAt(s, r)] ELSE <<>>
        Moves(r) == r \in top..bottom
    IN  [FoldLeft(Remember, s, leaving) EXCEPT
            !.cells = [r \in 1..s.rows |->
                IF ~Moves(r) THEN @[r] ELSE IF r + k <= bottom THEN @[r + k] ELSE BlankRow(s.cols)],
            !.wrapped = [r \in 1..s.rows |->
                IF ~Moves(r) THEN @[r] ELSE r + k <= bottom /\ @[r + k]]]

ScrollDownRegion(s, top, bottom, n) ==
    LET k == Least(n, bottom - top + 1)
        Moves(r) == r \in top..bottom
    IN  [s EXCEPT
            !.cells = [r \in 1..s.rows |->
                IF ~Moves(r) THEN @[r] ELSE IF r - k >= top THEN @[r - k] ELSE BlankRow(s.cols)],
            !.wrapped = [r \in 1..s.rows |->
                IF ~Moves(r) THEN @[r] ELSE r - k >= top /\ @[r - k]]]

ScrollViewport(s, lines) == [s EXCEPT !.offset = Within(0, Len(s.history), s.offset + lines)]

-----------------------------------------------------------------------------
(* The cursor.  "origin" says that rows count from the top margin.           *)

SetCursor(s, origin, row, col) ==
    LET r == IF origin THEN Within(s.top, s.bottom, row + s.top - 1) ELSE row
    IN  [s EXCEPT !.row = Within(1, s.rows, r), !.col = Within(1, s.cols, col), !.wrapNext = FALSE]

SaveCursor(s) ==
    [s EXCEPT !.saved = [row |-> s.row, col |-> s.col, wrapNext |-> s.wrapNext]]

RestoreCursor(s, origin) ==
    IF s.saved = NotSaved THEN SetCursor(s, origin, 1, 1)
    ELSE [SetCursor(s, origin, s.saved.row, s.saved.col) EXCEPT !.wrapNext = s.saved.wrapNext]

NewLine(s) ==
    LET t == [s EXCEPT !.wrapNext = FALSE]
    IN  IF s.row = s.bottom THEN ScrollUpRegion(t, s.top, s.bottom, 1)
        ELSE [t EXCEPT !.row = Least(s.row + 1, s.rows)]

ReverseIndex(s) ==
    LET t == [s EXCEPT !.wrapNext = FALSE]
    IN  IF s.row = s.top THEN ScrollDownRegion(t, s.top, s.bottom, 1)
        ELSE [t EXCEPT !.row = Largest({s.row - 1, 1})]

CarriageReturn(s) == [s EXCEPT !.col = 1, !.wrapNext = FALSE]
Backspace(s) == [s EXCEPT !.col = Largest({s.col - 1, 1}), !.wrapNext = FALSE]

KeepsMargins(s) == s                                               \* a mutant
ResetMargins(s) == [s EXCEPT !.top = 1, !.bottom = s.rows]
SetMargins(s, origin, top, bottom) ==
    LET low == Largest({top, 1})
        high == Least(bottom, s.rows)
    IN  SetCursor(IF high <= low THEN ResetMargins(s) ELSE [s EXCEPT !.top = low, !.bottom = high],
                  origin, 1, 1)

-----------------------------------------------------------------------------
(* Printing and editing. *)

EditRow(s, r, row) == [s EXCEPT !.cells[r] = row]

InsertChars(s, n) ==
    LET k == Least(n, s.cols - s.col + 1)
        row == s.cells[s.row]
    IN  [EditRow(s, s.row, Repaired([c \in 1..s.cols |->
            IF c < s.col THEN row[c] ELSE IF c < s.col + k THEN Blank ELSE row[c - k]]))
         EXCEPT !.wrapped[s.row] = FALSE, !.wrapNext = FALSE]

DeleteChars(s, n) ==
    LET k == Least(n, s.cols - s.col + 1)
        row == s.cells[s.row]
    IN  [EditRow(s, s.row, Repaired([c \in 1..s.cols |->
            IF c < s.col THEN row[c] ELSE IF c + k <= s.cols THEN row[c + k] ELSE Blank]))
         EXCEPT !.wrapped[s.row] = FALSE, !.wrapNext = FALSE]

InMargins(s) == s.row \in s.top..s.bottom
InsertLines(s, n) == [ScrollDownRegion(s, s.row, s.bottom, n) EXCEPT !.wrapNext = FALSE]
DeleteLines(s, n) == [ScrollUpRegion(s, s.row, s.bottom, n) EXCEPT !.wrapNext = FALSE]

Blanked(row, C) == [c \in DOMAIN row |-> IF c \in C THEN Blank ELSE row[c]]

EraseChars(s, n) ==
    LET C == WholePairs(s.cells[s.row], s.col, Least(s.cols, s.col + n - 1))
    IN  [EditRow(s, s.row, Repaired(Blanked(s.cells[s.row], C))) EXCEPT
            !.wrapped[s.row] = @ /\ s.cols \notin C, !.wrapNext = FALSE]

ClearLine(s, r) == [EditRow(s, r, BlankRow(s.cols)) EXCEPT !.wrapped[r] = FALSE]
ClearToEndOfLine(s) ==
    [EditRow(s, s.row, Blanked(s.cells[s.row], s.col..s.cols)) EXCEPT !.wrapped[s.row] = FALSE]
ClearToBeginningOfLine(s) ==
    [EditRow(s, s.row, Blanked(s.cells[s.row], 1..s.col)) EXCEPT
        !.wrapped[s.row] = @ /\ s.col # s.cols]
ClearRows(s, R) == FoldSet(LAMBDA r, t : ClearLine(t, r), s, R)
ClearToEndOfScreen(s) == ClearRows(ClearToEndOfLine(s), (s.row + 1)..s.rows)
ClearToBeginningOfScreen(s) == ClearToBeginningOfLine(ClearRows(s, 1..(s.row - 1)))
Clear(s) == [ClearRows(s, 1..s.rows) EXCEPT !.row = 1, !.col = 1, !.wrapNext = FALSE]
ClearScrollback(s) == [s EXCEPT !.history = <<>>, !.offset = 0]

(* The cursor goes on to the next row, which continues this one.             *)
WrapLine(s) == NewLine([s EXCEPT !.wrapped[s.row] = TRUE, !.col = 1])

WrapLate(s, modes) == IF s.wrapNext /\ modes.autoWrap THEN WrapLine(s) ELSE s
WrapWide(s, modes, w) ==
    IF w = 2 /\ s.col = s.cols /\ modes.autoWrap THEN WrapLine(s) ELSE s
MakeRoom(s, modes, w) == IF modes.insert THEN InsertChars(s, w) ELSE s

Written(row, col, glyph, w) ==
    Repaired([c \in DOMAIN row |-> CASE c = col -> glyph
                                     [] c = col + 1 /\ w = 2 -> Continuation
                                     [] OTHER -> row[c]])
PutGlyph(s, glyph, w) ==
    LET row == s.cells[s.row]
        covered == WholePairs(row, s.col, Least(s.cols, s.col + w - 1))
        full == s.col + w > s.cols
    IN  [EditRow(s, s.row, Written(Blanked(row, covered), s.col, glyph, w)) EXCEPT
            !.wrapNext = @ \/ full,
            !.col = IF full THEN s.cols ELSE s.col + w]
PutRune(s, modes, glyph) ==
    LET w == Width(glyph)
    IN  PutGlyph(MakeRoom(WrapWide(WrapLate(s, modes), modes, w), modes, w), glyph, w)

=============================================================================
