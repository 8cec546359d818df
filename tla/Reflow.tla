------------------------------- MODULE Reflow -------------------------------
(***************************************************************************)
(* Resizing a screen (internal/core/resize.go, reflow_map.go and the row   *)
(* functions of screen.go).  A line here is a row with its wrapped flag;   *)
(* a logical line is what a run of wrapped rows and the row after it hold. *)
(***************************************************************************)
EXTENDS Screen
LOCAL INSTANCE SequencesExt
LOCAL INSTANCE FiniteSets
LOCAL INSTANCE FiniteSetsExt

(* The rows of history and screen, oldest first.                             *)
PhysicalRows(s) == s.history \o [r \in 1..s.rows |-> LineAt(s, r)]

(* isBlankCell takes the second cell of a wide glyph for blank.              *)
TrimmedLen(row) == Largest({c \in DOMAIN row : IsGlyph(row[c])})
WrappedLen(row) == Largest({c \in DOMAIN row : row[c] # Padding})
IsBlankRow(row) == \A c \in DOMAIN row : row[c] \in {Blank, Padding}

LogicalRows(lines) ==
    LET Join(acc, line) ==
            IF line.wrapped
            THEN [acc EXCEPT !.open = @ \o SubSeq(line.cells, 1, WrappedLen(line.cells))]
            ELSE [done |-> Append(acc.done, acc.open \o SubSeq(line.cells, 1, TrimmedLen(line.cells))),
                  open |-> <<>>]
        all == FoldLeft(Join, [done |-> <<>>, open |-> <<>>], lines)
    IN  IF all.open = <<>> THEN all.done ELSE Append(all.done, all.open)

(* One logical line cut into rows of at most cols cells.                     *)
Cut(cells, cols) ==
    IF cells = <<>> THEN << [cells |-> <<>>, wrapped |-> FALSE] >>
    ELSE LET n == (Len(cells) + cols - 1) \div cols
         IN  [k \in 1..n |-> [cells |-> SubSeq(cells, (k - 1) * cols + 1, Least(k * cols, Len(cells))),
                              wrapped |-> k < n]]

Reflowed(lines, cols) ==
    LET logical == LogicalRows(lines)
    IN  FlattenSeq([i \in DOMAIN logical |-> Cut(logical[i], cols)])

(* Where the physical row "target" begins: its logical line, and how many    *)
(* cells of that line come before it.                                        *)
Anchor(lines, target) ==
    LET ends == {i \in 1..(target - 1) : ~lines[i].wrapped}
    IN  [line |-> Cardinality(ends),
         char |-> MapThenSumSet(LAMBDA i : WrappedLen(lines[i].cells),
                                (Largest(ends) + 1)..(target - 1))]

(* The row that shows a cell of a logical line; the last one beyond the end. *)
RowOf(lines, line, char) ==
    LET Shows(i) ==
            LET a == Anchor(lines, i)
                n == IF lines[i].wrapped THEN WrappedLen(lines[i].cells) ELSE TrimmedLen(lines[i].cells)
            IN  \/ a.line = line /\ (char < a.char + n \/ ~lines[i].wrapped)
                \/ a.line > line
        found == {i \in DOMAIN lines : Shows(i)}
    IN  IF lines = <<>> THEN 1 ELSE IF found = {} THEN Len(lines) ELSE Min(found)

(* The cell of "to" at the place in the text where "from" has (row, col).    *)
Nowhere == [ok |-> FALSE, row |-> 1, col |-> 1]
MapCell(from, to, row, col) ==
    IF to = <<>> \/ row \notin DOMAIN from THEN Nowhere
    ELSE LET a == Anchor(from, row)
             char == a.char + col - 1
             r == RowOf(to, a.line, char)
             b == Anchor(to, r)
         IN  IF b.line # a.line \/ char < b.char THEN Nowhere
             ELSE [ok |-> TRUE, row |-> r, col |-> char - b.char + 1]

(* A row that straddles the end of the history is split at the cell: its     *)
(* head, padded, stays history and its tail begins the screen.               *)
PaddedHead(cells, n, cols) == [c \in 1..cols |-> IF c <= n THEN cells[c] ELSE Padding]

Boundary(s, combined, reflowed) ==
    LET b == MapCell(combined, reflowed, Len(s.history) + 1, 1)
    IN  IF b.ok THEN b ELSE Nowhere

Split(s, reflowed, b, cols) ==
    LET rest == SubSeq(reflowed, b.row, Len(reflowed))
        above == SubSeq(reflowed, 1, b.row - 1)
    IN  IF b.row > Len(reflowed) \/ b.col = 1 THEN [history |-> above, live |-> rest]
        ELSE LET cells == rest[1].cells
                 n == Least(b.col - 1, Len(cells))
                 tail == [rest[1] EXCEPT !.cells = SubSeq(cells, n + 1, Len(cells))]
             IN  [history |-> Append(above, [cells |-> PaddedHead(cells, n, cols), wrapped |-> TRUE]),
                  live |-> Reflowed([rest EXCEPT ![1] = tail], cols)]

(* Blank rows below the cursor are dropped, then the rows that do not fit    *)
(* move to the history, top first.                                           *)
DropsBelow(live, cursorRow) == 0                                   \* a mutant
LastKept(live, cursorRow) ==
    Largest({i \in DOMAIN live : live[i].wrapped \/ ~IsBlankRow(live[i].cells)}
            \union {Least(cursorRow, Len(live))})

Placed(s, cols, rows, history, live) ==
    LET first == Largest({Len(history) - s.capacity})
        kept == SubSeq(history, first + 1, Len(history))
    IN  [s EXCEPT
            !.cols = cols, !.rows = rows,
            !.history = [i \in DOMAIN kept |-> [kept[i] EXCEPT !.cells = Extended(@, cols)]],
            !.cells = [r \in 1..rows |-> IF r <= Len(live) THEN Extended(live[r].cells, cols)
                                                           ELSE BlankRow(cols)],
            !.wrapped = [r \in 1..rows |-> r <= Len(live) /\ live[r].wrapped]]

(* The resized screen: the cursor, and the view of somebody who has scrolled *)
(* back, are found again by their place in the text, or take the given one.  *)
Refound(s, cols, rows, history, rest, cursor, view, otherwise) ==
    LET t == Placed(s, cols, rows, history, rest)
    IN  [ResetMargins(t) EXCEPT
            !.row = Within(1, rows, IF cursor.ok THEN cursor.row - Len(history) ELSE otherwise.row),
            !.col = Within(1, cols, IF cursor.ok THEN cursor.col ELSE otherwise.col),
            !.wrapNext = FALSE,
            !.offset = IF s.offset > 0 /\ view.ok
                       THEN Within(0, Len(t.history), Len(history) - view.row + 1) ELSE 0]

Repositioned(s, cols, rows, combined, history, rest, otherwise) ==
    Refound(s, cols, rows, history, rest,
            MapCell(combined, history \o rest, Len(s.history) + s.row, s.col),
            MapCell(combined, history \o rest, Len(s.history) - s.offset + 1, 1), otherwise)

Refilled(s, cols, rows, combined, history, live, otherwise) ==
    LET push == Largest({Len(live) - rows})
    IN  Repositioned(s, cols, rows, combined, history \o SubSeq(live, 1, push),
                     SubSeq(live, push + 1, Len(live)), [otherwise EXCEPT !.row = @ - push])

Kept(s, cols, rows, combined, split, char, row) ==
    Refilled(s, cols, rows, combined, split.history,
             SubSeq(split.live, 1, LastKept(split.live, row)),
             [row |-> row, col |-> Largest({char - Anchor(split.live, row).char + 1, 1})])

Anchored(s, cols, rows, combined, split, at) ==
    Kept(s, cols, rows, combined, split, at.char + s.col - 1,
         RowOf(split.live, at.line, at.char + s.col - 1))

Recut(s, cols, rows, combined, reflowed) ==
    Anchored(s, cols, rows, combined,
             Split(s, reflowed, Boundary(s, combined, reflowed), cols),
             Anchor(SubSeq(combined, Len(s.history) + 1, Len(combined)), s.row))

Resized(s, cols, rows, combined) ==
    Recut(s, cols, rows, combined, IF cols = s.cols THEN combined ELSE Reflowed(combined, cols))
ResizePrimary(s, cols, rows) == Resized(s, cols, rows, PhysicalRows(s))

(* The alternate screen is cropped or extended, without reflow or history.   *)
ResizeAlternate(s, cols, rows) ==
    [ResetMargins([s EXCEPT !.cols = cols, !.rows = rows]) EXCEPT
        !.cells = [r \in 1..rows |-> IF r <= s.rows THEN Extended(s.cells[r], cols) ELSE BlankRow(cols)],
        !.wrapped = [r \in 1..rows |-> r <= s.rows /\ cols >= s.cols /\ s.wrapped[r]],
        !.row = Least(s.row, rows), !.col = Least(s.col, cols), !.wrapNext = FALSE]

(* The history keeps its newest rows.                                        *)
SetCapacity(s, capacity) ==
    LET kept == SubSeq(s.history, Largest({Len(s.history) - capacity}) + 1, Len(s.history))
    IN  [s EXCEPT !.capacity = capacity, !.history = kept, !.offset = Least(@, Len(kept))]

=============================================================================
