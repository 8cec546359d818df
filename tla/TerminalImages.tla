---------------------------- MODULE TerminalImages ----------------------------
(***************************************************************************)
(* internal/core: the images placed on a terminal's screens, while text    *)
(* scrolls, is edited and erased under them, history fills, and a decode   *)
(* that captured an anchor is still under way.  Everything runs on the     *)
(* owner's thread, one screen operation at a time; a chunk of output is    *)
(* many operations, and only its end renews the pane's render snapshot.    *)
(*                                                                         *)
(* Two things move separately in the code: the cells (copy in screen.go    *)
(* and terminal.go) and the placements (a transform of their rectangles in *)
(* images_lifecycle.go).  "on" is history: where the text went on which    *)
(* each cell of a placement was put.  A row is global: history rows first, *)
(* then the live ones; the alternate screen has no history.                *)
(*                                                                         *)
(* Generations are only compared with an earlier value: a job says whether *)
(* each has moved since its capture; one whose anchor generation moved can *)
(* only be refused and keeps nothing else.  A resource's generation is 0   *)
(* or 1, the other one at each replacement.                                *)
(***************************************************************************)
EXTENDS Integers, FiniteSets, FiniteSetsExt

CONSTANTS
    Rows, Cols,         \* the size of both screens
    Capacities,         \* capacities the history is given
    Wire, Local,        \* image IDs: named by Kitty; allocated for Sixel, iTerm
    PlacementIDs,       \* placement IDs of Kitty commands
    Spans,              \* sizes <<rows, cols>> of placements
    PlacementLimit,
    Cursors             \* cells the cursor is on when a command comes (a bound)

TerminalBounds ==
    /\ Cursors \subseteq (0 .. Rows - 1) \X (0 .. Cols - 1)
    /\ Rows \in Nat \ {0} /\ Cols \in Nat \ {0, 1} /\ PlacementLimit \in Nat
    /\ Wire \cap Local = {}
    /\ Capacities \subseteq Nat /\ Spans \subseteq (Nat \ {0}) \X (Nat \ {0})

VARIABLES
    alternateScreen, scrollbackRows, scrollbackCapacity,    \* of the primary screen
    sidecars,           \* the placements of both screens
    resources,          \* the store: generation of each image, -1 for none
    reserved,           \* placement reservations held in the store
    job,                \* the pane's decode under way
    inChunk, snapshotStale  \* a chunk is being parsed; images changed in it

vars == <<alternateScreen, scrollbackRows, scrollbackCapacity, sidecars,
          resources, reserved, job, inChunk, snapshotStale>>
screenVars == <<alternateScreen, scrollbackRows, scrollbackCapacity>>

ImageIDs == Wire \cup Local
NoJob == [kind |-> "none"]
MovedJob == [kind |-> "moved"]      \* its anchor's generation is not the terminal's
Gone == <<-1, -1>>
LiveRows == 0 .. Rows - 1
LiveCols == 0 .. Cols - 1

Init ==
    /\ alternateScreen = FALSE /\ scrollbackRows = 0
    /\ scrollbackCapacity \in Capacities
    /\ sidecars = {} /\ reserved = 0
    /\ resources = [i \in ImageIDs |-> -1]
    /\ job = NoJob
    /\ inChunk = FALSE /\ snapshotStale = FALSE

(* Rows of history above the active screen.                                 *)
Base == IF alternateScreen THEN 0 ELSE scrollbackRows
Side(alternate) == {p \in sidecars : p.alternate = alternate}
Active == Side(alternateScreen)

-----------------------------------------------------------------------------
(* Rectangles: rows top .. bottom - 1, columns left .. right - 1.           *)
Rect(top, bottom, left, right) ==
    [top |-> top, bottom |-> bottom, left |-> left, right |-> right]
PlacementRect(p) == Rect(p.row, p.row + p.rows, p.col, p.col + p.cols)
Intersect(a1, a2) == /\ a1.top < a2.bottom /\ a2.top < a1.bottom
                     /\ a1.left < a2.right /\ a2.left < a1.right
Contains(outer, inner) ==
    /\ inner.top >= outer.top /\ inner.bottom <= outer.bottom
    /\ inner.left >= outer.left /\ inner.right <= outer.right

-----------------------------------------------------------------------------
(* Publishing new sidecars, and what goes with them.                        *)
Ref(p) == <<p.image, p.generation>>
Refs(placements) == {Ref(p) : p \in placements}
Identity(p) == <<p.alternate, p.id>>

Durable(i) == i \in Wire
(* Ephemeral resources of which no placement is left.                       *)
(* Mutant: an ephemeral resource stays when its last placement retires.     *)
KeepsEphemeral(retired, remaining) == {}

FinalEphemeral(retired, remaining) ==
    {r \in Refs(retired) \ Refs(remaining) : resources[r[1]] = r[2] /\ ~Durable(r[1])}
Without(refs) ==
    [i \in ImageIDs |-> IF <<i, resources[i]>> \in refs THEN -1 ELSE resources[i]]

Anchored(j) == j \notin {NoJob, MovedJob}
ImagesMoved(j) == IF Anchored(j) THEN [j EXCEPT !.imageMoved = TRUE] ELSE j
SnapshotMoved(j) == IF Anchored(j) THEN [j EXCEPT !.snapshotMoved = TRUE] ELSE j
(* invalidateImageCursorAnchors                                             *)
AnchorsMoved(j) == IF j = NoJob THEN j ELSE MovedJob

(* mutateImagePlacements: each placement of one screen moves to Moved(p) or *)
(* is retired; the text under it, and under the anchor of the job, moves by *)
(* Carry.  Every caller invalidates the anchors captured before.            *)
Stay(p) == p
Carried(p, Carry(_)) ==
    [p EXCEPT !.on = [o \in DOMAIN p.on |-> IF p.on[o] = Gone THEN Gone ELSE Carry(p.on[o])]]
Placed(p, alternate, Moved(_), Carry(_)) ==
    IF p.alternate = alternate THEN Carried(Moved(p), Carry) ELSE p
JobCarried(alternate, Carry(_)) ==
    IF Anchored(job) /\ job.alternate = alternate /\ job.on # Gone
    THEN [job EXCEPT !.on = Carry(job.on)] ELSE job

Follow(alternate, Carry(_)) ==
    /\ sidecars' = {Placed(p, alternate, Stay, Carry) : p \in sidecars}
    /\ job' = JobCarried(alternate, Carry)
    /\ UNCHANGED <<resources, reserved>>

(* "captures": the operation ends with a capture of the pane.               *)
Mutate(alternate, Keep(_), Moved(_), Carry(_), captures) ==
    LET retired == {p \in Side(alternate) : ~Keep(p)}
        next == {Placed(p, alternate, Moved, Carry) : p \in sidecars \ retired}
        changed == retired # {} \/ \E p \in Side(alternate) : Moved(p) # p
        carried == JobCarried(alternate, Carry)
    IN /\ sidecars' = next
       /\ resources' = Without(FinalEphemeral(retired, next))
       /\ reserved' = reserved - Cardinality(retired)
       /\ job' = AnchorsMoved(IF changed THEN ImagesMoved(carried) ELSE carried)
       /\ snapshotStale' = (~captures /\ (snapshotStale \/ changed))

Shifted(p, rows, cols) == [p EXCEPT !.row = @ + rows, !.col = @ + cols]

-----------------------------------------------------------------------------
(* The text.  Each gives the new place of the cell at <<row, col>>, by the  *)
(* copies of the screen code; a cell that is overwritten is Gone.           *)
CellDropped(cell, count) ==
    IF cell[1] < count THEN Gone ELSE <<cell[1] - count, cell[2]>>

(* appendScrollbackLine for each line that leaves, then the live rows move  *)
(* up: history rows, then the appended lines, then the live rows.           *)
CellAppended(cell, lines, kept, dropped) ==
    LET live == cell[1] - scrollbackRows
    IN IF live < 0 THEN CellDropped(cell, dropped)
       ELSE IF live < lines THEN CellDropped(<<scrollbackRows + live, cell[2]>>, dropped)
       ELSE <<kept + live - lines, cell[2]>>

CellScrolledUp(cell, top, bottom, lines) ==
    LET live == cell[1] - Base
    IN IF live \notin top .. bottom THEN cell
       ELSE IF live < top + lines THEN Gone
       ELSE <<cell[1] - lines, cell[2]>>
CellScrolledDown(cell, top, bottom, lines) ==
    LET live == cell[1] - Base
    IN IF live \notin top .. bottom THEN cell
       ELSE IF live > bottom - lines THEN Gone
       ELSE <<cell[1] + lines, cell[2]>>
CellInserted(cell, row, col, n) ==
    IF cell[1] # row \/ cell[2] < col THEN cell
    ELSE IF cell[2] >= Cols - n THEN Gone
    ELSE <<row, cell[2] + n>>
CellDeleted(cell, row, col, n) ==
    IF cell[1] # row \/ cell[2] < col THEN cell
    ELSE IF cell[2] < col + n THEN Gone
    ELSE <<row, cell[2] - n>>
CellErased(cell, rect) ==
    IF Contains(rect, Rect(cell[1], cell[1] + 1, cell[2], cell[2] + 1)) THEN Gone ELSE cell

-----------------------------------------------------------------------------
(* Operations of the screen, while a chunk is parsed.                       *)
Parsing == inChunk' = TRUE

(* moveImagesInLiveRows                                                     *)
(* Mutant: an image that only begins among the rows that move goes along.   *)
KeptIfItBegins(p, top, bottom, sourceTop, sourceBottom) ==
    LET r == PlacementRect(p)
    IN \/ r.bottom <= Base + top \/ r.top >= Base + bottom + 1
       \/ r.top >= Base + sourceTop /\ r.top <= Base + sourceBottom

KeptInRows(p, top, bottom, sourceTop, sourceBottom) ==
    LET r == PlacementRect(p)
    IN \/ r.bottom <= Base + top \/ r.top >= Base + bottom + 1
       \/ r.top >= Base + sourceTop /\ r.bottom <= Base + sourceBottom + 1
MovedInRows(p, top, bottom, delta) ==
    LET r == PlacementRect(p)
    IN IF r.bottom <= Base + top \/ r.top >= Base + bottom + 1
       THEN p ELSE Shifted(p, delta, 0)

(* dropPrimaryImageRows; nothing happens for a count of 0                   *)
DropRows(count, Carry(_), captures) ==
    LET Keep(p) == p.row >= count
        Moved(p) == Shifted(p, -count, 0)
    IN IF count > 0
       THEN Mutate(FALSE, Keep, Moved, Carry, captures)
       ELSE Follow(FALSE, Carry) /\ UNCHANGED snapshotStale

(* The whole primary screen: its first lines are appended to the history,   *)
(* whose oldest rows go when it is full.                                    *)
ScrollUpPrimary(lines) ==
    LET kept == Min({scrollbackCapacity, scrollbackRows + lines})
        dropped == scrollbackRows + lines - kept
        Carry(cell) == CellAppended(cell, lines, kept, dropped)
    IN /\ ~alternateScreen /\ Parsing
       /\ scrollbackRows' = kept
       /\ DropRows(dropped, Carry, FALSE)
       /\ UNCHANGED <<alternateScreen, scrollbackCapacity>>

(* A part of the screen, or the whole alternate screen.                     *)
ScrollUpRegion(top, bottom, lines) ==
    LET Keep(p) == KeptInRows(p, top, bottom, top + lines, bottom)
        Moved(p) == MovedInRows(p, top, bottom, -lines)
        Carry(cell) == CellScrolledUp(cell, top, bottom, lines)
    IN /\ alternateScreen \/ <<top, bottom>> # <<0, Rows - 1>>
       /\ Parsing
       /\ Mutate(alternateScreen, Keep, Moved, Carry, FALSE)
       /\ UNCHANGED screenVars

ScrollDownRegion(top, bottom, lines) ==
    LET Keep(p) == KeptInRows(p, top, bottom, top, bottom - lines)
        Moved(p) == MovedInRows(p, top, bottom, lines)
        Carry(cell) == CellScrolledDown(cell, top, bottom, lines)
    IN /\ Parsing
       /\ Mutate(alternateScreen, Keep, Moved, Carry, FALSE)
       /\ UNCHANGED screenVars

(* eraseImageLiveRect: printing, erasing and clearing.                      *)
Erase(top, bottom, left, right) ==
    LET rect == Rect(Base + top, Base + bottom, left, right)
        Keep(p) == ~Intersect(PlacementRect(p), rect)
        Carry(cell) == CellErased(cell, rect)
    IN /\ Parsing
       /\ Mutate(alternateScreen, Keep, Stay, Carry, FALSE)
       /\ UNCHANGED screenVars

(* editImageChars: insertion and deletion of characters in a row.           *)
EditChars(insert, row, col, n) ==
    LET affected == Rect(Base + row, Base + row + 1, col, Cols)
        movable == IF insert THEN [affected EXCEPT !.right = Cols - n]
                             ELSE [affected EXCEPT !.left = col + n]
        Untouched(p) == ~Intersect(PlacementRect(p), affected)
        Keep(p) == Untouched(p) \/ Contains(movable, PlacementRect(p))
        Moved(p) == IF Untouched(p) THEN p ELSE Shifted(p, 0, IF insert THEN n ELSE -n)
        Carry(cell) == IF insert THEN CellInserted(cell, Base + row, col, n)
                                 ELSE CellDeleted(cell, Base + row, col, n)
    IN /\ Parsing
       /\ Mutate(alternateScreen, Keep, Moved, Carry, FALSE)
       /\ UNCHANGED screenVars

ClearScrollback ==
    /\ ~alternateScreen /\ Parsing
    /\ scrollbackRows > 0
    /\ LET Carry(cell) == CellDropped(cell, scrollbackRows)
       IN DropRows(scrollbackRows, Carry, FALSE)
    /\ scrollbackRows' = 0
    /\ UNCHANGED <<alternateScreen, scrollbackCapacity>>

(* Mutant: a decode under way keeps its anchor across the switch.           *)
EntersQuietly ==
    /\ ~alternateScreen /\ Parsing
    /\ alternateScreen' = TRUE
    /\ UNCHANGED <<scrollbackRows, scrollbackCapacity, sidecars, resources, reserved, job, snapshotStale>>

EnterAlternate ==
    /\ ~alternateScreen /\ Parsing
    /\ alternateScreen' = TRUE
    /\ job' = AnchorsMoved(job)
    /\ UNCHANGED <<scrollbackRows, scrollbackCapacity, sidecars, resources, reserved, snapshotStale>>

(* imagesDiscardAlternate, then the saved primary screen is restored.       *)
ExitAlternate ==
    LET Keep(p) == FALSE
        Carry(cell) == Gone
    IN /\ alternateScreen /\ Parsing
       /\ alternateScreen' = FALSE
       /\ Mutate(TRUE, Keep, Stay, Carry, FALSE)
       /\ UNCHANGED <<scrollbackRows, scrollbackCapacity>>

(* Reset: every image goes, then the active screen is cleared.              *)
Reset ==
    /\ Parsing
    /\ sidecars' = {} /\ reserved' = 0
    /\ resources' = [i \in ImageIDs |-> -1]
    /\ job' = AnchorsMoved(job)
    /\ snapshotStale' = TRUE
    /\ UNCHANGED screenVars

(* A live change of the configuration, between chunks; the pane captures.   *)
SetScrollbackCapacity(capacity) ==
    LET kept == Min({scrollbackRows, capacity})
        Carry(cell) == CellDropped(cell, scrollbackRows - kept)
    IN /\ ~inChunk /\ capacity # scrollbackCapacity
       /\ scrollbackCapacity' = capacity /\ scrollbackRows' = kept
       /\ DropRows(scrollbackRows - kept, Carry, TRUE)
       /\ UNCHANGED <<alternateScreen, inChunk>>

-----------------------------------------------------------------------------
(* Commands that place and delete images.                                   *)
NewPlacement(id, image, generation, row, col, span) ==
    [alternate |-> alternateScreen, id |-> id, image |-> image, generation |-> generation,
     row |-> row, col |-> col, rows |-> span[1], cols |-> span[2],
     on |-> [o \in {o \in (0 .. span[1] - 1) \X (0 .. span[2] - 1) :
                      row + o[1] < Base + Rows /\ col + o[2] < Cols}
               |-> <<row + o[1], col + o[2]>>]]

(* The anchor must lie on the active screen or in its history.              *)
ValidAnchor(row, col) == row \in 0 .. Base + Rows - 1 /\ col \in LiveCols
FreeId(id, placements) == \A p \in placements : p.id # id

(* placeExistingImage at the cursor; the pane captures.                     *)
PlaceExisting(image, id, row, col, span) ==
    /\ Parsing
    /\ resources[image] # -1
    /\ FreeId(id, sidecars) /\ reserved < PlacementLimit
    /\ sidecars' = sidecars \cup
         {NewPlacement(id, image, resources[image], Base + row, col, span)}
    /\ reserved' = reserved + 1
    /\ job' = SnapshotMoved(ImagesMoved(job)) /\ snapshotStale' = FALSE
    /\ UNCHANGED <<screenVars, resources>>

(* deleteImages, with the selectors Kitty can form: the current screen,     *)
(* Kitty's images only.  With their resources, every placement of those     *)
(* goes, also on the other screen.  The pane captures.                      *)
Delete(Matches(_), deleteResource) ==
    LET matched == {p \in Active : p.image \in Wire /\ Matches(p)}
        refs == Refs(matched)
        retired == IF deleteResource THEN {p \in sidecars : Ref(p) \in refs} ELSE matched
        remaining == sidecars \ retired
        removed == FinalEphemeral(retired, remaining) \cup (IF deleteResource THEN refs ELSE {})
    IN /\ Parsing
       /\ sidecars' = remaining
       /\ resources' = Without(removed)
       /\ reserved' = reserved - Cardinality(retired)
       /\ job' = SnapshotMoved(ImagesMoved(job)) /\ snapshotStale' = FALSE
       /\ UNCHANGED screenVars

DeleteAll(deleteResource) == LET Matches(p) == TRUE IN Delete(Matches, deleteResource)
DeleteImage(image, deleteResource) ==
    LET Matches(p) == p.image = image IN Delete(Matches, deleteResource)
DeleteUnderCursor(row, col, deleteResource) ==
    LET cursor == Rect(Base + row, Base + row + 1, col, col + 1)
        Matches(p) == Intersect(PlacementRect(p), cursor)
    IN Delete(Matches, deleteResource)

(* A decode begins: its owner captures the cursor's anchor and generations. *)
NewJob(kind, image, id, row, col, span) ==
    [kind |-> kind, image |-> image, id |-> id, span |-> span,
     row |-> Base + row, col |-> col, alternate |-> alternateScreen, on |-> <<Base + row, col>>,
     imageMoved |-> FALSE, snapshotMoved |-> FALSE]

NoId == "none"
SubmitKitty(image, id, row, col, span) ==
    /\ job = NoJob /\ Parsing
    /\ job' = NewJob("kitty", image, id, row, col, span)
    /\ UNCHANGED <<screenVars, sidecars, resources, reserved, snapshotStale>>

(* Sixel and iTerm allocate IDs that nothing uses.                          *)
SubmitLocal(image, row, col, span) ==
    /\ job = NoJob /\ Parsing
    /\ resources[image] = -1
    /\ job' = NewJob("local", image, image, row, col, span)
    /\ UNCHANGED <<screenVars, sidecars, resources, reserved, snapshotStale>>

(* advancePaneScoped: the end of a chunk captures the snapshot.             *)
EndChunk ==
    /\ inChunk /\ inChunk' = FALSE
    /\ job' = IF snapshotStale THEN SnapshotMoved(job) ELSE job
    /\ snapshotStale' = FALSE
    /\ UNCHANGED <<screenVars, sidecars, resources, reserved>>

(* What a completion is compared with: Kitty's with the render snapshot,    *)
(* Sixel's and iTerm's with the terminal itself.                            *)
Stale(j) == j = MovedJob \/ IF j.kind = "kitty" THEN j.snapshotMoved ELSE j.imageMoved

(* Mutant: the leases of the placements that retire are all closed, also    *)
(* the one taken over.                                                      *)
ClosesTakenLease(image, id, row, col, span) ==
    LET old == {p \in sidecars : Ref(p) = <<image, resources[image]>>}
        rest == sidecars \ old
        generation == IF resources[image] = 0 THEN 1 ELSE 0
        replacing == resources[image] # -1
        new == {NewPlacement(i, image, generation, row, col, span) : i \in {id} \ {NoId}}
    IN /\ Durable(image) \/ (id # NoId /\ ~replacing)
       /\ id # NoId => /\ ValidAnchor(row, col) /\ FreeId(id, rest)
                       /\ old # {} \/ reserved < PlacementLimit
       /\ sidecars' = rest \cup new
       /\ resources' = [resources EXCEPT ![image] = generation]
       /\ reserved' = reserved - Cardinality(old)
                       + IF old = {} THEN Cardinality(new) ELSE 0

(* prepareImageCommit: a candidate replaces the resource of its image, whose*)
(* placements retire; a placement takes over the lease of one of those.     *)
Committed(image, id, row, col, span) ==
    LET old == {p \in sidecars : Ref(p) = <<image, resources[image]>>}
        rest == sidecars \ old
        generation == IF resources[image] = 0 THEN 1 ELSE 0
        replacing == resources[image] # -1
        new == {NewPlacement(i, image, generation, row, col, span) : i \in {id} \ {NoId}}
    IN /\ Durable(image) \/ (id # NoId /\ ~replacing)
       /\ id # NoId => /\ ValidAnchor(row, col) /\ FreeId(id, rest)
                       /\ old # {} \/ reserved < PlacementLimit
       /\ sidecars' = rest \cup new
       /\ resources' = [resources EXCEPT ![image] = generation]
       /\ reserved' = reserved - Cardinality(old) + Cardinality(new)

Deliver ==
    /\ job # NoJob /\ ~inChunk /\ ~Stale(job)
    /\ Committed(job.image, job.id, job.row, job.col, job.span)
    /\ job' = NoJob
    /\ UNCHANGED <<screenVars, inChunk, snapshotStale>>

(* Refused: stale, late, failed to decode, or not placed.  The candidate is *)
(* closed.                                                                  *)
Refuse ==
    /\ job # NoJob /\ ~inChunk
    /\ job' = NoJob
    /\ UNCHANGED <<screenVars, sidecars, resources, reserved, inChunk, snapshotStale>>

Screen ==
    \/ \E lines \in 1 .. Rows : ScrollUpPrimary(lines)
    \/ \E bottom \in 1 .. Rows - 1 : \E top \in 0 .. bottom : \E lines \in 1 .. bottom - top + 1 :
         \/ ScrollUpRegion(top, bottom, lines)
         \/ ScrollDownRegion(top, bottom, lines)
    \/ \E row \in LiveRows, left \in LiveCols : \E right \in left + 1 .. Cols :
         Erase(row, row + 1, left, right)
    \/ Erase(0, Rows, 0, Cols)
    \/ \E insert \in BOOLEAN, row \in LiveRows, col \in LiveCols : \E n \in 1 .. Cols - col :
         EditChars(insert, row, col, n)
    \/ ClearScrollback
    \/ EnterAlternate
    \/ ExitAlternate
    \/ Reset

Commands ==
    \E cursor \in Cursors : LET row == cursor[1]  col == cursor[2] IN
      \/ \E deleteResource \in BOOLEAN : DeleteUnderCursor(row, col, deleteResource)
      \/ \E span \in Spans :
           \/ \E image \in Wire, id \in PlacementIDs :
                PlaceExisting(image, id, row, col, span)
           \/ \E image \in Wire, id \in PlacementIDs \cup {NoId} :
                SubmitKitty(image, id, row, col, span)
           \/ \E image \in Local : SubmitLocal(image, row, col, span)

Next ==
    \/ Screen
    \/ Commands
    \/ \E deleteResource \in BOOLEAN :
         \/ DeleteAll(deleteResource)
         \/ \E image \in Wire : DeleteImage(image, deleteResource)
    \/ \E capacity \in Capacities : SetScrollbackCapacity(capacity)
    \/ EndChunk
    \/ Deliver
    \/ Refuse

Spec == Init /\ [][Next]_vars

-----------------------------------------------------------------------------
(* A placement still covers the text it was put on, on the screen it was    *)
(* put on, and no text it was put on was erased; and an anchor a decode     *)
(* captured still names the text at the cursor then, unless its generation  *)
(* says that it moved.  Cells and placements are moved by different code.   *)
AnchorsFollowText ==
    /\ \A p \in sidecars : \A o \in DOMAIN p.on :
         p.on[o] = <<p.row + o[1], p.col + o[2]>>
    /\ Anchored(job) =>
         job.on = <<job.row, job.col>> /\ job.alternate = alternateScreen

(* Every placement shows the resource its image has now; an image of Sixel  *)
(* or iTerm is kept exactly while a placement shows it; each placement      *)
(* holds one reservation of the store; and nothing is left on an alternate  *)
(* screen that was left.                                                    *)
PlacementsBacked ==
    /\ \A p \in sidecars : resources[p.image] = p.generation
    /\ \A i \in Local : resources[i] # -1 => \E p \in sidecars : p.image = i
    /\ reserved = Cardinality(sidecars)
    /\ reserved <= PlacementLimit
    /\ ~alternateScreen => Side(TRUE) = {}

(* Images stay with their text and their resources: both of the above.        *)
PlacementsKept == AnchorsFollowText /\ PlacementsBacked
=============================================================================
