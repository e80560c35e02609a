------------------------------ MODULE GridFocus ------------------------------
(***************************************************************************)
(* Keyboard focus in the two grids of the Roster page: the calendar        *)
(* (CalendarGrid.tsx), drawn whole, whose cells open a dialog, and the     *)
(* availability grid (AvailabilityGrid.tsx), which draws only the rows     *)
(* near its scroll position. Each has a selection of its own (the cell     *)
(* with tabIndex 0 and aria-selected) beside the browser's focus; a move   *)
(* to a row that is not drawn scrolls there and leaves the browser's focus *)
(* to be moved by a later render.                                          *)
(***************************************************************************)
EXTENDS RovingTabindex, FiniteSets

CONSTANTS
  Size,       \* the grids' sizes, records of rows and cols: a month, a company's workers
  MaxRow,     \* bounds on them
  MaxCol,
  Height,     \* rows in view at once
  Overscan,   \* rows drawn beyond the view
  None

ASSUME GridAssumption ==
  /\ MaxRow \in Nat /\ MaxCol \in Nat
  /\ Size \subseteq [rows : 1 .. MaxRow, cols : 1 .. MaxCol]
  /\ Height \in Nat \ {0} /\ Overscan \in Nat
  /\ None \notin [row : Nat, col : Nat]

VARIABLES
  kind,       \* the grid: "calendar" or "availability"
  size,       \* its size
  focused,    \* the hook's position
  dom,        \* document.activeElement, if it is a cell, else None
  offset,     \* the scroll position
  drawn,      \* the scroll position the rows are rendered for
  pending,    \* pendingFocusRef
  dialog,     \* the cell whose dialog is open, and gets the focus back, or None
  moved,      \* history: the last key that moved, from and to where
  overtaken   \* history: what has met a pending move, or the grid, since the last key

vars == <<kind, size, focused, dom, offset, drawn, pending, dialog, moved, overtaken>>

\* What can come between a key and the render that completes its move.
Overtaking == {"tab", "scroll", "click", "resize"}

AnyCell == Cells([rows |-> MaxRow, cols |-> MaxCol])

TypeOK ==
  /\ kind \in {"calendar", "availability"}
  /\ size \in [rows : 1 .. MaxRow, cols : 1 .. MaxCol]
  /\ focused \in AnyCell
  /\ dom \in Cells(size) \cup {None}
  /\ offset \in 0 .. MaxRow - 1 /\ drawn \in 0 .. MaxRow - 1
  /\ pending \in AnyCell \cup {None}
  /\ dialog \in Cells(size) \cup {None}
  /\ kind = "calendar" => pending = None /\ drawn = 0
  /\ kind = "availability" => dialog = None
  /\ moved = None \/ moved.key \in NavKey
  /\ overtaken \subseteq Overtaking

Init ==
  /\ kind \in {"calendar", "availability"}
  /\ size \in Size
  /\ focused = Pos(0, 0)
  /\ dom = None
  /\ offset = 0 /\ drawn = 0
  /\ pending = None
  /\ dialog = None
  /\ moved = None
  /\ overtaken = {}

\* The rows whose cells exist when a grid of n is rendered at scroll position o.
Mounted(o, n) ==
  {r \in 0 .. n.rows - 1 : kind = "availability" => r + Overscan >= o /\ r < o + Height + Overscan}

LastOffset(n) == IF n.rows > Height THEN n.rows - Height ELSE 0
Clamped(o, n) == IF o > LastOffset(n) THEN LastOffset(n) ELSE o

\* scrollToIndex with align 'auto': just far enough from where the rows are drawn.
ScrollTo(r) ==
  CASE kind = "calendar" -> offset
    [] kind = "availability" /\ r < drawn -> r
    [] kind = "availability" /\ r >= drawn + Height -> r - Height + 1
    [] OTHER -> drawn

\* A render at o of a grid of n in which `at' has the browser's focus, if it still
\* exists; the effect after it moves the focus to a pending cell that has come to exist.
Rendered(o, n, at) ==
  LET there(p) == p # None /\ p \in Cells(n) /\ p.row \in Mounted(o, n)
  IN /\ drawn' = o
     /\ dom' = CASE there(pending) -> pending
                 [] ~there(pending) /\ there(at) -> at
                 [] OTHER -> None
     /\ pending' = IF there(pending) THEN None ELSE pending

\* What has met a move that waits for its row, now that w has.
Met(w) == IF pending = None THEN overtaken ELSE overtaken \cup {w}

\* Tab comes to the one cell with tabIndex 0, if there is one, or leaves the grid.
TabIn ==
  /\ dom = None /\ dialog = None
  /\ focused \in Cells(size) /\ focused.row \in Mounted(drawn, size)
  /\ dom' = focused
  /\ overtaken' = Met("tab")
  /\ UNCHANGED <<kind, size, focused, offset, drawn, pending, dialog, moved>>

TabOut ==
  /\ dom # None
  /\ dom' = None
  /\ overtaken' = Met("tab")
  /\ UNCHANGED <<kind, size, focused, offset, drawn, pending, dialog, moved>>

\* moveFocus: the key is handled by the cell that has the browser's focus.
MutMoveFocus(p) ==
  /\ focused' = p
  /\ offset' = ScrollTo(p.row)
  /\ IF p.row \in Mounted(drawn, size)
     THEN dom' = p /\ UNCHANGED pending
     ELSE pending' = p /\ UNCHANGED dom
MutMoveUnscrolled(p) ==
  /\ focused' = p
  /\ offset' = offset
  /\ IF p.row \in Mounted(drawn, size)
     THEN dom' = p /\ pending' = None
     ELSE pending' = p /\ UNCHANGED dom
MoveFocus(p) ==
  /\ focused' = p
  /\ offset' = ScrollTo(p.row)
  /\ IF p.row \in Mounted(drawn, size)
     THEN dom' = p /\ pending' = None
     ELSE pending' = p /\ UNCHANGED dom

PressNav(key) ==
  /\ dom # None
  /\ \E p \in NeighborFor(key, dom, size) : MoveFocus(p) /\ moved' = [key |-> key, from |-> dom, to |-> p]
  /\ overtaken' = {}
  /\ UNCHANGED <<kind, size, drawn, dialog>>

\* Enter or Space on a cell of the calendar opens its dialog, which takes the focus.
PressEnter ==
  /\ kind = "calendar" /\ dom # None
  /\ dialog' = dom /\ dom' = None
  /\ UNCHANGED <<kind, size, focused, offset, drawn, pending, moved, overtaken>>

\* A click selects the cell, and opens the dialog of a cell of the calendar. It leaves
\* a pending move of the availability grid as it is.
Click(p) ==
  /\ dialog = None /\ p \in Cells(size) /\ p.row \in Mounted(drawn, size)
  /\ focused' = p
  /\ IF kind = "calendar" THEN dialog' = p /\ dom' = None ELSE dom' = p /\ UNCHANGED dialog
  /\ overtaken' = IF pending = None THEN {} ELSE {"click"}
  /\ UNCHANGED <<kind, size, offset, drawn, pending, moved>>

\* The dialog's focus trap gives the focus back to the cell it was opened from.
MutCloseDialog ==
  /\ dialog # None
  /\ dialog' = None
  /\ UNCHANGED <<kind, size, focused, dom, offset, drawn, pending, moved, overtaken>>
CloseDialog ==
  /\ dialog # None
  /\ dialog' = None /\ dom' = dialog
  /\ UNCHANGED <<kind, size, focused, offset, drawn, pending, moved, overtaken>>

Scroll(o) ==
  /\ kind = "availability" /\ o \in 0 .. LastOffset(size) /\ o # offset
  /\ offset' = o
  /\ overtaken' = Met("scroll")
  /\ UNCHANGED <<kind, size, focused, dom, drawn, pending, dialog, moved>>

\* The virtualizer has observed the scroll position.
Observe ==
  /\ offset # drawn
  /\ Rendered(offset, size, dom)
  /\ overtaken' = IF dom' = focused /\ pending' = None THEN {} ELSE overtaken
  /\ UNCHANGED <<kind, size, focused, offset, dialog, moved>>

\* Another month or company: none of the old cells exists in the new grid.
Rescope(n) ==
  /\ dialog = None /\ n # size
  /\ size' = n
  /\ Rendered(Clamped(drawn, n), n, None)
  /\ offset' = Clamped(offset, n)
  /\ moved' = None
  /\ overtaken' = overtaken \cup {"resize"}
  /\ UNCHANGED <<kind, focused, dialog>>

\* A worker is no longer on the list: the rows below move up with their cells, the
\* hook's position does not.
WorkerGone(i) ==
  LET n == [size EXCEPT !.rows = @ - 1]
      at == CASE dom # None /\ dom.row < i -> dom
              [] dom # None /\ dom.row > i -> Pos(dom.row - 1, dom.col)
              [] OTHER -> None
  IN /\ kind = "availability" /\ size.rows > 1
     /\ size' = n
     /\ Rendered(Clamped(drawn, n), n, at)
     /\ offset' = Clamped(offset, n)
     /\ moved' = None
     /\ overtaken' = overtaken \cup {"resize"}
     /\ UNCHANGED <<kind, focused, dialog>>

Next ==
  \/ TabIn \/ TabOut \/ PressEnter \/ CloseDialog \/ Observe
  \/ \E key \in NavKey : PressNav(key)
  \/ \E p \in AnyCell : Click(p)
  \/ \E o \in 0 .. MaxRow - 1 : Scroll(o)
  \/ \E n \in Size : Rescope(n)
  \/ \E i \in 0 .. size.rows - 1 : WorkerGone(i)

\* The browser reports every scroll.
Spec == Init /\ [][Next]_vars /\ WF_vars(Observe)

-----------------------------------------------------------------------------
(* Properties *)

\* The cell shown as selected is the one the next key acts on, unless its row is still
\* to be drawn. Tabs and scrolls do not change that. A click on another cell while a move
\* waits for its row does (the move takes the focus back from it), and so does another
\* list of rows, until a later key, click or render gives the selection the focus again.
SelectedHasFocus ==
  dom # None => dom = focused \/ pending # None \/ overtaken \cap {"click", "resize"} # {}

\* The selection is a cell of the grid, the grid's only tab stop, unless the list of rows
\* or the month has changed since the planner's last key or click.
SelectionInGrid == focused \in Cells(size) \/ "resize" \in overtaken

\* Left and Right go through the grid in reading order, over the row ends, and undo each
\* other; Up and Down keep the column, Home and End the row.
ReadingOrder ==
  moved # None =>
    LET from == Place(moved.from, size) to == Place(moved.to, size)
    IN CASE moved.key = "ArrowRight" -> to = from + 1
         [] moved.key = "ArrowLeft" -> to + 1 = from
         [] moved.key = "ArrowDown" -> to = from + size.cols
         [] moved.key = "ArrowUp" -> to + size.cols = from
         [] moved.key = "Home" -> to = from - (from % size.cols)
         [] moved.key = "End" -> to = from - (from % size.cols) + (size.cols - 1)

\* A dialog is that of the selected cell, and closing it gives that cell the focus back.
FocusReturns == [][dialog # None /\ dialog' = None => dialog = focused /\ dom' = focused]_vars

\* The browser's focus follows a move to a row that was not drawn, unless the planner or
\* another list of rows overtakes the move.
FocusLands == pending # None ~> pending = None \/ overtaken # {}
\* Keys go where a reader expects, and that from the cell that is selected, which is one
\* of the grid: the last two with the exceptions above, what a click or another list of
\* rows does to a move that waits for its row.  Code: rovingTabindex.ts and the two grids'
\* focus effects.
KeysActOnSelection == SelectedHasFocus /\ SelectionInGrid /\ ReadingOrder

\* The focus comes back from a dialog and follows a scroll.  Code: useFocusTrap.ts and
\* the pending focus of AvailabilityGrid.tsx.
FocusFollows == FocusReturns /\ FocusLands
=============================================================================
