--------------------------- MODULE GridFocusProofs ---------------------------
(***************************************************************************)
(* Proofs about GridFocus, for grids of any sizes, any height of the view  *)
(* and any overscan.                                                       *)
(***************************************************************************)
EXTENDS GridFocus, TLAPS

SizeRow == [rows : 1 .. MaxRow, cols : 1 .. MaxCol]

\* The calendar is drawn whole and never scrolls; its focus is on the selection, and
\* a dialog is that of the selection and has the focus.
CalendarStill == kind = "calendar" => offset = 0 /\ (dom # None => dom = focused)
DialogHasFocus == dialog # None => dom = None /\ dialog = focused

\* A move that waits for its row is to the selection, whatever is scrolled or tabbed,
\* unless a click or another list of rows has overtaken it.
PendingIsSelection == pending # None => pending = focused \/ overtaken \cap {"click", "resize"} # {}

\* The last move was along the arrow that was pressed, in the grid that is there.
MovedAlong ==
  moved # None => /\ moved.key \in NavKey /\ moved.from \in Cells(size)
                  /\ moved.to \in NeighborFor(moved.key, moved.from, size)

IInv == /\ TypeOK /\ CalendarStill /\ DialogHasFocus /\ PendingIsSelection /\ MovedAlong
        /\ SelectedHasFocus /\ SelectionInGrid

-----------------------------------------------------------------------------
(* The key arithmetic *)

LEMMA CellParts ==
  ASSUME NEW n \in [rows : Nat, cols : Nat]
  PROVE  /\ \A p \in Cells(n) : /\ p.row \in 0 .. n.rows - 1 /\ p.col \in 0 .. n.cols - 1
                                /\ p = Pos(p.row, p.col)
         /\ \A r \in 0 .. n.rows - 1, c \in 0 .. n.cols - 1 : Pos(r, c) \in Cells(n)
         /\ \A r, c : Pos(r, c).row = r /\ Pos(r, c).col = c
         /\ \A r, c : Pos(r, c) \in Cells(n) => r \in 0 .. n.rows - 1 /\ c \in 0 .. n.cols - 1
BY DEF Cells, Pos

\* A key leads from a cell of the grid to a cell of the grid.
LEMMA NeighborIsCell ==
  ASSUME NEW n \in [rows : Nat, cols : Nat], NEW p \in Cells(n), NEW key \in NavKey
  PROVE  NeighborFor(key, p, n) \subseteq Cells(n)
<1>1. /\ p.row \in 0 .. n.rows - 1 /\ p.col \in 0 .. n.cols - 1
      /\ n.rows \in Nat /\ n.cols \in Nat
  BY CellParts
<1>2. RightOf(p, n) \subseteq Cells(n)
  BY <1>1, CellParts DEF RightOf
<1>3. LeftOf(p, n) \subseteq Cells(n)
  <2>1. p.col > 0 => Pos(p.row, p.col - 1) \in Cells(n)
    BY <1>1, CellParts
  <2>2. \A r \in {p.row - 1} \cap Nat : Pos(r, n.cols - 1) \in Cells(n)
    BY <1>1, CellParts
  <2> QED BY <2>1, <2>2 DEF LeftOf
<1>4. /\ {Pos(r, p.col) : r \in {p.row - 1} \cap Nat} \subseteq Cells(n)
      /\ {Pos(p.row + 1, p.col)} \cap Cells(n) \subseteq Cells(n)
  BY <1>1, CellParts
<1>5. Pos(p.row, 0) \in Cells(n) /\ Pos(p.row, n.cols - 1) \in Cells(n)
  BY <1>1, CellParts
<1>6. NeighborFor(key, p, n) \in
        {RightOf(p, n), LeftOf(p, n), {Pos(p.row + 1, p.col)} \cap Cells(n),
         {Pos(r, p.col) : r \in {p.row - 1} \cap Nat}, {Pos(p.row, 0)}, {Pos(p.row, n.cols - 1)}}
  BY DEF NeighborFor, NavKey
<1> QED BY <1>2, <1>3, <1>4, <1>5, <1>6

\* A column is what the reading order leaves of a row.
LEMMA PlaceModCols ==
  ASSUME NEW r \in Nat, NEW cols \in Nat \ {0}, NEW c \in 0 .. cols - 1
  PROVE  (r * cols + c) % cols = c
<1> DEFINE a == r * cols + c
           q == a \div cols
           m == a % cols
<1>1. a \in Nat
  OBVIOUS
<1>2. q \in Int /\ m \in 0 .. cols - 1 /\ a = cols * q + m
  <2> HIDE DEF a
  <2> QED BY <1>1
<1>3. cols * (q - r) = c - m
  <2> HIDE DEF q, m
  <2> QED BY <1>2
<1>4. q - r < 1 /\ q - r > -1
  <2> HIDE DEF q, m, a
  <2> QED BY <1>2, <1>3
<1>5. q = r
  <2> HIDE DEF q, m, a
  <2> QED BY <1>2, <1>4
<1> HIDE DEF q, m
<1> QED BY <1>2, <1>3, <1>5 DEF m

LEMMA SizeParts ==
  ASSUME NEW n \in SizeRow
  PROVE  n \in [rows : Nat, cols : Nat] /\ n.rows \in 1 .. MaxRow /\ n.cols \in 1 .. MaxCol
BY GridAssumption DEF SizeRow

\* Where a key leads, in the reading order of the grid.
LEMMA KeysRead ==
  ASSUME NEW n \in SizeRow, NEW p \in Cells(n), NEW key \in NavKey,
         NEW q \in NeighborFor(key, p, n)
  PROVE  CASE key = "ArrowRight" -> Place(q, n) = Place(p, n) + 1
           [] key = "ArrowLeft" -> Place(q, n) + 1 = Place(p, n)
           [] key = "ArrowDown" -> Place(q, n) = Place(p, n) + n.cols
           [] key = "ArrowUp" -> Place(q, n) + n.cols = Place(p, n)
           [] key = "Home" -> Place(q, n) = Place(p, n) - (Place(p, n) % n.cols)
           [] key = "End" -> Place(q, n) = Place(p, n) - (Place(p, n) % n.cols) + (n.cols - 1)
<1> DEFINE r == p.row
           c == p.col
           w == n.cols
<1>1. /\ n \in [rows : Nat, cols : Nat] /\ r \in Nat /\ c \in 0 .. w - 1 /\ w \in Nat \ {0}
      /\ Place(p, n) = r * w + c
  BY SizeParts, CellParts DEF Place
<1>2. \A i, j : Place(Pos(i, j), n) = i * w + j
  BY DEF Place, Pos
<1>3. CASE key = "ArrowRight"
  <2>1. \/ q = Pos(r, c + 1)
        \/ q = Pos(r + 1, 0) /\ c = w - 1
    <3>1. q \in RightOf(p, n)
      BY <1>3 DEF NeighborFor
    <3>2. CASE c + 1 < w
      BY <3>1, <3>2 DEF RightOf
    <3>3. CASE ~(c + 1 < w)
      <4>1. c \in 0 .. w - 1 /\ w \in Nat
        BY <1>1
      <4>2. q \in {Pos(r + 1, 0)} \cap Cells(n)
        BY <3>1, <3>3 DEF RightOf
      <4> QED BY <3>3, <4>1, <4>2
    <3> QED BY <3>2, <3>3
  <2>2. Place(q, n) \in {r * w + (c + 1), (r + 1) * w + 0} /\ (Place(q, n) # r * w + (c + 1) => c = w - 1)
    BY <1>2, <2>1
  <2>3. (r + 1) * w + 0 = r * w + w
    <3> HIDE DEF r, w
    <3> QED BY <1>1
  <2>4. Place(q, n) = Place(p, n) + 1
    <3> HIDE DEF r, c, w
    <3> QED BY <1>1, <2>2, <2>3
  <2> QED BY <1>3, <2>4
<1>4. CASE key = "ArrowLeft"
  <2>1. \/ c > 0 /\ q = Pos(r, c - 1)
        \/ c = 0 /\ r - 1 \in Nat /\ q = Pos(r - 1, w - 1)
    BY <1>1, <1>4 DEF NeighborFor, LeftOf
  <2>2. \/ Place(q, n) = r * w + (c - 1)
        \/ c = 0 /\ Place(q, n) = (r - 1) * w + (w - 1)
    BY <1>2, <2>1
  <2>3. (r - 1) * w + (w - 1) = r * w - 1
    <3> HIDE DEF r, w
    <3> QED BY <1>1
  <2>4. Place(q, n) + 1 = Place(p, n)
    <3> HIDE DEF r, c, w
    <3> QED BY <1>1, <2>2, <2>3
  <2> QED BY <1>4, <2>4
<1>5. CASE key = "ArrowDown"
  <2>1. q = Pos(r + 1, c)
    BY <1>5 DEF NeighborFor
  <2>2. Place(q, n) = (r + 1) * w + c
    BY <1>2, <2>1
  <2>3. Place(q, n) = Place(p, n) + w
    <3> HIDE DEF r, c, w
    <3> QED BY <1>1, <2>2
  <2> QED BY <1>5, <2>3
<1>6. CASE key = "ArrowUp"
  <2>1. q = Pos(r - 1, c)
    BY <1>6 DEF NeighborFor
  <2>2. Place(q, n) = (r - 1) * w + c
    BY <1>2, <2>1
  <2>3. Place(q, n) + w = Place(p, n)
    <3> HIDE DEF r, c, w
    <3> QED BY <1>1, <2>2
  <2> QED BY <1>6, <2>3
<1>7. Place(p, n) % w = c
  BY <1>1, PlaceModCols
<1>8. CASE key = "Home"
  <2>1. Place(q, n) = r * w + 0
    BY <1>2, <1>8 DEF NeighborFor
  <2>2. Place(q, n) = Place(p, n) - c
    <3> HIDE DEF r, c, w
    <3> QED BY <1>1, <2>1
  <2> QED BY <1>7, <1>8, <2>2
<1>9. CASE key = "End"
  <2>1. Place(q, n) = r * w + (w - 1)
    BY <1>2, <1>9 DEF NeighborFor
  <2>2. Place(q, n) = Place(p, n) - c + (w - 1)
    <3> HIDE DEF r, c, w
    <3> QED BY <1>1, <2>1
  <2> QED BY <1>7, <1>9, <2>2
<1> QED BY <1>3, <1>4, <1>5, <1>6, <1>8, <1>9 DEF NavKey

LEMMA MovesInReadingOrder ==
  ASSUME TypeOK, MovedAlong
  PROVE  ReadingOrder
BY KeysRead DEF TypeOK, MovedAlong, ReadingOrder, SizeRow

-----------------------------------------------------------------------------
(* Steps *)

LEMMA InitIInv == Init => IInv
<1> SUFFICES ASSUME Init PROVE IInv
  OBVIOUS
<1>1. size \in SizeRow
  BY GridAssumption DEF Init, SizeRow
<1>2. focused \in Cells(size) /\ focused \in AnyCell
  BY <1>1, GridAssumption DEF Init, SizeRow, Cells, AnyCell, Pos
<1>3. dom = None /\ dialog = None /\ pending = None /\ moved = None /\ offset = 0 /\ drawn = 0
  BY DEF Init
<1>4. TypeOK
  <2>1. MaxRow \in Nat /\ 1 <= MaxRow /\ 0 \in 0 .. MaxRow - 1
    BY <1>1, GridAssumption DEF SizeRow
  <2>2. kind \in {"calendar", "availability"} /\ overtaken = {}
    BY DEF Init
  <2> QED BY <1>1, <1>2, <1>3, <2>1, <2>2 DEF TypeOK, SizeRow
<1>5. CalendarStill /\ DialogHasFocus /\ PendingIsSelection
  BY <1>3 DEF CalendarStill, DialogHasFocus, PendingIsSelection
<1>6. MovedAlong
  BY <1>3 DEF MovedAlong
<1>7. SelectedHasFocus /\ SelectionInGrid
  BY <1>2, <1>3 DEF SelectedHasFocus, SelectionInGrid
<1> QED BY <1>4, <1>5, <1>6, <1>7 DEF IInv

LEMMA SmallerGrid ==
  ASSUME NEW n \in SizeRow
  PROVE  /\ Cells(n) \subseteq AnyCell /\ None \notin AnyCell
         /\ \A p \in AnyCell : p.row \in 0 .. MaxRow - 1
BY GridAssumption DEF SizeRow, Cells, AnyCell

LEMMA ClampedType ==
  ASSUME NEW n \in SizeRow, NEW o \in 0 .. MaxRow - 1
  PROVE  /\ Clamped(o, n) \in 0 .. MaxRow - 1 /\ LastOffset(n) \in 0 .. MaxRow - 1
         /\ o = 0 => Clamped(o, n) = 0
BY GridAssumption DEF SizeRow, Clamped, LastOffset

LEMMA RenderedEffect ==
  ASSUME NEW o, NEW n, NEW at, Rendered(o, n, at)
  PROVE  /\ drawn' = o
         /\ \/ /\ pending # None /\ pending \in Cells(n)
               /\ dom' = pending /\ pending' = None
            \/ /\ pending' = pending /\ dom' \in {at, None}
               /\ dom' # None => dom' \in Cells(n)
BY DEF Rendered

LEMMA ScrollToType ==
  ASSUME TypeOK, NEW r \in 0 .. MaxRow - 1
  PROVE  /\ ScrollTo(r) \in 0 .. MaxRow - 1
         /\ kind = "calendar" => ScrollTo(r) = offset
BY GridAssumption DEF TypeOK, ScrollTo

\* A key moves the selection along its arrow, and the focus with it if it can.
LEMMA NavEffect ==
  ASSUME IInv, NEW key \in NavKey, PressNav(key)
  PROVE  \E p \in Cells(size) :
           /\ focused' = p /\ moved' = [key |-> key, from |-> dom, to |-> p]
           /\ p \in NeighborFor(key, dom, size) /\ dom \in Cells(size)
           /\ offset' \in 0 .. MaxRow - 1 /\ (kind = "calendar" => offset' = offset)
           /\ \/ dom' = p /\ pending' = None
              \/ kind = "availability" /\ pending' = p /\ dom' = dom
           /\ overtaken' = {}
           /\ UNCHANGED <<kind, size, drawn, dialog>>
<1>1. TypeOK /\ size \in SizeRow /\ kind \in {"calendar", "availability"}
  BY DEF IInv, TypeOK, SizeRow
<1>2. dom \in Cells(size) /\ dom # None
  BY <1>1 DEF PressNav, TypeOK
<1>3. PICK p \in NeighborFor(key, dom, size) :
        MoveFocus(p) /\ moved' = [key |-> key, from |-> dom, to |-> p]
  BY DEF PressNav
<1>4. p \in Cells(size)
  BY <1>1, <1>2, NeighborIsCell, SizeParts
<1>5. p.row \in 0 .. MaxRow - 1 /\ p.row \in 0 .. size.rows - 1
  BY <1>1, <1>4, SmallerGrid, CellParts, SizeParts
<1>6. kind = "calendar" => p.row \in Mounted(drawn, size)
  BY <1>5 DEF Mounted
<1>7. ScrollTo(p.row) \in 0 .. MaxRow - 1 /\ (kind = "calendar" => ScrollTo(p.row) = offset)
  BY <1>1, <1>5, ScrollToType
<1> QED BY <1>1, <1>2, <1>3, <1>4, <1>6, <1>7 DEF MoveFocus, PressNav

\* The grid gets another size; its cells are drawn anew.
LEMMA ResizeEffect ==
  ASSUME IInv, NEW n \in SizeRow, NEW at,
         size' = n, Rendered(Clamped(drawn, n), n, at), offset' = Clamped(offset, n),
         moved' = None, overtaken' = overtaken \cup {"resize"}, UNCHANGED <<kind, focused, dialog>>,
         dialog = None, kind = "calendar" => at = None
  PROVE  IInv'
<1>1. /\ TypeOK /\ CalendarStill
      /\ drawn' = Clamped(drawn, n) /\ dom' \in Cells(n) \cup {None} /\ pending' \in {pending, None}
      /\ kind = "calendar" => dom' = None /\ pending' = None
  BY RenderedEffect DEF IInv, TypeOK
<1>2. /\ drawn \in 0 .. MaxRow - 1 /\ offset \in 0 .. MaxRow - 1
      /\ drawn' \in 0 .. MaxRow - 1 /\ offset' \in 0 .. MaxRow - 1
      /\ kind = "calendar" => drawn' = 0 /\ offset' = 0
  BY <1>1, ClampedType DEF TypeOK, CalendarStill
<1>3. TypeOK'
  BY <1>1, <1>2 DEF TypeOK, SizeRow, Overtaking
<1>4. CalendarStill' /\ DialogHasFocus' /\ PendingIsSelection' /\ MovedAlong'
  BY <1>1, <1>2 DEF CalendarStill, DialogHasFocus, PendingIsSelection, MovedAlong
<1>5. SelectedHasFocus' /\ SelectionInGrid'
  BY DEF SelectedHasFocus, SelectionInGrid
<1> QED BY <1>3, <1>4, <1>5 DEF IInv

LEMMA NextIInv ==
  ASSUME IInv, [Next]_vars
  PROVE  IInv'
<1> USE DEF CalendarStill, DialogHasFocus, PendingIsSelection, MovedAlong, SelectedHasFocus,
            SelectionInGrid
<1>1. /\ TypeOK /\ CalendarStill /\ DialogHasFocus /\ PendingIsSelection /\ MovedAlong
      /\ SelectedHasFocus /\ SelectionInGrid
      /\ size \in SizeRow /\ kind \in {"calendar", "availability"}
      /\ Cells(size) \subseteq AnyCell /\ None \notin AnyCell
  BY SmallerGrid DEF IInv, TypeOK, SizeRow
<1>2. CASE TabIn
  BY <1>1, <1>2 DEF TabIn, Met, IInv, TypeOK, Overtaking
<1>3. CASE TabOut
  BY <1>1, <1>3 DEF TabOut, Met, IInv, TypeOK, Overtaking
<1>4. CASE PressEnter
  BY <1>1, <1>4 DEF PressEnter, IInv, TypeOK
<1>5. CASE CloseDialog
  BY <1>1, <1>5 DEF CloseDialog, IInv, TypeOK
<1>6. ASSUME NEW p \in AnyCell, Click(p) PROVE IInv'
  BY <1>1, <1>6 DEF Click, IInv, TypeOK, Overtaking
<1>7. ASSUME NEW o \in 0 .. MaxRow - 1, Scroll(o) PROVE IInv'
  BY <1>1, <1>7 DEF Scroll, Met, IInv, TypeOK, Overtaking
<1>8. CASE Observe
  <2>1. /\ offset # drawn /\ UNCHANGED <<kind, size, focused, offset, dialog, moved>>
        /\ overtaken' = (IF dom' = focused /\ pending' = None THEN {} ELSE overtaken)
        /\ Rendered(offset, size, dom)
    BY <1>8 DEF Observe
  <2>2. kind = "availability" /\ dialog = None
    BY <1>1, <2>1 DEF TypeOK
  <2>3. /\ drawn' = offset
        /\ \/ /\ pending # None /\ pending \in Cells(size)
              /\ dom' = pending /\ pending' = None
           \/ pending' = pending /\ dom' \in {dom, None}
    BY <2>1, RenderedEffect
  <2>4. TypeOK'
    BY <1>1, <2>1, <2>2, <2>3 DEF TypeOK
  <2>5. SelectedHasFocus' /\ PendingIsSelection'
    BY <1>1, <2>1, <2>3
  <2>6. SelectionInGrid'
    <3>1. dom' # None => dom' \in Cells(size)
      BY <1>1, <2>3 DEF TypeOK
    <3>2. focused # None
      BY <1>1 DEF TypeOK
    <3> QED BY <1>1, <2>1, <3>1, <3>2
  <2> QED BY <1>1, <2>1, <2>2, <2>4, <2>5, <2>6 DEF IInv
<1>9. ASSUME NEW key \in NavKey, PressNav(key) PROVE IInv'
  <2>1. PICK p \in Cells(size) :
           /\ focused' = p /\ moved' = [key |-> key, from |-> dom, to |-> p]
           /\ p \in NeighborFor(key, dom, size) /\ dom \in Cells(size)
           /\ offset' \in 0 .. MaxRow - 1 /\ (kind = "calendar" => offset' = offset)
           /\ \/ dom' = p /\ pending' = None
              \/ kind = "availability" /\ pending' = p /\ dom' = dom
           /\ overtaken' = {}
           /\ UNCHANGED <<kind, size, drawn, dialog>>
    BY <1>9, NavEffect
  <2>2. TypeOK'
    BY <1>1, <2>1 DEF TypeOK
  <2>3. dialog = None /\ p # None
    BY <1>1, <2>1
  <2>4. MovedAlong'
    BY <2>1
  <2>5. CalendarStill' /\ DialogHasFocus' /\ PendingIsSelection' /\ SelectedHasFocus' /\ SelectionInGrid'
    BY <1>1, <2>1, <2>3
  <2> QED BY <2>2, <2>4, <2>5 DEF IInv
<1>10. ASSUME NEW n \in Size, Rescope(n) PROVE IInv'
  <2>1. n \in SizeRow
    BY GridAssumption DEF SizeRow
  <2> QED BY <1>10, <2>1, ResizeEffect DEF Rescope
<1>11. ASSUME NEW i \in 0 .. size.rows - 1, WorkerGone(i) PROVE IInv'
  <2> DEFINE n == [size EXCEPT !.rows = @ - 1]
             at == CASE dom # None /\ dom.row < i -> dom
                     [] dom # None /\ dom.row > i -> Pos(dom.row - 1, dom.col)
                     [] OTHER -> None
  <2>1. n \in SizeRow
    BY <1>1, <1>11, GridAssumption DEF WorkerGone, SizeRow
  <2>2. dialog = None /\ kind = "availability"
    BY <1>1, <1>11 DEF WorkerGone, TypeOK
  <2>3. /\ size' = n /\ Rendered(Clamped(drawn, n), n, at) /\ offset' = Clamped(offset, n)
        /\ moved' = None /\ overtaken' = overtaken \cup {"resize"} /\ UNCHANGED <<kind, focused, dialog>>
    BY <1>11 DEF WorkerGone
  <2> HIDE DEF n, at
  <2> QED BY <2>1, <2>2, <2>3, ResizeEffect
<1>12. CASE UNCHANGED vars
  BY <1>1, <1>12 DEF vars, IInv, TypeOK
<1> QED BY <1>2, <1>3, <1>4, <1>5, <1>6, <1>7, <1>8, <1>9, <1>10, <1>11, <1>12 DEF Next

-----------------------------------------------------------------------------
(* Theorems *)

\* The invariant behind the results below: a dialog belongs to the selection, a move
\* that waits for its row is to the selection, and the last move was along its arrow.
THEOREM InductiveInvariant == Spec => []IInv
<1>1. IInv /\ [Next]_vars => IInv'
  BY NextIInv
<1> QED BY InitIInv, <1>1, PTL DEF Spec

\* Every variable of the grids keeps its type.
THEOREM TypeCorrect == Spec => []TypeOK
BY InductiveInvariant, PTL DEF IInv

\* In a grid of any size keys go where a reader expects, and that from the selected cell,
\* also after a move that had to scroll and whatever was scrolled or tabbed before its row
\* was drawn. It says nothing of the time after a click or another list of rows has met
\* such a move (rovingTabindex.ts, AvailabilityGrid.tsx).
THEOREM KeysFollowSelection == Spec => []KeysActOnSelection
<1>1. IInv => KeysActOnSelection
  BY MovesInReadingOrder DEF IInv, KeysActOnSelection
<1> QED BY InductiveInvariant, <1>1, PTL

\* Closing a dialog gives the focus back to the selected cell, the one it was opened
\* from (useFocusTrap.ts).
THEOREM FocusComesBack == Spec => FocusReturns
<1> DEFINE Step == dialog # None /\ dialog' = None => dialog = focused /\ dom' = focused
<1>1. IInv /\ [Next]_vars => [Step]_vars
  <2> SUFFICES ASSUME IInv, Next, dialog # None, dialog' = None
               PROVE  dialog = focused /\ dom' = focused
    BY DEF vars
  <2>1. dialog = focused /\ dom = None
    BY DEF IInv, DialogHasFocus
  <2>2. CloseDialog
    BY <2>1 DEF Next, TabIn, TabOut, PressEnter, Observe, PressNav, Click, Scroll, Rescope, WorkerGone
  <2> QED BY <2>1, <2>2 DEF CloseDialog
<1>2. [][Step]_vars => FocusReturns
  BY PTL DEF FocusReturns
<1> HIDE DEF Step
<1> QED BY InductiveInvariant, <1>1, <1>2, PTL DEF Spec
=============================================================================
