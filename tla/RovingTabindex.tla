--------------------------- MODULE RovingTabindex ---------------------------
(***************************************************************************)
(* The key arithmetic of the roving tab stop (rovingTabindex.ts): which    *)
(* cell an arrow, Home or End leads to. A neighbour is a set of one cell,  *)
(* or empty where the source returns null.                                 *)
(***************************************************************************)
EXTENDS Integers

NavKey == {"ArrowRight", "ArrowLeft", "ArrowUp", "ArrowDown", "Home", "End"}

Pos(r, c) == [row |-> r, col |-> c]
Cells(n) == [row : 0 .. n.rows - 1, col : 0 .. n.cols - 1]

\* Right and Left go on at the other end of the next or previous row.
MutRightOf(p, n) == IF p.col + 1 < n.cols THEN {Pos(p.row, p.col + 1)} ELSE {Pos(p.row + 1, 0)}
RightOf(p, n) ==
  IF p.col + 1 < n.cols THEN {Pos(p.row, p.col + 1)} ELSE {Pos(p.row + 1, 0)} \cap Cells(n)

MutLeftOf(p, n) ==
  IF p.col > 0 THEN {Pos(p.row, p.col - 1)} ELSE {Pos(r, 0) : r \in {p.row - 1} \cap Nat}
LeftOf(p, n) ==
  IF p.col > 0 THEN {Pos(p.row, p.col - 1)} ELSE {Pos(r, n.cols - 1) : r \in {p.row - 1} \cap Nat}

NeighborFor(key, p, n) ==
  CASE key = "ArrowRight" -> RightOf(p, n)
    [] key = "ArrowLeft" -> LeftOf(p, n)
    [] key = "ArrowDown" -> {Pos(p.row + 1, p.col)} \cap Cells(n)
    [] key = "ArrowUp" -> {Pos(r, p.col) : r \in {p.row - 1} \cap Nat}
    [] key = "Home" -> {Pos(p.row, 0)}
    [] key = "End" -> {Pos(p.row, n.cols - 1)}

\* A cell's place when the grid is read row by row.
Place(p, n) == p.row * n.cols + p.col
=============================================================================
