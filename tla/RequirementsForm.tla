--------------------------- MODULE RequirementsForm ---------------------------
(***************************************************************************)
(* The headcount matrix of the company forms (staffingRequirementsMatrix.ts,*)
(* StaffingRequirementsMatrixField.tsx): nine texts, checked one by one,   *)
(* sent as nine rows in a fixed order, checked again by the server's       *)
(* schema, and stored in place of the company's rows. When the form opens  *)
(* and what a failed save leaves is CompanyDirectory's.                    *)
(***************************************************************************)
EXTENDS MonthTable, SequencesExt

CONSTANTS
  Text,     \* what can be typed in a cell: a number or a text that is none
  Garbage,  \* the texts that are no whole number; an empty one counts as zero in a total
  Empty,
  DbMax     \* the greatest headcount the column holds

ASSUME FormAssumption ==
  /\ IsFiniteSet(Role)
  /\ Garbage \subseteq Text /\ Empty \in Garbage /\ Text \ Garbage \subseteq Int
  /\ DbMax \in Nat /\ Garbage \cap 0 .. DbMax = {}
  /\ \A s \in Session : Matrices(s.needs, 0 .. DbMax)

VARIABLES
  form,   \* the firm being edited, its texts, those submitted last, the cells marked wrong; or None
  saved   \* how the last submission ended: "no", "invalid", "stored" or "failed"

formVars == <<form, saved>>

FormInit == form = None /\ saved = "no"

CELLS == SetToSeq(Cell)
IsWhole(text) == text \notin Garbage

\* buildMatrixState: zero where the firm has no row.
BuildMatrixState(rows) ==
  [cell \in Cell |-> IF cell \in DOMAIN rows THEN rows[cell] ELSE 0]

OpenForm(c) ==
  /\ form = None
  /\ Uses("form")
  /\ form' = [firm |-> c, matrix |-> BuildMatrixState(needs[c]), tried |-> None, wrong |-> {}]
  /\ saved' = "no"
  /\ UNCHANGED tableVars

SetCell(cell, text) ==
  /\ form # None
  /\ Uses("cell")
  /\ form' = [form EXCEPT !.matrix[cell] = text]
  /\ UNCHANGED <<tableVars, saved>>

MutCellErrors(matrix) == {cell \in Cell : ~IsWhole(matrix[cell])}
CellErrors(matrix) == {cell \in Cell : ~IsWhole(matrix[cell]) \/ matrix[cell] < 0}

\* validateMatrix's rows, in the order of CELLS; staffingRequirementsInputSchema.
RowsOf(matrix) == [i \in DOMAIN CELLS |-> [cell |-> CELLS[i], count |-> matrix[CELLS[i]]]]
RowsSchema(rows) ==
  /\ \A i \in DOMAIN rows : rows[i].count \in Nat
  /\ \A i, j \in DOMAIN rows : rows[i].cell = rows[j].cell => i = j

\* All rows are replaced, or none when one does not fit its column; a row of 0 is one too.
CellsOf(rows) == {rows[i].cell : i \in DOMAIN rows}
CountOf(rows, cell) == rows[CHOOSE i \in DOMAIN rows : rows[i].cell = cell].count
MutStored(rows, c) ==
  [cell \in CellsOf(rows) \cup DOMAIN needs[c] |->
     IF (cell \in CellsOf(rows) /\ CountOf(rows, cell) # 0) \/ cell \notin DOMAIN needs[c]
     THEN CountOf(rows, cell) ELSE needs[c][cell]]
Stored(rows, c) == [cell \in CellsOf(rows) |-> CountOf(rows, cell)]

Submit ==
  LET wrong == CellErrors(form.matrix)
      rows == RowsOf(form.matrix)
  IN /\ form # None
     /\ UNCHANGED <<people, table, left>>
     /\ \/ /\ wrong # {}
           /\ form' = [form EXCEPT !.wrong = wrong, !.tried = form.matrix]
           /\ saved' = "invalid"
           /\ UNCHANGED needs
        \/ /\ wrong = {}
           /\ IF RowsSchema(rows) /\ \A i \in DOMAIN rows : rows[i].count <= DbMax
              THEN /\ saved' = "stored" /\ form' = None
                   /\ needs' = [needs EXCEPT ![form.firm] = Stored(rows, form.firm)]
              ELSE saved' = "failed" /\ form' = [form EXCEPT !.wrong = {}, !.tried = form.matrix] /\ UNCHANGED needs

CloseForm ==
  /\ form # None
  /\ form' = None
  /\ UNCHANGED <<tableVars, left, saved>>

FormNext ==
  \/ Submit \/ CloseForm
  \/ \E c \in Firm : OpenForm(c)
  \/ \E cell \in Cell, text \in Text : SetCell(cell, text)

\* computeShiftTotals: what is no whole number does not count, an empty text is zero.
MutShiftTotal(matrix, s) ==
  FoldSet(LAMBDA cell, sum : sum + (IF IsWhole(matrix[cell]) THEN matrix[cell] ELSE 0), 0, Cell)
ShiftTotal(matrix, s) ==
  FoldSet(LAMBDA cell, sum : sum + (IF cell[2] = s /\ IsWhole(matrix[cell]) THEN matrix[cell] ELSE 0), 0, Cell)
-----------------------------------------------------------------------------
(* Properties *)

FormTypeOK ==
  /\ form = None \/ (form.matrix \in [Cell -> Text \cup 0 .. DbMax] /\ form.wrong \subseteq Cell)
  /\ saved \in {"no", "invalid", "stored", "failed"}

\* A save that succeeds stores for its firm, in every cell, the number that was on the
\* screen, and changes no other firm's needs.
StoredIsShown ==
  [][form # None /\ form' = None /\ saved' = "stored" =>
       /\ needs'[form.firm] = form.matrix
       /\ \A c \in Firm \ {form.firm} : needs'[c] = needs[c]]_<<form, saved, needs>>

\* It stores what adds up to the totals that were shown under the cells.
TotalsAreStored ==
  [][form # None /\ form' = None /\ saved' = "stored" =>
       \A s \in Shift :
         ShiftTotal(form.matrix, s) = MapThenSumSet(LAMBDA r : needs'[form.firm][<<r, s>>], Role)]_<<form, saved, needs>>

\* What the form lets through, the server takes, unless a headcount is too large for its
\* column: neither schema knows that bound, so such a save fails without a cell marked.
RefusedIsTooLarge ==
  form # None /\ saved = "failed" =>
    \E cell \in Cell : IsWhole(form.tried[cell]) /\ form.tried[cell] > DbMax
=============================================================================
