------------------------------ MODULE MonthTable ------------------------------
(***************************************************************************)
(* The workers and their excluded shifts, as the database holds them, and  *)
(* the two encodings that every reader and writer of them goes through: a  *)
(* shift subset as a canonical list of letters, and its complement. A day  *)
(* without a row is the empty list.                                        *)
(***************************************************************************)
EXTENDS Integers, Sequences, FiniteSets

CONSTANTS
  Role,
  MaxMember,  \* workers are 1 .. MaxMember, in the order of their ids
  Firm,       \* companies
  Month,      \* months
  DayCount,   \* their lengths
  Char,       \* what a name is written in
  Session,    \* where a session starts and how much is done in it: bounds
  None

ASSUME MonthTableAssumption ==
  /\ MaxMember \in Nat \ {0}
  /\ DayCount \in [Month -> Nat \ {0}]

Member == 1 .. MaxMember
Days(m) == 1 .. DayCount[m]

VARIABLES
  people,  \* a worker's firm, name, role and contract's hours (terms, None without one), or None
  needs,   \* a firm's headcounts: a number for each role and shift that has a row
  table,   \* a worker's excluded shifts of each day of each month
  left     \* what may still be done in this session

tableVars == <<people, needs, table>>

ShiftTypes == <<"A", "B", "C">>
Shift == {ShiftTypes[i] : i \in 1 .. 3}
Letters(cell) == {cell[i] : i \in DOMAIN cell}
Cell == Role \X Shift
\* Each firm has a matrix of headcounts, whole or with cells that have no row.
Matrices(t, V) ==
  /\ t = [c \in Firm |-> t[c]]
  /\ \A c \in Firm : DOMAIN t[c] \subseteq Cell /\ t[c] \in [DOMAIN t[c] -> V]
Canonical(set) ==
  LET only(i) == IF ShiftTypes[i] \in set THEN <<ShiftTypes[i]>> ELSE <<>>
  IN  only(1) \o only(2) \o only(3)

\* shiftSubsetSchema: known letters, at least one, in ascending order.
Before(s, t) == \E i, j \in 1 .. 3 : i < j /\ ShiftTypes[i] = s /\ ShiftTypes[j] = t
SubsetSchema(cell) ==
  /\ cell # <<>> /\ Letters(cell) \subseteq Shift
  /\ \A i \in 2 .. Len(cell) : Before(cell[i - 1], cell[i])

\* What a row leaves to be worked; without a row, everything.
ComputeAvailable(cell) == Shift \ Letters(cell)

Uses(kind) == left[kind] > 0 /\ left' = [left EXCEPT ![kind] = @ - 1]

\* The rows of the tables.
Terms == [min : Nat, max : Nat]
PersonRow == [firm : Firm, name : Seq(Char), role : Role, terms : Terms \cup {None}]
DayCell == {cell \in Seq(Shift) : cell = <<>> \/ SubsetSchema(cell)}
MonthRows(m) == [Days(m) -> DayCell]
Timetable ==
  {t \in [Member -> [Month -> Seq(DayCell)]] :
     \A w \in Member, m \in Month : t[w][m] \in MonthRows(m)}

\* What a session grants a number of; its other fields say where it starts. One that imports
\* a file does not save the grid: what an import meets is WorkforceImport's, what a
\* save meets is AvailabilityTable's.
Kind == {"export", "file", "upload", "open", "toggle", "save", "build", "form", "cell", "start", "solve"}

ASSUME SessionAssumption ==
  \A s \in Session :
    /\ Kind \cup {"people", "needs", "table"} \subseteq DOMAIN s
    /\ \A k \in Kind : s[k] \in Nat
    /\ s.people \subseteq [Member -> PersonRow \cup {None}]
    /\ Matrices(s.needs, Nat)
    /\ s.table \subseteq Timetable
    /\ s.upload = 0 \/ s.save = 0
ASSUME PersonAssumption == None \notin PersonRow

TableTypeOK ==
  /\ people \in [Member -> PersonRow \cup {None}]
  /\ Matrices(needs, Nat)
  /\ table \in Timetable

TableInit ==
  /\ left \in Session
  /\ people \in left.people
  /\ needs = left.needs
  /\ table \in left.table

Staff(c) == {w \in Member : people[w] # None /\ people[w].firm = c}
=============================================================================
