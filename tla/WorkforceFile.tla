----------------------------- MODULE WorkforceFile -----------------------------
(***************************************************************************)
(* The workforce CSV: exported for one company and month                   *)
(* (workforceExportService.ts, csv/), changed by hand in a spreadsheet,    *)
(* uploaded for some company and month, and imported row by row            *)
(* (workforceImportService.ts). Tasks, the queue and superseded imports    *)
(* are WorkforceImport's; here is what a file says and what becomes of it. *)
(***************************************************************************)
EXTENDS MonthTable

CONSTANTS RawCell, Fault    \* what a planner types: a day's letters, a spoiled row

ASSUME FileAssumption == "'" \in Char /\ \A raw \in RawCell : raw \in Seq(Letters(raw))

VARIABLES
  file,     \* the planner's file: its number of day columns and its rows, or None
  origin,   \* history: what it was exported from, None once it was changed by hand
  run,      \* the import under way and the row it is at, or None
  report    \* its failed rows and the field each failed at

fileVars == <<file, origin, run, report>>

FileTypeOK ==
  /\ file = None \/ \A i \in DOMAIN file.rows : Len(file.rows[i].cells) = file.days
  /\ origin = None \/ origin.month \in Month
  /\ run = None \/ run.next \in 1 .. Len(run.rows) + 1
  /\ \A e \in report : e.field \in {"role", "cells", "hours", "national_id"}

FileInit == file = None /\ origin = None /\ run = None /\ report = {}

-----------------------------------------------------------------------------
\* A text that a spreadsheet would take for a formula is written with a quote before it.
Trigger == {"=", "+", "-", "@"}
GuardCell(text) == IF text # <<>> /\ text[1] \in Trigger THEN <<"'">> \o text ELSE text
MutUnguardCell(text) == text
UnguardCell(text) ==
  IF Len(text) > 1 /\ text[1] = "'" /\ text[2] \in Trigger THEN Tail(text) ELSE text

\* Numbers, role and status are written as they are read back.
FromWorkerRecord(w) == [name |-> people[w].name, role |-> people[w].role, terms |-> people[w].terms]
RowOf(w, m) ==
  LET record == FromWorkerRecord(w)
  IN [id |-> w, name |-> GuardCell(record.name), role |-> record.role, terms |-> record.terms,
      fault |-> "none", cells |-> [d \in Days(m) |-> table[w][m][d]]]

\* The workers that have a contract, in the order of their ids.
Listed(c) == {w \in Staff(c) : people[w].terms # None}
Ascending(ids) == \A i, j \in DOMAIN ids : i < j => ids[i] < ids[j]

Export(c, m) ==
  /\ Uses("export")
  /\ \E ids \in [1 .. Cardinality(Listed(c)) -> Listed(c)] :
       /\ Ascending(ids)
       /\ file' = [days |-> DayCount[m], rows |-> [i \in DOMAIN ids |-> RowOf(ids[i], m)]]
  /\ origin' = [firm |-> c, month |-> m, people |-> people, table |-> table]
  /\ UNCHANGED <<tableVars, run, report>>

\* By hand: a day's letters, a spoiled field or a row cut short, a row repeated, for the same worker
\* or another, or dropped. (A file that will not be uploaded does not matter.)
EditFile(i) ==
  /\ file # None /\ i \in DOMAIN file.rows /\ left.upload > 0
  /\ Uses("file")
  /\ \/ \E d \in 1 .. file.days, raw \in RawCell : file' = [file EXCEPT !.rows[i].cells[d] = raw]
     \/ \E f \in Fault : file' = [file EXCEPT !.rows[i].fault = f]
     \/ \E w \in Member : file' = [file EXCEPT !.rows = Append(@, [@[i] EXCEPT !.id = w])]
     \/ file' = [file EXCEPT !.rows = SubSeq(@, 1, i - 1) \o SubSeq(@, i + 1, Len(@))]
  /\ origin' = None
  /\ UNCHANGED <<tableVars, run, report>>

\* parseWorkforceCsv: the header has the month's number of day columns, each row its width.
Framed(f, m) == f.days = DayCount[m] /\ \A i \in DOMAIN f.rows : f.rows[i].fault # "ragged"

Upload(c, m) ==
  /\ file # None /\ run = None
  /\ Uses("upload")
  /\ report' = {}
  /\ run' = IF Framed(file, m)
            THEN [firm |-> c, month |-> m, rows |-> file.rows, next |-> 1, origin |-> origin,
                  people |-> people, table |-> table]
            ELSE None
  /\ UNCHANGED <<tableVars, file, origin>>

\* "role" stands for every worker field that toWorkerRecord cannot read, "hours" for every
\* one that the schemas refuse. Where a row fails: its worker fields first, then its day cells, then the schemas and
\* the worker's company. A cell's letters are read as shiftSubsetSchema reads them.
MutCellLegal(raw) == Letters(raw) \subseteq Shift
CellLegal(raw) == raw = <<>> \/ SubsetSchema(raw)
UnreadableField(row) == row.fault = "role"
RowError(row, c, at) ==
  CASE UnreadableField(row) -> "role"
    [] ~UnreadableField(row) /\ \E d \in DOMAIN row.cells : ~CellLegal(row.cells[d]) -> "cells"
    [] row.fault = "hours" /\ \A d \in DOMAIN row.cells : CellLegal(row.cells[d]) -> "hours"
    [] OTHER -> IF at[row.id] # None /\ at[row.id].firm # c THEN "national_id" ELSE "none"

\* One row, one transaction: the worker and the month's cells, or nothing.
Person(row) == [firm |-> run.firm, name |-> UnguardCell(row.name), role |-> row.role, terms |-> row.terms]
MutApplied(row) ==
  /\ people' = [people EXCEPT ![row.id] = Person(row)]
  /\ UNCHANGED needs
  /\ table' = [table EXCEPT ![row.id][run.month] =
                 [d \in Days(run.month) |-> IF row.cells[d] = <<>> THEN @[d] ELSE row.cells[d]]]
Applied(row) ==
  /\ people' = [people EXCEPT ![row.id] = Person(row)]
  /\ UNCHANGED needs
  /\ table' = [table EXCEPT ![row.id][run.month] = row.cells]

ImportRow ==
  /\ run # None /\ run.next <= Len(run.rows)
  /\ LET row == run.rows[run.next] error == RowError(row, run.firm, people)
     IN IF error = "none" THEN Applied(row) /\ UNCHANGED report
        ELSE report' = report \cup {[row |-> run.next, field |-> error]} /\ UNCHANGED tableVars
  /\ run' = [run EXCEPT !.next = @ + 1]
  /\ UNCHANGED <<file, origin, left>>

Imported == run # None /\ run.next > Len(run.rows)
Finish ==
  /\ Imported
  /\ run' = None
  /\ UNCHANGED <<tableVars, file, origin, report, left>>

FileNext ==
  \/ ImportRow \/ Finish
  \/ \E c \in Firm, m \in Month : Export(c, m) \/ Upload(c, m)
  \/ \E i \in 1 .. 2 * MaxMember : EditFile(i)

-----------------------------------------------------------------------------
(* Properties *)

\* A name the guard and its inverse do not keep: a quote of its own before a trigger.
QuotedTrigger(name) == Len(name) > 1 /\ name[1] = "'" /\ name[2] \in Trigger

\* An export that nobody changes can be imported again for its company and month: no row
\* fails and nothing changes, but for names that begin with a quote and a trigger.
RoundTripUnlessQuoted ==
  Imported /\ run.origin # None /\ run.origin.firm = run.firm /\ run.origin.month = run.month
    /\ run.origin.people = run.people /\ run.origin.table = run.table =>
    /\ report = {} /\ table = run.table
    /\ \A w \in Member :
         people[w] # run.people[w] => QuotedTrigger(run.people[w].name)

\* Afterwards every worker is as the last good row that names it says, the whole month
\* replaced, and every other worker and month as before; the report names the bad rows.
Good(i) == RowError(run.rows[i], run.firm, run.people) = "none"
ImportIsFile ==
  Imported =>
    /\ {e.row : e \in report} = {i \in DOMAIN run.rows : ~Good(i)}
    /\ \A w \in Member :
         LET says == {i \in DOMAIN run.rows : run.rows[i].id = w /\ Good(i)}
         IN IF says = {} THEN people[w] = run.people[w] /\ table[w] = run.table[w]
            ELSE \E i \in says : /\ \A j \in says : j <= i
                                 /\ people[w].terms = run.rows[i].terms /\ people[w].firm = run.firm
                                 /\ table[w] = [run.table[w] EXCEPT ![run.month] = run.rows[i].cells]
=============================================================================
