--------------------------- MODULE AvailabilityDraft ---------------------------
(***************************************************************************)
(* The draft of the availability grid (availabilityDraft.ts): a sparse map *)
(* of workers to dates to excluded shifts, toggled letter by letter, and   *)
(* sent as it is. The schema of the server refuses a payload as a whole.   *)
(* The order of the grid's requests and answers is AvailabilityGrid's.     *)
(***************************************************************************)
EXTENDS MonthTable, Functions

VARIABLE sheet   \* the grid's company, month, draft and the marks its planner has made, or None

NoCells == <<>>   \* the empty map

DraftInit == sheet = None

\* getMonth and draftFromMonthAvailability: only workers and dates that have rows.
FromMonth(c, m) ==
  LET dates(w) == {d \in Days(m) : table[w][m][d] # <<>>}
  IN [w \in {v \in Staff(c) : dates(v) # {}} |-> [d \in dates(w) |-> table[w][m][d]]]

OpenSheet(c, m) ==
  /\ Uses("open")
  /\ sheet' = [firm |-> c, month |-> m, draft |-> FromMonth(c, m),
               marks |-> {x \in Staff(c) \X Days(m) \X Shift : x[3] \in Letters(table[x[1]][m][x[2]])}]
  /\ UNCHANGED tableVars

\* A lookup takes a missing entry for no exclusions.
RowIn(draft, w) == IF w \in DOMAIN draft THEN draft[w] ELSE NoCells
CellShifts(draft, w, d) == IF d \in DOMAIN RowIn(draft, w) THEN RowIn(draft, w)[d] ELSE <<>>

\* toggleInSubset: the letters are put in canonical order again.
MutToggled(cell, s) == IF s \in Letters(cell) THEN SelectSeq(cell, LAMBDA t : t # s) ELSE Append(cell, s)
Toggled(cell, s) == Canonical(IF s \in Letters(cell) THEN Letters(cell) \ {s} ELSE Letters(cell) \cup {s})

\* A draft with one worker's row replaced, and the worker dropped if nothing is left.
WithRow(draft, w, row) ==
  IF DOMAIN row = {} THEN Restrict(draft, DOMAIN draft \ {w})
  ELSE [v \in DOMAIN draft \cup {w} |-> IF v = w THEN row ELSE draft[v]]

ToggleCell(w, d, s) ==
  LET cell == Toggled(CellShifts(sheet.draft, w, d), s)
      row == RowIn(sheet.draft, w)
  IN /\ sheet # None /\ w \in Staff(sheet.firm) /\ d \in Days(sheet.month)
     /\ Uses("toggle")
     /\ sheet' = [sheet EXCEPT
          !.draft = WithRow(@, w, IF cell = <<>> THEN Restrict(row, DOMAIN row \ {d})
                                  ELSE [e \in DOMAIN row \cup {d} |-> IF e = d THEN cell ELSE row[e]]),
          !.marks = IF <<w, d, s>> \in @ THEN @ \ {<<w, d, s>>} ELSE @ \cup {<<w, d, s>>}]
     /\ UNCHANGED tableVars

\* The row's buttons: None excludes every shift of every date, All clears the row.
MarkRow(w) ==
  /\ sheet # None /\ w \in Staff(sheet.firm)
  /\ Uses("toggle")
  /\ \/ sheet' = [sheet EXCEPT !.draft = WithRow(@, w, [d \in Days(sheet.month) |-> Canonical(Shift)]),
                                 !.marks = @ \cup ({w} \X Days(sheet.month) \X Shift)]
     \/ sheet' = [sheet EXCEPT !.draft = WithRow(@, w, NoCells),
                                 !.marks = @ \ ({w} \X Days(sheet.month) \X Shift)]
  /\ UNCHANGED tableVars

\* draftToPayload drops what is empty.
Payload(draft) ==
  LET dates(w) == {d \in DOMAIN draft[w] : draft[w][d] # <<>>}
  IN [w \in {v \in DOMAIN draft : dates(v) # {}} |-> Restrict(draft[w], dates(w))]

\* monthAvailabilitySchema.
PayloadSchema(payload, m) ==
  \A w \in DOMAIN payload : \A d \in DOMAIN payload[w] : d \in Days(m) /\ SubsetSchema(payload[w][d])

\* A PUT that is accepted replaces the month of the firm's workers.
SaveSheet ==
  LET payload == Payload(sheet.draft)
  IN /\ sheet # None
     /\ Uses("save")
     /\ table' = IF PayloadSchema(payload, sheet.month) /\ DOMAIN payload \subseteq Staff(sheet.firm)
                 THEN [w \in Member |-> IF w \in Staff(sheet.firm)
                        THEN [table[w] EXCEPT ![sheet.month] = [d \in Days(sheet.month) |-> CellShifts(payload, w, d)]]
                        ELSE table[w]]
                 ELSE table
     /\ UNCHANGED <<people, needs, sheet>>

DraftNext ==
  \/ \E c \in Firm, m \in Month : OpenSheet(c, m)
  \/ \E w \in Member : MarkRow(w) \/ \E d \in 1 .. 31, s \in Shift : ToggleCell(w, d, s)
  \/ SaveSheet

-----------------------------------------------------------------------------
(* Properties *)

\* However it was toggled, the draft excludes what its planner has marked and nothing
\* else, holds no empty entry, and is a payload that the server accepts.
DraftIsPayload ==
  sheet # None =>
    /\ \A w \in Staff(sheet.firm), d \in Days(sheet.month) :
         Letters(CellShifts(sheet.draft, w, d)) = {s \in Shift : <<w, d, s>> \in sheet.marks}
    /\ \A w \in DOMAIN sheet.draft : DOMAIN sheet.draft[w] # {}
    /\ Payload(sheet.draft) = sheet.draft /\ PayloadSchema(sheet.draft, sheet.month)

\* A save leaves in the database, for every worker and day of the company's month, what
\* is marked, and other companies and months as they were.
SavedIsMarked ==
  [][left'.save # left.save =>
       \A w \in Member, m \in Month : \A d \in Days(m) :
         Letters(table'[w][m][d]) =
           IF w \in Staff(sheet.firm) /\ m = sheet.month
           THEN {s \in Shift : <<w, d, s>> \in sheet.marks} ELSE Letters(table[w][m][d])]_<<left, table>>
=============================================================================
