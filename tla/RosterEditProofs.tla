--------------------------- MODULE RosterEditProofs ---------------------------
(***************************************************************************)
(* Proofs about RosterEdit, for any workers, contracts, slots and any      *)
(* number of overlapping edits.                                            *)
(***************************************************************************)
EXTENDS RosterEdit, FiniteSetTheorems, TLAPS

IsOpen(e) == tx[e].pc \in Open

DayCapped(slots) == \A s \in Slot : Cardinality(OnDate(slots, s.date)) <= 2

\* An open edit touches the rows of its own worker only.
OwnRows ==
  \A e \in Editor : IsOpen(e) => tx[e].worker \in Worker /\ Rows(e) \subseteq {tx[e].worker} \X Slot

\* Two open edits of one worker have raced.
OverlapsRace ==
  \A e, f \in Editor : e # f /\ IsOpen(e) /\ IsOpen(f) /\ tx[e].worker = tx[f].worker
                         => tx[e].worker \in raced

\* What the validator saw is still what the edit will commit, unless it raced.
Judged ==
  \A e \in Editor : IsOpen(e) /\ tx[e].worker \notin raced =>
    LET w == tx[e].worker
        slots == SlotsOf(w, View(e))
    IN /\ DayCapped(slots)
       /\ tx[e].confirm \/ w \in confirmed \/ SolverWithinHours(Profile[w], slots)

\* Nobody is, or is about to be, in a slot the availability rows exclude.
Available(plan) == \A w \in Worker, s \in Slot : <<w, s>> \in plan => s \notin Profile[w].excluded
AllAvailable == Available(assigned) /\ \A e \in Editor : Available(tx[e].new)

\* An edit that nobody has overtaken still knows the plan and the alerts.
KnowsPlan(e) == tx[e].targets = Targets(View(e))
KnowsAlerts(e) == /\ tx[e].stale = Ids(Stale(alerts, tx[e].targets))
                  /\ tx[e].raised = tx[e].targets \ Abouts(alerts \ Stale(alerts, tx[e].targets))
SoloKnows ==
  \A e \in Editor : tx[e].alone =>
    /\ tx[e].pc \in {"alerts", "commit"} => KnowsPlan(e)
    /\ tx[e].pc = "commit" => KnowsAlerts(e)

IInv == /\ TypeOK /\ OwnRows /\ OverlapsRace /\ Judged /\ AllAvailable /\ SoloKnows
        /\ DayCapUnlessRaced /\ OverMaxWasConfirmed

-----------------------------------------------------------------------------
(* Counting slots *)

LEMMA SlotsCount ==
  ASSUME NEW S \in SUBSET Slot
  PROVE  IsFiniteSet(S) /\ Cardinality(S) \in Nat /\ Hours(S) \in Nat
<1>1. IsFiniteSet(S)
  BY RosterEditConstants, FS_Subset
<1>2. Cardinality(S) \in Nat
  BY <1>1, FS_CardinalityType
<1> QED BY <1>1, <1>2 DEF Hours, ShiftHours

LEMMA OneMore ==
  ASSUME NEW S \in SUBSET Slot, NEW s \in Slot \ S
  PROVE  Hours(S \cup {s}) = Hours(S) + ShiftHours
<1>1. Cardinality(S \cup {s}) = Cardinality(S) + 1
  BY SlotsCount, FS_AddElement
<1> QED BY <1>1, SlotsCount DEF Hours, ShiftHours

LEMMA NoMore ==
  ASSUME NEW S \in SUBSET Slot, NEW T \in SUBSET S
  PROVE  /\ Hours(T) <= Hours(S)
         /\ \A date : Cardinality(OnDate(T, date)) <= Cardinality(OnDate(S, date))
<1>1. Cardinality(T) <= Cardinality(S)
  BY SlotsCount, FS_Subset
<1>2. ASSUME NEW date PROVE Cardinality(OnDate(T, date)) <= Cardinality(OnDate(S, date))
  <2>1. OnDate(S, date) \in SUBSET Slot /\ OnDate(T, date) \in SUBSET OnDate(S, date)
    BY DEF OnDate
  <2> QED BY <2>1, SlotsCount, FS_Subset
<1>3. Cardinality(S) \in Nat /\ Cardinality(T) \in Nat
  BY SlotsCount
<1> QED BY <1>1, <1>2, <1>3 DEF Hours, ShiftHours

LEMMA OneMoreOnDate ==
  ASSUME NEW S \in SUBSET Slot, NEW s \in Slot \ S, NEW date
  PROVE  Cardinality(OnDate(S \cup {s}, date)) =
           Cardinality(OnDate(S, date)) + (IF s.date = date THEN 1 ELSE 0)
<1>1. OnDate(S, date) \in SUBSET Slot /\ s \notin OnDate(S, date)
  BY DEF OnDate
<1>2. IsFiniteSet(OnDate(S, date)) /\ Cardinality(OnDate(S, date)) \in Nat
  BY <1>1, SlotsCount
<1>3. CASE s.date = date
  <2>1. OnDate(S \cup {s}, date) = OnDate(S, date) \cup {s}
    BY <1>3 DEF OnDate
  <2> QED BY <1>1, <1>2, <1>3, <2>1, FS_AddElement
<1>4. CASE s.date # date
  <2>1. OnDate(S \cup {s}, date) = OnDate(S, date)
    BY <1>4 DEF OnDate
  <2> QED BY <1>2, <1>4, <2>1
<1> QED BY <1>3, <1>4

LEMMA SlotsOfType ==
  ASSUME NEW w, NEW plan
  PROVE  SlotsOf(w, plan) \in SUBSET Slot
BY DEF SlotsOf

\* What an edit would make of a worker's slots obeys the daily cap exactly when
\* the validator's count says so.
LEMMA DayCapAfter ==
  ASSUME NEW kept \in SUBSET Slot, DayCapped(kept), NEW s \in Slot \ kept
  PROVE  DayCapped(kept \cup {s}) <=> Cardinality(OnDate(kept, s.date)) + 1 <= 2
<1>1. \A t \in Slot : OnDate(kept, t.date) \in SUBSET Slot
  BY DEF OnDate
<1>2. \A t \in Slot : Cardinality(OnDate(kept, t.date)) \in Nat
  BY <1>1, SlotsCount
<1>3. \A t \in Slot : Cardinality(OnDate(kept \cup {s}, t.date)) =
                        Cardinality(OnDate(kept, t.date)) + (IF s.date = t.date THEN 1 ELSE 0)
  BY OneMoreOnDate
<1> QED BY <1>2, <1>3 DEF DayCapped

\* A cap on the dates of the slots held is a cap on every date.
LEMMA CapOnHeldDates ==
  ASSUME NEW slots \in SUBSET Slot, \A s \in slots : Cardinality(OnDate(slots, s.date)) <= 2
  PROVE  DayCapped(slots)
<1> SUFFICES ASSUME NEW s \in Slot PROVE Cardinality(OnDate(slots, s.date)) <= 2
  BY DEF DayCapped
<1>1. CASE OnDate(slots, s.date) = {}
  BY <1>1, FS_EmptySet
<1>2. CASE OnDate(slots, s.date) # {}
  <2>1. PICK t \in slots : t.date = s.date
    BY <1>2 DEF OnDate
  <2> QED BY <2>1
<1> QED BY <1>1, <1>2

-----------------------------------------------------------------------------
(* Types *)

LEMMA TargetsType ==
  ASSUME NEW plan
  PROVE  Targets(plan) \in AboutSets
<1>1. Understaffed(plan) \in SUBSET About
  <2>1. \A p \in Slot \X Role : <<"UNFILLABLE_SLOT", p[1], p[2]>> \in About
    BY DEF About
  <2> QED BY <2>1 DEF Understaffed
<1>2. ASSUME NEW w \in ActiveWorkers, Hours(SlotsOf(w, plan)) < Profile[w].minHours
      PROVE  Profile[w].minHours - Hours(SlotsOf(w, plan)) \in Deficit
  <2>1. w \in Worker /\ Profile[w].minHours \in Nat
    BY RosterEditConstants DEF ActiveWorkers
  <2>2. Hours(SlotsOf(w, plan)) \in Nat
    BY SlotsOfType, SlotsCount
  <2>3. Profile[w].minHours - Hours(SlotsOf(w, plan)) \in 1..Profile[w].minHours
    BY <1>2, <2>1, <2>2
  <2> QED BY <2>1, <2>3 DEF Deficit
<1>3. ShortOfHours(plan) \in SUBSET About
  BY <1>2 DEF ShortOfHours, About, ActiveWorkers
<1> QED BY <1>1, <1>3 DEF Targets, AboutSets

LEMMA StaleType ==
  ASSUME TypeOK, NEW targets
  PROVE  Ids(Stale(alerts, targets)) \in IdSets
<1>1. \A a \in alerts : a.about \in About /\ a.by \in Editor \cup {None}
  BY DEF TypeOK, Alert
<1> QED BY <1>1 DEF Ids, Stale, IdSets

Edit == [kind : EditKind, from : Slot, to : Slot, role : Role]

LEMMA BeginEffect ==
  ASSUME NEW e \in Editor, Begin(e)
  PROVE  \E w \in Worker, edit \in Edit :
           /\ edit \in Edits(w) /\ tx[e].pc = "idle"
           /\ Found(w, edit, assigned)
           /\ Permitted(edit, Profile[w], Existing(w, edit, assigned))
           /\ tx' = [tx EXCEPT ![e] = Opened(w, edit, Existing(w, edit, assigned))]
           /\ raced' = IF \E f \in Editor : IsOpen(f) /\ tx[f].worker = w
                       THEN raced \cup {w} ELSE raced
<1>1. PICK w \in Worker : \E edit \in Edits(w) :
        /\ Found(w, edit, assigned)
        /\ Permitted(edit, Profile[w], Existing(w, edit, assigned))
        /\ tx' = [tx EXCEPT ![e] = Opened(w, edit, Existing(w, edit, assigned))]
        /\ raced' = IF \E f \in Editor : IsOpen(f) /\ tx[f].worker = w
                    THEN raced \cup {w} ELSE raced
  BY DEF Begin, IsOpen
<1>2. Edits(w) \subseteq Edit
  BY DEF Edits, Edit, Role
<1> QED BY <1>1, <1>2 DEF Begin

LEMMA OpenedType ==
  ASSUME NEW w \in Worker, NEW edit \in Edits(w), NEW existing
  PROVE  /\ Opened(w, edit, existing) \in Tx
         /\ edit.from \in Slot /\ edit.to \in Slot /\ edit.kind \in EditKind
         /\ Opened(w, edit, existing).gone \cup Opened(w, edit, existing).new \subseteq {w} \X Slot
<1>1. edit.from \in Slot /\ edit.to \in Slot /\ edit.kind \in EditKind
  BY DEF Edits
<1>2. Opened(w, edit, existing).confirm \in BOOLEAN
  BY DEF Opened, Warned, ExceedsMaxMonthlyHours, BelowMinMonthlyHours
<1>3. Opened(w, edit, existing).gone \in SUBSET ({w} \X Slot) /\ Opened(w, edit, existing).new \in SUBSET ({w} \X Slot)
  BY <1>1 DEF Opened
<1> DEFINE gone == Opened(w, edit, existing).gone
           new == Opened(w, edit, existing).new
           confirm == Opened(w, edit, existing).confirm
<1>4. gone \in Plans /\ new \in Plans /\ confirm \in BOOLEAN
  BY <1>2, <1>3 DEF Assignment, Plans
<1>5. Opened(w, edit, existing) = [pc |-> "write", worker |-> w, gone |-> gone, new |-> new,
                         confirm |-> confirm, targets |-> {}, stale |-> {}, raised |-> {},
                         alone |-> FALSE]
  BY DEF Opened
<1> HIDE DEF gone, new, confirm
<1>6. {} \in AboutSets /\ {} \in IdSets /\ "write" \in Pc
  BY DEF AboutSets, IdSets, Pc, Open
<1>7. Opened(w, edit, existing) \in Tx
  BY <1>4, <1>5, <1>6 DEF Tx
<1> QED BY <1>1, <1>3, <1>7

LEMMA InitIInv == Init => IInv
<1> SUFFICES ASSUME Init PROVE IInv
  OBVIOUS
<1>1. TypeOK
  <2>1. alerts \in SUBSET Alert
    BY TargetsType DEF Init, Alert, AboutSets
  <2>2. tx \in [Editor -> Tx]
    <3>1. {} \in Plans /\ {} \in AboutSets /\ {} \in IdSets /\ "idle" \in Pc
      BY DEF Plans, AboutSets, IdSets, Pc
    <3> QED BY <3>1 DEF Init, NoTx, Tx
  <2> QED BY <2>1, <2>2 DEF Init, TypeOK, Plans
<1>2. \A e \in Editor : ~IsOpen(e) /\ tx[e].new = {} /\ ~tx[e].alone
  BY DEF Init, NoTx, IsOpen, Open, Writing
<1>3. OwnRows /\ OverlapsRace /\ Judged /\ SoloKnows
  BY <1>2 DEF OwnRows, OverlapsRace, Judged, SoloKnows
<1>4. \A w \in Worker : SlotsOf(w, assigned) # {} =>
        /\ SolverAssignable(Profile[w], SlotsOf(w, assigned))
        /\ SolverWithinHours(Profile[w], SlotsOf(w, assigned))
  BY DEF Init, Solved
<1>5. AllAvailable
  <2>1. ASSUME NEW w \in Worker, NEW s \in Slot, <<w, s>> \in assigned
        PROVE  s \notin Profile[w].excluded
    <3>1. s \in SlotsOf(w, assigned)
      BY <2>1 DEF SlotsOf
    <3> QED BY <1>4, <3>1 DEF SolverAssignable
  <2> QED BY <1>2, <2>1 DEF AllAvailable, Available
<1>6. ASSUME NEW w \in Worker
      PROVE  DayCapped(SlotsOf(w, assigned)) /\ SolverWithinHours(Profile[w], SlotsOf(w, assigned))
  <2>1. CASE SlotsOf(w, assigned) = {}
    <3>1. \A s \in Slot : OnDate({}, s.date) = {}
      BY DEF OnDate
    <3>2. Hours({}) = 0 /\ Profile[w].maxHours \in Nat
      BY FS_EmptySet, RosterEditConstants DEF Hours, ShiftHours
    <3> QED BY <2>1, <3>1, <3>2, FS_EmptySet DEF DayCapped, SolverWithinHours
  <2>2. CASE SlotsOf(w, assigned) # {}
    BY <1>4, <2>2, SlotsOfType, CapOnHeldDates DEF SolverAssignable
  <2> QED BY <2>1, <2>2
<1>7. DayCapUnlessRaced /\ OverMaxWasConfirmed
  BY <1>6 DEF DayCapUnlessRaced, DayCapOf, DayCapped, OverMaxWasConfirmed
<1> QED BY <1>1, <1>3, <1>5, <1>7 DEF IInv

LEMMA TxTypes ==
  /\ {} \in Plans /\ {} \in AboutSets /\ {} \in IdSets
  /\ {"idle", "write", "plan", "alerts", "commit", "committed", "aborted"} \subseteq Pc
BY DEF Plans, AboutSets, IdSets, Pc, Open, Writing

LEMMA NextTypeOK ==
  ASSUME TypeOK, OwnRows, [Next]_vars
  PROVE  TypeOK'
<1>1. /\ assigned \in Plans /\ alerts \in SUBSET Alert /\ tx \in [Editor -> Tx]
      /\ confirmed \in SUBSET Worker /\ raced \in SUBSET Worker
  BY DEF TypeOK
<1>2. ASSUME NEW e \in Editor, Begin(e) PROVE TypeOK'
  <2>1. PICK w \in Worker, edit \in Edit :
          /\ edit \in Edits(w)
          /\ tx' = [tx EXCEPT ![e] = Opened(w, edit, Existing(w, edit, assigned))]
          /\ raced' = IF \E f \in Editor : IsOpen(f) /\ tx[f].worker = w
                      THEN raced \cup {w} ELSE raced
    BY <1>2, BeginEffect
  <2>2. tx' \in [Editor -> Tx]
    BY <1>1, <2>1, OpenedType
  <2>3. raced' \in SUBSET Worker
    BY <1>1, <2>1
  <2> QED BY <1>1, <1>2, <2>2, <2>3 DEF Begin, TypeOK
<1>3. ASSUME NEW e \in Editor, Write(e) \/ Abort(e) PROVE TypeOK'
  <2>1. \A pc \in {"plan", "aborted"} : [tx[e] EXCEPT !.pc = pc] \in Tx
    BY <1>1, TxTypes DEF Tx
  <2>2. tx' \in [Editor -> Tx]
    BY <1>1, <1>3, <2>1 DEF Write, Abort
  <2> QED BY <1>1, <1>3, <2>2 DEF Write, Abort, TypeOK
<1>4. ASSUME NEW e \in Editor, ReadPlan(e) PROVE TypeOK'
  <2>1. Targets(View(e)) \in AboutSets
    BY TargetsType
  <2>2. [tx[e] EXCEPT !.pc = "alerts", !.targets = Targets(View(e)), !.alone = TRUE] \in Tx
    BY <1>1, <2>1, TxTypes DEF Tx
  <2>3. tx' \in [Editor -> Tx]
    BY <1>1, <1>4, <2>2 DEF ReadPlan
  <2> QED BY <1>1, <1>4, <2>3 DEF ReadPlan, TypeOK
<1>5. ASSUME NEW e \in Editor, ReadAlerts(e) PROVE TypeOK'
  <2> DEFINE stale == Ids(Stale(alerts, tx[e].targets))
             raised == tx[e].targets \ Abouts(alerts \ Stale(alerts, tx[e].targets))
             row == [tx[e] EXCEPT !.pc = "commit", !.stale = stale, !.raised = raised]
  <2>1. tx' = [tx EXCEPT ![e] = row]
    BY <1>5 DEF ReadAlerts
  <2>2. stale \in IdSets
    BY StaleType
  <2>3. tx[e].targets \in AboutSets
    BY <1>1 DEF Tx
  <2>4. raised \in AboutSets
    BY <2>3 DEF AboutSets
  <2>5. row \in Tx
    <3> HIDE DEF stale, raised
    <3> QED BY <1>1, <2>2, <2>4, TxTypes DEF Tx
  <2> HIDE DEF row
  <2>6. tx' \in [Editor -> Tx]
    BY <1>1, <2>1, <2>5
  <2> QED BY <1>1, <1>5, <2>6 DEF ReadAlerts, TypeOK
<1>6. ASSUME NEW e \in Editor, Commit(e) PROVE TypeOK'
  <2>1. tx[e].gone \in Plans /\ tx[e].new \in Plans /\ tx[e].raised \in AboutSets
    BY <1>1 DEF Tx
  <2>2. View(e) \in Plans
    BY <1>1, <2>1 DEF View, Plans
  <2>3. [about : tx[e].raised, by : {e}, acked : {FALSE}] \in SUBSET Alert
    BY <2>1 DEF Alert, AboutSets
  <2>4. alerts' \in SUBSET Alert
    BY <1>1, <1>6, <2>3 DEF Commit
  <2>5. \A f \in Editor : /\ [tx[f] EXCEPT !.pc = "committed"] \in Tx
                          /\ [tx[f] EXCEPT !.alone = FALSE] \in Tx
    BY <1>1, TxTypes DEF Tx
  <2>6. tx' \in [Editor -> Tx]
    BY <1>6, <2>5 DEF Commit
  <2>7. tx[e].worker \in Worker
    BY <1>6 DEF Commit, OwnRows, IsOpen, Open, Writing
  <2>8. confirmed' \in SUBSET Worker
    BY <1>1, <1>6, <2>7 DEF Commit
  <2> QED BY <1>1, <1>6, <2>2, <2>4, <2>6, <2>8 DEF Commit, TypeOK
<1>7. ASSUME NEW a \in alerts, Ack(a) PROVE TypeOK'
  <2>1. [a EXCEPT !.acked = TRUE] \in Alert
    BY <1>1 DEF Alert
  <2>2. alerts' \in SUBSET Alert
    BY <1>1, <1>7, <2>1 DEF Ack
  <2> QED BY <1>1, <1>7, <2>2 DEF Ack, TypeOK
<1>8. CASE UNCHANGED vars
  BY <1>1, <1>8 DEF vars, TypeOK
<1> QED BY <1>2, <1>3, <1>4, <1>5, <1>6, <1>7, <1>8 DEF Next

-----------------------------------------------------------------------------
(* The verdict outlives the edit *)

Verdicts == OwnRows /\ OverlapsRace /\ Judged /\ AllAvailable /\ DayCapUnlessRaced /\ OverMaxWasConfirmed

\* The steps that neither open an edit nor commit one.
Quiet ==
  /\ UNCHANGED <<assigned, confirmed, raced>>
  /\ \A e \in Editor :
       /\ IsOpen(e)' => IsOpen(e)
       /\ tx'[e].pc = "committed" => tx[e].pc = "committed"
       /\ tx'[e].worker = tx[e].worker /\ tx'[e].confirm = tx[e].confirm
       /\ tx'[e].gone = tx[e].gone /\ tx'[e].new = tx[e].new

LEMMA StepsAreQuiet ==
  ASSUME TypeOK, [Next]_vars
  PROVE  Quiet \/ \E e \in Editor : Begin(e) \/ Commit(e)
<1>1. tx \in [Editor -> Tx]
  BY DEF TypeOK
<1>2. ASSUME NEW e \in Editor, Write(e) \/ Abort(e) PROVE Quiet
  <2>1. PICK pc \in {"plan", "aborted"} : tx' = [tx EXCEPT ![e].pc = pc]
    BY <1>2 DEF Write, Abort
  <2>2. UNCHANGED <<assigned, confirmed, raced>> /\ IsOpen(e)
    BY <1>2 DEF Write, Abort, IsOpen, Open
  <2> QED BY <1>1, <2>1, <2>2 DEF Quiet, IsOpen, Tx
<1>3. ASSUME NEW e \in Editor, ReadPlan(e) PROVE Quiet
  <2>1. tx' = [tx EXCEPT ![e] = [tx[e] EXCEPT !.pc = "alerts", !.targets = Targets(View(e)), !.alone = TRUE]]
    BY <1>3 DEF ReadPlan
  <2>2. UNCHANGED <<assigned, confirmed, raced>> /\ IsOpen(e)
    BY <1>3 DEF ReadPlan, IsOpen, Open, Writing
  <2> QED BY <1>1, <2>1, <2>2 DEF Quiet, IsOpen, Tx
<1>4. ASSUME NEW e \in Editor, ReadAlerts(e) PROVE Quiet
  <2>1. PICK stale, raised :
          tx' = [tx EXCEPT ![e] = [tx[e] EXCEPT !.pc = "commit", !.stale = stale, !.raised = raised]]
    BY <1>4 DEF ReadAlerts
  <2>2. UNCHANGED <<assigned, confirmed, raced>> /\ IsOpen(e)
    BY <1>4 DEF ReadAlerts, IsOpen, Open, Writing
  <2> QED BY <1>1, <2>1, <2>2 DEF Quiet, IsOpen, Tx
<1>5. ASSUME NEW a \in alerts, Ack(a) PROVE Quiet
  BY <1>5 DEF Ack, Quiet, IsOpen
<1>6. CASE UNCHANGED vars
  BY <1>6 DEF vars, Quiet, IsOpen
<1> QED BY <1>2, <1>3, <1>4, <1>5, <1>6 DEF Next

LEMMA QuietVerdicts ==
  ASSUME Verdicts, Quiet
  PROVE  Verdicts'
<1>1. \A e \in Editor : View(e)' = View(e) /\ Rows(e)' = Rows(e)
  BY DEF Quiet, View, Rows
<1>2. OwnRows' /\ OverlapsRace'
  BY <1>1 DEF Verdicts, OwnRows, OverlapsRace, Quiet
<1>3. Judged'
  BY <1>1 DEF Verdicts, Judged, Quiet
<1>4. AllAvailable' /\ DayCapUnlessRaced' /\ OverMaxWasConfirmed'
  BY DEF Verdicts, AllAvailable, Available, DayCapUnlessRaced, DayCapOf, OverMaxWasConfirmed, Quiet
<1> QED BY <1>2, <1>3, <1>4 DEF Verdicts

LEMMA CommitEffect ==
  ASSUME TypeOK, NEW e \in Editor, Commit(e)
  PROVE  /\ IsOpen(e) /\ assigned' = View(e) /\ raced' = raced
         /\ confirmed' = IF tx[e].confirm THEN confirmed \cup {tx[e].worker} ELSE confirmed
         /\ ~IsOpen(e)'
         /\ \A f \in Editor :
              /\ IsOpen(f)' => IsOpen(f)
              /\ tx'[f].worker = tx[f].worker /\ tx'[f].confirm = tx[f].confirm
              /\ tx'[f].gone = tx[f].gone /\ tx'[f].new = tx[f].new
<1>1. tx \in [Editor -> Tx]
  BY DEF TypeOK
<1>2. IsOpen(e) /\ assigned' = View(e) /\ raced' = raced
  BY DEF Commit, IsOpen, Open, Writing
<1>3. tx' = [f \in Editor |-> IF f = e THEN [tx[e] EXCEPT !.pc = "committed"]
                             ELSE [tx[f] EXCEPT !.alone = FALSE]]
  BY DEF Commit
<1>4. ~IsOpen(e)'
  BY <1>1, <1>3 DEF IsOpen, Open, Writing, Tx
<1> QED BY <1>1, <1>2, <1>3, <1>4 DEF Commit, IsOpen, Tx

LEMMA CommitVerdicts ==
  ASSUME TypeOK, Verdicts, NEW e \in Editor, Commit(e)
  PROVE  Verdicts'
<1> DEFINE w == tx[e].worker
<1>1. OwnRows'
  BY CommitEffect DEF Verdicts, OwnRows, Rows
<1>2. OverlapsRace'
  BY CommitEffect DEF Verdicts, OverlapsRace
<1>3. /\ w \in Worker /\ tx[e].gone \cup tx[e].new \subseteq {w} \X Slot
      /\ assigned' = (assigned \ tx[e].gone) \cup tx[e].new
  BY CommitEffect DEF Verdicts, OwnRows, Rows, View
<1>4. \A v : v # w => SlotsOf(v, assigned') = SlotsOf(v, assigned)
  BY <1>3 DEF SlotsOf
<1>5. w \notin raced => /\ DayCapped(SlotsOf(w, assigned'))
                        /\ w \in confirmed' \/ SolverWithinHours(Profile[w], SlotsOf(w, assigned'))
  BY CommitEffect DEF Verdicts, Judged
<1>6. DayCapUnlessRaced'
  BY <1>4, <1>5, CommitEffect DEF Verdicts, DayCapUnlessRaced, DayCapOf, DayCapped
<1>7. OverMaxWasConfirmed'
  BY <1>4, <1>5, CommitEffect DEF Verdicts, OverMaxWasConfirmed
<1>8. AllAvailable'
  BY <1>3, CommitEffect DEF Verdicts, AllAvailable, Available
<1>9. Judged'
  <2> SUFFICES ASSUME NEW f \in Editor, IsOpen(f)', tx[f].worker \notin raced
               PROVE  /\ DayCapped(SlotsOf(tx[f].worker, View(f)'))
                      /\ \/ tx[f].confirm \/ tx[f].worker \in confirmed'
                         \/ SolverWithinHours(Profile[tx[f].worker], SlotsOf(tx[f].worker, View(f)'))
    BY CommitEffect DEF Judged
  <2>1. f # e /\ IsOpen(f) /\ IsOpen(e)
    BY CommitEffect
  <2>2. tx[f].worker # w
    BY <2>1 DEF Verdicts, OverlapsRace
  <2>3. SlotsOf(tx[f].worker, View(f)') = SlotsOf(tx[f].worker, View(f))
    <3>1. View(f)' = (assigned' \ tx[f].gone) \cup tx[f].new
      BY CommitEffect DEF View
    <3>2. \A s \in Slot : <<tx[f].worker, s>> \in assigned' <=> <<tx[f].worker, s>> \in assigned
      BY <1>4, <2>2 DEF SlotsOf
    <3> QED BY <3>1, <3>2 DEF View, SlotsOf
  <2> QED BY <2>1, <2>3, CommitEffect DEF Verdicts, Judged
<1> QED BY <1>1, <1>2, <1>6, <1>7, <1>8, <1>9 DEF Verdicts

\* The worker's slots once an edit is done.
Result(w, edit) ==
  Existing(w, edit, assigned) \cup (IF edit.kind = "remove" THEN {} ELSE {edit.to})

LEMMA ExistingKept ==
  ASSUME NEW w, NEW edit
  PROVE  /\ Existing(w, edit, assigned) \in SUBSET SlotsOf(w, assigned)
         /\ Existing(w, edit, assigned) \in SUBSET Slot /\ SlotsOf(w, assigned) \in SUBSET Slot
BY DEF Existing, SlotsOf

LEMMA FewerSlots ==
  ASSUME NEW S \in SUBSET Slot, NEW T \in SUBSET S
  PROVE  /\ DayCapped(S) => DayCapped(T)
         /\ \A w \in Worker : SolverWithinHours(Profile[w], S) => SolverWithinHours(Profile[w], T)
<1>1. \A s \in Slot : OnDate(S, s.date) \in SUBSET Slot /\ OnDate(T, s.date) \in SUBSET Slot
  BY DEF OnDate
<1>2. \A s \in Slot : /\ Cardinality(OnDate(S, s.date)) \in Nat
                      /\ Cardinality(OnDate(T, s.date)) \in Nat
  BY <1>1, SlotsCount
<1>3. Hours(S) \in Nat /\ Hours(T) \in Nat /\ \A w \in Worker : Profile[w].maxHours \in Nat
  BY SlotsCount, RosterEditConstants
<1> QED BY <1>2, <1>3, NoMore DEF DayCapped, SolverWithinHours

\* What the validator permits keeps the caps, or is warned about.
LEMMA VerdictIsSafe ==
  ASSUME NEW w \in Worker, NEW edit \in Edit,
         Permitted(edit, Profile[w], Existing(w, edit, assigned))
  PROVE  /\ DayCapped(SlotsOf(w, assigned)) => DayCapped(Result(w, edit))
         /\ SolverWithinHours(Profile[w], SlotsOf(w, assigned))
              => \/ Warned(edit, Profile[w], Existing(w, edit, assigned))
                 \/ SolverWithinHours(Profile[w], Result(w, edit))
<1> DEFINE existing == Existing(w, edit, assigned)
<1>1. /\ existing \in SUBSET SlotsOf(w, assigned) /\ existing \in SUBSET Slot
      /\ SlotsOf(w, assigned) \in SUBSET Slot /\ edit.to \in Slot
  BY ExistingKept DEF Edit
<1>2. CASE edit.kind = "remove"
  <2>1. Result(w, edit) = existing
    BY <1>2 DEF Result
  <2> HIDE DEF existing
  <2> QED BY <1>1, <2>1, FewerSlots
<1>3. CASE edit.kind # "remove"
  <2>1. Result(w, edit) = existing \cup {edit.to}
    BY <1>3 DEF Result
  <2>2. edit.to \notin existing /\ Cardinality(OnDate(existing, edit.to.date)) + 1 <= 2
    BY <1>3 DEF Permitted, NoDuplicateSlot, MaxTwoShiftsPerDay
  <2>3. ~(Hours(existing) + ShiftHours > Profile[w].maxHours)
          \/ Warned(edit, Profile[w], existing)
    BY <1>3 DEF Warned, ExceedsMaxMonthlyHours
  <2> HIDE DEF existing
  <2>4. DayCapped(SlotsOf(w, assigned)) => DayCapped(existing)
    BY <1>1, FewerSlots
  <2>5. DayCapped(SlotsOf(w, assigned)) => DayCapped(Result(w, edit))
    BY <1>1, <2>1, <2>2, <2>4, DayCapAfter
  <2>6. Hours(Result(w, edit)) = Hours(existing) + ShiftHours /\ Hours(existing) \in Nat
    BY <1>1, <2>1, <2>2, OneMore, SlotsCount
  <2>7. \/ SolverWithinHours(Profile[w], Result(w, edit))
        \/ Warned(edit, Profile[w], existing)
    BY <2>3, <2>6, RosterEditConstants DEF SolverWithinHours, ShiftHours
  <2> QED BY <2>5, <2>7 DEF existing
<1> QED BY <1>2, <1>3

LEMMA BeginVerdicts ==
  ASSUME TypeOK, Verdicts, NEW e \in Editor, Begin(e)
  PROVE  Verdicts'
<1>1. PICK w \in Worker, edit \in Edit :
        /\ edit \in Edits(w) /\ tx[e].pc = "idle"
        /\ Permitted(edit, Profile[w], Existing(w, edit, assigned))
        /\ tx' = [tx EXCEPT ![e] = Opened(w, edit, Existing(w, edit, assigned))]
        /\ raced' = IF \E f \in Editor : IsOpen(f) /\ tx[f].worker = w
                    THEN raced \cup {w} ELSE raced
  BY BeginEffect
<1> DEFINE opened == Opened(w, edit, Existing(w, edit, assigned))
<1>2. /\ UNCHANGED <<assigned, confirmed>>
      /\ tx'[e] = opened /\ \A f \in Editor : f # e => tx'[f] = tx[f]
      /\ raced \subseteq raced' /\ ~IsOpen(e)
  BY <1>1 DEF Begin, TypeOK, IsOpen, Open, Writing
<1>3. /\ opened.worker = w /\ opened.gone \cup opened.new \subseteq {w} \X Slot
      /\ opened.confirm = Warned(edit, Profile[w], Existing(w, edit, assigned))
  BY <1>1, OpenedType DEF Opened
<1>4. \A f \in Editor : f # e =>
        (IsOpen(f)' <=> IsOpen(f)) /\ View(f)' = View(f) /\ Rows(f)' = Rows(f)
  BY <1>2 DEF IsOpen, View, Rows
<1>5. OwnRows'
  <2>1. Rows(e)' = opened.gone \cup opened.new
    BY <1>2 DEF Rows
  <2> HIDE DEF opened
  <2> QED BY <1>2, <1>3, <1>4, <2>1 DEF Verdicts, OwnRows
<1>6. OverlapsRace'
  <2>1. \A f \in Editor : f # e /\ IsOpen(f) /\ tx[f].worker = w => w \in raced'
    BY <1>1
  <2> HIDE DEF opened
  <2> QED BY <1>2, <1>3, <1>4, <2>1 DEF Verdicts, OverlapsRace
<1>7. SlotsOf(w, View(e)') = Result(w, edit)
  <2>1. View(e)' = (assigned \ opened.gone) \cup opened.new
    BY <1>2 DEF View
  <2>2. /\ opened.gone = IF edit.kind = "add" THEN {} ELSE {<<w, edit.from>>}
        /\ opened.new = IF edit.kind = "remove" THEN {} ELSE {<<w, edit.to>>}
    BY DEF Opened
  <2>3. edit.to \in Slot
    BY DEF Edit
  <2> HIDE DEF opened
  <2> QED BY <2>1, <2>2, <2>3 DEF Result, Existing, SlotsOf
<1>8. w \notin raced =>
        /\ DayCapped(SlotsOf(w, View(e)'))
        /\ \/ opened.confirm \/ w \in confirmed
           \/ SolverWithinHours(Profile[w], SlotsOf(w, View(e)'))
  <2>1. w \notin raced => DayCapped(SlotsOf(w, assigned))
    BY DEF Verdicts, DayCapUnlessRaced, DayCapOf, DayCapped
  <2>2. w \notin raced => w \in confirmed \/ SolverWithinHours(Profile[w], SlotsOf(w, assigned))
    BY DEF Verdicts, OverMaxWasConfirmed
  <2> HIDE DEF opened
  <2> QED BY <1>1, <1>3, <1>7, <2>1, <2>2, VerdictIsSafe
<1>9. Judged'
  <2> SUFFICES ASSUME NEW f \in Editor, IsOpen(f)', tx'[f].worker \notin raced'
               PROVE  /\ DayCapped(SlotsOf(tx'[f].worker, View(f)'))
                      /\ \/ tx'[f].confirm \/ tx'[f].worker \in confirmed
                         \/ SolverWithinHours(Profile[tx'[f].worker], SlotsOf(tx'[f].worker, View(f)'))
    BY <1>2 DEF Judged
  <2> HIDE DEF opened
  <2>1. CASE f = e
    BY <1>2, <1>3, <1>8, <2>1
  <2>2. CASE f # e
    BY <1>2, <1>4, <2>2 DEF Verdicts, Judged
  <2> QED BY <2>1, <2>2
<1>10. AllAvailable'
  <2>1. edit.kind # "remove" => edit.to \notin Profile[w].excluded
    BY <1>1 DEF Permitted, WithinAvailability
  <2>2. opened.new = IF edit.kind = "remove" THEN {} ELSE {<<w, edit.to>>}
    BY DEF Opened
  <2> HIDE DEF opened
  <2>3. Available(opened.new)
    BY <2>1, <2>2 DEF Available
  <2> QED BY <1>2, <2>3 DEF Verdicts, AllAvailable, Available
<1>11. DayCapUnlessRaced' /\ OverMaxWasConfirmed'
  BY <1>2 DEF Verdicts, DayCapUnlessRaced, DayCapOf, OverMaxWasConfirmed
<1> QED BY <1>5, <1>6, <1>9, <1>10, <1>11 DEF Verdicts

-----------------------------------------------------------------------------
(* An edit that is not overtaken *)

LEMMA NextSoloKnows ==
  ASSUME TypeOK, SoloKnows, [Next]_vars
  PROVE  SoloKnows'
<1>1. tx \in [Editor -> Tx]
  BY DEF TypeOK
<1>2. ASSUME NEW e \in Editor, Begin(e) PROVE SoloKnows'
  <2>1. PICK w, edit :
          tx' = [tx EXCEPT ![e] = Opened(w, edit, Existing(w, edit, assigned))]
    BY <1>2 DEF Begin
  <2>2. UNCHANGED <<assigned, alerts>> /\ ~tx'[e].alone /\ \A f \in Editor : f # e => tx'[f] = tx[f]
    BY <1>1, <1>2, <2>1 DEF Begin, Opened
  <2> QED BY <2>2 DEF SoloKnows, KnowsPlan, KnowsAlerts, View
<1>3. ASSUME NEW e \in Editor, Write(e) \/ Abort(e) PROVE SoloKnows'
  <2>1. PICK pc \in {"plan", "aborted"} : tx' = [tx EXCEPT ![e].pc = pc]
    BY <1>3 DEF Write, Abort
  <2>2. /\ UNCHANGED <<assigned, alerts>> /\ tx'[e].pc \notin {"alerts", "commit"}
        /\ \A f \in Editor : f # e => tx'[f] = tx[f]
    BY <1>1, <1>3, <2>1 DEF Write, Abort, Tx
  <2> QED BY <2>2 DEF SoloKnows, KnowsPlan, KnowsAlerts, View
<1>4. ASSUME NEW e \in Editor, ReadPlan(e) PROVE SoloKnows'
  <2>1. tx' = [tx EXCEPT ![e] = [tx[e] EXCEPT !.pc = "alerts", !.targets = Targets(View(e)), !.alone = TRUE]]
    BY <1>4 DEF ReadPlan
  <2>2. /\ UNCHANGED <<assigned, alerts>> /\ tx'[e].pc = "alerts" /\ tx'[e].targets = Targets(View(e))
        /\ tx'[e].gone = tx[e].gone /\ tx'[e].new = tx[e].new
        /\ \A f \in Editor : f # e => tx'[f] = tx[f]
    BY <1>1, <1>4, <2>1 DEF ReadPlan, Tx
  <2>3. KnowsPlan(e)'
    BY <2>2 DEF KnowsPlan, View
  <2> QED BY <2>2, <2>3 DEF SoloKnows, KnowsPlan, KnowsAlerts, View
<1>5. ASSUME NEW e \in Editor, ReadAlerts(e) PROVE SoloKnows'
  <2> DEFINE stale == Ids(Stale(alerts, tx[e].targets))
             raised == tx[e].targets \ Abouts(alerts \ Stale(alerts, tx[e].targets))
  <2>1. tx' = [tx EXCEPT ![e] = [tx[e] EXCEPT !.pc = "commit", !.stale = stale, !.raised = raised]]
    BY <1>5 DEF ReadAlerts
  <2> HIDE DEF stale, raised
  <2> DEFINE row == [tx[e] EXCEPT !.pc = "commit", !.stale = stale, !.raised = raised]
  <2>a. /\ row.pc = "commit" /\ row.targets = tx[e].targets /\ row.alone = tx[e].alone
        /\ row.stale = stale /\ row.raised = raised
        /\ row.gone = tx[e].gone /\ row.new = tx[e].new
    BY <1>1 DEF Tx
  <2> HIDE DEF row
  <2>2. /\ UNCHANGED <<assigned, alerts>> /\ tx[e].pc = "alerts"
        /\ tx'[e].pc = "commit" /\ tx'[e].targets = tx[e].targets /\ tx'[e].alone = tx[e].alone
        /\ tx'[e].stale = stale /\ tx'[e].raised = raised
        /\ tx'[e].gone = tx[e].gone /\ tx'[e].new = tx[e].new
        /\ \A f \in Editor : f # e => tx'[f] = tx[f]
    <3>1. tx' = [tx EXCEPT ![e] = row]
      BY <2>1 DEF row
    <3> QED BY <1>1, <1>5, <2>a, <3>1 DEF ReadAlerts
  <2>3. KnowsAlerts(e)'
    BY <2>2 DEF KnowsAlerts, stale, raised
  <2>4. KnowsPlan(e) => KnowsPlan(e)'
    BY <2>2 DEF KnowsPlan, View
  <2> QED BY <2>2, <2>3, <2>4 DEF SoloKnows, KnowsPlan, KnowsAlerts, View
<1>6. ASSUME NEW e \in Editor, Commit(e) PROVE SoloKnows'
  <2>1. tx' = [f \in Editor |-> IF f = e THEN [tx[e] EXCEPT !.pc = "committed"]
                               ELSE [tx[f] EXCEPT !.alone = FALSE]]
    BY <1>6 DEF Commit
  <2>2. tx'[e].pc = "committed" /\ \A f \in Editor : f # e => ~tx'[f].alone
    BY <1>1, <2>1 DEF Tx
  <2> QED BY <2>2 DEF SoloKnows
<1>7. ASSUME NEW a \in alerts, Ack(a) PROVE SoloKnows'
  <2> DEFINE acked == [a EXCEPT !.acked = TRUE]
  <2>1. UNCHANGED <<assigned, tx>> /\ alerts' = (alerts \ {a}) \cup {acked}
    BY <1>7 DEF Ack
  <2>2. a \in Alert
    BY DEF TypeOK
  <2>3. acked.about = a.about /\ acked.by = a.by
    BY <2>2 DEF Alert
  <2> HIDE DEF acked
  <2>4. /\ \A b \in alerts' : \E c \in alerts : c.about = b.about /\ c.by = b.by
        /\ \A b \in alerts : \E c \in alerts' : c.about = b.about /\ c.by = b.by
    BY <2>1, <2>3
  <2>5. ASSUME NEW targets
        PROVE  /\ Ids(Stale(alerts', targets)) = Ids(Stale(alerts, targets))
               /\ Abouts(alerts' \ Stale(alerts', targets)) = Abouts(alerts \ Stale(alerts, targets))
    <3>1. Ids(Stale(alerts', targets)) = Ids(Stale(alerts, targets))
      BY <2>4 DEF Ids, Stale
    <3>2. Abouts(alerts' \ Stale(alerts', targets)) = Abouts(alerts \ Stale(alerts, targets))
      BY <2>4 DEF Abouts, Stale
    <3> QED BY <3>1, <3>2
  <2> QED BY <2>1, <2>5 DEF SoloKnows, KnowsPlan, KnowsAlerts, View
<1>8. CASE UNCHANGED vars
  BY <1>8 DEF vars, SoloKnows, KnowsPlan, KnowsAlerts, View
<1> QED BY <1>2, <1>3, <1>4, <1>5, <1>6, <1>7, <1>8 DEF Next

-----------------------------------------------------------------------------
(* Theorems *)

\* The invariant behind the results below: an edit's verdict still holds when it
\* commits unless another edit of the worker overlapped it, and an edit that is not
\* overtaken still knows the plan and the alerts.
THEOREM InductiveInvariant == Spec => []IInv
<1>1. IInv /\ [Next]_vars => IInv'
  <2> SUFFICES ASSUME IInv, [Next]_vars PROVE IInv'
    OBVIOUS
  <2>1. TypeOK /\ OwnRows /\ SoloKnows /\ Verdicts
    BY DEF IInv, Verdicts
  <2>2. Verdicts'
    BY <2>1, StepsAreQuiet, QuietVerdicts, BeginVerdicts, CommitVerdicts
  <2> QED BY <2>1, <2>2, NextTypeOK, NextSoloKnows DEF IInv, Verdicts
<1> QED BY InitIInv, <1>1, PTL DEF Spec

\* Every variable of the edits keeps its type.
THEOREM TypeCorrect == Spec => []TypeOK
BY InductiveInvariant, PTL DEF IInv

\* Any number of edits at the same time keep the cap of two shifts a day for every
\* worker no two of whose edits overlapped (MAX_TWO_SHIFTS_PER_DAY under READ COMMITTED).
THEOREM DayCapHolds == Spec => []DayCapUnlessRaced
BY InductiveInvariant, PTL DEF IInv

\* And nobody's hours pass the contract's maximum without a confirmed edit of that
\* worker (enforceVerdict).
THEOREM OverMaxIsConfirmed == Spec => []OverMaxWasConfirmed
BY InductiveInvariant, PTL DEF IInv

\* In every state, for one worker and one edit the validator and the solver agree.
LEMMA RulesAgree ==
  ASSUME IInv, NEW w \in Worker, NEW edit \in Edits(w),
         w \in ActiveWorkers, edit.kind # "remove", DayCapOf(w),
         NEW kept \in SUBSET SlotsOf(w, assigned), edit.to \notin kept,
         kept = Existing(w, edit, assigned)
  PROVE  /\ Permitted(edit, Profile[w], kept) <=> SolverAssignable(Profile[w], kept \cup {edit.to})
         /\ ExceedsMaxMonthlyHours(edit, Profile[w], kept)
              <=> ~SolverWithinHours(Profile[w], kept \cup {edit.to})
<1> DEFINE result == kept \cup {edit.to}
<1>1. /\ SlotsOf(w, assigned) \in SUBSET Slot /\ edit.to \in Slot /\ kept \in SUBSET Slot
      /\ edit.role = Profile[w].role /\ Profile[w].status = "ACTIVE" /\ result \in SUBSET Slot
  BY DEF SlotsOf, Edits, ActiveWorkers
<1>2. DayCapped(SlotsOf(w, assigned))
  BY DEF DayCapOf, DayCapped
<1>3. DayCapped(kept)
  BY <1>1, <1>2, FewerSlots
<1>4. DayCapped(result) <=> Cardinality(OnDate(kept, edit.to.date)) + 1 <= 2
  BY <1>1, <1>3, DayCapAfter
<1>5. DayCapped(result) <=> \A s \in result : Cardinality(OnDate(result, s.date)) <= 2
  <2> HIDE DEF result
  <2>1. DayCapped(result) => \A s \in result : Cardinality(OnDate(result, s.date)) <= 2
    BY <1>1 DEF DayCapped
  <2> QED BY <1>1, <2>1, CapOnHeldDates
<1>6. kept \cap Profile[w].excluded = {}
  BY DEF IInv, AllAvailable, Available, SlotsOf
<1>7. Permitted(edit, Profile[w], kept) <=> edit.to \notin Profile[w].excluded /\ DayCapped(result)
  <2> HIDE DEF result
  <2> QED BY <1>1, <1>4 DEF Permitted, WorkerIsActive, RoleMatchesSlot, WithinAvailability,
                            NoDuplicateSlot, MaxTwoShiftsPerDay
<1>8. SolverAssignable(Profile[w], result) <=> edit.to \notin Profile[w].excluded /\ DayCapped(result)
  BY <1>1, <1>5, <1>6 DEF SolverAssignable
<1>9. Hours(result) = Hours(kept) + ShiftHours
  BY <1>1, OneMore
<1>10. ExceedsMaxMonthlyHours(edit, Profile[w], kept) <=> ~SolverWithinHours(Profile[w], result)
  <2>1. Hours(kept) \in Nat /\ Profile[w].maxHours \in Nat
    BY <1>1, SlotsCount, RosterEditConstants
  <2> HIDE DEF result
  <2> QED BY <1>9, <2>1 DEF ExceedsMaxMonthlyHours, SolverWithinHours, ShiftHours
<1> QED BY <1>7, <1>8, <1>10

\* In every roster that edits can bring about, the validator refuses and warns exactly
\* where the solver's constraints would (validator.ts, solve_roster.py).
THEOREM ValidatorIsTheSolver == Spec => []ValidatorAgreesWithSolver
<1>1. IInv => ValidatorAgreesWithSolver
  <2> SUFFICES ASSUME IInv, NEW w \in Worker, NEW edit \in Edits(w),
                      w \in ActiveWorkers, edit.kind # "remove", DayCapOf(w),
                      edit.to \notin IF edit.kind = "move" THEN SlotsOf(w, assigned) \ {edit.from}
                                    ELSE SlotsOf(w, assigned)
               PROVE  LET slots == SlotsOf(w, assigned)
                          kept == IF edit.kind = "move" THEN slots \ {edit.from} ELSE slots
                          existing == Existing(w, edit, assigned)
                      IN /\ Permitted(edit, Profile[w], existing)
                              <=> SolverAssignable(Profile[w], kept \cup {edit.to})
                         /\ ExceedsMaxMonthlyHours(edit, Profile[w], existing)
                              <=> ~SolverWithinHours(Profile[w], kept \cup {edit.to})
    BY DEF ValidatorAgreesWithSolver
  <2> DEFINE kept == IF edit.kind = "move" THEN SlotsOf(w, assigned) \ {edit.from}
                     ELSE SlotsOf(w, assigned)
  <2>1. kept = Existing(w, edit, assigned) /\ kept \in SUBSET SlotsOf(w, assigned)
    BY DEF Existing, Edits, EditKind
  <2>2. edit.to \notin kept
    OBVIOUS
  <2> HIDE DEF kept
  <2>3. /\ Permitted(edit, Profile[w], kept) <=> SolverAssignable(Profile[w], kept \cup {edit.to})
        /\ ExceedsMaxMonthlyHours(edit, Profile[w], kept)
             <=> ~SolverWithinHours(Profile[w], kept \cup {edit.to})
    BY <2>1, <2>2, RulesAgree
  <2> QED BY <2>1, <2>3 DEF kept
<1> QED BY InductiveInvariant, <1>1, PTL

\* What the commit of an edit that was not overtaken does to the alerts.
LEMMA SoloCommit ==
  ASSUME IInv, [Next]_vars, NEW e \in Editor, Commits(e), tx[e].alone
  PROVE  /\ assigned' = View(e) /\ tx[e].targets = Targets(View(e))
         /\ alerts' = {a \in alerts : a.about \in tx[e].targets}
                        \cup [about : tx[e].raised, by : {e}, acked : {FALSE}]
         /\ tx[e].raised = tx[e].targets \ Abouts({a \in alerts : a.about \in tx[e].targets})
<1>1. tx \in [Editor -> Tx] /\ tx[e].pc = "commit" /\ tx'[e].pc = "committed"
  BY DEF IInv, TypeOK, Commits
<1>2. Commit(e)
  <2>1. ASSUME NEW f \in Editor, f # e, Commit(f) PROVE FALSE
    <3>1. tx'[e] = [tx[e] EXCEPT !.alone = FALSE]
      BY <2>1 DEF Commit
    <3> QED BY <1>1, <3>1 DEF Tx
  <2>2. ASSUME NEW f \in Editor, Begin(f) PROVE FALSE
    <3>1. PICK w, edit :
            tx' = [tx EXCEPT ![f] = Opened(w, edit, Existing(w, edit, assigned))]
      BY <2>2 DEF Begin
    <3>2. tx'[e].pc \in {tx[e].pc, "write"}
      BY <1>1, <3>1 DEF Opened
    <3> QED BY <1>1, <3>2
  <2>3. ASSUME Quiet PROVE FALSE
    BY <1>1, <2>3 DEF Quiet
  <2> QED BY <2>1, <2>2, <2>3, StepsAreQuiet DEF IInv
<1>3. KnowsPlan(e) /\ KnowsAlerts(e)
  BY <1>1 DEF IInv, SoloKnows
<1>4. /\ assigned' = View(e)
      /\ alerts' = {a \in alerts : <<a.about, a.by>> \notin tx[e].stale}
                    \cup [about : tx[e].raised, by : {e}, acked : {FALSE}]
  BY <1>2 DEF Commit
<1>5. \A a \in alerts : <<a.about, a.by>> \in tx[e].stale <=> a.about \notin tx[e].targets
  BY <1>3 DEF KnowsAlerts, Ids, Stale
<1>6. alerts \ Stale(alerts, tx[e].targets) = {a \in alerts : a.about \in tx[e].targets}
  BY DEF Stale
<1>7. {a \in alerts : <<a.about, a.by>> \notin tx[e].stale} = {a \in alerts : a.about \in tx[e].targets}
  BY <1>5
<1> QED BY <1>3, <1>4, <1>6, <1>7 DEF KnowsPlan, KnowsAlerts

\* Whatever overlapping edits have left behind, one that nobody overtakes leaves
\* exactly the alerts the roster deserves (recomputeRosterAlerts).
THEOREM SoloEditsRepair == Spec => SoloEditRepairs
<1> DEFINE Step == \A e \in Editor : Commits(e) /\ tx[e].alone => Abouts(alerts') = Targets(assigned')
<1>1. IInv /\ [Next]_vars => Step
  <2> SUFFICES ASSUME IInv, [Next]_vars, NEW e \in Editor, Commits(e), tx[e].alone
               PROVE  Abouts(alerts') = Targets(assigned')
    OBVIOUS
  <2> DEFINE kept == {a \in alerts : a.about \in tx[e].targets}
             new == [about : tx[e].raised, by : {e}, acked : {FALSE}]
  <2>1. alerts' = kept \cup new /\ Targets(assigned') = tx[e].targets
        /\ tx[e].raised = tx[e].targets \ Abouts(kept)
    BY SoloCommit
  <2>2. Abouts(new) = tx[e].raised
    <3>1. \A t \in tx[e].raised : \E a \in new : a.about = t
      <4>1. \A t \in tx[e].raised : [about |-> t, by |-> e, acked |-> FALSE] \in new
        OBVIOUS
      <4> QED BY <4>1
    <3>2. \A a \in new : a.about \in tx[e].raised
      OBVIOUS
    <3> HIDE DEF new
    <3> QED BY <3>1, <3>2 DEF Abouts
  <2>3. Abouts(kept) \subseteq tx[e].targets
    BY DEF Abouts
  <2> HIDE DEF kept, new
  <2>4. Abouts(alerts') = Abouts(kept) \cup Abouts(new)
    BY <2>1 DEF Abouts
  <2> QED BY <2>1, <2>2, <2>3, <2>4
<1>2. IInv /\ [Next]_vars => [Step]_vars
  BY <1>1
<1>3. [][Step]_vars => SoloEditRepairs
  BY PTL DEF SoloEditRepairs
<1> HIDE DEF Step
<1> QED BY InductiveInvariant, <1>2, <1>3, PTL DEF Spec

\* It keeps every acknowledgment of an alert that still applies, one made while it
\* was running included.
THEOREM AcknowledgmentsSurvive == Spec => AcksSurvive
<1> DEFINE Step == \A e \in Editor : Commits(e) /\ tx[e].alone =>
                     \A a \in alerts : a.acked /\ a.about \in Targets(assigned') => a \in alerts'
<1>1. IInv /\ [Next]_vars => [Step]_vars
  <2> SUFFICES ASSUME IInv, [Next]_vars, NEW e \in Editor, Commits(e), tx[e].alone,
                      NEW a \in alerts, a.acked, a.about \in Targets(assigned')
               PROVE  a \in alerts'
    OBVIOUS
  <2>1. /\ alerts' = {b \in alerts : b.about \in tx[e].targets}
                     \cup [about : tx[e].raised, by : {e}, acked : {FALSE}]
        /\ Targets(assigned') = tx[e].targets
    BY SoloCommit
  <2> QED BY <2>1
<1>2. [][Step]_vars => AcksSurvive
  BY PTL DEF AcksSurvive
<1> HIDE DEF Step
<1> QED BY InductiveInvariant, <1>1, <1>2, PTL DEF Spec
=============================================================================
