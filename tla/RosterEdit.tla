------------------------------ MODULE RosterEdit ------------------------------
(***************************************************************************)
(* Manual edits of one generated roster, by planners working at the same   *)
(* time (apps/api/src/services/shiftWorkerService.ts, alertRecompute.ts).  *)
(*                                                                         *)
(* addWorker, moveWorker and removeWorker each run in one READ COMMITTED   *)
(* transaction: every statement sees what is committed when it starts, and *)
(* the transaction's own writes.  A step is one such statement, except     *)
(* that statements whose effects nobody else sees before the commit are    *)
(* taken together with it.  Profiles and requirements do not change here.  *)
(***************************************************************************)
EXTENDS RosterRules

CONSTANTS
  Worker,
  Profile,     \* Profile[w]: role, status, contract and availability of w
  Slot,        \* the shifts of the roster, as [date, shift]
  Required,    \* Required[role, shift]: the staffing requirements matrix
  Editor,      \* edit requests, one edit each
  None

ASSUME RosterEditConstants ==
  /\ IsFiniteSet(Worker)
  /\ IsFiniteSet(Slot)
  /\ None \notin Editor
  \* Contract: minMonthlyHours and maxMonthlyHours are nonnegative integers.
  /\ \A w \in Worker : Profile[w].minHours \in Nat /\ Profile[w].maxHours \in Nat

VARIABLES
  assigned,    \* committed rows of shift_workers: <<worker, slot>>
  alerts,      \* committed rows of alerts
  tx,          \* the edits' transactions
  confirmed,   \* history: workers some committed edit of whom was confirmed
  raced        \* history: workers two of whose edits overlapped

vars == <<assigned, alerts, tx, confirmed, raced>>

Assignment == Worker \X Slot
Role == {Profile[w].role : w \in Worker}
Deficit == 1..Hours(Slot) \cup UNION {1..Profile[w].minHours : w \in Worker}
About == ({"UNFILLABLE_SLOT"} \X Slot \X Role)
           \cup ({"MIN_HOURS_SHORTFALL"} \X Worker \X Deficit)

\* `by' is the edit that raised the alert, None if the solver did: it stands for
\* the row's id.
Alert == [about : About, by : Editor \cup {None}, acked : BOOLEAN]

NoTx == [pc |-> "idle", worker |-> None, gone |-> {}, new |-> {}, confirm |-> FALSE,
         targets |-> {}, stale |-> {}, raised |-> {}, alone |-> FALSE]

\* A transaction that has written holds its rows until it ends.
Writing == {"plan", "alerts", "commit"}
Open == Writing \cup {"write"}

Plans == SUBSET Assignment
AboutSets == SUBSET About
IdSets == SUBSET (About \X (Editor \cup {None}))
Pc == Open \cup {"idle", "committed", "aborted"}
Tx == [pc : Pc, worker : Worker \cup {None}, gone : Plans, new : Plans, confirm : BOOLEAN,
       targets : AboutSets, stale : IdSets, raised : AboutSets, alone : BOOLEAN]

TypeOK ==
  /\ assigned \in Plans
  /\ alerts \subseteq Alert
  /\ tx \in [Editor -> Tx]
  /\ confirmed \subseteq Worker
  /\ raced \subseteq Worker

-----------------------------------------------------------------------------
SlotsOf(w, plan) == {s \in Slot : <<w, s>> \in plan}

Staff(role, slot, plan) == {w \in Worker : Profile[w].role = role /\ <<w, slot>> \in plan}

ActiveWorkers == {w \in Worker : Profile[w].status = "ACTIVE"}

Understaffed(plan) ==
  {<<"UNFILLABLE_SLOT", p[1], p[2]>> : p \in
     {q \in Slot \X Role : Cardinality(Staff(q[2], q[1], plan)) < Required[<<q[2], q[1].shift>>]}}

MutShortOfHours(plan) ==
  {<<"MIN_HOURS_SHORTFALL", w, Profile[w].minHours - Hours(SlotsOf(w, plan))>> : w \in ActiveWorkers}

\* The alert's detail names the deficit: another deficit is another alert.
ShortOfHours(plan) ==
  {<<"MIN_HOURS_SHORTFALL", w, Profile[w].minHours - Hours(SlotsOf(w, plan))>> : w \in
     {v \in ActiveWorkers : Hours(SlotsOf(v, plan)) < Profile[v].minHours}}

Targets(plan) == Understaffed(plan) \cup ShortOfHours(plan)

Abouts(as) == {a.about : a \in as}

\* What the solver may have left: see RosterRules, and HARD (a) coverage.
Solved(plan) ==
  /\ \A w \in Worker : LET slots == SlotsOf(w, plan) IN
       slots # {} => SolverAssignable(Profile[w], slots) /\ SolverWithinHours(Profile[w], slots)
  /\ \A s \in Slot, role \in Role : Cardinality(Staff(role, s, plan)) <= Required[<<role, s.shift>>]

Init ==
  /\ assigned \in {plan \in SUBSET Assignment : Solved(plan)}
  /\ alerts = [about : Targets(assigned), by : {None}, acked : {FALSE}]
  /\ tx = [e \in Editor |-> NoTx]
  /\ confirmed = {}
  /\ raced = {}

-----------------------------------------------------------------------------
(* The statements of an edit *)

\* loadExistingShifts leaves out the shift the worker moves or is removed from.
MutExisting(w, edit, plan) == SlotsOf(w, plan)
Existing(w, edit, plan) ==
  IF edit.kind = "add" THEN SlotsOf(w, plan) ELSE SlotsOf(w, plan) \ {edit.from}

\* The service always asks for the worker's own role.
Edits(w) == [kind : EditKind, from : Slot, to : Slot, role : {Profile[w].role}]

\* 404: a move or a remove needs the assignment it gives up.
Found(w, edit, plan) == edit.kind # "add" => <<w, edit.from>> \in plan

\* The transaction of an edit that has passed.
Opened(w, edit, existing) ==
  [pc |-> "write", worker |-> w,
   gone |-> IF edit.kind = "add" THEN {} ELSE {<<w, edit.from>>},
   new |-> IF edit.kind = "remove" THEN {} ELSE {<<w, edit.to>>},
   confirm |-> Warned(edit, Profile[w], existing),
   targets |-> {}, stale |-> {}, raised |-> {}, alone |-> FALSE]

\* Look everything up and pass the validator; a warning must be confirmed.
Begin(e) ==
  /\ tx[e].pc = "idle"
  /\ \E w \in Worker : \E edit \in Edits(w) :
       LET existing == Existing(w, edit, assigned) IN
       /\ Found(w, edit, assigned)
       /\ Permitted(edit, Profile[w], existing)
       /\ tx' = [tx EXCEPT ![e] = Opened(w, edit, existing)]
       /\ raced' = IF \E f \in Editor : tx[f].pc \in Open /\ tx[f].worker = w
                   THEN raced \cup {w} ELSE raced
  /\ UNCHANGED <<assigned, alerts, confirmed>>

Rows(e) == tx[e].gone \cup tx[e].new

\* The committed rows, with the transaction's own writes.
View(e) == (assigned \ tx[e].gone) \cup tx[e].new

\* DELETE and INSERT of shift_workers rows.  A row another transaction has
\* written makes the statement wait; a missing row (P2025) or the primary key
\* (P2002) then ends the transaction.
Write(e) ==
  /\ tx[e].pc = "write"
  /\ \A f \in Editor \ {e} : tx[f].pc \in Writing => Rows(e) \cap Rows(f) = {}
  /\ tx' = [tx EXCEPT ![e].pc =
              IF tx[e].gone \subseteq assigned /\ tx[e].new \cap (assigned \ tx[e].gone) = {}
              THEN "plan" ELSE "aborted"]
  /\ UNCHANGED <<assigned, alerts, confirmed, raced>>

MutReadPlan(e) ==
  /\ tx[e].pc = "plan"
  /\ tx' = [tx EXCEPT ![e] = [@ EXCEPT !.pc = "alerts", !.targets = Targets(assigned), !.alone = TRUE]]
  /\ UNCHANGED <<assigned, alerts, confirmed, raced>>

\* recomputeRosterAlerts reads the shifts with their workers ...
ReadPlan(e) ==
  /\ tx[e].pc = "plan"
  /\ tx' = [tx EXCEPT ![e] = [@ EXCEPT !.pc = "alerts", !.targets = Targets(View(e)), !.alone = TRUE]]
  /\ UNCHANGED <<assigned, alerts, confirmed, raced>>

\* Alerts as their rows' ids.
Ids(as) == {<<a.about, a.by>> : a \in as}

MutStale(as, targets) == as
\* Alerts that no longer apply are deleted, those that do are left untouched.
Stale(as, targets) == {a \in as : a.about \notin targets}

\* ... and then the existing alerts, and sorts out the difference.
ReadAlerts(e) ==
  /\ tx[e].pc = "alerts"
  /\ LET stale == Stale(alerts, tx[e].targets) IN
     tx' = [tx EXCEPT ![e] =
              [@ EXCEPT !.pc = "commit", !.stale = Ids(stale),
                        !.raised = tx[e].targets \ Abouts(alerts \ stale)]]
  /\ UNCHANGED <<assigned, alerts, confirmed, raced>>

\* DELETE by id, INSERT, COMMIT.
Commit(e) ==
  /\ tx[e].pc = "commit"
  /\ assigned' = View(e)
  /\ alerts' = {a \in alerts : <<a.about, a.by>> \notin tx[e].stale}
                 \cup [about : tx[e].raised, by : {e}, acked : {FALSE}]
  /\ tx' = [f \in Editor |-> IF f = e THEN [tx[e] EXCEPT !.pc = "committed"]
                             ELSE [tx[f] EXCEPT !.alone = FALSE]]
  /\ confirmed' = IF tx[e].confirm THEN confirmed \cup {tx[e].worker} ELSE confirmed
  /\ UNCHANGED raced

\* The connection is lost, or the transaction times out: nothing remains.
Abort(e) ==
  /\ tx[e].pc \in Open
  /\ tx' = [tx EXCEPT ![e].pc = "aborted"]
  /\ UNCHANGED <<assigned, alerts, confirmed, raced>>

\* ackAlert on a committed alert.
Ack(a) ==
  /\ ~a.acked
  /\ alerts' = (alerts \ {a}) \cup {[a EXCEPT !.acked = TRUE]}
  /\ UNCHANGED <<assigned, tx, confirmed, raced>>

Next ==
  \/ \E e \in Editor :
       Begin(e) \/ Write(e) \/ ReadPlan(e) \/ ReadAlerts(e) \/ Commit(e) \/ Abort(e)
  \/ \E a \in alerts : Ack(a)

Spec == Init /\ [][Next]_vars

-----------------------------------------------------------------------------
(* Properties *)

DayCapOf(w) == \A s \in Slot : Cardinality(OnDate(SlotsOf(w, assigned), s.date)) <= 2

\* Nobody works more than two shifts a day, as long as no two edits of the same
\* worker overlap: the validator's reads and the insert are in one transaction,
\* but READ COMMITTED does not keep another insert out.
DayCapUnlessRaced == \A w \in Worker \ raced : DayCapOf(w)

\* Nobody's hours exceed the contract unless a planner confirmed an edit of that
\* worker (enforceVerdict), with the same exception.
OverMaxWasConfirmed ==
  \A w \in Worker \ (raced \cup confirmed) :
    SolverWithinHours(Profile[w], SlotsOf(w, assigned))

\* In every roster that can come about the validator lets a worker into a slot
\* exactly when the solver could have assigned the resulting shifts, and warns of
\* the maximum exactly when the solver would have been over it.
ValidatorAgreesWithSolver ==
  \A w \in Worker : \A edit \in Edits(w) :
    LET slots == SlotsOf(w, assigned)
        kept == IF edit.kind = "move" THEN slots \ {edit.from} ELSE slots
        result == kept \cup {edit.to}
        existing == Existing(w, edit, assigned)
    IN (/\ w \in ActiveWorkers
        /\ edit.kind # "remove"
        /\ Found(w, edit, assigned)
        /\ edit.to \notin kept
        /\ DayCapOf(w))
       => /\ Permitted(edit, Profile[w], existing) <=> SolverAssignable(Profile[w], result)
          /\ ExceedsMaxMonthlyHours(edit, Profile[w], existing)
               <=> ~SolverWithinHours(Profile[w], result)

Commits(e) == tx[e].pc = "commit" /\ tx'[e].pc = "committed"

\* An edit that no other commit overtakes between its reading of the plan and its
\* own commit leaves exactly the alerts the roster deserves, whatever overlapping
\* edits had left before it (recomputeRosterAlerts).
SoloEditRepairs ==
  [][\A e \in Editor : Commits(e) /\ tx[e].alone => Abouts(alerts') = Targets(assigned')]_vars

\* And it keeps every acknowledgment of an alert that still applies, one made
\* during the edit included ("left untouched so their `acknowledged` state
\* survives an edit that doesn't affect them").
AcksSurvive ==
  [][\A e \in Editor : Commits(e) /\ tx[e].alone =>
       \A a \in alerts : a.acked /\ a.about \in Targets(assigned') => a \in alerts']_vars

-----------------------------------------------------------------------------
(* What the documentation says and the code does not do *)

\* docs/prd/rostering-system-brief.md: "a worker may not be assigned more than 2
\* shifts in the same calendar day".
DayCap == \A w \in Worker : DayCapOf(w)
=============================================================================
