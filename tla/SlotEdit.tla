------------------------------- MODULE SlotEdit -------------------------------
(***************************************************************************)
(* The manual-edit dialog of the Roster page (SlotEditDialog.tsx, its      *)
(* reducer editFlow.ts, the rosterEditor slice): an edit is submitted, and *)
(* is saved, blocked by a hard rule, or answered with warnings the planner *)
(* may override.  The answers are those of RosterEdit's transactions.      *)
(***************************************************************************)
EXTENDS RosterPage

CONSTANTS Slot, Worker

VARIABLES
  focused,     \* rosterEditor.focusedSlot, a slot of a month
  flow,        \* the reducer's status, and the edit its text is about
  pending,     \* rosterEditor.pendingEdit
  edits,       \* submissions not answered yet
  opening,     \* history: how often the dialog has been opened
  late,        \* history: the openings an answer reached that was asked from an earlier one
  lost         \* history: a confirmed resubmission failed

editVars == <<focused, flow, pending, edits, opening, late, lost>>

\* An edit as far as it matters here: the roster whose shift it names, the slot
\* and the worker.  Whether it adds, moves or removes is left open.
Edit == [of : Scope, slot : Slot, worker : Worker]
Flow(status, about) == [status |-> status, about |-> about]
Idle == Flow("idle", None)

EditTypeOK ==
  /\ focused = None \/ focused \in [month : Month, slot : Slot]
  /\ flow.status \in {"idle", "submitting", "blocked", "confirming", "success"}
  /\ flow.about = None \/ flow.about \in Edit
  /\ pending = None \/ pending \in Edit
  /\ \A c \in edits : c.edit \in Edit /\ c.opening \in 0..opening
  /\ late \subseteq 0..opening

EditInit ==
  /\ focused = None
  /\ flow = Idle
  /\ pending = None
  /\ edits = {}
  /\ opening = 0
  /\ late = {}
  /\ lost = FALSE

Open == dialog.kind = "edit"

\* A cell of the calendar.  The effect on [isOpen, date, shift] resets the flow.
MutActivate(slot) ==
  /\ ~Modal /\ view = "roster" /\ shown # None
  /\ Uses("edit")
  /\ DialogOpened("edit", slot)
  /\ focused' = [month |-> scope.month, slot |-> slot]
  /\ UNCHANGED <<flow, pending>>
  /\ opening' = opening + 1
  /\ UNCHANGED <<scope, visited, view, pageVars, edits, late, lost>>
Activate(slot) ==
  /\ ~Modal /\ view = "roster" /\ shown # None
  /\ Uses("edit")
  /\ DialogOpened("edit", slot)
  /\ focused' = [month |-> scope.month, slot |-> slot]
  /\ flow' = Idle
  /\ pending' = None
  /\ opening' = opening + 1
  /\ UNCHANGED <<scope, visited, view, pageVars, edits, late, lost>>

\* Escape, the overlay, the cross or Cancel: in every status.
Dismiss ==
  /\ Open
  /\ DialogClosed
  /\ UNCHANGED <<scope, visited, view, left, pageVars, editVars>>

Call(edit, confirm, warned) ==
  edits \cup {[edit |-> edit, confirm |-> confirm, warned |-> warned, scope |-> scope,
               gen |-> shown.gen, opening |-> opening]}

\* The slot has a row only in a roster of its month.
HasRow == shown.of.month = focused.month

\* The body with the buttons is shown unless the flow is blocked or confirming, and
\* submitting disables them.
MutEditable == Open /\ flow.status \in {"idle", "success", "submitting"} /\ HasRow
Editable == Open /\ flow.status \in {"idle", "success"} /\ HasRow

\* Add, Remove or Move.
Submit(worker) ==
  /\ Editable
  /\ LET edit == [of |-> shown.of, slot |-> focused.slot, worker |-> worker] IN
     /\ pending' = edit
     /\ edits' = Call(edit, FALSE, None)
  /\ flow' = Flow("submitting", None)
  /\ UNCHANGED <<screenVars, pageVars, focused, opening, late, lost>>

\* Move to the same slot or outside the month is blocked without a call.
MutMoveNowhere ==
  /\ Editable
  /\ flow' = Flow("submitting", None)
  /\ UNCHANGED <<screenVars, pageVars, focused, pending, edits, opening, late, lost>>
MoveNowhere ==
  /\ Editable
  /\ flow' = Flow("blocked", None)
  /\ UNCHANGED <<screenVars, pageVars, focused, pending, edits, opening, late, lost>>

CloseAfter(c) ==
  /\ flow' = Flow("success", None)
  /\ pending' = None
  /\ DialogClosed

\* Every edit is answered once; the answer invalidates the scope it was made in.
Answered(c) ==
  /\ c \in edits
  /\ edits' = edits \ {c}
  /\ late' = IF Open /\ c.opening # opening THEN late \cup {opening} ELSE late
  /\ Invalidate({c.scope})
  /\ UNCHANGED <<scope, visited, view, left, jobs, shown, poll, calls, astray, asked, focused, opening>>

\* Saved, if the generation's shifts still exist: the recompute may leave an alert
\* to acknowledge.
AnswerSaved(c) ==
  /\ Answered(c) /\ roster[c.edit.of].gen = c.gen
  /\ CloseAfter(c)
  /\ \E open \in BOOLEAN : roster' = [roster EXCEPT ![c.edit.of].open = open]
  /\ UNCHANGED lost

\* 422, or any error that is none of the classified ones.
AnswerBlocked(c) ==
  /\ Answered(c) /\ ~c.confirm
  /\ flow' = Flow("blocked", c.edit)
  /\ UNCHANGED <<dialog, roster, pending, lost>>

AnswerWarned(c) ==
  /\ Answered(c) /\ ~c.confirm
  /\ flow' = Flow("confirming", c.edit)
  /\ UNCHANGED <<dialog, roster, pending, lost>>

\* handleConfirmEdit throws and handleConfirmAnyway does not catch.
AnswerLost(c) ==
  /\ Answered(c) /\ c.confirm
  /\ lost' = TRUE
  /\ UNCHANGED <<dialog, roster, flow, pending>>

\* "Save anyway" resubmits what is pending, not what the warnings are about.
ConfirmAnyway ==
  /\ Open /\ flow.status = "confirming" /\ pending # None
  /\ edits' = Call(pending, TRUE, flow.about)
  /\ flow' = Flow("submitting", None)
  /\ UNCHANGED <<screenVars, pageVars, focused, pending, opening, late, lost>>

CancelWarned ==
  /\ Open /\ flow.status = "confirming"
  /\ flow' = Idle
  /\ pending' = None
  /\ UNCHANGED <<screenVars, pageVars, focused, edits, opening, late, lost>>

DismissBlocked ==
  /\ Open /\ flow.status = "blocked"
  /\ pending' = None
  /\ DialogClosed
  /\ UNCHANGED <<scope, visited, view, left, pageVars, focused, flow, edits, opening, late, lost>>

AnswerEdit(c) == AnswerSaved(c) \/ AnswerBlocked(c) \/ AnswerWarned(c) \/ AnswerLost(c)

EditNext ==
  \/ \E slot \in Slot : Activate(slot)
  \/ Dismiss \/ MoveNowhere \/ ConfirmAnyway \/ CancelWarned \/ DismissBlocked
  \/ \E worker \in Worker : Submit(worker)
  \/ \E c \in edits : AnswerEdit(c)

-----------------------------------------------------------------------------
(* Properties *)

\* "Save anyway" is pressed under the warnings of the very edit it resubmits, and
\* these are about the slot in the dialog: pendingEdit and the flow are two stores that
\* every path changes together.  It is not so in an opening of the dialog that the
\* answer to an earlier one reached; closing it and opening it again mends that.
WarningsAreOfPending ==
  /\ \A c \in edits : c.confirm => c.warned = c.edit \/ c.opening \in late
  /\ Open /\ flow.status = "confirming" =>
       (pending = flow.about /\ pending.slot = focused.slot) \/ opening \in late

\* With the same exception, one edit at a time is on its way from one opening.
OneEditPerOpening ==
  \A c, d \in edits : c.opening = d.opening => c = d \/ c.opening \in late

\* The buttons come back: every submission ends in another status, unless the
\* resubmission with confirm=true fails, which nothing catches.
SubmissionEnds == (Open /\ flow.status = "submitting") ~> (~Open \/ flow.status # "submitting" \/ lost)
=============================================================================
