-------------------------------- MODULE Screen --------------------------------
(***************************************************************************)
(* What the parts of the Roster page of one browser tab share: the company *)
(* and month it is about, the section it shows, the one dialog slot of the *)
(* store (dialogs.slice.ts) and the hook that polls a job (jobs.api.ts).   *)
(*                                                                         *)
(* The planner clicks; the network answers later.  An open modal covers    *)
(* the page, so only its own buttons and the browser's Back button can be  *)
(* used; but nothing stops a late answer.                                  *)
(***************************************************************************)
EXTENDS Naturals, FiniteSets

CONSTANTS
  Company, Month,
  Start,       \* the scopes the tab may be opened at
  Session,     \* how often a planner uses what: bounds, one record per session
  None

Scope == [company : Company, month : Month]

ASSUME StartAssumption == Start \subseteq Scope

VARIABLES
  scope,       \* the active company and the route's month
  visited,     \* months in the tab's history
  view,        \* the section of the page
  dialog,      \* dialogs.active
  left         \* what the planner of this session may still do

screenVars == <<scope, visited, view, dialog, left>>

ImportDialogs == {"importConfirm", "importInProgress", "importResult"}
NoDialog == [kind |-> "none", about |-> None]

ScreenTypeOK ==
  /\ scope \in Scope
  /\ visited \subseteq Month
  /\ view \in {"roster", "availability"}
  /\ dialog.kind \in {"none", "edit", "regenerate"} \cup ImportDialogs

ScreenInit ==
  /\ scope \in Start
  /\ visited = {scope.month}
  /\ view = "roster"
  /\ dialog = NoDialog
  /\ left \in Session

\* The import panel's dialogs show only where the panel is mounted.
MutModal == view = "availability" /\ dialog.kind \in ImportDialogs
Modal == dialog.kind # "none" /\ (dialog.kind \in ImportDialogs => view = "availability")

\* One click of a kind the session bounds.
Uses(kind) == left[kind] > 0 /\ left' = [left EXCEPT ![kind] = @ - 1]

\* Several descriptors of one kind differ by what they are about; the page
\* itself renders them from its current state.
DialogOpened(kind, about) == dialog' = [kind |-> kind, about |-> about]
DialogClosed == dialog' = NoDialog

-----------------------------------------------------------------------------
(* useJobPolling: the job followed, the last result the hook returned (`data'  *)
(* outlives a change of its argument) and whether the interval is running.    *)

Terminal == {"completed", "failed"}
NoPoll == [job |-> None, of |-> None, state |-> "created", on |-> FALSE]

\* The route folds pg-boss's states into the four the hook knows.
ToPollState(state) ==
  CASE state = "retry" -> "active" [] state = "cancelled" -> "failed" [] OTHER -> state

MutFollow(poll, job) == [poll EXCEPT !.job = job]
Follow(poll, job) == [poll EXCEPT !.job = job, !.on = job # None]

Polled(poll, jobState) ==
  LET state == ToPollState(jobState) IN
  [poll EXCEPT !.of = poll.job, !.state = state, !.on = state \notin Terminal]
=============================================================================
