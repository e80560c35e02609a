------------------------------ MODULE BackOffice ------------------------------
(***************************************************************************)
(* What the pages of one browser tab share besides the Roster page's own   *)
(* state (Screen): the active company, the route, the dialog slot of the   *)
(* store.  Dialogs of different pages use one slot, and a late answer of a *)
(* page that is gone may still write to it.                                *)
(***************************************************************************)
EXTENDS Naturals, FiniteSets

CONSTANTS
  MaxCompany,  \* bound: companies ever created
  Session,     \* where a planner starts and how often they use what: bounds
  None

ASSUME BackOfficeAssumption == MaxCompany \in Nat \ {0} /\ None \notin Nat

Company == 1..MaxCompany

VARIABLES
  active,      \* activeCompanyId of the store
  stored,      \* the id localStorage holds
  page,        \* the route
  dialog,      \* dialogs.active
  left         \* what the planner of this session may still do

officeVars == <<active, stored, page, dialog, left>>

Page == {"companies", "workers", "roster", "schedule"}
Dialog == {"none", "companyForm", "deleteConfirm", "deleteBlocked", "workerForm", "deactivate", "share"}

OfficeTypeOK ==
  /\ {active, stored} \subseteq Company \cup {None}
  /\ page \in Page
  /\ dialog \in Dialog

OfficeInit ==
  /\ left \in Session
  /\ stored \in left.stored
  /\ active = stored
  /\ page = left.start
  /\ dialog = "none"

\* companySelected and companyCleared; the store's subscriber writes through.
Selected(c) == active' = c /\ stored' = c

DialogOpened(kind) == dialog' = kind
DialogClosed == dialog' = "none"

\* A dialog is drawn by its own page only; elsewhere the slot may hold it unseen.
HomeOf(kind) ==
  IF kind \in {"companyForm", "deleteConfirm", "deleteBlocked"} THEN "companies" ELSE "workers"
Shows(kind) == dialog = kind /\ page = HomeOf(kind)
Covered == dialog # "none" /\ page = HomeOf(dialog)

\* One click of a kind the session bounds.
Uses(kind) == left[kind] > 0 /\ left' = [left EXCEPT ![kind] = @ - 1]
=============================================================================
