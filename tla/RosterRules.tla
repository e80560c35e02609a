----------------------------- MODULE RosterRules -----------------------------
(***************************************************************************)
(* The rules of a manual edit (apps/api/src/engine/validator.ts), beside   *)
(* the constraints under which the solver assigns shifts                   *)
(* (solver/solve_roster.py).                                               *)
(*                                                                         *)
(* A slot is [date, shift].  A worker's profile is [role, status, minHours,*)
(* maxHours, excluded], excluded being the slots named by the worker's     *)
(* availability rows: a date without a row excludes nothing.  An edit is   *)
(* [kind, from, to, role]; `from' means nothing in an add, `to' and `role' *)
(* nothing in a remove.  `existing' are the worker's slots of the month    *)
(* that the edit does not touch.                                           *)
(***************************************************************************)
EXTENDS Naturals, FiniteSets

ShiftHours == 8
EditKind == {"add", "move", "remove"}

Hours(slots) == Cardinality(slots) * ShiftHours

OnDate(slots, date) == {s \in slots : s.date = date}

-----------------------------------------------------------------------------
(* Hard rules: no confirmation overrides them. *)

WorkerIsActive(edit, profile) == profile.status = "ACTIVE"

RoleMatchesSlot(edit, profile) == edit.role = profile.role

WithinAvailability(edit, profile) == edit.to \notin profile.excluded

NoDuplicateSlot(edit, existing) == edit.to \notin existing

MutMaxTwoShiftsPerDay(edit, existing) ==
  Cardinality(OnDate(existing, edit.to.date)) <= 2

MaxTwoShiftsPerDay(edit, existing) ==
  Cardinality(OnDate(existing, edit.to.date)) + 1 <= 2

\* A remove only vacates a slot: no rule refuses it.
Permitted(edit, profile, existing) ==
  edit.kind # "remove" =>
    /\ WorkerIsActive(edit, profile)
    /\ RoleMatchesSlot(edit, profile)
    /\ WithinAvailability(edit, profile)
    /\ NoDuplicateSlot(edit, existing)
    /\ MaxTwoShiftsPerDay(edit, existing)

-----------------------------------------------------------------------------
(* Soft rules: `?confirm=true' overrides them. *)

MutExceedsMaxMonthlyHours(edit, profile, existing) ==
  edit.kind # "remove" /\ Hours(existing) > profile.maxHours

ExceedsMaxMonthlyHours(edit, profile, existing) ==
  edit.kind # "remove" /\ Hours(existing) + ShiftHours > profile.maxHours

\* A move gains a slot back; an add is never the cause.
BelowMinMonthlyHours(edit, profile, existing) ==
  edit.kind # "add" /\
    Hours(existing) + (IF edit.kind = "move" THEN ShiftHours ELSE 0) < profile.minHours

Warned(edit, profile, existing) ==
  \/ ExceedsMaxMonthlyHours(edit, profile, existing)
  \/ BelowMinMonthlyHours(edit, profile, existing)

-----------------------------------------------------------------------------
(* What the solver may do with one worker: variables exist only for active *)
(* workers in slots they are available for, HARD (b) two shifts a date,    *)
(* HARD (c) the contract's hours.                                          *)

SolverAssignable(profile, slots) ==
  /\ profile.status = "ACTIVE"
  /\ slots \cap profile.excluded = {}
  /\ \A s \in slots : Cardinality(OnDate(slots, s.date)) <= 2

SolverWithinHours(profile, slots) == Hours(slots) <= profile.maxHours
=============================================================================
