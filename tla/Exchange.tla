------------------------------- MODULE Exchange -------------------------------
(***************************************************************************)
(* What is entered and read of a company's workers and their availability: *)
(* the CSV file, the grid's draft, the headcount form, the solver's problem*)
(* and its process, over one database. A session does one of these things. *)
(***************************************************************************)
EXTENDS WorkforceFile, AvailabilityDraft, SolverProblem, RequirementsForm, SolverProcess

vars == <<people, needs, table, left, fileVars, sheet, problem, answer, formVars, processVars>>

TypeOK == TableTypeOK /\ FileTypeOK /\ ProblemTypeOK /\ FormTypeOK /\ ProcessTypeOK

Init ==
  /\ TableInit
  /\ FileInit /\ DraftInit /\ ProblemInit /\ FormInit /\ ProcessInit

Next ==
  \/ FileNext /\ UNCHANGED <<sheet, problem, answer, formVars, processVars>>
  \/ DraftNext /\ UNCHANGED <<fileVars, problem, answer, formVars, processVars>>
  \/ ProblemNext /\ UNCHANGED <<fileVars, sheet, formVars, processVars>>
  \/ FormNext /\ UNCHANGED <<fileVars, sheet, problem, answer, processVars>>
  \/ ProcessNext /\ UNCHANGED <<tableVars, fileVars, sheet, problem, answer, formVars>>

\* A process that was started goes on; what people do, they need not.
Fairness == WF_vars(solve # None /\ ProcessStep /\ UNCHANGED <<tableVars, fileVars, sheet, problem, answer, formVars>>)

Spec == Init /\ [][Next]_vars /\ Fairness
-----------------------------------------------------------------------------
(* Properties of what crosses over, from those of the parts *)

\* A file loses nothing on its way out and back, and does what it says on its way in.
\* Code: csv/guard.ts, csv/workforce.ts and importRow.
FileIsKept == RoundTripUnlessQuoted /\ ImportIsFile

\* What the grid and the form hold can be sent, refused only for what neither side's
\* schema knows; what is saved is what was on the screen.  Code: availabilityDraft.ts,
\* staffingRequirementsMatrix.ts, replaceMonth and replaceAll.
EntriesArrive == []DraftIsPayload /\ []RefusedIsTooLarge /\ SavedIsMarked /\ StoredIsShown /\ TotalsAreStored

\* The solver is given exactly what availability allows, fills places before hours, leaves
\* hours owed only to who can work no more, and tells exactly what it could not.
\* Code: problem.ts, solve_roster.py.
RosterIsBest ==
  ExcludedIsExcluded /\ CoverageComesFirst /\ HoursComeSecond /\ OwedHoursHadNoPlace /\ AlertsAreExact

\* A started solve ends, and neither the timer nor the expiry cuts off a search within
\* its budget.  Code: runSolver.ts, timeBudget.ts with solve_roster.py's copy of its
\* table, and ensureQueues.
SolveEnds == []KilledOnlyOverHeadroom /\ []ExpiredOnlyByOthers /\ SolveSettles
=============================================================================
