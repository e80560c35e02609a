----------------------------- MODULE SolverProblem -----------------------------
(***************************************************************************)
(* The problem that is handed to the solver (engine/problem.ts) and what   *)
(* the solver makes of it (solver/solve_roster.py): a variable for every   *)
(* shift that nothing excludes, hard constraints, a weighted objective,    *)
(* and the alerts read off the slacks. Which workers are eligible, and     *)
(* what becomes of the solution, is RosterLifecycle's.                     *)
(***************************************************************************)
EXTENDS MonthTable, FiniteSetsExt

VARIABLES
  problem,  \* the problem built last, with the rows it was built from, or None
  answer    \* what the solver answered to it, or None

ShiftHours == 8

ProblemInit == problem = None /\ answer = None

\* The rows of the month, inverted: a date that has one is in the map, even if nothing is
\* left of it, and a date that has none is not.
MutAvailabilityOf(w, m) ==
  [d \in {e \in Days(m) : table[w][m][e] # <<>> /\ ComputeAvailable(table[w][m][e]) # {}} |-> ComputeAvailable(table[w][m][d])]
AvailabilityOf(w, m) ==
  [d \in {e \in Days(m) : table[w][m][e] # <<>>} |-> ComputeAvailable(table[w][m][d])]

\* The matrix applies to every day; a cell without a row becomes no requirement.
MutRequirementsOf(c, m) ==
  [slot \in Days(m) \X Cell |-> IF slot[2] \in DOMAIN needs[c] THEN needs[c][slot[2]] ELSE 0]
RequirementsOf(c, m) == [slot \in Days(m) \X DOMAIN needs[c] |-> needs[c][slot[2]]]

BuildProblem(c, m) ==
  LET crew == {w \in Staff(c) : people[w].terms # None}
  IN /\ Uses("build")
     /\ problem' = [days |-> Days(m), table |-> [w \in crew |-> table[w][m]],
          crew |-> [w \in crew |-> [role |-> people[w].role, min |-> people[w].terms.min,
                                    max |-> people[w].terms.max, availability |-> AvailabilityOf(w, m)]],
          matrix |-> needs[c], requirements |-> RequirementsOf(c, m)]
     /\ answer' = None
     /\ UNCHANGED tableVars

-----------------------------------------------------------------------------
(* The model that CP-SAT searches. *)

\* A date that is not in the map can be worked in every shift.
Assignable(p, w, d) == LET a == p.crew[w].availability IN IF d \in DOMAIN a THEN a[d] ELSE Shift
SolverVars(p) == {v \in (DOMAIN p.crew) \X p.days \X Shift : v[3] \in Assignable(p, v[1], v[2])}

WorkedBy(x, w) == ShiftHours * Cardinality({v \in x : v[1] = w})
On(p, x, slot) ==
  Cardinality({v \in x : v[2] = slot[1] /\ p.crew[v[1]].role = slot[2][1] /\ v[3] = slot[2][2]})
Short(p, x, slot) == p.requirements[slot] - On(p, x, slot)
Deficit(p, x, w) == IF WorkedBy(x, w) < p.crew[w].min THEN p.crew[w].min - WorkedBy(x, w) ELSE 0
Load(p, x, w) == IF p.crew[w].max > 0 THEN (100 * WorkedBy(x, w)) \div p.crew[w].max ELSE 0

\* The hard constraints; the deficit's slack is bounded by one of them, not fixed. Where a
\* row wants nobody, nobody works; where there is no row, as many may as the others allow.
Allowed(p, x) ==
  /\ \A slot \in DOMAIN p.requirements : Short(p, x, slot) >= 0
  /\ \A w \in DOMAIN p.crew : /\ WorkedBy(x, w) <= p.crew[w].max
                              /\ \A d \in p.days : Cardinality({v \in x : v[1] = w /\ v[2] = d}) <= 2
Solutions(p) ==
  LET worked == {x \in SUBSET SolverVars(p) : Allowed(p, x)}
  IN {[slots |-> x, deficit |-> [w \in DOMAIN p.crew |-> Deficit(p, x, w)]] : x \in worked}
     \cup {[slots |-> x, deficit |-> [w \in DOMAIN p.crew |-> p.crew[w].min]] : x \in worked}

TotalShort(p, sol) == MapThenSumSet(LAMBDA slot : Short(p, sol.slots, slot), DOMAIN p.requirements)
TotalDeficit(p, sol) == MapThenSumSet(LAMBDA w : sol.deficit[w], DOMAIN p.crew)
Spread(p, sol) ==
  LET loads == {Load(p, sol.slots, w) : w \in DOMAIN p.crew}
  IN IF loads = {} THEN 0 ELSE Max(loads) - Min(loads)

MutCost(p, sol) == 10 * TotalShort(p, sol) + 100 * TotalDeficit(p, sol) + Spread(p, sol)
MutCostNoDeficit(p, sol) == 10000 * TotalShort(p, sol) + Spread(p, sol)
Cost(p, sol) == 10000 * TotalShort(p, sol) + 100 * TotalDeficit(p, sol) + Spread(p, sol)

Alerts(p, sol) ==
  [unfillable |-> {<<slot, Short(p, sol.slots, slot)>> : slot \in {t \in DOMAIN p.requirements : Short(p, sol.slots, t) > 0}},
   shortfall |-> {<<w, sol.deficit[w]>> : w \in {v \in DOMAIN p.crew : sol.deficit[v] > 0}}]

\* OPTIMAL: a cheapest solution. FEASIBLE: the clock ran out on some solution.
Solve ==
  /\ problem # None /\ answer = None
  /\ LET all == Solutions(problem)
         least == Min({Cost(problem, sol) : sol \in all})
     IN \E sol \in all :
          answer' = [status |-> IF Cost(problem, sol) = least THEN "optimal" ELSE "feasible",
                     sol |-> sol, alerts |-> Alerts(problem, sol)]
  /\ UNCHANGED <<tableVars, problem, left>>

ProblemNext == Solve \/ \E c \in Firm, m \in Month : BuildProblem(c, m)

-----------------------------------------------------------------------------
(* Properties *)

ProblemTypeOK ==
  /\ problem = None => answer = None
  /\ answer = None \/ (answer.status \in {"optimal", "feasible"} /\ answer.sol.slots \subseteq SolverVars(problem))

\* The solver may assign exactly the shifts that the validator of manual edits would let
\* a planner assign: those that no row of the worker excludes, on every day of the month, and
\* all of a day without a row (problem.ts:108-111). Older comments say the opposite of such a
\* day (problem.ts:24-26, 39-41).
ExcludedIsExcluded ==
  problem # None =>
    SolverVars(problem) =
      {v \in (DOMAIN problem.crew) \X problem.days \X Shift :
         LET row == problem.table[v[1]][v[2]]
         IN v[3] \in IF row = <<>> THEN Shift ELSE ComputeAvailable(row)}

\* An optimal roster leaves as few places open as any. Many missing hours weigh more than a
\* place, but whoever takes another place loses none of them.
CoverageComesFirst ==
  answer # None /\ answer.status = "optimal" =>
    \A sol \in Solutions(problem) : TotalShort(problem, answer.sol) <= TotalShort(problem, sol)

\* Of the rosters that leave as few open it is one with the fewest hours under the
\* contracts, or with one hour more, where that hour buys a spread of 0 instead of 100.
HoursComeSecond ==
  answer # None /\ answer.status = "optimal" =>
    \A sol \in Solutions(problem) :
      LET mine == TotalDeficit(problem, answer.sol) other == TotalDeficit(problem, sol)
      IN TotalShort(problem, sol) = TotalShort(problem, answer.sol) /\ mine > other =>
           mine = other + 1 /\ Spread(problem, answer.sol) = 0 /\ Spread(problem, sol) = 100

\* solve_roster.py, of its weights: "coverage >> min-hours >> even distribution". An hour
\* weighs as much as the greatest spread, so the last two can tie.
WeightsAreLexicographic ==
  answer # None /\ answer.status = "optimal" =>
    \A sol \in Solutions(problem) :
      TotalShort(problem, sol) = TotalShort(problem, answer.sol) =>
        TotalDeficit(problem, answer.sol) <= TotalDeficit(problem, sol)

\* In an optimal roster, who owes two hours or more could work no further shift: the contract
\* or the day is full, or the cell has a row and its places are taken. A cell without a row
\* holds nobody back.
OwedHoursHadNoPlace ==
  answer # None /\ answer.status = "optimal" =>
    \A v \in SolverVars(problem) \ answer.sol.slots :
      LET w == v[1] cell == <<problem.crew[w].role, v[3]>>
      IN answer.sol.deficit[w] >= 2 =>
           \/ WorkedBy(answer.sol.slots, w) + ShiftHours > problem.crew[w].max
           \/ Cardinality({u \in answer.sol.slots : u[1] = w /\ u[2] = v[2]}) >= 2
           \/ /\ cell \in DOMAIN problem.matrix
              /\ On(problem, answer.sol.slots, <<v[2], cell>>) >= problem.matrix[cell]

\* The alerts of any roster name each open place, and how many are missing there.
OpenPlacesAreTold ==
  answer # None =>
    LET on(slot) == On(problem, answer.sol.slots, slot)
    IN /\ \A slot \in DOMAIN problem.requirements :
            on(slot) < problem.requirements[slot] =>
              <<slot, problem.requirements[slot] - on(slot)>> \in answer.alerts.unfillable
       /\ \A a \in answer.alerts.unfillable :
            a[1] \in DOMAIN problem.requirements /\ on(a[1]) < problem.requirements[a[1]]
              /\ on(a[1]) + a[2] = problem.requirements[a[1]]

\* They name everyone who is short of the contract's hours, and never by too few hours;
\* one that the clock cut short may report too many.
OwedHoursAreTold ==
  answer # None =>
    LET worked(w) == WorkedBy(answer.sol.slots, w)
    IN /\ \A w \in DOMAIN problem.crew :
            worked(w) < problem.crew[w].min => \E a \in answer.alerts.shortfall : a[1] = w
       /\ \A a \in answer.alerts.shortfall :
            a[1] \in DOMAIN problem.crew /\ worked(a[1]) + a[2] >= problem.crew[a[1]].min

\* An optimal roster tells them to the hour.
OptimalTellsHours ==
  answer # None /\ answer.status = "optimal" =>
    \A a \in answer.alerts.shortfall :
      WorkedBy(answer.sol.slots, a[1]) + a[2] = problem.crew[a[1]].min

\* What is missing is told exactly.
AlertsAreExact == OpenPlacesAreTold /\ OwedHoursAreTold /\ OptimalTellsHours
=============================================================================
