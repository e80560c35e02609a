----------------------------- MODULE SolverProcess -----------------------------
(***************************************************************************)
(* One run of the solver's process (engine/runSolver.ts, solve_roster.py   *)
(* main) and its three clocks, in seconds: the budget that the process     *)
(* gives its search, the timer with which Node kills it, and the expiry of *)
(* the queue's job around both. Budget and timer come from two copies of   *)
(* one table. What the solver computes is SolverProblem's.                 *)
(***************************************************************************)
EXTENDS MonthTable, FiniteSetsExt

CONSTANTS
  Crew,      \* how many workers a company may have
  PipeCrew,  \* the most workers whose problem fits in the pipe's buffer
  Delay      \* how long anything but the search may take

\* A process that works the queue has ensured it first (startWorker).
ASSUME ProcessAssumption ==
  /\ Crew \subseteq Nat /\ PipeCrew \in Nat /\ Delay \subseteq Nat
  /\ \A s \in Session : s.solve > 0 => s.start > 0

VARIABLES
  queue,    \* the expiry in the roster queue's row: None, pg-boss's default, or ours
  solve,    \* the run: crew, limit, expiry, where it is, time spent inside and outside the search
  settled   \* how the promise of runSolver was settled

processVars == <<queue, solve, settled>>

DefaultExpiry == 900
JobExpiry == 45 * 60

\* The row may be left from a version that knew no expiry of its own.
ProcessInit == queue \in {None, DefaultExpiry} /\ solve = None /\ settled = "no"

MutPythonBudget(n) == IF n < 200 THEN 30 ELSE IF n < 5000 THEN 600 ELSE IF n < 10000 THEN 1200 ELSE 1800
PythonBudget(n) == IF n <= 200 THEN 30 ELSE IF n <= 5000 THEN 600 ELSE IF n <= 10000 THEN 1200 ELSE 1800

NodeBands == << <<200, 30>>, <<1000, 600>>, <<5000, 600>>, <<10000, 1200>> >>
NodeBudget(n) ==
  LET fits == {i \in DOMAIN NodeBands : n <= NodeBands[i][1]}
  IN IF fits = {} THEN 1800 ELSE NodeBands[Min(fits)][2]
Headroom == 5
NodeTimeout(n) == NodeBudget(n) + Headroom

\* createQueue does nothing to a row that is there; updateQueue sets its expiry.
MutEnsureQueues ==
  /\ queue' = IF queue = None THEN JobExpiry ELSE queue
  /\ Uses("start") /\ UNCHANGED <<solve, settled>>
EnsureQueues ==
  /\ queue' = JobExpiry
  /\ Uses("start") /\ UNCHANGED <<solve, settled>>

\* A job of this version is fetched, its rows read and the process spawned.
StartJob(n, d) ==
  /\ queue # None /\ left.start = 0 /\ solve = None
  /\ Uses("solve")
  /\ solve' = [crew |-> n, limit |-> NodeTimeout(n), expiry |-> queue, at |-> "spawned",
               search |-> 0, inside |-> 0, outside |-> d]
  /\ settled' = "no"
  /\ UNCHANGED queue

Settle(how) == solve' = [solve EXCEPT !.at = "exited"] /\ settled' = how
Running == solve # None /\ solve.at \in {"spawned", "searching", "printing", "stalled"}
Elapsed == solve.search + solve.inside

\* No interpreter: `error' settles the promise, the `close' that follows finds it settled.
MutSpawnFails ==
  /\ solve # None /\ solve.at = "spawned"
  /\ solve' = [solve EXCEPT !.at = "exited"] /\ UNCHANGED <<queue, settled, left>>
SpawnFails ==
  /\ solve # None /\ solve.at = "spawned"
  /\ Settle("rejected") /\ UNCHANGED <<queue, left>>

\* The process ends with its input unread: a problem larger than the pipe breaks it, and
\* nothing listens to the errors of child.stdin, so the Node process goes down with it.
DiesUnread ==
  /\ solve # None /\ solve.at = "spawned"
  /\ Settle(IF solve.crew > PipeCrew THEN "crashed" ELSE "rejected") /\ UNCHANGED <<queue, left>>

\* A signal or an exception, and a process that hangs.
Dies == Running /\ Settle("rejected") /\ UNCHANGED <<queue, left>>
Stalls ==
  /\ Running /\ solve.at # "stalled"
  /\ solve' = [solve EXCEPT !.at = "stalled"] /\ UNCHANGED <<queue, settled, left>>

\* A phase that takes d seconds: past the limit, the timer kills the process first.
Spends(part, d, next, how) ==
  LET after == [solve EXCEPT ![part] = @ + d]
      late == Elapsed + d >= solve.limit
  IN /\ solve' = [after EXCEPT !.at = IF late THEN "exited" ELSE next]
     /\ settled' = IF late THEN "killed" ELSE how
     /\ UNCHANGED <<queue, left>>

\* The interpreter starts, reads its input and builds the model.
Build(d) == solve # None /\ solve.at = "spawned" /\ Spends("inside", d, "searching", "no")

\* Without a solution when the budget is spent, the process exits with an error.
Search(d, found) ==
  /\ solve # None /\ solve.at = "searching"
  /\ ~found => d = PythonBudget(solve.crew)
  /\ IF found THEN Spends("search", d, "printing", "no") ELSE Spends("search", d, "exited", "rejected")

\* The solution is printed, and parsed when the process has ended: it may not be one.
WriteOut(d, good) ==
  /\ solve # None /\ solve.at = "printing"
  /\ Spends("inside", d, "exited", IF good THEN "solved" ELSE "rejected")

Timer ==
  /\ solve # None /\ solve.at = "stalled"
  /\ Settle("hung") /\ UNCHANGED <<queue, left>>

\* The rest of the job: the alerts and assignments are written.
EndJob(d) ==
  /\ solve # None /\ solve.at = "exited" /\ settled # "crashed"
  /\ solve' = [solve EXCEPT !.at = "done", !.outside = @ + d]
  /\ UNCHANGED <<queue, settled, left>>

ProcessStep ==
  \/ SpawnFails \/ DiesUnread \/ Dies \/ Timer
  \/ \E d \in Delay : Build(d) \/ (\E good \in BOOLEAN : WriteOut(d, good)) \/ EndJob(d)
  \/ \E found \in BOOLEAN : \E d \in {1, PythonBudget(solve.crew)} : Search(d, found)

ProcessNext ==
  \/ EnsureQueues \/ Stalls
  \/ \E n \in Crew, d \in Delay : StartJob(n, d)
  \/ solve # None /\ ProcessStep

-----------------------------------------------------------------------------
(* Properties *)

ProcessTypeOK ==
  /\ queue \in {None, DefaultExpiry, JobExpiry}
  /\ solve = None \/ (solve.crew \in Crew /\ Elapsed + solve.outside \in Nat)
  /\ settled \in {"no", "solved", "rejected", "killed", "hung", "crashed"}

\* A process that does not hang is killed only when it spent the whole headroom outside its
\* search: at every size of the company, the search itself may use its budget to the end.
KilledOnlyOverHeadroom ==
  settled = "killed" => solve.inside >= Headroom

\* The queue takes a job back from its worker only when something other than the search
\* has taken a quarter of an hour, also where the queue's row is from an earlier version.
ExpiredOnlyByOthers ==
  solve # None /\ Elapsed + solve.outside >= solve.expiry => solve.inside + solve.outside >= 900

\* Every run settles its promise or takes the whole process down.
SolveSettles == (solve # None /\ settled = "no") ~> (settled # "no")
=============================================================================
