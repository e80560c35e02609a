--------------------------- MODULE WorkforceImport ---------------------------
(***************************************************************************)
(* One company's workforce-CSV import pipeline: the upload route, the      *)
(* import_tasks table, the pg-boss queue `workforce-import` and the job    *)
(* handler (apps/api/src/services/workforceImportService.ts).              *)
(*                                                                         *)
(* Everything here is keyed by the company -- the advisory lock, the       *)
(* partial unique index on import_tasks, the queue's singletonKey -- so    *)
(* one company is the whole protocol; another company's instance shares    *)
(* nothing with it but workers it may not touch (Foreign).                 *)
(*                                                                         *)
(* A step is one committed SQL statement or one pg-boss call.  The route's *)
(* statements run in one READ COMMITTED transaction: its writes to         *)
(* import_tasks stay invisible in `tx' until RouteCommit, while its        *)
(* pg-boss calls go through pg-boss's own connections and are visible at   *)
(* once.                                                                   *)
(***************************************************************************)
EXTENDS Naturals, Sequences, FiniteSets

CONSTANTS
  Upload,         \* upload requests; the pg-boss job sent for u is called u
  Worker,         \* national ids
  Rows,           \* Rows[u]: the workers named by the rows of u's file, in order
  Foreign,        \* workers registered under a different company
  CheckInterval,  \* rows between two reads of the task's own status
  RetryLimit,     \* pg-boss retries of a job
  MaxTask,        \* bound: rows import_tasks may ever hold
  MaxFaults,      \* bound: crashes, expiries, rollbacks, failed cancels
  None

ASSUME CheckIntervalAssumption == CheckInterval \in Nat \ {0}
ASSUME BoundsAssumption ==
  /\ RetryLimit \in Nat
  /\ MaxTask \in Nat
  /\ MaxFaults \in Nat
ASSUME RowsAssumption == Rows \in [Upload -> Seq(Worker)]
ASSUME NoneAssumption == None \notin Upload
ASSUME ForeignAssumption == Foreign \subseteq Worker

VARIABLES
  task,            \* committed rows of import_tasks
  nextTask,        \* the table's id sequence (never rolled back)
  clock,           \* orders the finishedAt of COMPLETED tasks, the only ones read
  job,             \* pg-boss rows of the queue
  tx,              \* the route transaction that holds the advisory lock
  response,        \* what each upload request has been answered
  run,             \* executions of the job handler
  lastImportTask,  \* workers.lastImportTaskId; 0 is null
  rowOf,           \* the upload whose row a worker's data come from
  faults,          \* faults so far
  won,             \* history: tasks whose finalizing update matched
  newest           \* history: the upload whose transaction committed last

vars == <<task, nextTask, clock, job, tx, response, run,
          lastImportTask, rowOf, faults, won, newest>>

TaskId == 1..MaxTask
NoTask == 0
Active == {"PENDING", "PROCESSING"}
Terminal == {"COMPLETED", "CANCELLED", "FAILED"}
TaskRow == [status : Active \cup Terminal \cup {"absent"},
            job : Upload \cup {None},
            finishedAt : Nat]

Queued == {"created", "retry"}
JobState == Queued \cup {"unsent", "active", "completed", "cancelled", "failed"}
JobRow == [state : JobState, retries : 0..RetryLimit]

\* Statements of beginAndEnqueueImport still to run, named by the next one.
TxPc == {"free", "cancel", "cancelJob", "create", "send", "attach", "reject"}
NoTx == [up |-> None, pc |-> "free", old |-> NoTask, new |-> NoTask]

\* The attempt-th execution of u's handler is the run <<u, attempt>>.
Run == Upload \X (0..RetryLimit)
RunPc == {"none", "find", "adopt", "bootFind", "bootCancel", "bootCancelJob",
          "bootCreate", "row", "check", "finalize", "stamp", "return", "ended"}
RunRow == [pc : RunPc, task : 0..MaxTask, old : 0..MaxTask, i : Nat,
           touched : SUBSET Worker, stale : Nat]
NoRun == [pc |-> "none", task |-> NoTask, old |-> NoTask, i |-> 0,
          touched |-> {}, stale |-> 0]

TypeOK ==
  /\ task \in [TaskId -> TaskRow]
  /\ nextTask \in 1..(MaxTask + 1)
  /\ clock \in Nat
  /\ job \in [Upload -> JobRow]
  /\ tx \in [up : Upload \cup {None}, pc : TxPc, old : 0..MaxTask, new : 0..MaxTask]
  /\ response \in [Upload -> {"idle", "open", "accepted", "conflict", "error"}]
  /\ run \in [Run -> RunRow]
  /\ lastImportTask \in [Worker -> 0..MaxTask]
  /\ rowOf \in [Worker -> Upload \cup {None}]
  /\ faults \in 0..MaxFaults
  /\ won \subseteq TaskId
  /\ newest \in Upload \cup {None}

Init ==
  /\ task = [t \in TaskId |-> [status |-> "absent", job |-> None, finishedAt |-> 0]]
  /\ nextTask = 1
  /\ clock = 0
  /\ job = [u \in Upload |-> [state |-> "unsent", retries |-> 0]]
  /\ tx = NoTx
  /\ response = [u \in Upload |-> "idle"]
  /\ run = [r \in Run |-> NoRun]
  /\ lastImportTask = [w \in Worker |-> NoTask]
  /\ rowOf = [w \in Worker |-> None]
  /\ faults = 0
  /\ won = {}
  /\ newest = None

-----------------------------------------------------------------------------
(* Helpers: what a statement sees, and what makes it wait. *)

ActiveTasks == {t \in TaskId : task[t].status \in Active}

\* import_tasks.findFirst for a non-terminal task: any of them, or none.
FoundActive(t) ==
  IF ActiveTasks = {} THEN t = NoTask ELSE t \in ActiveTasks

\* The row is updated by the open route transaction: another UPDATE waits.
RowLocked(t) == tx.old = t /\ tx.pc \notin {"free", "cancel"}

MutIndexInDoubt == FALSE

\* An insert into the partial unique index waits for the open transaction:
\* it has inserted an entry, or is removing the one that is there.
IndexInDoubt ==
  \/ tx.new # NoTask
  \/ \E t \in ActiveTasks : RowLocked(t)

\* claimTask's guard on the task it adopts, and the finalizing update's.
MutClaimable(t) == task[t].status # "absent"
Claimable(t) == task[t].status = "PENDING"

MutFinalizable(t) == task[t].status = "PENDING"
Finalizable(t) == task[t].status = "PROCESSING"

\* boss.cancel: any job not yet terminal, a running one included.
Cancelled(jobs, u) ==
  IF u # None /\ jobs[u].state \in Queued \cup {"active"}
  THEN [jobs EXCEPT ![u].state = "cancelled"] ELSE jobs

Fault == faults < MaxFaults /\ faults' = faults + 1

-----------------------------------------------------------------------------
(* POST /import/workforce/:month -> beginAndEnqueueImport                  *)

taskTableVars == <<task, nextTask, clock>>
workerVars == <<lastImportTask, rowOf>>
historyVars == <<won, newest>>

\* Take the company's advisory lock and look for a task in flight.
RouteOpen(u) ==
  /\ response[u] = "idle"
  /\ tx = NoTx
  /\ \E t \in 0..MaxTask :
       /\ FoundActive(t)
       /\ tx' = [up |-> u, pc |-> IF t = NoTask THEN "create" ELSE "cancel",
                 old |-> t, new |-> NoTask]
  /\ response' = [response EXCEPT ![u] = "open"]
  /\ UNCHANGED <<taskTableVars, job, run, workerVars, faults, historyVars>>

\* UPDATE import_tasks SET status = 'CANCELLED' WHERE id = existing: by id
\* only, whatever the row's status has become since it was read.
RouteCancel ==
  /\ tx.pc = "cancel"
  /\ tx' = [tx EXCEPT !.pc = IF task[tx.old].job = None THEN "create" ELSE "cancelJob"]
  /\ UNCHANGED <<taskTableVars, job, response, run, workerVars, faults, historyVars>>

\* cancelJob(...).catch(() => undefined): a failure is swallowed.
RouteCancelJob ==
  /\ tx.pc = "cancelJob"
  /\ tx' = [tx EXCEPT !.pc = "create"]
  /\ \/ job' = Cancelled(job, task[tx.old].job) /\ UNCHANGED faults
     \/ Fault /\ UNCHANGED job
  /\ UNCHANGED <<taskTableVars, response, run, workerVars, historyVars>>

\* INSERT the PENDING task; an entry of somebody else in the unique index
\* raises P2002, which nothing catches here: rolled back, HTTP 500.
RouteCreate ==
  /\ tx.pc = "create"
  /\ IF ActiveTasks \subseteq {tx.old}
     THEN /\ nextTask <= MaxTask
          /\ tx' = [tx EXCEPT !.pc = "send", !.new = nextTask]
          /\ nextTask' = nextTask + 1
          /\ UNCHANGED response
     ELSE /\ tx' = NoTx
          /\ response' = [response EXCEPT ![tx.up] = "error"]
          /\ UNCHANGED nextTask
  /\ UNCHANGED <<task, clock, job, run, workerVars, faults, historyVars>>

\* enqueueWorkforceImport: pg-boss admits one `created' job per singletonKey.
RouteSend ==
  /\ tx.pc = "send"
  /\ IF \E u \in Upload : job[u].state = "created"
     THEN tx' = [tx EXCEPT !.pc = "reject"] /\ UNCHANGED job
     ELSE /\ tx' = [tx EXCEPT !.pc = "attach"]
          /\ job' = [job EXCEPT ![tx.up].state = "created"]
  /\ UNCHANGED <<taskTableVars, response, run, workerVars, faults, historyVars>>

MutCommitted(status, jobId) ==
  [task EXCEPT ![tx.new] = [status |-> status, job |-> jobId, finishedAt |-> 0]]

\* What the transaction makes of import_tasks when it commits: its update of
\* the task it found, then its insert.
Committed(status, jobId) ==
  LET updated == IF tx.old = NoTask THEN task
                 ELSE [task EXCEPT ![tx.old].status = "CANCELLED"]
  IN  [updated EXCEPT ![tx.new] = [status |-> status, job |-> jobId, finishedAt |-> 0]]

\* Attach the job id and commit: 202 { jobId }.
RouteCommit ==
  /\ tx.pc = "attach"
  /\ task' = Committed("PENDING", tx.up)
  /\ tx' = NoTx
  /\ response' = [response EXCEPT ![tx.up] = "accepted"]
  /\ newest' = tx.up
  /\ UNCHANGED <<nextTask, clock, job, run, workerVars, faults, won>>

\* send returned null: the task is created FAILED and the route answers 409.
RouteReject ==
  /\ tx.pc = "reject"
  /\ task' = Committed("FAILED", None)
  /\ tx' = NoTx
  /\ response' = [response EXCEPT ![tx.up] = "conflict"]
  /\ UNCHANGED <<nextTask, clock, job, run, workerVars, faults, historyVars>>

\* The API process dies or the interactive transaction times out: Postgres
\* forgets the transaction, pg-boss does not forget its calls.
RouteRollback ==
  /\ tx # NoTx
  /\ Fault
  /\ tx' = NoTx
  /\ response' = [response EXCEPT ![tx.up] = "error"]
  /\ UNCHANGED <<taskTableVars, job, run, workerVars, historyVars>>

Route ==
  RouteCancel \/ RouteCancelJob \/ RouteCreate \/ RouteSend \/ RouteCommit \/ RouteReject

-----------------------------------------------------------------------------
(* The job handler: importCsv(csv, month, companyId, job.id)               *)

routeVars == <<tx, response, newest>>

Goto(r, pc) == run' = [run EXCEPT ![r].pc = pc]

\* index > 0 && index % CANCELLATION_CHECK_INTERVAL === 0
MutCheckDue(i) == i > 0 /\ i % (CheckInterval + 1) = 0
CheckDue(i) == i > 0 /\ i % CheckInterval = 0

\* finalize.count > 0 && touchedWorkerIds.length > 0
MutStampDue(r, count) == run[r].touched # {}
MutStampNever(r, count) == count > 1 /\ run[r].touched # {}
StampDue(r, count) == count > 0 /\ run[r].touched # {}

\* Where the row loop is after i rows of r's file.
LoopPc(r, i) ==
  IF i = Len(Rows[r[1]]) THEN "finalize"
  ELSE IF CheckDue(i) THEN "check" ELSE "row"

\* pg-boss hands a queued job to a worker, one active job per singletonKey.
Fetch(u) ==
  /\ job[u].state \in Queued
  /\ \A v \in Upload : job[v].state # "active"
  /\ job' = [job EXCEPT ![u].state = "active"]
  /\ run' = [run EXCEPT ![<<u, job[u].retries>>] = [NoRun EXCEPT !.pc = "find"]]
  /\ UNCHANGED <<taskTableVars, routeVars, workerVars, faults, won>>

\* claimTask: the task whose pgBossJobId is this job, if it is committed yet.
ClaimFind(r) ==
  /\ run[r].pc = "find"
  /\ LET mine == {t \in TaskId : task[t].status # "absent" /\ task[t].job = r[1]}
     IN \/ /\ mine = {}
           /\ Goto(r, "bootFind")
        \/ \E t \in mine : run' = [run EXCEPT ![r].pc = "adopt", ![r].task = t]
  /\ UNCHANGED <<taskTableVars, job, routeVars, workerVars, faults, won>>

\* PENDING -> PROCESSING, or nothing at all and an empty result.
ClaimAdopt(r) ==
  LET t == run[r].task IN
  /\ run[r].pc = "adopt"
  /\ ~RowLocked(t)
  /\ IF Claimable(t)
     THEN /\ task' = [task EXCEPT ![t].status = "PROCESSING"]
          /\ Goto(r, LoopPc(r, 0))
     ELSE /\ Goto(r, "return")
          /\ UNCHANGED task
  /\ UNCHANGED <<nextTask, clock, job, routeVars, workerVars, faults, won>>

\* cancelAndCreateTask: no task carries this job id, so make one.
BootFind(r) ==
  /\ run[r].pc = "bootFind"
  /\ \E t \in 0..MaxTask :
       /\ FoundActive(t)
       /\ run' = [run EXCEPT ![r].pc = IF t = NoTask THEN "bootCreate" ELSE "bootCancel",
                             ![r].old = t]
  /\ UNCHANGED <<taskTableVars, job, routeVars, workerVars, faults, won>>

\* The same update by id as in RouteCancel, committed at once.
BootCancel(r) ==
  LET t == run[r].old IN
  /\ run[r].pc = "bootCancel"
  /\ ~RowLocked(t)
  /\ task' = [task EXCEPT ![t].status = "CANCELLED"]
  /\ Goto(r, IF task[t].job = None THEN "bootCreate" ELSE "bootCancelJob")
  /\ UNCHANGED <<nextTask, clock, job, routeVars, workerVars, faults, won>>

BootCancelJob(r) ==
  /\ run[r].pc = "bootCancelJob"
  /\ Goto(r, "bootCreate")
  /\ \/ job' = Cancelled(job, task[run[r].old].job) /\ UNCHANGED faults
     \/ Fault /\ UNCHANGED job
  /\ UNCHANGED <<taskTableVars, routeVars, workerVars, won>>

MutBootCreate(r) ==
  /\ run[r].pc = "bootCreate"
  /\ ~IndexInDoubt
  /\ IF ActiveTasks = {}
     THEN /\ nextTask <= MaxTask
          /\ task' = [task EXCEPT ![nextTask] =
                        [status |-> "PROCESSING", job |-> r[1], finishedAt |-> 0]]
          /\ nextTask' = nextTask + 1
          /\ run' = [run EXCEPT ![r].pc = LoopPc(r, 0), ![r].task = nextTask]
     ELSE UNCHANGED <<task, nextTask, run>>
  /\ UNCHANGED <<clock, job, routeVars, workerVars, faults, won>>

\* INSERT a PROCESSING task; on P2002 start over.  The code does so 20 times
\* (MAX_CANCEL_AND_CREATE_ATTEMPTS) and then throws; that needs 20 other inserts in between
\* and is not modelled.
BootCreate(r) ==
  /\ run[r].pc = "bootCreate"
  /\ ~IndexInDoubt
  /\ IF ActiveTasks = {}
     THEN /\ nextTask <= MaxTask
          /\ task' = [task EXCEPT ![nextTask] =
                        [status |-> "PROCESSING", job |-> r[1], finishedAt |-> 0]]
          /\ nextTask' = nextTask + 1
          /\ run' = [run EXCEPT ![r].pc = LoopPc(r, 0), ![r].task = nextTask]
     ELSE /\ Goto(r, "bootFind")
          /\ UNCHANGED <<task, nextTask>>
  /\ UNCHANGED <<clock, job, routeVars, workerVars, faults, won>>

\* importRow: one transaction that writes the worker, contract and month, or
\* an error that is recorded and skips the row.
ImportRow(r) ==
  LET w == Rows[r[1]][run[r].i + 1]
      superseded == task[run[r].task].status # "PROCESSING"
  IN
  /\ run[r].pc = "row"
  /\ IF w \in Foreign
     THEN /\ run' = [run EXCEPT ![r].i = @ + 1, ![r].pc = LoopPc(r, run[r].i + 1)]
          /\ UNCHANGED rowOf
     ELSE /\ run' = [run EXCEPT ![r].i = @ + 1, ![r].pc = LoopPc(r, run[r].i + 1),
                                ![r].touched = @ \cup {w},
                                ![r].stale = IF superseded THEN @ + 1 ELSE @]
          /\ rowOf' = [rowOf EXCEPT ![w] = r[1]]
  /\ UNCHANGED <<taskTableVars, job, routeVars, lastImportTask, faults, won>>

\* Every CheckInterval rows: stop if the task is no longer PROCESSING.
CheckCancelled(r) ==
  /\ run[r].pc = "check"
  /\ Goto(r, IF task[run[r].task].status = "PROCESSING" THEN "row" ELSE "return")
  /\ UNCHANGED <<taskTableVars, job, routeVars, workerVars, faults, won>>

\* updateMany ... WHERE status = 'PROCESSING' SET status = 'COMPLETED'.
Finalize(r) ==
  LET t == run[r].task IN
  /\ run[r].pc = "finalize"
  /\ ~RowLocked(t)
  /\ Goto(r, IF StampDue(r, IF Finalizable(t) THEN 1 ELSE 0) THEN "stamp" ELSE "return")
  /\ IF Finalizable(t)
     THEN /\ task' = [task EXCEPT ![t].status = "COMPLETED", ![t].finishedAt = clock + 1]
          /\ clock' = clock + 1
          /\ won' = won \cup {t}
     ELSE UNCHANGED <<task, clock, won>>
  /\ UNCHANGED <<nextTask, job, routeVars, workerVars, faults>>

\* One statement stamps every worker the run touched.
Stamp(r) ==
  /\ run[r].pc = "stamp"
  /\ lastImportTask' = [w \in Worker |-> IF w \in run[r].touched THEN run[r].task
                                         ELSE lastImportTask[w]]
  /\ Goto(r, "return")
  /\ UNCHANGED <<taskTableVars, job, routeVars, rowOf, faults, won>>

\* The handler returns and pg-boss completes the job, if it is still this
\* attempt's and still active.
Return(r) ==
  /\ run[r].pc = "return"
  /\ run' = [run EXCEPT ![r] = [NoRun EXCEPT !.pc = "ended"]]
  /\ job' = IF job[r[1]] = [state |-> "active", retries |-> r[2]]
            THEN [job EXCEPT ![r[1]].state = "completed"] ELSE job
  /\ UNCHANGED <<taskTableVars, routeVars, workerVars, faults, won>>

Handler(r) ==
  \/ ClaimFind(r) \/ ClaimAdopt(r)
  \/ BootFind(r) \/ BootCancel(r) \/ BootCancelJob(r) \/ BootCreate(r)
  \/ ImportRow(r) \/ CheckCancelled(r) \/ Finalize(r) \/ Stamp(r) \/ Return(r)

\* The worker process dies (or the handler throws) between two statements.
RunDies(r) ==
  /\ run[r].pc \notin {"none", "ended"}
  /\ Fault
  /\ run' = [run EXCEPT ![r] = [NoRun EXCEPT !.pc = "ended"]]
  /\ UNCHANGED <<taskTableVars, job, routeVars, workerVars, won>>

MutRetriesLeft(u) == job[u].retries <= RetryLimit
RetriesLeft(u) == job[u].retries < RetryLimit

\* pg-boss takes an active job back: its run is dead, or (a fault) has merely
\* outlived expireInSeconds and goes on unobserved.
JobExpire(u) ==
  /\ job[u].state = "active"
  /\ IF run[<<u, job[u].retries>>].pc = "ended" THEN UNCHANGED faults ELSE Fault
  /\ IF RetriesLeft(u) /\ \A v \in Upload : job[v].state # "retry"
     THEN job' = [job EXCEPT ![u].state = "retry", ![u].retries = @ + 1]
     ELSE job' = [job EXCEPT ![u].state = "failed"]
  /\ UNCHANGED <<taskTableVars, run, routeVars, workerVars, won>>

Next ==
  \/ \E u \in Upload : RouteOpen(u)
  \/ Route
  \/ RouteRollback
  \/ \E u \in Upload : Fetch(u)
  \/ \E r \in Run : Handler(r)
  \/ \E r \in Run : RunDies(r)
  \/ \E u \in Upload : JobExpire(u)

Spec == Init /\ [][Next]_vars

\* The route and the worker keep going; uploads and faults may never come.
Fairness ==
  /\ WF_vars(Route)
  /\ \A u \in Upload : WF_vars(Fetch(u)) /\ WF_vars(JobExpire(u) /\ UNCHANGED faults)
  /\ \A r \in Run : WF_vars(Handler(r))

FairSpec == Spec /\ Fairness

-----------------------------------------------------------------------------
(* Safety, whatever fails                                                  *)

\* At most one committed task of the company is PENDING or PROCESSING, however
\* route transactions and self-bootstrapping handlers interleave
\* (import_tasks_company_kind_active_key).
OneActiveTask == \A s, t \in ActiveTasks : s = t

\* A task that ended CANCELLED or FAILED is never revived or completed: not by
\* the handler of a cancelled job, not by a retry of it, not by a late finalize
\* (claimTask's and importCsv's guarded updates).
NoResurrection ==
  [][\A t \in TaskId : task[t].status \in {"CANCELLED", "FAILED"} => task'[t] = task[t]]_task

\* A worker is stamped only with a task whose finalizing update matched: no
\* superseded, crashed or expired run ever leaves its mark on lastImportTaskId.
StampedByWinner == \A w \in Worker : lastImportTask[w] \in won \cup {NoTask}

\* A run whose task was taken from it writes at most one check interval of
\* further rows (CANCELLATION_CHECK_INTERVAL).
StaleRowsBounded == \A r \in Run : run[r].stale <= CheckInterval

-----------------------------------------------------------------------------
(* What a burst of uploads settles to                                      *)

Quiet ==
  /\ tx = NoTx
  /\ \A u \in Upload : job[u].state \notin Queued \cup {"active"}
  /\ \A r \in Run : run[r].pc \in {"none", "ended"}

CompletedTasks == {t \in TaskId : task[t].status = "COMPLETED"}

\* The company's latest COMPLETED task, by finishedAt.
LatestCompleted ==
  CHOOSE t \in CompletedTasks : \A s \in CompletedTasks : task[s].finishedAt <= task[t].finishedAt

\* The workers u's file writes if all of its rows are imported.
RowsOf(u) == {Rows[u][i] : i \in DOMAIN Rows[u]} \ Foreign

\* Two races the protocol leaves open.  A job fetched before its route commits
\* finds no task and bootstraps a second one under the same job id ...
NoBootstrap ==
  \A s, t \in TaskId : task[s].job # None /\ task[s].job = task[t].job => s = t
\* ... and a task that completes between a newer upload's read and its update
\* by id is turned from COMPLETED to CANCELLED.
NoOverwrittenTask == won = CompletedTasks

\* Nothing crashed: once accepted uploads have settled, some import of them has
\* completed -- uploads cancelling one another never cancel all of them.
SomeImportCompletes == Quiet /\ newest # None => CompletedTasks # {}

\* Barring the first race, it is the last accepted upload that completed last,
\* and its job is reported completed.
NewestTakesOver ==
  Quiet /\ newest # None /\ NoBootstrap =>
    /\ CompletedTasks # {}
    /\ task[LatestCompleted].job = newest
    /\ job[newest].state = "completed"

\* Barring both races, every worker of the latest completed file carries its
\* stamp: nobody it names drops out of the next roster generation.
\* docs/csv-schema.md: "each completed import stamps `lastImportTaskId` on every
\* worker its rows touched" -- true until a run dies after its finalize.
LatestStampsItsWorkers ==
  Quiet /\ CompletedTasks # {} /\ NoBootstrap /\ NoOverwrittenTask =>
    \A w \in RowsOf(task[LatestCompleted].job) : lastImportTask[w] = LatestCompleted

-----------------------------------------------------------------------------
(* Liveness *)

\* Every import task ends: it is imported or superseded.  jobs/queue.ts: "Both
\* job handlers are idempotent", hence retried -- true until a run dies, since
\* its retry finds the task no longer PENDING and leaves it as it is.
TaskEnds == \A t \in TaskId : task[t].status \in Active ~> task[t].status \in Terminal

\* The same as long as nothing crashes: claimed, cancelled or bootstrapped, no
\* task is forgotten by all of those who might end it.
TaskEndsUnlessFault ==
  \A t \in TaskId : task[t].status \in Active ~> task[t].status \in Terminal \/ faults > 0

\* Crashes or not, the pipeline comes to rest: transactions finish, jobs end
\* within their retries, and handlers that collide on the unique index do not
\* cancel one another for ever.
PipelineDrains == <>[]Quiet

-----------------------------------------------------------------------------
(* The pipeline implements one import slot that only moves forward         *)

Slot == INSTANCE ImportSlot WITH
  Task <- TaskId,
  current <- IF ActiveTasks = {} THEN NoTask ELSE CHOOSE t \in ActiveTasks : TRUE,
  ended <- {t \in TaskId : task[t].status \in Terminal}

\* Every step of every process either leaves the company's slot alone or hands
\* it on, ends it or refuses a task, in one atomic step.
ImplementsSlot == Slot!Spec

-----------------------------------------------------------------------------
(* What the documentation says and the code does not do                    *)

\* apps/api/loadtest/spamChurn.ts: "No worker anywhere ends up with `lastImportTaskId`
\* pointing at a CANCELLED task".
NoStampOfCancelledTask ==
  Quiet => \A w \in Worker : lastImportTask[w] # NoTask =>
                               task[lastImportTask[w]].status # "CANCELLED"

\* README.md: "uploading again for the same company while one is still
\* processing cancels the old one and takes over".
UploadTakesOver == Quiet /\ newest # None => \E t \in CompletedTasks : task[t].job = newest
=============================================================================
