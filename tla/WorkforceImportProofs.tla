------------------------ MODULE WorkforceImportProofs ------------------------
(***************************************************************************)
(* Proofs about WorkforceImport, for every set of uploads, workers and     *)
(* files and every value of the bounds.                                    *)
(***************************************************************************)
EXTENDS WorkforceImport, TLAPS

\* The rows of import_tasks that exist.
Known == {t \in TaskId : task[t].status # "absent"}

\* Ids the sequence has not given out have no row.
FreshInv == \A t \in TaskId : t >= nextTask => t \notin Known

\* ... and those created as anything but FAILED, which no update can undo.
Begun == {t \in Known : task[t].status # "FAILED"}

\* What the open route transaction may rely on.
TxInv ==
  /\ tx.pc # "free" => tx.up \in Upload
  /\ tx.old # NoTask => tx.old \in Begun
  /\ tx.pc \in {"cancel", "cancelJob"} => tx.old # NoTask
  /\ IF tx.pc \in {"send", "attach", "reject"}
     THEN /\ tx.new \in TaskId \ Known
          /\ tx.new < nextTask
          /\ ActiveTasks \subseteq {tx.old}
     ELSE tx.new = NoTask

\* What a run of the handler may rely on.
RunGood(r) ==
  /\ run[r].pc \in {"row", "check"} => run[r].i < Len(Rows[r[1]])
  /\ run[r].pc \in {"adopt", "row", "check", "finalize", "stamp"} => run[r].task \in Known
  /\ run[r].pc \in {"bootCancel", "bootCancelJob"} => run[r].old \in Begun
  /\ run[r].pc = "stamp" => run[r].task \in won

\* ... when it has just started, its row index is still zero.
RunStart(r) == run[r].pc \in {"find", "adopt", "bootFind", "bootCancel", "bootCancelJob",
                              "bootCreate"} => run[r].i = 0

RunInv == \A r \in Run : RunGood(r) /\ RunStart(r)

\* A task whose finalize matched is past every guard.
WonInv == \A t \in won : task[t].status \in {"COMPLETED", "CANCELLED"}

IInv ==
  /\ TypeOK
  /\ FreshInv
  /\ TxInv
  /\ RunInv
  /\ WonInv
  /\ OneActiveTask
  /\ StampedByWinner

USE DEF NoTask

LEMMA LoopPcType ==
  ASSUME NEW r \in Run, NEW i \in Nat, i <= Len(Rows[r[1]])
  PROVE  /\ LoopPc(r, i) \in {"finalize", "check", "row"}
         /\ LoopPc(r, i) \in {"check", "row"} => i < Len(Rows[r[1]])
<1>1. Rows[r[1]] \in Seq(Worker)
  BY RowsAssumption DEF Run
<1>2. Len(Rows[r[1]]) \in Nat
  BY <1>1
<1> QED BY <1>2 DEF LoopPc

LEMMA InitIInv == Init => IInv
<1> SUFFICES ASSUME Init PROVE IInv
  OBVIOUS
<1> USE DEF Init
<1>1. TypeOK
  BY BoundsAssumption DEF TypeOK, TaskRow, JobRow, JobState, Queued, NoTx, TxPc, NoRun, RunRow, RunPc, TaskId
<1>2. FreshInv /\ TxInv /\ RunInv /\ WonInv
  BY DEF FreshInv, TxInv, RunInv, RunGood, RunStart, WonInv, Known, Begun, NoTx, NoRun, ActiveTasks, Active
<1>3. OneActiveTask /\ StampedByWinner
  BY DEF OneActiveTask, StampedByWinner, ActiveTasks, Active
<1> QED BY <1>1, <1>2, <1>3 DEF IInv

LEMMA RouteTypeOK ==
  ASSUME IInv, Route \/ RouteRollback \/ \E u \in Upload : RouteOpen(u)
  PROVE  TypeOK'
<1> DEFINE TxRow == [up : Upload \cup {None}, pc : TxPc, old : 0..MaxTask, new : 0..MaxTask]
<1> USE BoundsAssumption DEF taskTableVars, workerVars, historyVars
<1>1. TypeOK /\ TxInv
  BY DEF IInv
<1>2. NoTx \in TxRow
  BY DEF NoTx, TxPc
<1>3. tx \in TxRow /\ job \in [Upload -> JobRow] /\ task \in [TaskId -> TaskRow]
  BY <1>1 DEF TypeOK
<1>4. ASSUME NEW u \in Upload, RouteOpen(u) PROVE TypeOK'
  BY <1>1, <1>4 DEF RouteOpen, TypeOK, TxPc
<1>5. CASE RouteCancel
  BY <1>1, <1>5 DEF RouteCancel, TypeOK, TxPc
<1>6. CASE RouteCancelJob
  <2>1. job' \in [Upload -> JobRow]
    <3>1. ASSUME NEW u \in Upload PROVE Cancelled(job, u) \in [Upload -> JobRow]
      BY <1>3 DEF Cancelled, JobRow, JobState
    <3>2. task[tx.old].job \in Upload \/ Cancelled(job, task[tx.old].job) = job
      BY <1>1, <1>3, <1>6 DEF RouteCancelJob, TxInv, Begun, Known, TaskRow, Cancelled, TypeOK
    <3> QED BY <1>3, <1>6, <3>1, <3>2 DEF RouteCancelJob
  <2>2. faults' \in 0..MaxFaults
    BY <1>1, <1>6 DEF RouteCancelJob, Fault, TypeOK
  <2>3. tx' \in TxRow
    BY <1>3, <1>6 DEF RouteCancelJob, TxPc
  <2> QED BY <1>1, <1>6, <2>1, <2>2, <2>3 DEF RouteCancelJob, TypeOK
<1>7. CASE RouteCreate
  <2>1. UNCHANGED <<task, clock, job, run, lastImportTask, rowOf, faults, won, newest>>
    BY <1>7 DEF RouteCreate
  <2>2. CASE ActiveTasks \subseteq {tx.old}
    <3>1. /\ nextTask \in 1..MaxTask
          /\ nextTask' = nextTask + 1
          /\ tx' = [tx EXCEPT !.pc = "send", !.new = nextTask]
          /\ UNCHANGED response
      BY <1>1, <1>7, <2>2 DEF RouteCreate, TypeOK
    <3>2. tx' \in TxRow
      <4>1. tx' = [up |-> tx.up, pc |-> "send", old |-> tx.old, new |-> nextTask]
        BY <1>3, <3>1
      <4>2. tx.up \in Upload \cup {None} /\ tx.old \in 0..MaxTask /\ nextTask \in 0..MaxTask
        BY <1>3, <3>1
      <4>3. "send" \in TxPc
        BY DEF TxPc
      <4> QED BY <4>1, <4>2, <4>3
    <3> QED BY <1>1, <2>1, <3>1, <3>2 DEF TypeOK
  <2>3. CASE ~(ActiveTasks \subseteq {tx.old})
    <3>1. tx' = NoTx /\ UNCHANGED nextTask /\ response' = [response EXCEPT ![tx.up] = "error"]
      BY <1>7, <2>3 DEF RouteCreate
    <3> QED BY <1>1, <1>2, <2>1, <3>1 DEF TypeOK
  <2> QED BY <2>2, <2>3
<1>8. CASE RouteSend
  <2>1. tx.up \in Upload
    BY <1>1, <1>8 DEF RouteSend, TxInv
  <2>2. [job EXCEPT ![tx.up].state = "created"] \in [Upload -> JobRow]
    <3>1. [job[tx.up] EXCEPT !.state = "created"] \in JobRow
      BY <1>3, <2>1 DEF JobRow, JobState, Queued
    <3> QED BY <1>3, <3>1
  <2>3. tx' \in TxRow
    BY <1>3, <1>8 DEF RouteSend, TxPc
  <2>4. job' \in [Upload -> JobRow]
    BY <1>3, <1>8, <2>2 DEF RouteSend
  <2> QED BY <1>1, <1>8, <2>3, <2>4 DEF RouteSend, TypeOK
<1>9. CASE RouteCommit
  <2>1. Committed("PENDING", tx.up) \in [TaskId -> TaskRow]
    BY <1>1, <1>3, <1>9 DEF RouteCommit, TxInv, Committed, TaskRow, Active, Terminal
  <2> QED BY <1>1, <1>2, <1>9, <2>1 DEF RouteCommit, TxInv, TypeOK
<1>10. CASE RouteReject
  <2>1. Committed("FAILED", None) \in [TaskId -> TaskRow]
    BY <1>3 DEF Committed, TaskRow, Active, Terminal
  <2> QED BY <1>1, <1>2, <1>10, <2>1 DEF RouteReject, TypeOK
<1>11. CASE RouteRollback
  <2>1. faults' \in 0..MaxFaults
    BY <1>1, <1>11 DEF RouteRollback, Fault, TypeOK
  <2> QED BY <1>1, <1>2, <1>11, <2>1 DEF RouteRollback, TypeOK
<1> QED BY <1>4, <1>5, <1>6, <1>7, <1>8, <1>9, <1>10, <1>11 DEF Route

\* Statements that only move a run's program counter.
LEMMA GotoType ==
  ASSUME run \in [Run -> RunRow], NEW r \in Run, NEW pc \in RunPc, Goto(r, pc)
  PROVE  run' \in [Run -> RunRow]
<1>1. [run[r] EXCEPT !.pc = pc] \in RunRow
  BY DEF RunRow
<1> QED BY <1>1 DEF Goto

LEMMA HandlerTypeOK ==
  ASSUME IInv, NEW r \in Run, Handler(r)
  PROVE  TypeOK'
<1> USE BoundsAssumption DEF taskTableVars, routeVars, workerVars
<1>1. TypeOK /\ RunInv /\ FreshInv
  BY DEF IInv
<1>2. /\ run \in [Run -> RunRow] /\ job \in [Upload -> JobRow] /\ task \in [TaskId -> TaskRow]
      /\ run[r] \in RunRow
      /\ r \in Upload \X (0..RetryLimit)
  BY <1>1 DEF TypeOK, Run
<1>3. TaskId \subseteq 0..MaxTask
  BY DEF TaskId
<1>4. CASE ClaimFind(r)
  <2>1. run' \in [Run -> RunRow]
    <3>1. CASE Goto(r, "bootFind")
      BY <1>2, <3>1, GotoType DEF RunPc
    <3>2. ASSUME NEW t \in TaskId, run' = [run EXCEPT ![r].pc = "adopt", ![r].task = t]
          PROVE  run' \in [Run -> RunRow]
      <4>1. [run[r] EXCEPT !.pc = "adopt", !.task = t] \in RunRow
        BY <1>2, <1>3 DEF RunRow, RunPc
      <4> QED BY <1>2, <3>2, <4>1
    <3> QED BY <1>4, <3>1, <3>2 DEF ClaimFind
  <2> QED BY <1>1, <1>4, <2>1 DEF ClaimFind, TypeOK
<1>5. CASE ClaimAdopt(r)
  <2>1. run' \in [Run -> RunRow]
    <3>1. LoopPc(r, 0) \in RunPc
      BY DEF LoopPc, RunPc
    <3> QED BY <1>2, <1>5, <3>1, GotoType DEF ClaimAdopt, RunPc
  <2>2. task' \in [TaskId -> TaskRow]
    BY <1>2, <1>5 DEF ClaimAdopt, TaskRow, Active
  <2> QED BY <1>1, <1>5, <2>1, <2>2 DEF ClaimAdopt, TypeOK
<1>6. CASE BootFind(r)
  <2>1. PICK t \in 0..MaxTask :
          run' = [run EXCEPT ![r].pc = IF t = NoTask THEN "bootCreate" ELSE "bootCancel",
                             ![r].old = t]
    BY <1>6 DEF BootFind
  <2>2. [run[r] EXCEPT !.pc = IF t = NoTask THEN "bootCreate" ELSE "bootCancel", !.old = t]
          \in RunRow
    BY <1>2 DEF RunRow, RunPc
  <2>3. run' \in [Run -> RunRow]
    BY <1>2, <2>1, <2>2
  <2> QED BY <1>1, <1>6, <2>3 DEF BootFind, TypeOK
<1>7. CASE BootCancel(r)
  <2>1. run' \in [Run -> RunRow]
    BY <1>2, <1>7, GotoType DEF BootCancel, RunPc
  <2>2. task' \in [TaskId -> TaskRow]
    BY <1>2, <1>7 DEF BootCancel, TaskRow, Terminal
  <2> QED BY <1>1, <1>7, <2>1, <2>2 DEF BootCancel, TypeOK
<1>8. CASE BootCancelJob(r)
  <2>1. run' \in [Run -> RunRow]
    BY <1>2, <1>8, GotoType DEF BootCancelJob, RunPc
  <2>2. job' \in [Upload -> JobRow]
    <3>1. ASSUME NEW u PROVE u \in Upload => Cancelled(job, u) \in [Upload -> JobRow]
      BY <1>2 DEF Cancelled, JobRow, JobState
    <3>2. run[r].old \in Begun
      BY <1>1, <1>8 DEF RunInv, RunGood, RunStart, BootCancelJob
    <3>3. task[run[r].old].job \in Upload \/ Cancelled(job, task[run[r].old].job) = job
      BY <1>2, <3>2 DEF Begun, Known, TaskRow, Cancelled
    <3> QED BY <1>2, <1>8, <3>1, <3>3 DEF BootCancelJob
  <2>3. faults' \in 0..MaxFaults
    BY <1>1, <1>8 DEF BootCancelJob, Fault, TypeOK
  <2> QED BY <1>1, <1>8, <2>1, <2>2, <2>3 DEF BootCancelJob, TypeOK
<1>9. CASE BootCreate(r)
  <2>1. CASE ActiveTasks = {}
    <3>1. /\ nextTask \in TaskId
          /\ task' = [task EXCEPT ![nextTask] =
                        [status |-> "PROCESSING", job |-> r[1], finishedAt |-> 0]]
          /\ nextTask' \in 1..(MaxTask + 1)
          /\ run' = [run EXCEPT ![r].pc = LoopPc(r, 0), ![r].task = nextTask]
      <4>1. nextTask \in 1..(MaxTask + 1) /\ nextTask <= MaxTask /\ nextTask' = nextTask + 1
        BY <1>1, <1>9, <2>1 DEF BootCreate, TypeOK
      <4>2. nextTask \in TaskId /\ nextTask' \in 1..(MaxTask + 1)
        BY <4>1 DEF TaskId
      <4> QED BY <1>9, <2>1, <4>2 DEF BootCreate
    <3>2. [status |-> "PROCESSING", job |-> r[1], finishedAt |-> 0] \in TaskRow
      BY <1>2 DEF TaskRow, Active
    <3>3. task' \in [TaskId -> TaskRow]
      BY <1>2, <3>1, <3>2
    <3>4. [run[r] EXCEPT !.pc = LoopPc(r, 0), !.task = nextTask] \in RunRow
      BY <1>2, <1>3, <3>1 DEF RunRow, RunPc, LoopPc
    <3>5. run' \in [Run -> RunRow]
      BY <1>2, <3>1, <3>4
    <3> QED BY <1>1, <1>9, <3>1, <3>3, <3>5 DEF BootCreate, TypeOK
  <2>2. CASE ActiveTasks # {}
    <3>1. run' \in [Run -> RunRow]
      BY <1>2, <1>9, <2>2, GotoType DEF BootCreate, RunPc
    <3> QED BY <1>1, <1>9, <2>2, <3>1 DEF BootCreate, TypeOK
  <2> QED BY <2>1, <2>2
<1>10. CASE ImportRow(r)
  <2> DEFINE w == Rows[r[1]][run[r].i + 1]
  <2>1. /\ run[r].i \in Nat /\ run[r].i + 1 \in Nat /\ run[r].stale \in Nat
        /\ run[r].touched \in SUBSET Worker
    BY <1>2 DEF RunRow
  <2>2. w \in Worker
    <3>1. Rows[r[1]] \in Seq(Worker)
      BY <1>2, RowsAssumption
    <3>2. run[r].i < Len(Rows[r[1]])
      BY <1>1, <1>10 DEF RunInv, RunGood, RunStart, ImportRow
    <3> QED BY <2>1, <3>1, <3>2
  <2>3. LoopPc(r, run[r].i + 1) \in RunPc
    BY DEF LoopPc, RunPc
  <2>4. CASE w \in Foreign
    <3>1. /\ run' = [run EXCEPT ![r].i = @ + 1, ![r].pc = LoopPc(r, run[r].i + 1)]
          /\ UNCHANGED rowOf
      BY <1>10, <2>4 DEF ImportRow
    <3>2. [run[r] EXCEPT !.i = @ + 1, !.pc = LoopPc(r, run[r].i + 1)] \in RunRow
      <4> HIDE DEF w
      <4> DEFINE j == run[r].i + 1   p == LoopPc(r, run[r].i + 1)
      <4> HIDE DEF j, p
      <4>1. [run[r] EXCEPT !.i = j, !.pc = p] \in RunRow
        BY <1>2, <2>1, <2>3 DEF RunRow, j, p
      <4> QED BY <4>1 DEF j, p
    <3>3. run' \in [Run -> RunRow]
      BY <1>2, <3>1, <3>2
    <3> QED BY <1>1, <1>10, <3>1, <3>3 DEF ImportRow, TypeOK
  <2>5. CASE w \notin Foreign
    <3>1. PICK n \in Nat :
            run' = [run EXCEPT ![r].i = @ + 1, ![r].pc = LoopPc(r, run[r].i + 1),
                               ![r].touched = @ \cup {w}, ![r].stale = n]
      BY <1>2, <1>10, <2>1, <2>5 DEF ImportRow
    <3>2. [run[r] EXCEPT !.i = @ + 1, !.pc = LoopPc(r, run[r].i + 1),
                         !.touched = @ \cup {w}, !.stale = n] \in RunRow
      <4> DEFINE j == run[r].i + 1   p == LoopPc(r, run[r].i + 1)   s == run[r].touched \cup {w}
      <4>1. j \in Nat /\ p \in RunPc /\ s \in SUBSET Worker
        BY <2>1, <2>2, <2>3
      <4> HIDE DEF j, p, s
      <4>2. [run[r] EXCEPT !.i = j, !.pc = p, !.touched = s, !.stale = n] \in RunRow
        BY <1>2, <4>1 DEF RunRow
      <4> QED BY <4>2 DEF j, p, s
    <3>3. run' \in [Run -> RunRow]
      BY <1>2, <3>1, <3>2
    <3>4. rowOf' \in [Worker -> Upload \cup {None}]
      BY <1>1, <1>2, <1>10, <2>5 DEF ImportRow, TypeOK
    <3> QED BY <1>1, <1>10, <3>3, <3>4 DEF ImportRow, TypeOK
  <2> QED BY <2>4, <2>5
<1>11. CASE CheckCancelled(r)
  <2>1. run' \in [Run -> RunRow]
    BY <1>2, <1>11, GotoType DEF CheckCancelled, RunPc
  <2> QED BY <1>1, <1>11, <2>1 DEF CheckCancelled, TypeOK
<1>12. CASE Finalize(r)
  <2>1. run' \in [Run -> RunRow]
    BY <1>2, <1>12, GotoType DEF Finalize, RunPc
  <2>2. run[r].task \in TaskId
    BY <1>1, <1>12 DEF RunInv, RunGood, RunStart, Finalize, Known
  <2>3. clock \in Nat
    BY <1>1 DEF TypeOK
  <2>4. task' \in [TaskId -> TaskRow]
    <3>1. [task[run[r].task] EXCEPT !.status = "COMPLETED", !.finishedAt = clock + 1] \in TaskRow
      <4>1. clock + 1 \in Nat /\ task[run[r].task] \in TaskRow
        BY <1>2, <2>2, <2>3
      <4> QED BY <4>1 DEF TaskRow, Terminal
    <3>2. \/ task' = [task EXCEPT ![run[r].task].status = "COMPLETED",
                                  ![run[r].task].finishedAt = clock + 1]
          \/ UNCHANGED task
      BY <1>12 DEF Finalize
    <3> QED BY <1>2, <3>1, <3>2
  <2>5. clock' \in Nat /\ won' \subseteq TaskId
    BY <1>1, <1>12, <2>2, <2>3 DEF Finalize, TypeOK
  <2> QED BY <1>1, <1>12, <2>1, <2>4, <2>5 DEF Finalize, TypeOK
<1>13. CASE Stamp(r)
  <2>1. run' \in [Run -> RunRow]
    BY <1>2, <1>13, GotoType DEF Stamp, RunPc
  <2>2. lastImportTask' \in [Worker -> 0..MaxTask]
    BY <1>1, <1>2, <1>13 DEF Stamp, TypeOK, RunRow
  <2> QED BY <1>1, <1>13, <2>1, <2>2 DEF Stamp, TypeOK
<1>14. CASE Return(r)
  <2>1. [NoRun EXCEPT !.pc = "ended"] \in RunRow
    BY DEF NoRun, RunRow, RunPc
  <2>2. [job[r[1]] EXCEPT !.state = "completed"] \in JobRow
    BY <1>2 DEF JobRow, JobState
  <2>3. job' \in [Upload -> JobRow]
    BY <1>2, <1>14, <2>2 DEF Return
  <2> QED BY <1>1, <1>14, <2>1, <2>3 DEF Return, TypeOK
<1> QED BY <1>4, <1>5, <1>6, <1>7, <1>8, <1>9, <1>10, <1>11, <1>12, <1>13, <1>14 DEF Handler

LEMMA QueueTypeOK ==
  ASSUME IInv, \/ \E u \in Upload : Fetch(u) \/ JobExpire(u)
               \/ \E r \in Run : RunDies(r)
  PROVE  TypeOK'
<1> USE BoundsAssumption DEF taskTableVars, routeVars, workerVars
<1>1. TypeOK
  BY DEF IInv
<1>2. run \in [Run -> RunRow] /\ job \in [Upload -> JobRow]
  BY <1>1 DEF TypeOK
<1>3. ASSUME NEW pc \in RunPc PROVE [NoRun EXCEPT !.pc = pc] \in RunRow
  BY DEF NoRun, RunRow
<1>4. ASSUME NEW u \in Upload, Fetch(u) PROVE TypeOK'
  <2>1. job' \in [Upload -> JobRow]
    BY <1>2, <1>4 DEF Fetch, JobRow, JobState
  <2>2. [NoRun EXCEPT !.pc = "find"] \in RunRow
    BY <1>3 DEF RunPc
  <2>3. run' \in [Run -> RunRow]
    BY <1>2, <1>4, <2>2 DEF Fetch
  <2> QED BY <1>1, <1>4, <2>1, <2>3 DEF Fetch, TypeOK
<1>5. ASSUME NEW u \in Upload, JobExpire(u) PROVE TypeOK'
  <2>1. job[u].retries \in 0..RetryLimit
    BY <1>2 DEF JobRow
  <2>2. [job[u] EXCEPT !.state = "failed"] \in JobRow
    BY <1>2 DEF JobRow, JobState
  <2>3. RetriesLeft(u) => [job[u] EXCEPT !.state = "retry", !.retries = @ + 1] \in JobRow
    <3>1. RetriesLeft(u) => job[u].retries + 1 \in 0..RetryLimit
      BY <2>1 DEF RetriesLeft
    <3>2. job[u] \in JobRow /\ "retry" \in JobState
      BY <1>2 DEF JobState, Queued
    <3> QED BY <3>1, <3>2 DEF JobRow
  <2>4. job' \in [Upload -> JobRow]
    BY <1>2, <1>5, <2>2, <2>3 DEF JobExpire
  <2>5. faults' \in 0..MaxFaults
    BY <1>1, <1>5 DEF JobExpire, Fault, TypeOK
  <2> QED BY <1>1, <1>5, <2>4, <2>5 DEF JobExpire, TypeOK
<1>6. ASSUME NEW r \in Run, RunDies(r) PROVE TypeOK'
  <2>1. [NoRun EXCEPT !.pc = "ended"] \in RunRow
    BY <1>3 DEF RunPc
  <2>2. run' \in [Run -> RunRow]
    BY <1>2, <1>6, <2>1 DEF RunDies
  <2>3. faults' \in 0..MaxFaults
    BY <1>1, <1>6 DEF RunDies, Fault, TypeOK
  <2> QED BY <1>1, <1>6, <2>2, <2>3 DEF RunDies, TypeOK
<1> QED BY <1>4, <1>5, <1>6

-----------------------------------------------------------------------------
(* What a step does to import_tasks, and nothing else about the step.       *)

\* Only the row of t changes, and its status becomes s.
Moved(t, s) ==
  /\ task'[t].status = s
  /\ \A x \in TaskId \ {t} : task'[x] = task[x]

\* A guarded update, or a cancellation by id.
HandlerUpdate(t, s) ==
  /\ t \in Begun
  /\ Moved(t, s)
  /\ UNCHANGED nextTask
  /\ \/ s = "PROCESSING" /\ task[t].status = "PENDING" /\ UNCHANGED won
     \/ s = "COMPLETED" /\ task[t].status = "PROCESSING" /\ won' = won \cup {t}
     \/ /\ s = "CANCELLED" /\ task'[t] = [task[t] EXCEPT !.status = "CANCELLED"]
        /\ UNCHANGED won

\* A self-bootstrapping handler inserts its own task.
HandlerInsert ==
  /\ nextTask \in TaskId
  /\ Moved(nextTask, "PROCESSING")
  /\ ActiveTasks = {}
  /\ tx.new = NoTask
  /\ nextTask' = nextTask + 1
  /\ UNCHANGED won

\* The route's transaction becomes visible.
RouteInsert(s) ==
  /\ tx.new \in TaskId \ Known
  /\ task'[tx.new].status = s
  /\ tx.old # NoTask => /\ tx.old \in Begun
                        /\ task'[tx.old] = [task[tx.old] EXCEPT !.status = "CANCELLED"]
  /\ \A x \in TaskId \ {tx.old, tx.new} : task'[x] = task[x]
  /\ ActiveTasks \subseteq {tx.old}
  /\ tx.new < nextTask
  /\ UNCHANGED <<nextTask, won>>

LEMMA HandlerTask ==
  ASSUME IInv, NEW r \in Run, Handler(r)
  PROVE  /\ UNCHANGED tx
         /\ \/ UNCHANGED <<task, nextTask, won>>
            \/ \E t \in Begun, s \in {"PROCESSING", "COMPLETED", "CANCELLED"} : HandlerUpdate(t, s)
            \/ HandlerInsert
<1> USE DEF taskTableVars, routeVars, workerVars
<1>1. RunInv /\ task \in [TaskId -> TaskRow] /\ nextTask \in 1..(MaxTask + 1)
  BY DEF IInv, TypeOK
<1>2. UNCHANGED tx
  BY DEF Handler, ClaimFind, ClaimAdopt, BootFind, BootCancel, BootCancelJob, BootCreate,
         ImportRow, CheckCancelled, Finalize, Stamp, Return
<1>3. ASSUME \/ ClaimFind(r) \/ BootFind(r) \/ BootCancelJob(r) \/ ImportRow(r)
             \/ CheckCancelled(r) \/ Stamp(r) \/ Return(r)
      PROVE  UNCHANGED <<task, nextTask, won>>
  BY <1>3 DEF ClaimFind, BootFind, BootCancelJob, ImportRow, CheckCancelled, Stamp, Return
<1>4. CASE ClaimAdopt(r)
  <2>1. CASE Claimable(run[r].task)
    <3>1. run[r].task \in Begun
      BY <1>1, <1>4, <2>1 DEF RunInv, RunGood, RunStart, ClaimAdopt, Claimable, Begun, Known
    <3>2. HandlerUpdate(run[r].task, "PROCESSING")
      BY <1>1, <1>4, <2>1, <3>1 DEF ClaimAdopt, Claimable, HandlerUpdate, Moved, Begun, Known, TaskRow
    <3> QED BY <1>2, <3>1, <3>2
  <2>2. CASE ~Claimable(run[r].task)
    BY <1>2, <1>4, <2>2 DEF ClaimAdopt
  <2> QED BY <2>1, <2>2
<1>5. CASE BootCancel(r)
  <2>1. run[r].old \in Begun
    BY <1>1, <1>5 DEF RunInv, RunGood, RunStart, BootCancel
  <2>2. HandlerUpdate(run[r].old, "CANCELLED")
    BY <1>1, <1>5, <2>1 DEF BootCancel, HandlerUpdate, Moved, Begun, Known, TaskRow
  <2> QED BY <1>2, <2>1, <2>2
<1>6. CASE BootCreate(r)
  <2>1. CASE ActiveTasks = {}
    <3>1. nextTask \in TaskId
      BY <1>1, <1>6, <2>1 DEF BootCreate, TaskId
    <3>2. tx.new = NoTask
      BY <1>6 DEF BootCreate, IndexInDoubt
    <3>3. Moved(nextTask, "PROCESSING")
      BY <1>1, <1>6, <2>1, <3>1 DEF BootCreate, Moved
    <3>4. nextTask' = nextTask + 1 /\ UNCHANGED won
      BY <1>6, <2>1 DEF BootCreate
    <3> QED BY <1>2, <2>1, <3>1, <3>2, <3>3, <3>4 DEF HandlerInsert
  <2>2. CASE ActiveTasks # {}
    BY <1>2, <1>6, <2>2 DEF BootCreate
  <2> QED BY <2>1, <2>2
<1>7. CASE Finalize(r)
  <2>1. CASE Finalizable(run[r].task)
    <3>1. run[r].task \in Begun
      BY <1>1, <1>7, <2>1 DEF RunInv, RunGood, RunStart, Finalize, Finalizable, Begun, Known
    <3>2. HandlerUpdate(run[r].task, "COMPLETED")
      BY <1>1, <1>7, <2>1, <3>1 DEF Finalize, Finalizable, HandlerUpdate, Moved, Begun, Known, TaskRow
    <3> QED BY <1>2, <3>1, <3>2
  <2>2. CASE ~Finalizable(run[r].task)
    BY <1>2, <1>7, <2>2 DEF Finalize
  <2> QED BY <2>1, <2>2
<1> QED BY <1>2, <1>3, <1>4, <1>5, <1>6, <1>7 DEF Handler

LEMMA RouteTask ==
  ASSUME IInv, Route \/ RouteRollback \/ \E u \in Upload : RouteOpen(u)
  PROVE  \/ task' = task /\ won' = won /\ nextTask' >= nextTask
         \/ tx' = NoTx /\ \E s \in {"PENDING", "FAILED"} : RouteInsert(s)
<1> USE DEF taskTableVars, workerVars, historyVars
<1>1. TxInv /\ task \in [TaskId -> TaskRow] /\ nextTask \in 1..(MaxTask + 1)
  BY DEF IInv, TypeOK
<1>2. ASSUME NEW u \in Upload, RouteOpen(u)
      PROVE  task' = task /\ won' = won /\ nextTask' >= nextTask
  BY <1>1, <1>2 DEF RouteOpen
<1>3. ASSUME RouteCancel \/ RouteCancelJob \/ RouteCreate \/ RouteSend \/ RouteRollback
      PROVE  task' = task /\ won' = won /\ nextTask' >= nextTask
  BY <1>1, <1>3 DEF RouteCancel, RouteCancelJob, RouteCreate, RouteSend, RouteRollback
<1>4. ASSUME tx.pc \in {"attach", "reject"}, NEW s, NEW j, task' = Committed(s, j),
             UNCHANGED <<nextTask, won>>
      PROVE  RouteInsert(s)
  <2>1. /\ tx.new \in TaskId \ Known /\ tx.new < nextTask /\ ActiveTasks \subseteq {tx.old}
        /\ tx.old # NoTask => tx.old \in Begun
    BY <1>1, <1>4 DEF TxInv
  <2>2. tx.old # NoTask => tx.old \in TaskId \ {tx.new}
    BY <2>1 DEF Begun, Known
  <2>3. PICK updated \in [TaskId -> TaskRow] :
          /\ updated = IF tx.old = NoTask THEN task
                       ELSE [task EXCEPT ![tx.old].status = "CANCELLED"]
          /\ task' = [updated EXCEPT ![tx.new] = [status |-> s, job |-> j, finishedAt |-> 0]]
    BY <1>1, <1>4, <2>2 DEF Committed, TaskRow, Terminal
  <2>4. task'[tx.new].status = s
    BY <2>1, <2>3
  <2>5. tx.old # NoTask => task'[tx.old] = [task[tx.old] EXCEPT !.status = "CANCELLED"]
    BY <1>1, <2>2, <2>3
  <2>6. \A x \in TaskId \ {tx.old, tx.new} : task'[x] = task[x]
    BY <1>1, <2>3
  <2> QED BY <1>4, <2>1, <2>4, <2>5, <2>6 DEF RouteInsert
<1>5. ASSUME RouteCommit \/ RouteReject
      PROVE  tx' = NoTx /\ \E s \in {"PENDING", "FAILED"} : RouteInsert(s)
  <2>1. CASE RouteCommit
    BY <1>4, <2>1 DEF RouteCommit
  <2>2. CASE RouteReject
    BY <1>4, <2>2 DEF RouteReject
  <2> QED BY <1>5, <2>1, <2>2
<1> QED BY <1>2, <1>3, <1>5 DEF Route

\* No step takes a row away, nor turns one into FAILED.
LEMMA RowsStay ==
  ASSUME IInv, Next
  PROVE  Known \subseteq Known' /\ Begun \subseteq Begun'
<1>1. ASSUME task' = task PROVE Known \subseteq Known' /\ Begun \subseteq Begun'
  BY <1>1 DEF Known, Begun
<1>2. ASSUME NEW t \in Begun, NEW s \in {"PROCESSING", "COMPLETED", "CANCELLED"},
             HandlerUpdate(t, s)
      PROVE  Known \subseteq Known' /\ Begun \subseteq Begun'
  BY <1>2 DEF HandlerUpdate, Moved, Known, Begun
<1>3. ASSUME HandlerInsert PROVE Known \subseteq Known' /\ Begun \subseteq Begun'
  BY <1>3 DEF HandlerInsert, Moved, Known, Begun
<1>4. ASSUME NEW s, RouteInsert(s), s \in {"PENDING", "FAILED"}
      PROVE  Known \subseteq Known' /\ Begun \subseteq Begun'
  <2>1. task \in [TaskId -> TaskRow]
    BY DEF IInv, TypeOK
  <2>2. tx.old # NoTask => task'[tx.old].status = "CANCELLED"
    BY <1>4, <2>1 DEF RouteInsert, Begun, Known, TaskRow
  <2>3. tx.old = NoTask => tx.old \notin TaskId
    BY DEF TaskId
  <2> QED BY <1>4, <2>2, <2>3 DEF RouteInsert, Known, Begun
<1>5. ASSUME NEW r \in Run, Handler(r) PROVE Known \subseteq Known' /\ Begun \subseteq Begun'
  BY <1>1, <1>2, <1>3, <1>5, HandlerTask
<1>6. ASSUME Route \/ RouteRollback \/ \E u \in Upload : RouteOpen(u)
      PROVE  Known \subseteq Known' /\ Begun \subseteq Begun'
  BY <1>1, <1>4, <1>6, RouteTask
<1>7. ASSUME \/ \E u \in Upload : Fetch(u) \/ JobExpire(u)
             \/ \E r \in Run : RunDies(r)
      PROVE  task' = task
  BY <1>7 DEF Fetch, JobExpire, RunDies, taskTableVars
<1> QED BY <1>1, <1>5, <1>6, <1>7 DEF Next

LEMMA QueueTask ==
  ASSUME \/ \E u \in Upload : Fetch(u) \/ JobExpire(u)
         \/ \E r \in Run : RunDies(r)
  PROVE  UNCHANGED <<task, nextTask, won, tx>>
BY DEF Fetch, JobExpire, RunDies, taskTableVars, routeVars

-----------------------------------------------------------------------------
(* Each part of the invariant is preserved.                                 *)

\* Fresh ids, finished tasks and the slot depend on import_tasks alone.
LEMMA TableInv ==
  ASSUME IInv, Next
  PROVE  FreshInv' /\ WonInv' /\ OneActiveTask'
<1> DEFINE P == FreshInv' /\ WonInv' /\ OneActiveTask'
<1>1. /\ FreshInv /\ WonInv /\ OneActiveTask
      /\ task \in [TaskId -> TaskRow] /\ nextTask \in Nat /\ won \subseteq TaskId
  BY BoundsAssumption DEF IInv, TypeOK
<1>2. TaskId \subseteq Nat
  BY BoundsAssumption DEF TaskId
<1>3. TypeOK'
  BY RouteTypeOK, HandlerTypeOK, QueueTypeOK DEF Next
<1>4. nextTask' \in Nat
  BY <1>3, BoundsAssumption DEF TypeOK
<1>5. ASSUME task' = task, won' = won, nextTask' >= nextTask PROVE P
  BY <1>1, <1>2, <1>4, <1>5 DEF FreshInv, WonInv, OneActiveTask, Known, ActiveTasks
<1>6. ASSUME NEW t \in Begun, NEW s \in {"PROCESSING", "COMPLETED", "CANCELLED"},
             HandlerUpdate(t, s)
      PROVE  P
  <2>1. t \in TaskId /\ t \in Known
    BY DEF Begun, Known
  <2>2. Known' = Known
    BY <1>6, <2>1 DEF HandlerUpdate, Moved, Known
  <2>3. FreshInv'
    BY <1>1, <1>6, <2>2 DEF HandlerUpdate, FreshInv
  <2>4. WonInv'
    BY <1>1, <1>6, <2>1 DEF HandlerUpdate, Moved, WonInv
  <2>5. ActiveTasks' \subseteq ActiveTasks
    BY <1>6, <2>1 DEF HandlerUpdate, Moved, ActiveTasks, Active
  <2> QED BY <1>1, <2>3, <2>4, <2>5 DEF OneActiveTask
<1>7. ASSUME HandlerInsert PROVE P
  <2>1. nextTask \in TaskId /\ nextTask \notin Known /\ nextTask' = nextTask + 1
    BY <1>1, <1>2, <1>7 DEF HandlerInsert, FreshInv
  <2>2. Known' = Known \cup {nextTask}
    BY <1>7 DEF HandlerInsert, Moved, Known
  <2>3. FreshInv'
    BY <1>1, <1>2, <2>1, <2>2 DEF FreshInv
  <2>4. WonInv'
    BY <1>1, <1>7, <2>1 DEF HandlerInsert, Moved, WonInv, Known
  <2>5. ActiveTasks' \subseteq {nextTask}
    BY <1>7 DEF HandlerInsert, Moved, ActiveTasks
  <2> QED BY <2>3, <2>4, <2>5 DEF OneActiveTask
<1>8. ASSUME NEW s \in {"PENDING", "FAILED"}, RouteInsert(s) PROVE P
  <2>1. /\ tx.new \in TaskId \ Known /\ tx.new < nextTask /\ nextTask' = nextTask /\ won' = won
        /\ task'[tx.new].status = s
        /\ ActiveTasks \subseteq {tx.old}
        /\ \A x \in TaskId \ {tx.old, tx.new} : task'[x] = task[x]
    BY <1>8 DEF RouteInsert
  <2>2. tx.old # NoTask => tx.old \in Known /\ tx.old \in TaskId /\ task'[tx.old].status = "CANCELLED"
    BY <1>1, <1>8 DEF RouteInsert, Begun, Known, TaskRow
  <2>3. tx.old = NoTask => tx.old \notin TaskId
    BY DEF TaskId
  <2>4. Known' = Known \cup {tx.new}
    BY <2>1, <2>2, <2>3 DEF Known
  <2>5. FreshInv'
    BY <1>1, <1>2, <2>1, <2>4 DEF FreshInv
  <2>6. WonInv'
    BY <1>1, <2>1, <2>2, <2>3 DEF WonInv, Known
  <2>7. ActiveTasks' \subseteq {tx.new}
    BY <2>1, <2>2, <2>3 DEF ActiveTasks, Active
  <2> QED BY <2>5, <2>6, <2>7 DEF OneActiveTask
<1>9. ASSUME NEW r \in Run, Handler(r) PROVE P
  <2>1. \/ UNCHANGED <<task, nextTask, won>>
        \/ \E t \in Begun, s \in {"PROCESSING", "COMPLETED", "CANCELLED"} : HandlerUpdate(t, s)
        \/ HandlerInsert
    BY <1>9, HandlerTask
  <2> QED BY <1>1, <1>5, <1>6, <1>7, <2>1
<1>10. ASSUME Route \/ RouteRollback \/ \E u \in Upload : RouteOpen(u) PROVE P
  <2>1. \/ task' = task /\ won' = won /\ nextTask' >= nextTask
        \/ \E s \in {"PENDING", "FAILED"} : RouteInsert(s)
    BY <1>10, RouteTask
  <2> QED BY <1>5, <1>8, <2>1
<1>11. ASSUME \/ \E u \in Upload : Fetch(u) \/ JobExpire(u)
              \/ \E r \in Run : RunDies(r)
       PROVE  P
  BY <1>1, <1>5, <1>11, QueueTask
<1> QED BY <1>9, <1>10, <1>11 DEF Next

\* The open transaction keeps what it relies on, whatever handlers do.
LEMMA TransactionInv ==
  ASSUME IInv, Next
  PROVE  TxInv'
<1>1. /\ TxInv /\ FreshInv /\ task \in [TaskId -> TaskRow]
      /\ nextTask \in 1..(MaxTask + 1)
      /\ tx \in [up : Upload \cup {None}, pc : TxPc, old : 0..MaxTask, new : 0..MaxTask]
  BY DEF IInv, TypeOK
<1>2. Begun \subseteq Begun'
  BY RowsStay
<1>3. ASSUME NEW r \in Run, Handler(r) PROVE TxInv'
  <2>1. tx' = tx
    BY <1>3, HandlerTask
  <2>2. ASSUME tx.new # NoTask
        PROVE  Known' = Known /\ nextTask' = nextTask /\ ActiveTasks' \subseteq ActiveTasks
    <3>1. ~HandlerInsert
      BY <2>2 DEF HandlerInsert
    <3>2. ASSUME NEW t \in Begun, NEW s \in {"PROCESSING", "COMPLETED", "CANCELLED"},
                 HandlerUpdate(t, s)
          PROVE  Known' = Known /\ nextTask' = nextTask /\ ActiveTasks' \subseteq ActiveTasks
      BY <3>2 DEF HandlerUpdate, Moved, Begun, Known, ActiveTasks, Active
    <3>3. UNCHANGED task => Known' = Known /\ ActiveTasks' \subseteq ActiveTasks
      BY DEF Known, ActiveTasks
    <3> QED BY <1>3, <3>1, <3>2, <3>3, HandlerTask
  <2>3. tx.pc \in {"send", "attach", "reject"} => tx.new # NoTask
    BY <1>1 DEF TxInv, TaskId
  <2> QED BY <1>1, <1>2, <2>1, <2>2, <2>3 DEF TxInv
<1>4. ASSUME \/ \E u \in Upload : Fetch(u) \/ JobExpire(u)
             \/ \E r \in Run : RunDies(r)
      PROVE  TxInv'
  BY <1>1, <1>4, QueueTask DEF TxInv, Begun, Known, ActiveTasks
<1>5. ASSUME tx' = NoTx PROVE TxInv'
  BY <1>5 DEF TxInv, NoTx
<1>6. ASSUME NEW u \in Upload, RouteOpen(u) PROVE TxInv'
  <2>1. PICK t \in 0..MaxTask :
          /\ FoundActive(t)
          /\ tx' = [up |-> u, pc |-> IF t = NoTask THEN "create" ELSE "cancel",
                    old |-> t, new |-> NoTask]
    BY <1>6 DEF RouteOpen
  <2>2. t # NoTask => t \in Begun
    BY <2>1 DEF FoundActive, ActiveTasks, Active, Begun, Known
  <2> QED BY <1>2, <2>1, <2>2 DEF TxInv
<1>7. ASSUME RouteCancel \/ RouteCancelJob PROVE TxInv'
  <2>1. /\ tx' = [tx EXCEPT !.pc = "create"] \/ tx' = [tx EXCEPT !.pc = "cancelJob"]
        /\ tx.pc \in {"cancel", "cancelJob"}
    BY <1>7 DEF RouteCancel, RouteCancelJob
  <2> QED BY <1>1, <1>2, <2>1 DEF TxInv
<1>8. CASE RouteCreate
  <2>1. CASE ActiveTasks \subseteq {tx.old}
    <3>1. /\ tx' = [tx EXCEPT !.pc = "send", !.new = nextTask]
          /\ nextTask' = nextTask + 1 /\ nextTask <= MaxTask /\ task' = task
      BY <1>8, <2>1 DEF RouteCreate
    <3>2. /\ tx'.up = tx.up /\ tx'.pc = "send" /\ tx'.old = tx.old /\ tx'.new = nextTask
      BY <1>1, <3>1
    <3>3. nextTask \in TaskId \ Known /\ nextTask < nextTask'
      <4>1. nextTask \in TaskId /\ nextTask < nextTask' /\ nextTask >= nextTask
        BY <1>1, <3>1 DEF TaskId
      <4> QED BY <1>1, <4>1 DEF FreshInv
    <3>4. Known' = Known /\ ActiveTasks' = ActiveTasks
      BY <3>1 DEF Known, ActiveTasks
    <3>5. tx.up \in Upload /\ (tx.old # NoTask => tx.old \in Begun)
      BY <1>1, <1>8 DEF TxInv, RouteCreate
    <3> QED BY <1>2, <2>1, <3>2, <3>3, <3>4, <3>5 DEF TxInv
  <2>2. CASE ~(ActiveTasks \subseteq {tx.old})
    BY <1>5, <1>8, <2>2 DEF RouteCreate
  <2> QED BY <2>1, <2>2
<1>9. CASE RouteSend
  <2>1. /\ tx' = [tx EXCEPT !.pc = "reject"] \/ tx' = [tx EXCEPT !.pc = "attach"]
        /\ tx.pc = "send" /\ UNCHANGED <<task, nextTask>>
    BY <1>9 DEF RouteSend, taskTableVars
  <2>2. Known' = Known /\ ActiveTasks' = ActiveTasks
    BY <2>1 DEF Known, ActiveTasks
  <2> QED BY <1>1, <1>2, <2>1, <2>2 DEF TxInv
<1>10. ASSUME RouteCommit \/ RouteReject \/ RouteRollback PROVE TxInv'
  BY <1>5, <1>10 DEF RouteCommit, RouteReject, RouteRollback
<1> QED BY <1>3, <1>4, <1>6, <1>7, <1>8, <1>9, <1>10 DEF Next, Route

LEMMA WonGrows ==
  ASSUME IInv, Next
  PROVE  won \subseteq won'
<1>1. ASSUME NEW r \in Run, Handler(r) PROVE won \subseteq won'
  BY <1>1, HandlerTask DEF HandlerUpdate, HandlerInsert
<1>2. ASSUME Route \/ RouteRollback \/ \E u \in Upload : RouteOpen(u) PROVE won \subseteq won'
  BY <1>2, RouteTask DEF RouteInsert
<1>3. ASSUME \/ \E u \in Upload : Fetch(u) \/ JobExpire(u)
             \/ \E r \in Run : RunDies(r)
      PROVE  won \subseteq won'
  BY <1>3, QueueTask
<1> QED BY <1>1, <1>2, <1>3 DEF Next

\* A handler changes its own run only, and leaves it in a state it may rely on.
LEMMA HandlerRun ==
  ASSUME IInv, NEW r \in Run, Handler(r)
  PROVE  /\ \A x \in Run \ {r} : run'[x] = run[x]
         /\ RunGood(r)' /\ RunStart(r)'
<1> DEFINE P == (\A x \in Run \ {r} : run'[x] = run[x]) /\ RunGood(r)' /\ RunStart(r)'
<1>1. /\ run \in [Run -> RunRow] /\ run[r] \in RunRow /\ task \in [TaskId -> TaskRow]
      /\ nextTask \in 1..(MaxTask + 1) /\ RunGood(r) /\ RunStart(r)
  BY DEF IInv, TypeOK, RunInv
<1>2. Known \subseteq Known' /\ Begun \subseteq Begun' /\ won \subseteq won'
  BY RowsStay, WonGrows DEF Next
<1>3. ASSUME NEW pc, Goto(r, pc)
      PROVE  /\ \A x \in Run \ {r} : run'[x] = run[x]
             /\ run'[r].pc = pc
             /\ run'[r].i = run[r].i /\ run'[r].task = run[r].task /\ run'[r].old = run[r].old
  BY <1>1, <1>3 DEF Goto, RunRow
<1>4. Rows[r[1]] \in Seq(Worker) /\ Len(Rows[r[1]]) \in Nat
  BY RowsAssumption DEF Run
<1>5. 0 <= Len(Rows[r[1]])
  BY <1>4
<1>6. CASE ClaimFind(r)
  <2>1. CASE Goto(r, "bootFind")
    BY <1>1, <1>3, <1>6, <2>1 DEF RunGood, RunStart, ClaimFind, RunRow
  <2>2. ASSUME NEW t \in Known, run' = [run EXCEPT ![r].pc = "adopt", ![r].task = t] PROVE P
    <3>1. run'[r].pc = "adopt" /\ run'[r].task = t /\ run'[r].i = run[r].i
      BY <1>1, <2>2 DEF RunRow
    <3>2. \A x \in Run \ {r} : run'[x] = run[x]
      BY <1>1, <2>2
    <3> QED BY <1>1, <1>2, <1>6, <3>1, <3>2 DEF RunGood, RunStart, ClaimFind
  <2> QED BY <1>6, <2>1, <2>2 DEF ClaimFind, Known
<1>7. CASE ClaimAdopt(r)
  <2>1. run[r].pc = "adopt" /\ run[r].task \in Known /\ run[r].i = 0
    BY <1>1, <1>7 DEF ClaimAdopt, RunGood, RunStart
  <2>2. Goto(r, LoopPc(r, 0)) \/ Goto(r, "return")
    BY <1>7 DEF ClaimAdopt
  <2>3. CASE Goto(r, LoopPc(r, 0))
    <3>1. /\ LoopPc(r, 0) \in {"finalize", "check", "row"}
          /\ LoopPc(r, 0) \in {"check", "row"} => 0 < Len(Rows[r[1]])
      BY <1>5, LoopPcType
    <3>2. run'[r].pc = LoopPc(r, 0) /\ run'[r].task = run[r].task /\ run'[r].i = 0
      BY <1>1, <1>3, <2>1, <2>3 DEF RunRow
    <3> QED BY <1>2, <1>3, <2>1, <2>3, <3>1, <3>2 DEF RunGood, RunStart
  <2>4. CASE Goto(r, "return")
    BY <1>1, <1>3, <2>4 DEF RunGood, RunStart, RunRow
  <2> QED BY <2>2, <2>3, <2>4
<1>8. CASE BootFind(r)
  <2>1. PICK t \in 0..MaxTask :
          /\ FoundActive(t)
          /\ run' = [run EXCEPT ![r].pc = IF t = NoTask THEN "bootCreate" ELSE "bootCancel",
                                ![r].old = t]
    BY <1>8 DEF BootFind
  <2>2. t # NoTask => t \in Begun
    BY <2>1 DEF FoundActive, ActiveTasks, Active, Begun, Known
  <2>3. /\ run'[r].pc = IF t = NoTask THEN "bootCreate" ELSE "bootCancel"
        /\ run'[r].old = t /\ run'[r].i = run[r].i
    BY <1>1, <2>1 DEF RunRow
  <2>4. \A x \in Run \ {r} : run'[x] = run[x]
    BY <1>1, <2>1
  <2> QED BY <1>1, <1>2, <1>8, <2>2, <2>3, <2>4 DEF RunGood, RunStart, BootFind
<1>9. CASE BootCancel(r)
  <2>1. run[r].pc = "bootCancel" /\ (Goto(r, "bootCreate") \/ Goto(r, "bootCancelJob"))
    BY <1>9 DEF BootCancel
  <2> QED BY <1>1, <1>2, <1>3, <2>1 DEF RunGood, RunStart, RunRow
<1>10. CASE BootCancelJob(r)
  <2>1. run[r].pc = "bootCancelJob" /\ Goto(r, "bootCreate")
    BY <1>10 DEF BootCancelJob
  <2> QED BY <1>1, <1>3, <2>1 DEF RunGood, RunStart, RunRow
<1>11. CASE BootCreate(r)
  <2>1. CASE ActiveTasks = {}
    <3>1. /\ run' = [run EXCEPT ![r].pc = LoopPc(r, 0), ![r].task = nextTask]
          /\ HandlerInsert /\ run[r].i = 0
      <4>1. nextTask \in TaskId
        BY <1>1, <1>11, <2>1 DEF BootCreate, TaskId
      <4>2. HandlerInsert
        BY <1>1, <1>11, <2>1, <4>1 DEF BootCreate, HandlerInsert, IndexInDoubt, Moved
      <4> QED BY <1>1, <1>11, <2>1, <4>2 DEF BootCreate, RunStart
    <3>2. nextTask \in Known'
      BY <3>1 DEF HandlerInsert, Moved, Known
    <3>3. /\ LoopPc(r, 0) \in {"finalize", "check", "row"}
          /\ LoopPc(r, 0) \in {"check", "row"} => 0 < Len(Rows[r[1]])
      BY <1>5, LoopPcType
    <3>4. run'[r].pc = LoopPc(r, 0) /\ run'[r].task = nextTask /\ run'[r].i = 0
      BY <1>1, <3>1 DEF RunRow
    <3>5. \A x \in Run \ {r} : run'[x] = run[x]
      BY <1>1, <3>1
    <3> QED BY <3>2, <3>3, <3>4, <3>5 DEF RunGood, RunStart
  <2>2. CASE ActiveTasks # {}
    <3>1. run[r].pc = "bootCreate" /\ Goto(r, "bootFind")
      BY <1>11, <2>2 DEF BootCreate
    <3> QED BY <1>1, <1>3, <3>1 DEF RunGood, RunStart, RunRow
  <2> QED BY <2>1, <2>2
<1>12. CASE ImportRow(r)
  <2>1. run[r].pc = "row" /\ run[r].i \in Nat /\ run[r].i < Len(Rows[r[1]])
    BY <1>1, <1>12 DEF ImportRow, RunGood, RunRow
  <2>2. /\ \A x \in Run \ {r} : run'[x] = run[x]
        /\ run'[r].pc = LoopPc(r, run[r].i + 1) /\ run'[r].task = run[r].task
        /\ run'[r].i = run[r].i + 1
    BY <1>1, <1>12 DEF ImportRow, RunRow
  <2>3. run[r].i + 1 \in Nat /\ run[r].i + 1 <= Len(Rows[r[1]])
    BY <1>4, <2>1
  <2>4. /\ LoopPc(r, run[r].i + 1) \in {"finalize", "check", "row"}
        /\ LoopPc(r, run[r].i + 1) \in {"check", "row"} => run[r].i + 1 < Len(Rows[r[1]])
    BY <2>3, LoopPcType
  <2> QED BY <1>1, <1>2, <2>1, <2>2, <2>4 DEF RunGood, RunStart
<1>13. CASE CheckCancelled(r)
  <2>1. run[r].pc = "check" /\ (Goto(r, "row") \/ Goto(r, "return"))
    BY <1>13 DEF CheckCancelled
  <2> QED BY <1>1, <1>2, <1>3, <2>1 DEF RunGood, RunStart, RunRow
<1>14. CASE Finalize(r)
  <2>1. /\ run[r].pc = "finalize"
        /\ \/ Goto(r, "return")
           \/ Goto(r, "stamp") /\ run[r].task \in won'
    BY <1>14 DEF Finalize, StampDue
  <2> QED BY <1>1, <1>2, <1>3, <2>1 DEF RunGood, RunStart, RunRow
<1>15. CASE Stamp(r)
  <2>1. Goto(r, "return")
    BY <1>15 DEF Stamp
  <2> QED BY <1>1, <1>3, <2>1 DEF RunGood, RunStart, RunRow
<1>16. CASE Return(r)
  <2>1. run' = [run EXCEPT ![r] = [NoRun EXCEPT !.pc = "ended"]]
    BY <1>16 DEF Return
  <2> QED BY <1>1, <2>1 DEF RunGood, RunStart, NoRun
<1> QED BY <1>6, <1>7, <1>8, <1>9, <1>10, <1>11, <1>12, <1>13, <1>14, <1>15, <1>16 DEF Handler

LEMMA HandlersInv ==
  ASSUME IInv, Next
  PROVE  RunInv'
<1>1. run \in [Run -> RunRow] /\ RunInv
  BY DEF IInv, TypeOK
<1>2. ASSUME NEW x \in Run, run'[x] = run[x] PROVE RunGood(x)' /\ RunStart(x)'
  BY <1>1, <1>2, RowsStay, WonGrows DEF RunInv, RunGood, RunStart
<1>3. ASSUME NEW r \in Run, Handler(r) PROVE RunInv'
  BY <1>2, <1>3, HandlerRun DEF RunInv
<1>4. ASSUME Route \/ RouteRollback \/ (\E u \in Upload : RouteOpen(u) \/ JobExpire(u))
      PROVE  RunInv'
  <2>1. run' = run
    BY <1>4 DEF Route, RouteRollback, RouteOpen, JobExpire, RouteCancel, RouteCancelJob, RouteCreate,
                RouteSend, RouteCommit, RouteReject
  <2> QED BY <1>2, <2>1 DEF RunInv
<1>5. ASSUME NEW r \in Run, NEW pc \in {"find", "ended"},
             run' = [run EXCEPT ![r] = [NoRun EXCEPT !.pc = pc]]
      PROVE  RunInv'
  <2>1. run'[r].pc = pc /\ run'[r].i = 0
    BY <1>1, <1>5 DEF NoRun
  <2>2. RunGood(r)' /\ RunStart(r)'
    BY <2>1 DEF RunGood, RunStart
  <2>3. \A x \in Run \ {r} : run'[x] = run[x]
    BY <1>1, <1>5
  <2> QED BY <1>2, <2>2, <2>3 DEF RunInv
<1>6. ASSUME NEW u \in Upload, Fetch(u) PROVE RunInv'
  <2>1. <<u, job[u].retries>> \in Run
    BY DEF IInv, TypeOK, JobRow, Run
  <2> QED BY <1>5, <1>6, <2>1 DEF Fetch
<1>7. ASSUME NEW r \in Run, RunDies(r) PROVE RunInv'
  BY <1>5, <1>7 DEF RunDies
<1> QED BY <1>3, <1>4, <1>6, <1>7 DEF Next

LEMMA StampInv ==
  ASSUME IInv, Next
  PROVE  StampedByWinner'
<1>1. StampedByWinner /\ won \subseteq won' /\ RunInv
  BY WonGrows DEF IInv
<1>2. ASSUME NEW r \in Run, Stamp(r) PROVE StampedByWinner'
  <2>1. run[r].task \in won
    BY <1>1, <1>2 DEF Stamp, RunInv, RunGood
  <2>2. \A w \in Worker : lastImportTask'[w] \in {run[r].task, lastImportTask[w]}
    BY <1>2 DEF Stamp
  <2> QED BY <1>1, <2>1, <2>2 DEF StampedByWinner
<1>3. CASE UNCHANGED lastImportTask
  BY <1>1, <1>3 DEF StampedByWinner
<1>4. UNCHANGED lastImportTask \/ \E r \in Run : Stamp(r)
  <2>1. ASSUME NEW r \in Run, Handler(r) PROVE UNCHANGED lastImportTask \/ Stamp(r)
    BY <2>1 DEF Handler, ClaimFind, ClaimAdopt, BootFind, BootCancel, BootCancelJob, BootCreate,
                ImportRow, CheckCancelled, Finalize, Return, workerVars
  <2>2. ASSUME Route \/ RouteRollback \/ \E u \in Upload : RouteOpen(u)
        PROVE  UNCHANGED lastImportTask
    BY <2>2 DEF Route, RouteRollback, RouteOpen, RouteCancel, RouteCancelJob, RouteCreate,
                RouteSend, RouteCommit, RouteReject, workerVars
  <2>3. ASSUME \/ \E u \in Upload : Fetch(u) \/ JobExpire(u)
               \/ \E r \in Run : RunDies(r)
        PROVE  UNCHANGED lastImportTask
    BY <2>3 DEF Fetch, JobExpire, RunDies, workerVars
  <2> QED BY <2>1, <2>2, <2>3 DEF Next
<1> QED BY <1>2, <1>3, <1>4

LEMMA NextIInv ==
  ASSUME IInv, [Next]_vars
  PROVE  IInv'
<1>1. CASE Next
  <2>1. TypeOK'
    BY <1>1, RouteTypeOK, HandlerTypeOK, QueueTypeOK DEF Next
  <2> QED BY <1>1, <2>1, TableInv, TransactionInv, HandlersInv, StampInv DEF IInv
<1>2. CASE UNCHANGED vars
  BY <1>2 DEF vars, IInv, TypeOK, FreshInv, TxInv, RunInv, RunGood, RunStart, WonInv, OneActiveTask,
              StampedByWinner, Known, Begun, ActiveTasks
<1> QED BY <1>1, <1>2

-----------------------------------------------------------------------------
(* The theorems.                                                            *)

\* The invariant all of the following rest on.
THEOREM InductiveInvariant == Spec => []IInv
BY InitIInv, NextIInv, PTL DEF Spec

\* Every variable keeps its type, for any uploads, files and bounds.
THEOREM TypeCorrect == Spec => []TypeOK
<1>1. IInv => TypeOK
  BY DEF IInv
<1> QED BY <1>1, InductiveInvariant, PTL

\* However uploads, handlers, crashes and retries interleave, a company never
\* has two import tasks in flight.
THEOREM AtMostOneActiveTask == Spec => []OneActiveTask
<1>1. IInv => OneActiveTask
  BY DEF IInv
<1> QED BY <1>1, InductiveInvariant, PTL

\* workers.lastImportTaskId only ever names a task whose finalizing update
\* matched, which is what the eligibility filter of the generator builds on.
THEOREM StampsAreWinners == Spec => []StampedByWinner
<1>1. IInv => StampedByWinner
  BY DEF IInv
<1> QED BY <1>1, InductiveInvariant, PTL

\* Nothing writes to a row that is CANCELLED or FAILED, but to cancel it once more.
LEMMA EndedStay ==
  ASSUME IInv, Next, NEW t \in TaskId, task[t].status \in {"CANCELLED", "FAILED"}
  PROVE  task'[t] = task[t]
<1>1. t \in Known /\ t \notin ActiveTasks /\ task \in [TaskId -> TaskRow]
  BY DEF IInv, TypeOK, Known, ActiveTasks, Active
<1>2. ASSUME NEW x \in Begun, NEW s \in {"PROCESSING", "COMPLETED", "CANCELLED"}, HandlerUpdate(x, s)
      PROVE  task'[t] = task[t]
  <2>1. CASE x # t
    BY <1>1, <1>2, <2>1 DEF HandlerUpdate, Moved
  <2>2. CASE x = t
    <3>1. s = "CANCELLED" /\ task[t].status = "CANCELLED"
      BY <1>1, <1>2, <2>2 DEF HandlerUpdate, Begun
    <3> QED BY <1>1, <1>2, <2>2, <3>1 DEF HandlerUpdate, TaskRow
  <2> QED BY <2>1, <2>2
<1>3. ASSUME HandlerInsert PROVE task'[t] = task[t]
  <2>1. nextTask \in TaskId /\ nextTask \notin Known
    BY <1>1, <1>3, BoundsAssumption DEF HandlerInsert, IInv, FreshInv, TaskId
  <2> QED BY <1>1, <1>3, <2>1 DEF HandlerInsert, Moved
<1>4. ASSUME NEW s \in {"PENDING", "FAILED"}, RouteInsert(s) PROVE task'[t] = task[t]
  <2>1. CASE t = tx.old
    <3>1. tx.old # NoTask /\ task[t].status = "CANCELLED"
      BY <1>1, <1>4, <2>1 DEF RouteInsert, Begun, TaskId
    <3> QED BY <1>1, <1>4, <2>1, <3>1 DEF RouteInsert, TaskRow
  <2>2. CASE t # tx.old
    BY <1>1, <1>4, <2>2 DEF RouteInsert
  <2> QED BY <2>1, <2>2
<1> QED BY <1>1, <1>2, <1>3, <1>4, HandlerTask, RouteTask, QueueTask DEF Next

\* A cancelled or refused task stays exactly as it ended.
THEOREM EndedTasksStayEnded == Spec => NoResurrection
<1>1. ASSUME IInv, [Next]_vars
      PROVE  [\A t \in TaskId : task[t].status \in {"CANCELLED", "FAILED"} => task'[t] = task[t]]_task
  BY <1>1, EndedStay DEF vars
<1> QED BY <1>1, InductiveInvariant, PTL DEF Spec, NoResurrection

-----------------------------------------------------------------------------
(* The pipeline implements the import slot.                                 *)

Cur == IF ActiveTasks = {} THEN NoTask ELSE CHOOSE t \in ActiveTasks : TRUE
Ended == {t \in TaskId : task[t].status \in Terminal}

\* The slot holds the one active task, if there is one.
OneHolder == ActiveTasks = {Cur} \ {NoTask} /\ Cur \notin Ended

LEMMA SlotHolds == OneActiveTask => OneHolder
<1> SUFFICES ASSUME OneActiveTask PROVE OneHolder
  OBVIOUS
<1> USE DEF OneHolder
<1>1. NoTask \notin TaskId /\ ActiveTasks \subseteq TaskId
  BY DEF TaskId, ActiveTasks
<1>2. CASE ActiveTasks = {}
  BY <1>1, <1>2 DEF Cur, Ended
<1>3. CASE ActiveTasks # {}
  <2>1. Cur \in ActiveTasks
    BY <1>3 DEF Cur
  <2>2. Cur # NoTask
    BY <1>1, <2>1
  <2>3. Cur \notin Ended
    BY <2>1 DEF ActiveTasks, Ended, Active, Terminal
  <2> QED BY <2>1, <2>2, <2>3 DEF OneActiveTask
<1> QED BY <1>2, <1>3

LEMMA StepImplementsSlot ==
  ASSUME IInv, IInv', Next
  PROVE  Slot!Next \/ (Cur' = Cur /\ Ended' = Ended)
<1> DEFINE P == Slot!Next \/ (Cur' = Cur /\ Ended' = Ended)
<1>1. /\ ActiveTasks = {Cur} \ {NoTask} /\ Cur \notin Ended
      /\ ActiveTasks' = {Cur'} \ {NoTask} /\ Cur' \notin Ended'
      /\ task \in [TaskId -> TaskRow] /\ FreshInv
  <2>1. OneActiveTask /\ OneActiveTask' /\ task \in [TaskId -> TaskRow] /\ FreshInv
    BY DEF IInv, TypeOK
  <2>2. OneHolder /\ OneHolder'
    BY <2>1, SlotHolds, PTL
  <2> QED BY <2>1, <2>2 DEF OneHolder
<1>2. NoTask \notin TaskId
  BY DEF TaskId
<1>3. ASSUME ActiveTasks' = ActiveTasks, Ended' = Ended PROVE P
  BY <1>3 DEF Cur
<1>4. ASSUME NEW t \in TaskId \ Known, ActiveTasks' = {t}, Ended' = Ended \cup ActiveTasks PROVE P
  <2>1. t \notin Ended \cup {Cur} /\ Cur' = t
    BY <1>1, <1>2, <1>4 DEF Known, Ended, Terminal, ActiveTasks, Active
  <2>2. Slot!Begin(t)
    BY <1>1, <1>4, <2>1 DEF Slot!Begin, Slot!Held, Cur, Ended
  <2> QED BY <2>2 DEF Slot!Next
<1>5. ASSUME NEW t \in ActiveTasks, ActiveTasks' = {}, Ended' = Ended \cup {t} PROVE P
  <2>1. Cur = t /\ Cur # NoTask /\ Cur' = NoTask
    BY <1>1, <1>5
  <2>2. Slot!End
    BY <1>5, <2>1 DEF Slot!End, Cur, Ended
  <2> QED BY <2>2 DEF Slot!Next
<1>6. ASSUME NEW t \in TaskId \ Known, ActiveTasks' = {}, Ended' = Ended \cup ActiveTasks \cup {t} PROVE P
  <2>1. t \notin Ended \cup {Cur} /\ Cur' = NoTask
    BY <1>1, <1>2, <1>6 DEF Known, Ended, Terminal, ActiveTasks, Active
  <2>2. Slot!Refuse(t)
    BY <1>1, <1>6, <2>1 DEF Slot!Refuse, Slot!Held, Cur, Ended
  <2> QED BY <2>2 DEF Slot!Next
<1>7. ASSUME UNCHANGED task PROVE P
  BY <1>3, <1>7 DEF ActiveTasks, Ended
<1>8. ASSUME NEW t \in Begun, NEW s \in {"PROCESSING", "COMPLETED", "CANCELLED"},
             HandlerUpdate(t, s)
      PROVE  P
  <2>1. /\ t \in TaskId /\ task'[t].status = s /\ \A x \in TaskId \ {t} : task'[x] = task[x]
        /\ task[t].status \in Active \cup {"COMPLETED", "CANCELLED"}
    BY <1>1, <1>8 DEF HandlerUpdate, Moved, Begun, Known, TaskRow, Terminal
  <2>2. CASE s = "PROCESSING"
    <3>1. task[t].status = "PENDING"
      BY <1>8, <2>2 DEF HandlerUpdate
    <3> QED BY <1>3, <2>1, <2>2, <3>1 DEF ActiveTasks, Ended, Active, Terminal
  <2>3. CASE s # "PROCESSING" /\ t \in ActiveTasks
    <3>1. ActiveTasks' = {} /\ Ended' = Ended \cup {t}
      BY <1>1, <2>1, <2>3 DEF ActiveTasks, Ended, Active, Terminal
    <3> QED BY <1>5, <2>3, <3>1
  <2>4. CASE s # "PROCESSING" /\ t \notin ActiveTasks
    <3>1. ActiveTasks' = ActiveTasks /\ Ended' = Ended
      BY <2>1, <2>4 DEF ActiveTasks, Ended, Active, Terminal
    <3> QED BY <1>3, <3>1
  <2> QED BY <2>2, <2>3, <2>4
<1>9. ASSUME HandlerInsert PROVE P
  <2>1. nextTask \in TaskId \ Known
    BY <1>1, <1>9, BoundsAssumption DEF HandlerInsert, FreshInv, TaskId
  <2>2. ActiveTasks' = {nextTask} /\ Ended' = Ended \cup ActiveTasks
    BY <1>9, <2>1 DEF HandlerInsert, Moved, ActiveTasks, Ended, Active, Terminal, Known
  <2> QED BY <1>4, <2>1, <2>2
<1>10. ASSUME NEW s \in {"PENDING", "FAILED"}, RouteInsert(s) PROVE P
  <2>1. /\ tx.new \in TaskId \ Known /\ task'[tx.new].status = s
        /\ ActiveTasks \subseteq {tx.old}
        /\ \A x \in TaskId \ {tx.old, tx.new} : task'[x] = task[x]
        /\ task[tx.new].status = "absent"
    BY <1>10 DEF RouteInsert, Known
  <2>2. tx.old \in TaskId =>
          /\ task[tx.old].status \in Active \cup {"COMPLETED", "CANCELLED"}
          /\ task'[tx.old].status = "CANCELLED"
          /\ tx.old # tx.new
    BY <1>1, <1>2, <1>10 DEF RouteInsert, Begun, Known, TaskRow, Terminal
  <2>3. \A x \in TaskId : x \in ActiveTasks => x = tx.old
    BY <2>1
  <2>4. CASE s = "PENDING"
    <3>1. ActiveTasks' = {tx.new}
      BY <2>1, <2>2, <2>3, <2>4 DEF ActiveTasks, Active
    <3>2. Ended' = Ended \cup ActiveTasks
      BY <2>1, <2>2, <2>3, <2>4 DEF ActiveTasks, Ended, Active, Terminal
    <3> QED BY <1>4, <2>1, <3>1, <3>2
  <2>5. CASE s = "FAILED"
    <3>1. ActiveTasks' = {}
      BY <2>1, <2>2, <2>3, <2>5 DEF ActiveTasks, Active
    <3>2. Ended' = Ended \cup ActiveTasks \cup {tx.new}
      BY <2>1, <2>2, <2>3, <2>5 DEF ActiveTasks, Ended, Active, Terminal
    <3> QED BY <1>6, <2>1, <3>1, <3>2
  <2> QED BY <2>4, <2>5
<1> QED BY <1>7, <1>8, <1>9, <1>10, HandlerTask, RouteTask, QueueTask DEF Next

\* Every step of the upload route, the queue and the handlers is one step of the
\* company's import slot, or none.
THEOREM PipelineImplementsSlot == Spec => ImplementsSlot
<1>1. Init => Slot!Init
  BY BoundsAssumption DEF Init, Slot!Init, ActiveTasks, Active, Terminal
<1>2. ASSUME IInv, IInv', [Next]_vars PROVE [Slot!Next]_<<Cur, Ended>>
  <2>1. CASE UNCHANGED vars
    BY <2>1 DEF vars, Cur, Ended, ActiveTasks
  <2>2. CASE Next
    BY <1>2, <2>2, StepImplementsSlot
  <2> QED BY <1>2, <2>1, <2>2
<1>3. [Slot!Next]_<<Cur, Ended>> <=> [Slot!Next]_(Slot!vars)
  BY DEF Slot!vars, Cur, Ended
<1> QED BY <1>1, <1>2, <1>3, InductiveInvariant, PTL DEF Spec, ImplementsSlot, Slot!Spec

-----------------------------------------------------------------------------
(* A superseded run writes at most one check interval of rows.              *)

\* Where a run has a task that it claimed or inserted itself.
Writing == {"row", "check", "finalize", "stamp"}

\* Nobody takes a claimed task back, so a run that has written a row too many
\* finds its task ended at the next check; between two checks the rows too many
\* are among the rows since the last one.
StaleOk(r) ==
  /\ run[r].pc \in RunPc \ (Writing \cup {"return"}) => run[r].stale = 0
  /\ run[r].pc \in Writing => task[run[r].task].status # "PENDING"
  /\ run[r].pc \in Writing /\ run[r].stale > 0 => task[run[r].task].status # "PROCESSING"
  /\ run[r].pc = "row" => run[r].stale <= run[r].i % CheckInterval
  /\ run[r].stale <= CheckInterval

StaleInv == IInv /\ \A r \in Run : StaleOk(r)

LEMMA NextMultiple ==
  ASSUME NEW n \in Nat, NEW a \in Nat, NEW b \in Nat, a < b
  PROVE  n * a + n <= n * b
<1>1. PICK d \in Nat : b = a + 1 + d
  <2>1. b - a - 1 \in Nat /\ b = a + 1 + (b - a - 1)
    OBVIOUS
  <2> QED BY <2>1
<1>2. n * b = n * a + n + n * d
  BY <1>1
<1>3. n * d \in Nat /\ n * a \in Nat
  OBVIOUS
<1> QED BY <1>2, <1>3

\* Between two multiples of n the remainder grows with the number.
LEMMA RemainderGrows ==
  ASSUME NEW n \in Nat \ {0}, NEW i \in Nat, (i + 1) % n # 0
  PROVE  (i + 1) % n = (i % n) + 1
<1> DEFINE q == i \div n
           p == (i + 1) \div n
           r == i % n
           s == (i + 1) % n
<1>1. q \in Nat /\ i = n * q + r /\ r \in Nat /\ r < n
  OBVIOUS
<1>2. p \in Nat /\ i + 1 = n * p + s /\ s \in Nat /\ s < n /\ s # 0
  OBVIOUS
<1>3. n * q \in Nat /\ n * p \in Nat
  BY <1>1, <1>2
<1>4. q < p => n * q + n <= n * p
  BY <1>1, <1>2, NextMultiple
<1>5. p < q => n * p + n <= n * q
  BY <1>1, <1>2, NextMultiple
<1> HIDE DEF q, p, r, s
<1>6. p = q
  BY <1>1, <1>2, <1>3, <1>4, <1>5
<1>7. s = r + 1
  BY <1>1, <1>2, <1>3, <1>6
<1> QED BY <1>7 DEF s, r

\* A task that has left PENDING, or its slot, has left it for good.
LEMMA StatusForward ==
  ASSUME IInv, Next, NEW t \in Known, task[t].status # "PENDING"
  PROVE  /\ task'[t].status # "PENDING"
         /\ task[t].status # "PROCESSING" => task'[t].status # "PROCESSING"
<1>1. t \in TaskId /\ task \in [TaskId -> TaskRow] /\ FreshInv /\ TypeOK
  BY DEF Known, IInv, TypeOK
<1>2. ASSUME NEW x \in Begun, NEW s \in {"PROCESSING", "COMPLETED", "CANCELLED"},
             HandlerUpdate(x, s), x = t
      PROVE  /\ task'[t].status = s
             /\ s = "PROCESSING" => task[t].status = "PENDING"
  BY <1>2 DEF HandlerUpdate, Moved
<1>3. ASSUME NEW x \in Begun, NEW s \in {"PROCESSING", "COMPLETED", "CANCELLED"},
             HandlerUpdate(x, s), x # t
      PROVE  task'[t] = task[t]
  BY <1>1, <1>3 DEF HandlerUpdate, Moved
<1>4. ASSUME HandlerInsert PROVE task'[t] = task[t]
  <2>1. nextTask \notin Known
    BY <1>1, <1>4, BoundsAssumption DEF HandlerInsert, FreshInv, TaskId
  <2> QED BY <1>1, <1>4, <2>1 DEF HandlerInsert, Moved
<1>5. ASSUME NEW s \in {"PENDING", "FAILED"}, RouteInsert(s)
      PROVE  task'[t] = task[t] \/ task'[t].status = "CANCELLED"
  <2>1. CASE t = tx.old
    <3>1. tx.old # NoTask
      BY <1>1, <2>1 DEF TaskId
    <3> QED BY <1>1, <1>5, <2>1, <3>1 DEF RouteInsert, TaskRow
  <2>2. CASE t # tx.old
    BY <1>1, <1>5, <2>2 DEF RouteInsert
  <2> QED BY <2>1, <2>2
<1>6. \/ task'[t] = task[t] \/ task'[t].status \in {"CANCELLED", "COMPLETED"}
  <2>1. ASSUME NEW r \in Run, Handler(r)
        PROVE  task'[t] = task[t] \/ task'[t].status \in {"CANCELLED", "COMPLETED"}
    BY <1>2, <1>3, <1>4, <2>1, HandlerTask
  <2>2. ASSUME Route \/ RouteRollback \/ \E u \in Upload : RouteOpen(u)
        PROVE  task'[t] = task[t] \/ task'[t].status \in {"CANCELLED", "COMPLETED"}
    BY <1>5, <2>2, RouteTask
  <2> QED BY <2>1, <2>2, QueueTask DEF Next
<1> QED BY <1>6

\* The row loop after one more row: the check falls due, or the remainder grows.
LEMMA LoopStale ==
  ASSUME NEW r \in Run, NEW i \in Nat, NEW s \in Nat, i + 1 <= Len(Rows[r[1]]),
         s <= (i % CheckInterval) + 1
  PROVE  /\ s <= CheckInterval
         /\ LoopPc(r, i + 1) = "row" => s <= (i + 1) % CheckInterval
<1>1. CheckInterval \in Nat \ {0}
  BY CheckIntervalAssumption
<1>2. i % CheckInterval \in Nat /\ i % CheckInterval < CheckInterval
  BY <1>1
<1>3. s <= CheckInterval
  BY <1>1, <1>2
<1>4. ASSUME LoopPc(r, i + 1) = "row" PROVE s <= (i + 1) % CheckInterval
  <2>1. ~CheckDue(i + 1)
    BY <1>4 DEF LoopPc
  <2>2. (i + 1) % CheckInterval # 0
    BY <2>1 DEF CheckDue
  <2> QED BY <1>1, <2>2, RemainderGrows
<1> QED BY <1>3, <1>4

LEMMA HandlerStale ==
  ASSUME StaleInv, NEW r \in Run, Handler(r)
  PROVE  StaleOk(r)'
<1>1. /\ run \in [Run -> RunRow] /\ run[r] \in RunRow /\ task \in [TaskId -> TaskRow]
      /\ RunGood(r) /\ StaleOk(r) /\ IInv
  BY DEF StaleInv, IInv, TypeOK, RunInv
<1>2. run[r].stale \in Nat /\ run[r].i \in Nat
  BY <1>1 DEF RunRow
<1>3. ASSUME NEW pc, Goto(r, pc)
      PROVE  /\ run'[r].pc = pc
             /\ run'[r].i = run[r].i /\ run'[r].task = run[r].task /\ run'[r].stale = run[r].stale
  BY <1>1, <1>3 DEF Goto, RunRow
<1>4. ASSUME run[r].pc \in Writing
      PROVE  /\ task'[run[r].task].status # "PENDING"
             /\ run[r].stale > 0 => task'[run[r].task].status # "PROCESSING"
  <2>1. run[r].task \in Known
    BY <1>1, <1>4 DEF RunGood, Writing
  <2> QED BY <1>1, <1>4, <2>1, StatusForward DEF StaleOk, Next
\* Before the row loop a run has written nothing.
<1>5. CheckInterval \in Nat \ {0} /\ 0 <= CheckInterval /\ 0 <= 0 % CheckInterval
  BY CheckIntervalAssumption
<1>6. ASSUME run[r].pc \in RunPc \ (Writing \cup {"return"}), run'[r].stale = run[r].stale,
             run'[r].pc \notin Writing
      PROVE  StaleOk(r)'
  BY <1>1, <1>5, <1>6 DEF StaleOk, Writing
<1>7. ASSUME NEW t, run[r].pc \in {"adopt", "bootCreate"}, run'[r].stale = run[r].stale,
             run'[r].pc = LoopPc(r, 0), run'[r].i = 0, run'[r].task = t,
             task'[t].status # "PENDING"
      PROVE  StaleOk(r)'
  <2>1. run[r].stale = 0
    BY <1>1, <1>7 DEF StaleOk, Writing, RunPc
  <2> QED BY <1>5, <1>7, <2>1 DEF StaleOk, Writing, LoopPc
\* From the last write on the run only stops.
<1>8. ASSUME NEW pc, Goto(r, pc), pc \in {"return", "finalize", "stamp"},
             run[r].pc \in Writing
      PROVE  StaleOk(r)'
  BY <1>1, <1>2, <1>3, <1>4, <1>8 DEF StaleOk, Writing
<1>9. CASE ClaimFind(r)
  <2>1. run[r].pc = "find"
    BY <1>9 DEF ClaimFind
  <2>2. run'[r].stale = run[r].stale /\ run'[r].pc \in {"bootFind", "adopt"}
    BY <1>1, <1>9 DEF ClaimFind, Goto, RunRow
  <2> QED BY <1>6, <2>1, <2>2 DEF Writing, RunPc
<1>10. CASE ClaimAdopt(r)
  <2>1. run[r].pc = "adopt"
    BY <1>10 DEF ClaimAdopt
  <2>2. CASE Claimable(run[r].task)
    <3>1. task' = [task EXCEPT ![run[r].task].status = "PROCESSING"] /\ Goto(r, LoopPc(r, 0))
      BY <1>10, <2>2 DEF ClaimAdopt
    <3>2. run[r].task \in TaskId
      BY <1>1, <2>1 DEF RunGood, Known
    <3>3. task'[run[r].task].status # "PENDING"
      BY <1>1, <3>1, <3>2 DEF TaskRow
    <3>4. run[r].i = 0
      BY <1>1, <2>1 DEF IInv, RunInv, RunStart
    <3> QED BY <1>3, <1>7, <2>1, <3>1, <3>3, <3>4
  <2>3. CASE ~Claimable(run[r].task)
    <3>1. Goto(r, "return")
      BY <1>10, <2>3 DEF ClaimAdopt
    <3> QED BY <1>3, <1>6, <2>1, <3>1 DEF Writing, RunPc
  <2> QED BY <2>2, <2>3
<1>11. CASE BootFind(r)
  <2>1. run[r].pc = "bootFind"
    BY <1>11 DEF BootFind
  <2>2. run'[r].stale = run[r].stale /\ run'[r].pc \in {"bootCreate", "bootCancel"}
    BY <1>1, <1>11 DEF BootFind, RunRow
  <2> QED BY <1>6, <2>1, <2>2 DEF Writing, RunPc
<1>12. CASE BootCancel(r)
  <2>1. run[r].pc = "bootCancel" /\ (Goto(r, "bootCreate") \/ Goto(r, "bootCancelJob"))
    BY <1>12 DEF BootCancel
  <2> QED BY <1>3, <1>6, <2>1 DEF Writing, RunPc
<1>13. CASE BootCancelJob(r)
  <2>1. run[r].pc = "bootCancelJob" /\ Goto(r, "bootCreate")
    BY <1>13 DEF BootCancelJob
  <2> QED BY <1>3, <1>6, <2>1 DEF Writing, RunPc
<1>14. CASE BootCreate(r)
  <2>1. run[r].pc = "bootCreate"
    BY <1>14 DEF BootCreate
  <2>2. CASE ActiveTasks = {}
    <3>1. /\ run' = [run EXCEPT ![r].pc = LoopPc(r, 0), ![r].task = nextTask]
          /\ task' = [task EXCEPT ![nextTask] =
                        [status |-> "PROCESSING", job |-> r[1], finishedAt |-> 0]]
          /\ nextTask <= MaxTask
      BY <1>14, <2>2 DEF BootCreate
    <3>2. nextTask \in TaskId
      BY <1>1, <3>1, BoundsAssumption DEF IInv, TypeOK, TaskId
    <3>3. task'[nextTask].status = "PROCESSING"
      BY <1>1, <3>1, <3>2
    <3>4. /\ run'[r].stale = run[r].stale /\ run'[r].pc = LoopPc(r, 0)
          /\ run'[r].task = nextTask /\ run'[r].i = run[r].i
      BY <1>1, <3>1 DEF RunRow
    <3>5. run[r].i = 0
      BY <1>1, <2>1 DEF IInv, RunInv, RunStart
    <3> QED BY <1>7, <2>1, <3>3, <3>4, <3>5
  <2>3. CASE ActiveTasks # {}
    <3>1. Goto(r, "bootFind")
      BY <1>14, <2>3 DEF BootCreate
    <3> QED BY <1>3, <1>6, <2>1, <3>1 DEF Writing, RunPc
  <2> QED BY <2>2, <2>3
<1>15. CASE ImportRow(r)
  <2>1. run[r].pc = "row" /\ run[r].i + 1 <= Len(Rows[r[1]])
    <3>1. run[r].pc = "row" /\ run[r].i < Len(Rows[r[1]]) /\ Rows[r[1]] \in Seq(Worker)
      BY <1>1, <1>15, RowsAssumption DEF ImportRow, RunGood, Run
    <3> QED BY <1>2, <3>1
  <2>2. /\ run'[r].pc = LoopPc(r, run[r].i + 1) /\ run'[r].i = run[r].i + 1
        /\ run'[r].task = run[r].task
        /\ \/ run'[r].stale = run[r].stale
           \/ /\ run'[r].stale = run[r].stale + 1
              /\ task[run[r].task].status # "PROCESSING"
        /\ UNCHANGED task
    BY <1>1, <1>15 DEF ImportRow, RunRow, taskTableVars
  <2>3. run[r].stale <= run[r].i % CheckInterval
    BY <1>1, <2>1 DEF StaleOk
  <2>4. run[r].i % CheckInterval \in Nat
    BY <1>2, <1>5
  <2>5. run'[r].stale \in Nat /\ run'[r].stale <= (run[r].i % CheckInterval) + 1
    BY <1>2, <2>2, <2>3, <2>4
  <2>6. /\ run'[r].stale <= CheckInterval
        /\ LoopPc(r, run[r].i + 1) = "row" => run'[r].stale <= (run[r].i + 1) % CheckInterval
    BY <1>2, <2>1, <2>5, LoopStale
  <2>7. LoopPc(r, run[r].i + 1) \in Writing
    BY DEF LoopPc, Writing
  <2>8. /\ task[run[r].task].status # "PENDING"
        /\ run'[r].stale > 0 => task[run[r].task].status # "PROCESSING"
    BY <1>1, <2>1, <2>2 DEF StaleOk, Writing
  <2> QED BY <2>2, <2>6, <2>7, <2>8 DEF StaleOk
<1>16. CASE CheckCancelled(r)
  <2>1. run[r].pc = "check" /\ UNCHANGED task
    BY <1>16 DEF CheckCancelled, taskTableVars
  <2>2. CASE task[run[r].task].status = "PROCESSING"
    <3>1. Goto(r, "row")
      BY <1>16, <2>2 DEF CheckCancelled
    <3>2. run[r].stale = 0
      BY <1>1, <1>2, <2>1, <2>2 DEF StaleOk, Writing
    <3>3. 0 <= run[r].i % CheckInterval
      BY <1>2, <1>5
    <3> QED BY <1>3, <1>5, <2>1, <2>2, <3>1, <3>2, <3>3 DEF StaleOk, Writing
  <2>3. CASE task[run[r].task].status # "PROCESSING"
    <3>1. Goto(r, "return")
      BY <1>16, <2>3 DEF CheckCancelled
    <3> QED BY <1>8, <2>1, <3>1 DEF Writing
  <2> QED BY <2>2, <2>3
<1>17. CASE Finalize(r)
  <2>1. run[r].pc = "finalize" /\ (Goto(r, "stamp") \/ Goto(r, "return"))
    BY <1>17 DEF Finalize
  <2> QED BY <1>8, <2>1 DEF Writing
<1>18. CASE Stamp(r)
  <2>1. run[r].pc = "stamp" /\ Goto(r, "return")
    BY <1>18 DEF Stamp
  <2> QED BY <1>8, <2>1 DEF Writing
<1>19. CASE Return(r)
  <2>1. run'[r].pc = "ended" /\ run'[r].stale = 0
    BY <1>1, <1>19 DEF Return, NoRun
  <2> QED BY <1>5, <2>1 DEF StaleOk, Writing
<1> QED BY <1>9, <1>10, <1>11, <1>12, <1>13, <1>14, <1>15, <1>16, <1>17, <1>18, <1>19 DEF Handler

LEMMA NextStale ==
  ASSUME StaleInv, [Next]_vars
  PROVE  StaleInv'
<1>1. /\ IInv /\ IInv' /\ run \in [Run -> RunRow]
      /\ \A r \in Run : RunGood(r) /\ StaleOk(r)
  BY NextIInv DEF StaleInv, IInv, TypeOK, RunInv
<1>2. ASSUME Next, NEW x \in Run, run'[x] = run[x] PROVE StaleOk(x)'
  <2>1. run[x].pc \in Writing => run[x].task \in Known
    BY <1>1 DEF RunGood, Writing
  <2>2. run[x].pc \in Writing =>
          /\ task'[run[x].task].status # "PENDING"
          /\ run[x].stale > 0 => task'[run[x].task].status # "PROCESSING"
    BY <1>1, <1>2, <2>1, StatusForward DEF StaleOk
  <2> QED BY <1>1, <1>2, <2>2 DEF StaleOk
<1>3. ASSUME Next, NEW r \in Run, Handler(r) PROVE \A x \in Run : StaleOk(x)'
  <2>1. \A x \in Run \ {r} : run'[x] = run[x]
    BY <1>1, <1>3, HandlerRun
  <2> QED BY <1>2, <1>3, <2>1, HandlerStale
<1>4. ASSUME Next, Route \/ RouteRollback \/ (\E u \in Upload : RouteOpen(u) \/ JobExpire(u))
      PROVE  \A x \in Run : StaleOk(x)'
  <2>1. run' = run
    BY <1>4 DEF Route, RouteRollback, RouteOpen, JobExpire, RouteCancel, RouteCancelJob, RouteCreate,
                RouteSend, RouteCommit, RouteReject
  <2> QED BY <1>2, <1>4, <2>1
<1>5. ASSUME Next, NEW r \in Run, NEW pc \in {"find", "ended"},
             run' = [run EXCEPT ![r] = [NoRun EXCEPT !.pc = pc]]
      PROVE  \A x \in Run : StaleOk(x)'
  <2>1. run'[r].pc = pc /\ run'[r].stale = 0
    BY <1>1, <1>5 DEF NoRun
  <2>2. StaleOk(r)'
    BY <1>5, <2>1, CheckIntervalAssumption DEF StaleOk, Writing
  <2>3. \A x \in Run \ {r} : run'[x] = run[x]
    BY <1>1, <1>5
  <2> QED BY <1>2, <1>5, <2>2, <2>3
<1>6. ASSUME Next, NEW u \in Upload, Fetch(u) PROVE \A x \in Run : StaleOk(x)'
  <2>1. <<u, job[u].retries>> \in Run
    BY <1>1 DEF IInv, TypeOK, JobRow, Run
  <2> QED BY <1>5, <1>6, <2>1 DEF Fetch
<1>7. ASSUME Next, NEW r \in Run, RunDies(r) PROVE \A x \in Run : StaleOk(x)'
  BY <1>5, <1>7 DEF RunDies
<1>8. CASE UNCHANGED vars
  BY <1>1, <1>8 DEF vars, StaleInv, StaleOk
<1>9. CASE Next
  BY <1>1, <1>3, <1>4, <1>6, <1>7, <1>9 DEF Next, StaleInv
<1> QED BY <1>8, <1>9

\* However many rows a file has, a run whose task another upload took writes at
\* most one check interval of them afterwards (importCsv's check of its own task).
THEOREM StaleRowsStayFew == Spec => []StaleRowsBounded
<1>1. Init => StaleInv
  <2>1. ASSUME Init, NEW r \in Run PROVE StaleOk(r)
    BY <2>1, CheckIntervalAssumption DEF Init, NoRun, StaleOk, Writing
  <2> QED BY <2>1, InitIInv DEF StaleInv
<1>2. StaleInv => StaleRowsBounded
  BY DEF StaleInv, StaleOk, StaleRowsBounded
<1> QED BY <1>1, <1>2, NextStale, PTL DEF Spec
-----------------------------------------------------------------------------
(* A burst of uploads that nothing fails *)

Boot == {"bootFind", "bootCancel", "bootCancelJob", "bootCreate"}
Loop == {"row", "check", "finalize"}
BootRuns == {r \in Run : run[r].pc \in Boot}

\* The rows of import_tasks that carry u's job id, and the handler of that job.
TasksOf(u) == {t \in Known : task[t].job = u}
First(u) == run[<<u, 0>>]

\* The route has told pg-boss to cancel the job of the task it found.
Ousted(t) == tx.old = t /\ tx.pc \in {"create", "send", "attach", "reject"}

\* A job is sent once by its route, runs once, and carries a task from the commit on.
JobsOnce ==
  \A u \in Upload :
    /\ job[u].retries = 0 /\ job[u].state \notin {"retry", "failed"}
    /\ job[u].state = "active" => First(u).pc \notin {"none", "ended"}
    /\ job[u].state \in {"unsent", "created"} => First(u).pc = "none"
    /\ job[u].state = "unsent" => TasksOf(u) = {}
    /\ job[u].state # "unsent" => TasksOf(u) # {} \/ (tx.up = u /\ tx.pc = "attach")
    /\ response[u] = "idle" => job[u].state = "unsent"
    /\ First(u).pc \in {"none", "find", "adopt"} \cup Boot => \A s, t \in TasksOf(u) : s = t

RunsOnce ==
  \A r \in Run :
    /\ r[2] # 0 => run[r].pc = "none"
    /\ run[r].pc \in {"adopt", "stamp"} \cup Loop => task[run[r].task].job = r[1]
    /\ run[r].pc = "bootCancelJob" => task[run[r].old].status = "CANCELLED"

BegunCarryJob == \A t \in Begun : task[t].job \in Upload

\* A rejected route leaves somebody behind who will create a task.
TxOnce ==
  /\ tx.pc # "free" => response[tx.up] = "open"
  /\ tx.pc \in {"cancel", "cancelJob", "create", "send", "reject"} => job[tx.up].state = "unsent"
  /\ tx.pc = "attach" => /\ TasksOf(tx.up) = {} /\ job[tx.up].state \in {"created", "active"}
                         /\ First(tx.up).pc \in {"none", "find"} \cup Boot
  /\ \A t \in TaskId : Ousted(t) => job[task[t].job].state \notin {"created", "active"}
  /\ tx.pc = "reject" => BootRuns # {}

\* A job that waits has a task that waits for it, or is about to be cancelled.
Awaited ==
  \A u \in Upload : job[u].state = "created" /\ ~(tx.up = u /\ tx.pc = "attach") =>
    \E t \in TasksOf(u) : \/ task[t].status = "PENDING"
                          \/ \E r \in Run : run[r].pc = "bootCancelJob" /\ run[r].old = t

\* Who ends an active task: its own job, or the route that is about to supersede it.
Cared(t) ==
  LET u == task[t].job IN
  IF task[t].status = "PENDING"
  THEN \/ job[u].state = "created"
       \/ First(u).pc \in {"find"} \cup Boot
       \/ First(u).pc = "adopt" /\ First(u).task = t
       \/ Ousted(t)
  ELSE \E r \in Run : run[r].pc \in Loop /\ run[r].task = t

\* After the first commit something is imported, under way, or about to be.
Owed == newest # None => CompletedTasks # {} \/ ActiveTasks # {} \/ BootRuns # {}

BurstInv ==
  /\ JobsOnce /\ RunsOnce /\ BegunCarryJob /\ TxOnce /\ Awaited /\ Owed
  /\ \A t \in ActiveTasks : Cared(t)

-----------------------------------------------------------------------------
(* ... in which no handler bootstraps a second task                         *)

\* Nobody has inserted a second task under a job id, nor is about to.
Plain == (\A u \in Upload : \A s, t \in TasksOf(u) : s = t) /\ BootRuns = {}

\* No completed task was cancelled by a route that had read it while active.
Kept == \A t \in won : task[t].status = "COMPLETED"

\* The order of completions is kept by the rows.
FinishOrder ==
  \A s, t \in CompletedTasks :
    task[s].finishedAt <= clock /\ (task[s].finishedAt = task[t].finishedAt => s = t)

\* The workers of the first i rows of u's file, and what a run has touched of them.
Past(u, i) == {Rows[u][k] : k \in 1..i} \ Foreign

TouchedInv ==
  \A r \in Run :
    /\ run[r].pc \in {"find", "adopt"} \cup Boot => run[r].touched = {}
    /\ run[r].pc \in {"row", "check"} => run[r].touched = Past(r[1], run[r].i)
    /\ run[r].pc \in {"finalize", "stamp"} => run[r].touched = Past(r[1], Len(Rows[r[1]]))

\* Jobs run one at a time, complete with their run, and nobody else begins a task.
JobsDone ==
  \A u \in Upload :
    /\ \A v \in Upload : job[u].state = "active" /\ job[v].state = "active" => u = v
    /\ job[u].state = "completed" => First(u).pc = "ended"
    /\ First(u).pc = "none" => \A t \in TasksOf(u) : task[t].status \in {"PENDING", "CANCELLED"}

NothingBefore ==
  /\ newest = None => Begun = {}
  /\ \A t \in Known \ Begun : task[t].job = None

\* All that is active, or was the last to complete, is the newest upload's.
IsNewest(t) ==
  /\ ActiveTasks \subseteq {t}
  /\ \/ t \in ActiveTasks
     \/ t \in CompletedTasks /\ \A s \in CompletedTasks : task[s].finishedAt <= task[t].finishedAt
  /\ tx.old \in {NoTask, t}
  /\ Ousted(t) \/ job[newest].state # "cancelled"

NewestInv == Plain /\ newest # None => \E t \in TasksOf(newest) : IsNewest(t)

\* A run that is about to stamp still holds the queue, unless its task is overwritten.
Holds(r) == job[r[1]].state = "active" \/ Ousted(run[r].task)

\* Nobody but the newest upload's run stamps once that has started.
StampInOrder ==
  Plain /\ Kept =>
    /\ \A r \in Run : run[r].pc = "stamp" => Holds(r)
    /\ newest # None /\ First(newest).pc # "none" =>
         \A r \in Run : run[r].pc = "stamp" => r = <<newest, 0>>

Stamped ==
  Plain /\ Kept /\ newest # None =>
    \A t \in TasksOf(newest) \cap CompletedTasks :
      First(newest).pc = "stamp" \/ \A w \in RowsOf(newest) : lastImportTask[w] = t

SettleInv == JobsDone /\ NothingBefore /\ NewestInv /\ StampInOrder /\ Stamped

LEMMA GotoMoves ==
  ASSUME run \in [Run -> RunRow], NEW r \in Run, NEW pc, Goto(r, pc)
  PROVE  /\ \A x \in Run \ {r} : run'[x] = run[x]
         /\ run'[r] = [run[r] EXCEPT !.pc = pc]
         /\ run'[r].pc = pc /\ run'[r].task = run[r].task /\ run'[r].old = run[r].old
         /\ run'[r].touched = run[r].touched /\ run'[r].i = run[r].i
BY DEF Goto, RunRow

LEMMA CancelledOne ==
  ASSUME job \in [Upload -> JobRow], NEW u \in Upload
  PROVE  LET j == Cancelled(job, u)
         IN /\ \A v \in Upload : j[v].retries = job[v].retries
            /\ \A v \in Upload \ {u} : j[v] = job[v]
            /\ j[u].state \notin {"created", "retry", "active"}
            /\ j[u] = job[u] \/ j[u].state = "cancelled"
<1>1. CASE job[u].state \in Queued \cup {"active"}
  <2>1. u # None
    BY NoneAssumption
  <2>2. Cancelled(job, u) = [job EXCEPT ![u] = [job[u] EXCEPT !.state = "cancelled"]]
    BY <1>1, <2>1 DEF Cancelled
  <2> QED BY <2>2 DEF JobRow
<1>2. CASE job[u].state \notin Queued \cup {"active"}
  BY <1>2 DEF Cancelled, Queued
<1> QED BY <1>1, <1>2

\* What every step may rely on, spelled out.
LEMMA Types ==
  ASSUME IInv
  PROVE  /\ task \in [TaskId -> TaskRow] /\ job \in [Upload -> JobRow] /\ run \in [Run -> RunRow]
         /\ response \in [Upload -> {"idle", "open", "accepted", "conflict", "error"}]
         /\ tx \in [up : Upload \cup {None}, pc : TxPc, old : 0..MaxTask, new : 0..MaxTask]
         /\ Known \subseteq TaskId /\ Begun \subseteq Known /\ ActiveTasks \subseteq Begun
         /\ 0 \notin TaskId
         /\ \A u \in Upload : <<u, 0>> \in Run
         /\ \A r \in Run : r[1] \in Upload /\ r[2] \in Nat /\ r = <<r[1], r[2]>>
         /\ None \notin Upload
<1>1. TypeOK
  BY DEF IInv
<1>2. 0 \in 0..RetryLimit /\ 0..RetryLimit \subseteq Nat
  BY BoundsAssumption
<1> QED BY <1>1, <1>2, NoneAssumption
        DEF TypeOK, Known, Begun, ActiveTasks, Active, Run, TaskId

\* Who has started is the first attempt of a job that was sent.
LEMMA Started ==
  ASSUME IInv, JobsOnce, RunsOnce, NEW r \in Run, run[r].pc # "none"
  PROVE  /\ r = <<r[1], 0>> /\ r[1] \in Upload /\ First(r[1]) = run[r]
         /\ job[r[1]].state \notin {"unsent", "created"}
<1>1. r[2] = 0
  BY DEF RunsOnce
<1>2. r = <<r[1], 0>> /\ r[1] \in Upload
  BY <1>1, Types
<1> QED BY <1>2 DEF JobsOnce, First

LEMMA SameRows ==
  ASSUME task \in [TaskId -> TaskRow], task' \in [TaskId -> TaskRow],
         \A t \in TaskId : /\ task'[t].job = task[t].job
                           /\ task'[t].status = "absent" <=> task[t].status = "absent"
  PROVE  Known' = Known /\ \A u \in Upload : TasksOf(u)' = TasksOf(u)
BY DEF Known, TasksOf

\* The route's first statements: only the transaction moves.
LEMMA OpenBurst ==
  ASSUME IInv, IInv', BurstInv, (\E u \in Upload : RouteOpen(u)) \/ RouteCancel \/ RouteCreate
  PROVE  BurstInv'
<1>1. JobsOnce /\ RunsOnce /\ BegunCarryJob /\ TxOnce /\ Awaited /\ Owed /\ \A t \in ActiveTasks : Cared(t)
  BY DEF BurstInv
<1>2. UNCHANGED <<task, job, run, newest>>
  BY DEF RouteOpen, RouteCancel, RouteCreate, taskTableVars, historyVars
<1>3. Known' = Known /\ Begun' = Begun /\ ActiveTasks' = ActiveTasks /\ CompletedTasks' = CompletedTasks
      /\ BootRuns' = BootRuns /\ \A u \in Upload : TasksOf(u)' = TasksOf(u) /\ First(u)' = First(u)
  BY <1>2 DEF Known, Begun, ActiveTasks, CompletedTasks, BootRuns, TasksOf, First
<1>4. tx.pc # "attach" /\ tx'.pc # "attach"
      /\ (\A u \in Upload : response'[u] = "idle" => response[u] = "idle")
  <2>1. ASSUME NEW u \in Upload, RouteOpen(u) PROVE tx.pc # "attach" /\ tx'.pc # "attach" /\ \A v \in Upload : response'[v] = "idle" => response[v] = "idle"
    BY <2>1, Types DEF RouteOpen, NoTx
  <2>2. CASE RouteCancel
    BY <2>2, Types DEF RouteCancel
  <2>3. CASE RouteCreate
    <3>1. CASE ActiveTasks \subseteq {tx.old}
      BY <2>3, <3>1, Types DEF RouteCreate
    <3>2. CASE ~(ActiveTasks \subseteq {tx.old})
      BY <2>3, <3>2, Types DEF RouteCreate, NoTx
    <3> QED BY <3>1, <3>2
  <2> QED BY <2>1, <2>2, <2>3
<1>5. JobsOnce'
  BY <1>1, <1>2, <1>3, <1>4 DEF JobsOnce
<1>6. RunsOnce' /\ BegunCarryJob' /\ Owed'
  BY <1>1, <1>2, <1>3 DEF RunsOnce, BegunCarryJob, Owed
<1>7. Awaited'
  BY <1>1, <1>2, <1>3, <1>4 DEF Awaited
<1>8. TxOnce' /\ \A t \in ActiveTasks : Ousted(t) => Ousted(t)'
  <2>1. ASSUME NEW u \in Upload, RouteOpen(u) PROVE TxOnce' /\ \A t \in ActiveTasks : Ousted(t) => Ousted(t)'
    <3>1. tx.pc = "free" /\ tx'.up = u /\ tx'.pc \in {"create", "cancel"} /\ (tx'.pc = "create" => tx'.old = NoTask)
          /\ response'[u] = "open" /\ job[u].state = "unsent"
      BY <1>1, <2>1, Types DEF RouteOpen, NoTx, JobsOnce
    <3>2. \A t \in TaskId : ~Ousted(t) /\ ~Ousted(t)'
      BY <3>1, Types DEF Ousted
    <3>3. TxOnce'
      BY <1>2, <3>1, <3>2 DEF TxOnce
    <3>4. ActiveTasks \subseteq TaskId
      BY DEF ActiveTasks
    <3> QED BY <3>2, <3>3, <3>4
  <2>2. CASE RouteCancel
    <3>1. tx.pc = "cancel" /\ tx.old \in Begun /\ task[tx.old].job \in Upload
      BY <1>1, <2>2 DEF RouteCancel, IInv, TxInv, BegunCarryJob
    <3>2. tx'.pc = "cancelJob" /\ tx'.up = tx.up /\ tx'.old = tx.old /\ response' = response
      BY <2>2, <3>1, Types DEF RouteCancel
    <3> QED BY <1>1, <1>2, <3>1, <3>2 DEF TxOnce, Ousted
  <2>3. CASE RouteCreate
    <3>1. CASE ActiveTasks \subseteq {tx.old}
      <4>1. tx.pc = "create" /\ tx'.pc = "send" /\ tx'.up = tx.up /\ tx'.old = tx.old /\ response' = response
        BY <2>3, <3>1, Types DEF RouteCreate
      <4> QED BY <1>1, <1>2, <4>1 DEF TxOnce, Ousted
    <3>2. CASE ~(ActiveTasks \subseteq {tx.old})
      <4>1. tx'.pc = "free"
        BY <2>3, <3>2 DEF RouteCreate, NoTx
      <4>2. TxOnce'
        BY <4>1 DEF TxOnce, Ousted
      <4>3. \A t \in ActiveTasks : ~Ousted(t)
        BY <3>2 DEF Ousted, IInv, OneActiveTask
      <4> QED BY <4>2, <4>3
    <3> QED BY <3>1, <3>2
  <2> QED BY <2>1, <2>2, <2>3
<1>9. \A t \in ActiveTasks' : Cared(t)'
  <2> SUFFICES ASSUME NEW t \in ActiveTasks PROVE Cared(t)'
    BY <1>3
  <2>1. Cared(t) /\ (Ousted(t) => Ousted(t)') /\ task[t].job \in Upload
    BY <1>1, <1>8, Types DEF BegunCarryJob
  <2> QED BY <1>2, <1>3, <2>1 DEF Cared
<1> QED BY <1>5, <1>6, <1>7, <1>8, <1>9 DEF BurstInv

\* Cancelling the job of the task that was found leaves that task to the route.
LEMMA CancelJobBurst ==
  ASSUME IInv, IInv', BurstInv, faults' = 0, RouteCancelJob
  PROVE  BurstInv'
<1>1. JobsOnce /\ RunsOnce /\ BegunCarryJob /\ TxOnce /\ Awaited /\ Owed /\ \A t \in ActiveTasks : Cared(t)
  BY DEF BurstInv
<1>2. UNCHANGED <<task, response, run, newest>>
  BY DEF RouteCancelJob, taskTableVars, historyVars
<1>3. Known' = Known /\ Begun' = Begun /\ ActiveTasks' = ActiveTasks /\ CompletedTasks' = CompletedTasks
      /\ BootRuns' = BootRuns /\ \A u \in Upload : TasksOf(u)' = TasksOf(u) /\ First(u)' = First(u)
  BY <1>2 DEF Known, Begun, ActiveTasks, CompletedTasks, BootRuns, TasksOf, First
<1> DEFINE o == tx.old
           v == task[o].job
<1>4. tx.pc = "cancelJob" /\ o \in Begun /\ o \in Known /\ v \in Upload /\ o \in TasksOf(v)
  BY <1>1, Types DEF RouteCancelJob, IInv, TxInv, BegunCarryJob, TasksOf
<1>5. tx'.pc = "create" /\ tx'.up = tx.up /\ tx'.old = o
  BY Types DEF RouteCancelJob
<1>6. job' = Cancelled(job, v)
  <2>1. faults \in Nat
    BY BoundsAssumption DEF IInv, TypeOK
  <2> QED BY <2>1 DEF RouteCancelJob, Fault
<1>7. /\ \A u \in Upload : job'[u].retries = job[u].retries
      /\ \A u \in Upload \ {v} : job'[u] = job[u]
      /\ job'[v].state \notin {"created", "retry", "active"}
      /\ job'[v].state = job[v].state \/ job'[v].state = "cancelled"
  BY <1>4, <1>6, CancelledOne, Types
<1> HIDE DEF o, v
<1>8. job[v].state # "unsent"
  BY <1>1, <1>4 DEF JobsOnce
<1>9. JobsOnce'
  BY <1>1, <1>2, <1>3, <1>4, <1>5, <1>7, <1>8 DEF JobsOnce
<1>10. RunsOnce' /\ BegunCarryJob' /\ Owed'
  BY <1>1, <1>2, <1>3 DEF RunsOnce, BegunCarryJob, Owed
<1>11. Awaited'
  BY <1>1, <1>2, <1>3, <1>4, <1>5, <1>7 DEF Awaited
<1>12. TxOnce'
  <2>1. tx.up \in Upload /\ tx.up # v /\ job[tx.up].state = "unsent" /\ response[tx.up] = "open"
    BY <1>1, <1>4, <1>8 DEF TxOnce, IInv, TxInv
  <2>2. ASSUME NEW t \in TaskId, Ousted(t)' PROVE job'[task[t].job].state \notin {"created", "active"}
    BY <1>4, <1>5, <1>7, <2>2 DEF Ousted, v, o
  <2> QED BY <1>2, <1>5, <1>7, <2>1, <2>2 DEF TxOnce
<1>13. ASSUME NEW t \in ActiveTasks PROVE Cared(t)'
  <2>1. Cared(t) /\ task[t].job \in Upload /\ t \in TasksOf(task[t].job) /\ ~Ousted(t)
    BY <1>1, <1>4, Types DEF BegunCarryJob, TasksOf, Ousted
  <2>2. CASE task[t].status = "PENDING" /\ job[task[t].job].state = "created"
    <3>1. CASE task[t].job = v
      <4>1. t = o
        BY <1>1, <1>4, <2>1, <2>2, <3>1 DEF JobsOnce
      <4>2. Ousted(t)'
        BY <1>5, <4>1 DEF Ousted
      <4> QED BY <1>2, <2>2, <4>2 DEF Cared
    <3>2. CASE task[t].job # v
      BY <1>2, <1>7, <2>1, <2>2, <3>2 DEF Cared
    <3> QED BY <3>1, <3>2
  <2>3. CASE ~(task[t].status = "PENDING" /\ job[task[t].job].state = "created")
    BY <1>2, <1>3, <2>1, <2>3 DEF Cared
  <2> QED BY <2>2, <2>3
<1> QED BY <1>3, <1>9, <1>10, <1>11, <1>12, <1>13 DEF BurstInv

\* Where the queue refuses a job, the one it holds is about to be replaced.
LEMMA SendBurst ==
  ASSUME IInv, IInv', BurstInv, RouteSend
  PROVE  BurstInv'
<1>1. JobsOnce /\ RunsOnce /\ BegunCarryJob /\ TxOnce /\ Awaited /\ Owed /\ \A t \in ActiveTasks : Cared(t)
  BY DEF BurstInv
<1>2. UNCHANGED <<task, response, run, newest>>
  BY DEF RouteSend, taskTableVars, historyVars
<1>3. Known' = Known /\ Begun' = Begun /\ ActiveTasks' = ActiveTasks /\ CompletedTasks' = CompletedTasks
      /\ BootRuns' = BootRuns /\ \A u \in Upload : TasksOf(u)' = TasksOf(u) /\ First(u)' = First(u)
  BY <1>2 DEF Known, Begun, ActiveTasks, CompletedTasks, BootRuns, TasksOf, First
<1> DEFINE up == tx.up
<1>4. tx.pc = "send" /\ up \in Upload /\ ActiveTasks \subseteq {tx.old} /\ response[up] = "open"
      /\ job[up].state = "unsent" /\ TasksOf(up) = {} /\ First(up).pc = "none"
  BY <1>1 DEF RouteSend, IInv, TxInv, TxOnce, JobsOnce
<1>5. RunsOnce' /\ BegunCarryJob' /\ Owed'
  BY <1>1, <1>2, <1>3 DEF RunsOnce, BegunCarryJob, Owed
<1>6. CASE \E u \in Upload : job[u].state = "created"
  <2>1. tx'.pc = "reject" /\ tx'.up = up /\ tx'.old = tx.old /\ job' = job
    BY <1>6, Types DEF RouteSend
  <2>2. BootRuns # {}
    <3>1. PICK u \in Upload : job[u].state = "created"
      BY <1>6
    <3>2. PICK t \in TasksOf(u) : \/ task[t].status = "PENDING"
                                  \/ \E r \in Run : run[r].pc = "bootCancelJob" /\ run[r].old = t
      BY <1>1, <1>4, <3>1 DEF Awaited
    <3>3. task[t].status # "PENDING"
      <4> SUFFICES ASSUME task[t].status = "PENDING" PROVE FALSE
        OBVIOUS
      <4>1. t \in TaskId /\ task[t].job = u /\ t \in ActiveTasks
        BY Types DEF TasksOf, ActiveTasks, Active
      <4>2. Ousted(t)
        BY <1>4, <4>1 DEF Ousted
      <4> QED BY <1>1, <3>1, <4>1, <4>2 DEF TxOnce
    <3> QED BY <3>2, <3>3 DEF BootRuns, Boot
  <2>3. JobsOnce' /\ Awaited'
    BY <1>1, <1>2, <1>3, <1>4, <2>1 DEF JobsOnce, Awaited
  <2>4. TxOnce'
    BY <1>1, <1>2, <1>3, <1>4, <2>1, <2>2 DEF TxOnce, Ousted
  <2>5. \A t \in ActiveTasks : Cared(t)'
    <3> SUFFICES ASSUME NEW t \in ActiveTasks PROVE Cared(t)'
      OBVIOUS
    <3>1. Cared(t) /\ task[t].job \in Upload /\ (Ousted(t) => Ousted(t)')
      BY <1>1, <1>4, <2>1, Types DEF BegunCarryJob, Ousted
    <3> QED BY <1>2, <1>3, <2>1, <3>1 DEF Cared
  <2> QED BY <1>3, <1>5, <2>3, <2>4, <2>5 DEF BurstInv
<1>7. CASE ~\E u \in Upload : job[u].state = "created"
  <2>1. tx'.pc = "attach" /\ tx'.up = up /\ tx'.old = tx.old
        /\ \A u \in Upload \ {up} : job'[u] = job[u]
    BY <1>4, <1>7, Types DEF RouteSend
  <2>2. job'[up].state = "created" /\ job'[up].retries = job[up].retries
    BY <1>4, <1>7, Types DEF RouteSend, JobRow
  <2>3. JobsOnce'
    BY <1>1, <1>2, <1>3, <1>4, <2>1, <2>2 DEF JobsOnce
  <2>4. Awaited'
    BY <1>1, <1>2, <1>3, <1>4, <1>7, <2>1, <2>2 DEF Awaited
  <2>5. TxOnce'
    <3>1. ASSUME NEW t \in TaskId, Ousted(t)' PROVE job'[task[t].job].state \notin {"created", "active"}
      <4>1. Ousted(t) /\ t \in Begun
        BY <1>4, <2>1, <3>1, Types DEF Ousted, IInv, TxInv
      <4>2. task[t].job \in Upload \ {up}
        BY <1>1, <1>4, <4>1, Types DEF BegunCarryJob, TasksOf
      <4> QED BY <1>1, <2>1, <4>1, <4>2 DEF TxOnce
    <3> QED BY <1>2, <1>3, <1>4, <2>1, <2>2, <3>1 DEF TxOnce
  <2>6. \A t \in ActiveTasks : Cared(t)'
    <3> SUFFICES ASSUME NEW t \in ActiveTasks PROVE Cared(t)'
      OBVIOUS
    <3>1. Cared(t) /\ task[t].job \in Upload /\ (Ousted(t) => Ousted(t)')
      BY <1>1, <1>4, <2>1, Types DEF BegunCarryJob, Ousted
    <3> QED BY <1>2, <1>3, <1>7, <2>1, <3>1 DEF Cared
  <2> QED BY <1>3, <1>5, <2>3, <2>4, <2>5, <2>6 DEF BurstInv
<1> QED BY <1>6, <1>7

\* What a commit of the route leaves of import_tasks.
LEMMA CommittedRows ==
  ASSUME IInv, RouteCommit \/ RouteReject, NEW s, NEW j, task' = Committed(s, j), s # "absent"
  PROVE  LET n == tx.new IN
         /\ n \in TaskId /\ n \notin Known /\ ActiveTasks \subseteq {tx.old}
         /\ task'[n] = [status |-> s, job |-> j, finishedAt |-> 0]
         /\ \A t \in TaskId \ {n} : /\ task'[t].job = task[t].job /\ task'[t].finishedAt = task[t].finishedAt
                                    /\ task'[t].status = IF t = tx.old THEN "CANCELLED" ELSE task[t].status
         /\ Known' = Known \cup {n}
         /\ ActiveTasks' \subseteq {n}
         /\ \A u \in Upload : TasksOf(u)' = IF u = j THEN TasksOf(u) \cup {n} ELSE TasksOf(u)
<1> DEFINE n == tx.new
<1>1. n \in TaskId \ Known /\ ActiveTasks \subseteq {tx.old} /\ (tx.old # NoTask => tx.old \in Begun)
  BY DEF RouteCommit, RouteReject, IInv, TxInv
<1>2. tx.old # n
  BY <1>1, Types
<1>3. task'[n] = [status |-> s, job |-> j, finishedAt |-> 0]
  BY <1>1, Types DEF Committed
<1>4. ASSUME NEW t \in TaskId \ {n}
      PROVE /\ task'[t].job = task[t].job /\ task'[t].finishedAt = task[t].finishedAt
            /\ task'[t].status = IF t = tx.old THEN "CANCELLED" ELSE task[t].status
  <2>1. CASE t = tx.old
    <3>1. tx.old # NoTask
      BY <2>1, Types
    <3> QED BY <1>1, <1>2, <2>1, <3>1, Types DEF Committed, TaskRow
  <2>2. CASE t # tx.old
    BY <1>1, <1>2, <2>2, Types DEF Committed
  <2> QED BY <2>1, <2>2
<1> HIDE DEF n
<1>5. \A t \in TaskId \ {n} : t = tx.old => t \in Known
  BY <1>1, Types
<1>6. Known' = Known \cup {n}
  BY <1>1, <1>3, <1>4, <1>5 DEF Known
<1>7. ActiveTasks' \subseteq {n}
  BY <1>1, <1>4 DEF ActiveTasks, Active
<1>8. ASSUME NEW u \in Upload PROVE TasksOf(u)' = IF u = j THEN TasksOf(u) \cup {n} ELSE TasksOf(u)
  BY <1>1, <1>3, <1>4, <1>6, Types DEF TasksOf
<1> QED BY <1>1, <1>3, <1>4, <1>6, <1>7, <1>8 DEF n

\* A commit hands the slot to a task whose job waits or has just started.
LEMMA CommitBurst ==
  ASSUME IInv, IInv', BurstInv, RouteCommit
  PROVE  BurstInv'
<1>1. JobsOnce /\ RunsOnce /\ BegunCarryJob /\ TxOnce /\ Awaited /\ Owed /\ \A t \in ActiveTasks : Cared(t)
  BY DEF BurstInv
<1>2. UNCHANGED <<job, run>> /\ tx.pc = "attach" /\ tx'.pc = "free"
  BY DEF RouteCommit, NoTx
<1>3. BootRuns' = BootRuns /\ \A u \in Upload : First(u)' = First(u)
  BY <1>2 DEF BootRuns, First
<1> DEFINE n == tx.new
           up == tx.up
<1>4. up \in Upload /\ TasksOf(up) = {} /\ job[up].state \in {"created", "active"} /\ First(up).pc \in {"none", "find"} \cup Boot
      /\ response[up] = "open" /\ response'[up] = "accepted" /\ \A u \in Upload \ {up} : response'[u] = response[u]
  BY <1>1, <1>2, Types DEF IInv, TxInv, TxOnce, RouteCommit
<1>5. /\ n \in TaskId /\ n \notin Known /\ ActiveTasks \subseteq {tx.old}
      /\ task'[n] = [status |-> "PENDING", job |-> up, finishedAt |-> 0]
      /\ \A t \in TaskId \ {n} : /\ task'[t].job = task[t].job
                                 /\ task'[t].status = IF t = tx.old THEN "CANCELLED" ELSE task[t].status
      /\ Known' = Known \cup {n} /\ ActiveTasks' \subseteq {n}
      /\ \A u \in Upload : TasksOf(u)' = IF u = up THEN TasksOf(u) \cup {n} ELSE TasksOf(u)
  BY <1>1, CommittedRows DEF RouteCommit
<1> HIDE DEF n, up
<1>6. n \in ActiveTasks'
  BY <1>5 DEF ActiveTasks, Active
<1>7. JobsOnce'
  BY <1>1, <1>2, <1>3, <1>4, <1>5 DEF JobsOnce, up
<1>8. RunsOnce'
  <2> SUFFICES ASSUME NEW r \in Run
               PROVE  /\ run[r].pc \in {"adopt", "stamp"} \cup Loop => task'[run[r].task].job = r[1]
                      /\ run[r].pc = "bootCancelJob" => task'[run[r].old].status = "CANCELLED"
    BY <1>1, <1>2 DEF RunsOnce
  <2>1. /\ run[r].pc \in {"adopt", "stamp"} \cup Loop => run[r].task \in Known
        /\ run[r].pc = "bootCancelJob" => run[r].old \in Known
    BY Types DEF IInv, RunInv, RunGood, Loop
  <2> QED BY <1>1, <1>5, <2>1, Types DEF RunsOnce
<1>9. BegunCarryJob'
  <2>1. tx.old \in TaskId => tx.old \in Begun
    BY Types DEF IInv, TxInv
  <2> QED BY <1>1, <1>4, <1>5, <2>1, Types DEF BegunCarryJob, Begun, Known
<1>10. TxOnce'
  BY <1>2 DEF TxOnce, Ousted
<1>11. Awaited'
  <2> SUFFICES ASSUME NEW u \in Upload, job[u].state = "created"
               PROVE  \E t \in TasksOf(u)' : \/ task'[t].status = "PENDING"
                                             \/ \E r \in Run : run[r].pc = "bootCancelJob" /\ run[r].old = t
    BY <1>2 DEF Awaited
  <2>1. CASE u = up
    BY <1>5, <2>1
  <2>2. CASE u # up
    <3>1. PICK t \in TasksOf(u) : \/ task[t].status = "PENDING"
                                  \/ \E r \in Run : run[r].pc = "bootCancelJob" /\ run[r].old = t
      BY <1>1, <2>2 DEF Awaited, up
    <3>2. task[t].status # "PENDING"
      <4> SUFFICES ASSUME task[t].status = "PENDING" PROVE FALSE
        OBVIOUS
      <4>1. t \in TaskId /\ task[t].job = u /\ t \in ActiveTasks
        BY Types DEF TasksOf, ActiveTasks, Active
      <4>2. Ousted(t)
        BY <1>2, <1>5, <4>1 DEF Ousted
      <4> QED BY <1>1, <4>1, <4>2 DEF TxOnce
    <3> QED BY <1>5, <2>2, <3>1, <3>2
  <2> QED BY <2>1, <2>2
<1>12. Owed'
  BY <1>6 DEF Owed
<1>13. ASSUME NEW t \in ActiveTasks' PROVE Cared(t)'
  <2>1. t = n /\ task'[t].status = "PENDING" /\ task'[t].job = up
    BY <1>5, <1>13
  <2>2. job[up].state = "active" => First(up).pc # "none"
    BY <1>1, <1>4 DEF JobsOnce
  <2> QED BY <1>2, <1>4, <2>1, <2>2 DEF Cared, First
<1> QED BY <1>5, <1>7, <1>8, <1>9, <1>10, <1>11, <1>12, <1>13 DEF BurstInv

LEMMA RejectBurst ==
  ASSUME IInv, IInv', BurstInv, RouteReject
  PROVE  BurstInv'
<1>1. JobsOnce /\ RunsOnce /\ BegunCarryJob /\ TxOnce /\ Awaited /\ Owed /\ \A t \in ActiveTasks : Cared(t)
  BY DEF BurstInv
<1>2. UNCHANGED <<job, run, newest>> /\ tx.pc = "reject" /\ tx'.pc = "free"
  BY DEF RouteReject, NoTx, historyVars
<1>3. BootRuns' = BootRuns /\ BootRuns # {} /\ \A u \in Upload : First(u)' = First(u)
  BY <1>1, <1>2 DEF BootRuns, First, TxOnce
<1> DEFINE n == tx.new
           up == tx.up
<1>4. up \in Upload /\ response[up] = "open" /\ response'[up] = "conflict"
      /\ \A u \in Upload \ {up} : response'[u] = response[u]
  BY <1>1, <1>2, Types DEF IInv, TxInv, TxOnce, RouteReject
<1>5. /\ n \in TaskId /\ n \notin Known /\ ActiveTasks \subseteq {tx.old}
      /\ task'[n] = [status |-> "FAILED", job |-> None, finishedAt |-> 0]
      /\ \A t \in TaskId \ {n} : /\ task'[t].job = task[t].job
                                 /\ task'[t].status = IF t = tx.old THEN "CANCELLED" ELSE task[t].status
      /\ Known' = Known \cup {n} /\ ActiveTasks' \subseteq {n}
      /\ \A u \in Upload : TasksOf(u)' = TasksOf(u)
  BY <1>1, CommittedRows, Types DEF RouteReject
<1> HIDE DEF n, up
<1>6. ActiveTasks' = {}
  BY <1>5 DEF ActiveTasks, Active
<1>7. JobsOnce'
  BY <1>1, <1>2, <1>3, <1>4, <1>5 DEF JobsOnce
<1>8. RunsOnce'
  <2> SUFFICES ASSUME NEW r \in Run
               PROVE  /\ run[r].pc \in {"adopt", "stamp"} \cup Loop => task'[run[r].task].job = r[1]
                      /\ run[r].pc = "bootCancelJob" => task'[run[r].old].status = "CANCELLED"
    BY <1>1, <1>2 DEF RunsOnce
  <2>1. /\ run[r].pc \in {"adopt", "stamp"} \cup Loop => run[r].task \in Known
        /\ run[r].pc = "bootCancelJob" => run[r].old \in Known
    BY Types DEF IInv, RunInv, RunGood, Loop
  <2> QED BY <1>1, <1>5, <2>1, Types DEF RunsOnce
<1>9. BegunCarryJob'
  <2>1. tx.old \in TaskId => tx.old \in Begun
    BY Types DEF IInv, TxInv
  <2> QED BY <1>1, <1>5, <2>1, Types DEF BegunCarryJob, Begun, Known
<1>10. TxOnce'
  BY <1>2 DEF TxOnce, Ousted
<1>11. Awaited'
  <2> SUFFICES ASSUME NEW u \in Upload, job[u].state = "created"
               PROVE  \E t \in TasksOf(u) : \E r \in Run : run[r].pc = "bootCancelJob" /\ run[r].old = t
    BY <1>2, <1>5 DEF Awaited
  <2>1. PICK t \in TasksOf(u) : \/ task[t].status = "PENDING"
                                \/ \E r \in Run : run[r].pc = "bootCancelJob" /\ run[r].old = t
    BY <1>1, <1>2 DEF Awaited
  <2>2. task[t].status # "PENDING"
    <3> SUFFICES ASSUME task[t].status = "PENDING" PROVE FALSE
      OBVIOUS
    <3>1. t \in TaskId /\ task[t].job = u /\ t \in ActiveTasks
      BY Types DEF TasksOf, ActiveTasks, Active
    <3>2. Ousted(t)
      BY <1>2, <1>5, <3>1 DEF Ousted
    <3> QED BY <1>1, <3>1, <3>2 DEF TxOnce
  <2> QED BY <2>1, <2>2
<1>12. Owed'
  BY <1>3 DEF Owed
<1> QED BY <1>6, <1>7, <1>8, <1>9, <1>10, <1>11, <1>12 DEF BurstInv

\* pg-boss hands over a job that waits: its first attempt starts, its only one.
LEMMA FetchBurst ==
  ASSUME IInv, IInv', BurstInv, NEW u \in Upload, Fetch(u)
  PROVE  BurstInv'
<1>1. JobsOnce /\ RunsOnce /\ BegunCarryJob /\ TxOnce /\ Awaited /\ Owed /\ \A t \in ActiveTasks : Cared(t)
  BY DEF BurstInv
<1>2. UNCHANGED <<task, tx, response, newest>>
  BY DEF Fetch, taskTableVars, routeVars
<1>3. job[u].state = "created" /\ job[u].retries = 0 /\ First(u).pc = "none" /\ <<u, 0>> \in Run
  BY <1>1, Types DEF Fetch, JobsOnce, Queued
<1>4. /\ \A v \in Upload \ {u} : job'[v] = job[v] /\ First(v)' = First(v)
      /\ job'[u].state = "active" /\ job'[u].retries = 0
      /\ \A x \in Run \ {<<u, 0>>} : run'[x] = run[x]
      /\ run'[<<u, 0>>].pc = "find" /\ First(u)'.pc = "find"
  BY <1>3, Types DEF Fetch, First, NoRun, JobRow
<1>5. Known' = Known /\ Begun' = Begun /\ ActiveTasks' = ActiveTasks /\ CompletedTasks' = CompletedTasks
      /\ \A v \in Upload : TasksOf(v)' = TasksOf(v)
  BY <1>2 DEF Known, Begun, ActiveTasks, CompletedTasks, TasksOf
<1>6. BootRuns' = BootRuns
  BY <1>3, <1>4 DEF BootRuns, Boot, First
<1>7. JobsOnce'
  BY <1>1, <1>2, <1>3, <1>4, <1>5 DEF JobsOnce
<1>8. RunsOnce'
  <2> SUFFICES ASSUME NEW r \in Run
               PROVE  /\ r[2] # 0 => run'[r].pc = "none"
                      /\ run'[r].pc \in {"adopt", "stamp"} \cup Loop => task[run'[r].task].job = r[1]
                      /\ run'[r].pc = "bootCancelJob" => task[run'[r].old].status = "CANCELLED"
    BY <1>2 DEF RunsOnce
  <2>1. CASE r = <<u, 0>>
    BY <1>4, <2>1 DEF Loop
  <2>2. CASE r # <<u, 0>>
    BY <1>1, <1>4, <2>2 DEF RunsOnce
  <2> QED BY <2>1, <2>2
<1>9. BegunCarryJob' /\ Owed'
  BY <1>1, <1>2, <1>5, <1>6 DEF BegunCarryJob, Owed
<1>10. TxOnce'
  <2>1. tx.pc # "free" => tx.up \in Upload
    BY DEF IInv, TxInv
  <2>2. ASSUME NEW t \in TaskId, Ousted(t) PROVE job'[task[t].job].state \notin {"created", "active"}
    <3>1. t \in Begun /\ task[t].job \in Upload
      BY <1>1, <2>2, Types DEF Ousted, IInv, TxInv, BegunCarryJob
    <3>2. task[t].job # u
      BY <1>1, <1>3, <2>2 DEF TxOnce
    <3> QED BY <1>1, <1>4, <2>2, <3>1, <3>2 DEF TxOnce
  <2> QED BY <1>1, <1>2, <1>3, <1>4, <1>5, <1>6, <2>1, <2>2 DEF TxOnce, Ousted
<1>11. Awaited'
  <2> SUFFICES ASSUME NEW v \in Upload, job'[v].state = "created", ~(tx.up = v /\ tx.pc = "attach")
               PROVE  \E t \in TasksOf(v) : \/ task[t].status = "PENDING"
                                            \/ \E r \in Run : run'[r].pc = "bootCancelJob" /\ run'[r].old = t
    BY <1>2, <1>5 DEF Awaited
  <2>1. job[v].state = "created"
    BY <1>4
  <2>2. PICK t \in TasksOf(v) : \/ task[t].status = "PENDING"
                                \/ \E r \in Run : run[r].pc = "bootCancelJob" /\ run[r].old = t
    BY <1>1, <2>1 DEF Awaited
  <2>3. \A r \in Run : run[r].pc = "bootCancelJob" => run'[r] = run[r]
    BY <1>3, <1>4 DEF First
  <2> QED BY <2>2, <2>3
<1>12. ASSUME NEW t \in ActiveTasks PROVE Cared(t)'
  <2>1. Cared(t) /\ task[t].job \in Upload /\ Ousted(t)' = Ousted(t)
    BY <1>1, <1>2, Types DEF BegunCarryJob, Ousted
  <2>2. \A r \in Run : run[r].pc \in Loop => run'[r] = run[r]
    BY <1>3, <1>4 DEF First, Loop
  <2>3. CASE task[t].job = u
    BY <1>2, <1>3, <1>4, <2>1, <2>2, <2>3 DEF Cared, First
  <2>4. CASE task[t].job # u
    BY <1>2, <1>4, <2>1, <2>2, <2>4 DEF Cared, First
  <2> QED BY <2>3, <2>4
<1> QED BY <1>5, <1>7, <1>8, <1>9, <1>10, <1>11, <1>12 DEF BurstInv

\* A statement of the handler that writes neither import_tasks nor the queue.
LEMMA MoveBurst ==
  ASSUME IInv, IInv', BurstInv, NEW r \in Run,
         UNCHANGED <<task, job, tx, response, newest>>,
         \A x \in Run \ {r} : run'[x] = run[x],
         run[r].pc \notin {"none", "bootCancelJob"},
         run'[r].pc \notin {"none", "ended", "bootCancelJob"},
         run[r].pc \in Boot => run'[r].pc \in Boot,
         run'[r].pc \in {"find", "adopt"} \cup Boot => run[r].pc \in {"find"} \cup Boot,
         run'[r].pc \in {"adopt", "stamp"} \cup Loop => task[run'[r].task].job = r[1],
         run[r].pc = "find" => \/ run'[r].pc \in Boot
                               \/ run'[r].pc = "adopt" /\ run'[r].task \in TasksOf(r[1]),
         run[r].pc = "adopt" => task[run[r].task].status # "PENDING",
         run[r].pc \in Loop => \/ run'[r].pc \in Loop /\ run'[r].task = run[r].task
                               \/ task[run[r].task].status # "PROCESSING"
  PROVE  BurstInv'
<1>1. JobsOnce /\ RunsOnce /\ BegunCarryJob /\ TxOnce /\ Awaited /\ Owed /\ \A t \in ActiveTasks : Cared(t)
  BY DEF BurstInv
<1>2. Known' = Known /\ Begun' = Begun /\ ActiveTasks' = ActiveTasks /\ CompletedTasks' = CompletedTasks
      /\ \A v \in Upload : TasksOf(v)' = TasksOf(v)
  BY DEF Known, Begun, ActiveTasks, CompletedTasks, TasksOf
<1>3. r = <<r[1], 0>> /\ r[1] \in Upload /\ First(r[1]) = run[r] /\ First(r[1])' = run'[r]
      /\ job[r[1]].state \notin {"unsent", "created"}
  BY <1>1, Started DEF First
<1>4. ASSUME NEW v \in Upload \ {r[1]} PROVE First(v)' = First(v)
  <2>1. <<v, 0>> \in Run /\ <<v, 0>>[1] = v
    BY Types
  <2>2. <<v, 0>> # r
    BY <2>1
  <2> QED BY <2>1, <2>2 DEF First
<1>5. BootRuns \subseteq BootRuns'
  BY DEF BootRuns
<1>6. JobsOnce'
  <2> SUFFICES ASSUME NEW u \in Upload
               PROVE  /\ job[u].retries = 0 /\ job[u].state \notin {"retry", "failed"}
                      /\ job[u].state = "active" => First(u)'.pc \notin {"none", "ended"}
                      /\ job[u].state \in {"unsent", "created"} => First(u)'.pc = "none"
                      /\ job[u].state = "unsent" => TasksOf(u) = {}
                      /\ job[u].state # "unsent" => TasksOf(u) # {} \/ (tx.up = u /\ tx.pc = "attach")
                      /\ response[u] = "idle" => job[u].state = "unsent"
                      /\ First(u)'.pc \in {"none", "find", "adopt"} \cup Boot => \A s, t \in TasksOf(u) : s = t
    BY <1>2 DEF JobsOnce
  <2>1. CASE u = r[1]
    BY <1>1, <1>3, <2>1 DEF JobsOnce
  <2>2. CASE u # r[1]
    BY <1>1, <1>4, <2>2 DEF JobsOnce
  <2> QED BY <2>1, <2>2
<1>7. RunsOnce'
  <2> SUFFICES ASSUME NEW x \in Run
               PROVE  /\ x[2] # 0 => run'[x].pc = "none"
                      /\ run'[x].pc \in {"adopt", "stamp"} \cup Loop => task[run'[x].task].job = x[1]
                      /\ run'[x].pc = "bootCancelJob" => task[run'[x].old].status = "CANCELLED"
    BY DEF RunsOnce
  <2>1. CASE x = r
    BY <1>1, <2>1 DEF RunsOnce
  <2>2. CASE x # r
    BY <1>1, <2>2 DEF RunsOnce
  <2> QED BY <2>1, <2>2
<1>8. BegunCarryJob' /\ Owed'
  BY <1>1, <1>2, <1>5 DEF BegunCarryJob, Owed
<1>9. TxOnce'
  <2>1. tx.pc = "attach" => tx.up \in Upload
    BY DEF IInv, TxInv
  <2>2. tx.pc = "attach" => First(tx.up)'.pc \in {"none", "find"} \cup Boot
    BY <1>1, <1>3, <1>4, <2>1 DEF TxOnce
  <2> QED BY <1>1, <1>2, <1>5, <2>1, <2>2 DEF TxOnce, Ousted, First
<1>10. Awaited'
  <2> SUFFICES ASSUME NEW u \in Upload, job[u].state = "created", ~(tx.up = u /\ tx.pc = "attach")
               PROVE  \E t \in TasksOf(u) : \/ task[t].status = "PENDING"
                                            \/ \E x \in Run : run'[x].pc = "bootCancelJob" /\ run'[x].old = t
    BY <1>2 DEF Awaited
  <2>1. PICK t \in TasksOf(u) : \/ task[t].status = "PENDING"
                                \/ \E x \in Run : run[x].pc = "bootCancelJob" /\ run[x].old = t
    BY <1>1 DEF Awaited
  <2> QED BY <2>1
<1>11. ASSUME NEW t \in ActiveTasks PROVE Cared(t)'
  <2>1. Cared(t) /\ task[t].job \in Upload /\ Ousted(t)' = Ousted(t) /\ t \in TasksOf(task[t].job)
    BY <1>1, Types DEF BegunCarryJob, Ousted, TasksOf
  <2>2. CASE task[t].status = "PENDING" /\ task[t].job = r[1]
    <3>1. \A s \in TasksOf(r[1]) : run[r].pc \in {"find"} \cup Boot => s = t
      BY <1>1, <1>3, <2>1, <2>2 DEF JobsOnce
    <3>2. \/ run[r].pc \in {"find"} \cup Boot
          \/ run[r].pc = "adopt" /\ run[r].task = t
          \/ Ousted(t)
      BY <1>3, <2>1, <2>2 DEF Cared
    <3>3. \/ run'[r].pc \in Boot
          \/ run'[r].pc = "adopt" /\ run'[r].task = t
          \/ Ousted(t)
      BY <2>2, <3>1, <3>2
    <3> QED BY <1>3, <2>1, <2>2, <3>3 DEF Cared, First
  <2>3. CASE task[t].status = "PENDING" /\ task[t].job # r[1]
    BY <1>4, <2>1, <2>3 DEF Cared, First
  <2>4. CASE task[t].status # "PENDING"
    <3>1. task[t].status = "PROCESSING"
      BY <2>4 DEF ActiveTasks, Active
    <3>2. PICK x \in Run : run[x].pc \in Loop /\ run[x].task = t
      BY <2>1, <2>4 DEF Cared
    <3>3. run'[x].pc \in Loop /\ run'[x].task = t
      BY <3>1, <3>2
    <3> QED BY <2>4, <3>3 DEF Cared
  <2> QED BY <2>2, <2>3, <2>4
<1> QED BY <1>2, <1>6, <1>7, <1>8, <1>9, <1>10, <1>11 DEF BurstInv

\* A statement of the handler that changes the status of one row: who the rows
\* belong to stays as it is.
LEMMA UpdateParts ==
  ASSUME IInv, IInv', BurstInv, NEW r \in Run, NEW q \in TaskId, q \in Begun,
         UNCHANGED <<job, tx, response>>,
         \A t \in TaskId \ {q} : task'[t] = task[t],
         task'[q].job = task[q].job, task'[q].status \notin {"absent", "FAILED"},
         \A x \in Run \ {r} : run'[x] = run[x],
         run[r].pc \notin {"none", "find"}, run'[r].pc \notin {"none", "find", "adopt", "ended"},
         run[r].pc \in Boot <=> run'[r].pc \in Boot
  PROVE  /\ JobsOnce' /\ BegunCarryJob' /\ TxOnce'
         /\ Begun' = Begun /\ \A u \in Upload : TasksOf(u)' = TasksOf(u)
         /\ BootRuns' = BootRuns
         /\ \A u \in Upload \ {r[1]} : First(u)' = First(u)
         /\ First(r[1])' = run'[r] /\ First(r[1]) = run[r]
         /\ job[r[1]].state \notin {"unsent", "created"} /\ r[1] \in Upload
<1>1. JobsOnce /\ RunsOnce /\ BegunCarryJob /\ TxOnce
  BY DEF BurstInv
<1>2. \A t \in TaskId : /\ task'[t].job = task[t].job
                        /\ task'[t].status = "absent" <=> task[t].status = "absent"
                        /\ task'[t].status = "FAILED" <=> task[t].status = "FAILED"
  BY DEF Begun, Known
<1>3. Known' = Known /\ Begun' = Begun /\ \A u \in Upload : TasksOf(u)' = TasksOf(u)
  BY <1>2 DEF Known, Begun, TasksOf
<1>4. r = <<r[1], 0>> /\ r[1] \in Upload /\ First(r[1]) = run[r] /\ First(r[1])' = run'[r]
      /\ job[r[1]].state \notin {"unsent", "created"}
  BY <1>1, Started DEF First
<1>5. ASSUME NEW v \in Upload \ {r[1]} PROVE First(v)' = First(v)
  <2>1. <<v, 0>> \in Run /\ <<v, 0>>[1] = v
    BY Types
  <2>2. <<v, 0>> # r
    BY <2>1
  <2> QED BY <2>1, <2>2 DEF First
<1>6. BootRuns' = BootRuns
  BY DEF BootRuns
<1>7. JobsOnce'
  <2> SUFFICES ASSUME NEW u \in Upload
               PROVE  /\ job[u].retries = 0 /\ job[u].state \notin {"retry", "failed"}
                      /\ job[u].state = "active" => First(u)'.pc \notin {"none", "ended"}
                      /\ job[u].state \in {"unsent", "created"} => First(u)'.pc = "none"
                      /\ job[u].state = "unsent" => TasksOf(u) = {}
                      /\ job[u].state # "unsent" => TasksOf(u) # {} \/ (tx.up = u /\ tx.pc = "attach")
                      /\ response[u] = "idle" => job[u].state = "unsent"
                      /\ First(u)'.pc \in {"none", "find", "adopt"} \cup Boot => \A s, t \in TasksOf(u) : s = t
    BY <1>3 DEF JobsOnce
  <2>1. CASE u = r[1]
    BY <1>1, <1>4, <2>1 DEF JobsOnce
  <2>2. CASE u # r[1]
    BY <1>1, <1>5, <2>2 DEF JobsOnce
  <2> QED BY <2>1, <2>2
<1>8. BegunCarryJob'
  BY <1>1, <1>2, <1>3, Types DEF BegunCarryJob
<1>9. TxOnce'
  <2>1. tx.pc = "attach" => tx.up \in Upload
    BY DEF IInv, TxInv
  <2>2. tx.pc = "attach" => First(tx.up)'.pc \in {"none", "find"} \cup Boot
    BY <1>1, <1>4, <1>5, <2>1 DEF TxOnce
  <2> QED BY <1>1, <1>2, <1>3, <1>6, <2>1, <2>2 DEF TxOnce, Ousted, First
<1> QED BY <1>3, <1>4, <1>5, <1>6, <1>7, <1>8, <1>9

\* A job that adopts its task is the one that will end it.
LEMMA AdoptBurst ==
  ASSUME IInv, IInv', BurstInv, NEW r \in Run, ClaimAdopt(r)
  PROVE  BurstInv'
<1> DEFINE q == run[r].task
<1>1. RunsOnce /\ Awaited /\ Owed /\ OneActiveTask /\ (\A t \in ActiveTasks : Cared(t))
      /\ run[r].pc = "adopt" /\ q \in TaskId /\ task[q].job = r[1] /\ r[2] = 0
  BY Types DEF BurstInv, ClaimAdopt, IInv, RunInv, RunGood, RunsOnce
<1>2. UNCHANGED <<job, tx, response, newest>>
  BY DEF ClaimAdopt, routeVars
<1>3. CASE ~Claimable(q)
  <2>1. task' = task /\ Goto(r, "return") /\ task[q].status # "PENDING"
    BY <1>3 DEF ClaimAdopt, Claimable
  <2>2. (\A x \in Run \ {r} : run'[x] = run[x]) /\ run'[r].pc = "return"
    BY <2>1, GotoMoves, Types
  <2> QED BY <1>1, <1>2, <2>1, <2>2, MoveBurst DEF Boot, Loop
<1>4. CASE Claimable(q)
  <2>1. /\ task[q].status = "PENDING" /\ q \in Begun /\ q \in ActiveTasks
        /\ task' = [task EXCEPT ![q].status = "PROCESSING"] /\ Goto(r, LoopPc(r, 0))
    BY <1>1, <1>4 DEF ClaimAdopt, Claimable, Begun, Known, ActiveTasks, Active
  <2>2. LoopPc(r, 0) \in Loop
    BY DEF LoopPc, Loop
  <2>3. (\A x \in Run \ {r} : run'[x] = run[x]) /\ run'[r].pc \in Loop /\ run'[r].task = q
    <3>1. run \in [Run -> RunRow]
      BY Types
    <3>2. run' = [run EXCEPT ![r].pc = LoopPc(r, 0)]
      BY <2>1 DEF Goto
    <3> QED BY <2>2, <3>1, <3>2 DEF RunRow
  <2>4. /\ task'[q].status = "PROCESSING" /\ task'[q].job = task[q].job
        /\ \A t \in TaskId \ {q} : task'[t] = task[t]
    BY <1>1, <2>1, Types DEF TaskRow
  <2> HIDE DEF q
  <2>5. /\ JobsOnce' /\ BegunCarryJob' /\ TxOnce' /\ Begun' = Begun
        /\ \A u \in Upload : TasksOf(u)' = TasksOf(u)
        /\ BootRuns' = BootRuns
        /\ job[r[1]].state \notin {"unsent", "created"} /\ r[1] \in Upload
    <3>1. run[r].pc \notin {"none", "find"} /\ run'[r].pc \notin {"none", "find", "adopt", "ended"}
          /\ (run[r].pc \in Boot <=> run'[r].pc \in Boot)
      BY <1>1, <2>3 DEF Boot, Loop
    <3> QED BY <1>1, <1>2, <2>1, <2>3, <2>4, <3>1, UpdateParts
  <2>6. RunsOnce'
    <3> SUFFICES ASSUME NEW x \in Run
                 PROVE  /\ x[2] # 0 => run'[x].pc = "none"
                        /\ run'[x].pc \in {"adopt", "stamp"} \cup Loop => task'[run'[x].task].job = x[1]
                        /\ run'[x].pc = "bootCancelJob" => task'[run'[x].old].status = "CANCELLED"
      BY DEF RunsOnce
    <3>1. CASE x = r
      BY <1>1, <2>3, <2>4, <3>1 DEF Loop
    <3>2. CASE x # r
      <4>1. run'[x] = run[x]
        BY <2>3, <3>2
      <4>2. run[x].pc \in {"adopt", "stamp"} \cup Loop => run[x].task \in TaskId
        BY Types DEF IInv, RunInv, RunGood, Loop
      <4>3. run[x].pc = "bootCancelJob" => run[x].old \in TaskId
        BY Types DEF IInv, RunInv, RunGood
      <4> QED BY <1>1, <2>1, <2>4, <4>1, <4>2, <4>3 DEF RunsOnce
    <3> QED BY <3>1, <3>2
  <2>7. ActiveTasks' = ActiveTasks
    BY <1>1, <2>1, <2>4 DEF ActiveTasks, Active
  <2>8. Awaited'
    <3> SUFFICES ASSUME NEW u \in Upload, job[u].state = "created", ~(tx.up = u /\ tx.pc = "attach")
                 PROVE  \E t \in TasksOf(u) : \/ task'[t].status = "PENDING"
                                              \/ \E x \in Run : run'[x].pc = "bootCancelJob" /\ run'[x].old = t
      BY <1>2, <2>5 DEF Awaited
    <3>1. PICK t \in TasksOf(u) : \/ task[t].status = "PENDING"
                                  \/ \E x \in Run : run[x].pc = "bootCancelJob" /\ run[x].old = t
      BY <1>1 DEF Awaited
    <3>2. t \in TaskId /\ t # q
      BY <1>1, <2>5, Types DEF TasksOf
    <3>3. \A x \in Run : run[x].pc = "bootCancelJob" => run'[x] = run[x]
      BY <1>1, <2>3
    <3> QED BY <2>4, <3>1, <3>2, <3>3
  <2>9. Owed'
    BY <2>1, <2>7 DEF Owed
  <2>10. ASSUME NEW t \in ActiveTasks PROVE Cared(t)'
    <3>1. t = q
      BY <1>1, <2>1 DEF OneActiveTask
    <3> QED BY <2>3, <2>4, <3>1 DEF Cared
  <2> QED BY <2>5, <2>6, <2>7, <2>8, <2>9, <2>10 DEF BurstInv
<1> QED BY <1>3, <1>4

\* A completed task is what is owed.
LEMMA FinalizeBurst ==
  ASSUME IInv, IInv', BurstInv, NEW r \in Run, Finalize(r)
  PROVE  BurstInv'
<1> DEFINE q == run[r].task
<1>1. RunsOnce /\ Awaited /\ Owed /\ OneActiveTask /\ (\A t \in ActiveTasks : Cared(t))
      /\ run[r].pc = "finalize" /\ q \in TaskId /\ task[q].job = r[1] /\ r[2] = 0
  BY Types DEF BurstInv, Finalize, IInv, RunInv, RunGood, RunsOnce, Loop
<1>2. UNCHANGED <<job, tx, response, newest>>
  BY DEF Finalize, routeVars
<1>3. CASE ~Finalizable(q)
  <2>1. task' = task /\ Goto(r, "return") /\ task[q].status # "PROCESSING"
    BY <1>3 DEF Finalize, Finalizable, StampDue
  <2>2. (\A x \in Run \ {r} : run'[x] = run[x]) /\ run'[r].pc = "return"
    BY <2>1, GotoMoves, Types
  <2> QED BY <1>1, <1>2, <2>1, <2>2, MoveBurst DEF Boot, Loop
<1>4. CASE Finalizable(q)
  <2>1. /\ task[q].status = "PROCESSING" /\ q \in Begun /\ q \in ActiveTasks
        /\ task' = [task EXCEPT ![q].status = "COMPLETED", ![q].finishedAt = clock + 1]
        /\ \E pc \in {"stamp", "return"} : Goto(r, pc)
    BY <1>1, <1>4 DEF Finalize, Finalizable, Begun, Known, ActiveTasks, Active
  <2>2. (\A x \in Run \ {r} : run'[x] = run[x]) /\ run'[r].pc \in {"stamp", "return"} /\ run'[r].task = q
    BY <2>1, GotoMoves, Types
  <2>3. /\ task'[q].status = "COMPLETED" /\ task'[q].job = task[q].job
        /\ \A t \in TaskId \ {q} : task'[t] = task[t]
    BY <1>1, <2>1, Types DEF TaskRow
  <2> HIDE DEF q
  <2>5. /\ JobsOnce' /\ BegunCarryJob' /\ TxOnce' /\ Begun' = Begun
        /\ \A u \in Upload : TasksOf(u)' = TasksOf(u)
        /\ BootRuns' = BootRuns
        /\ job[r[1]].state \notin {"unsent", "created"} /\ r[1] \in Upload
    <3>1. run[r].pc \notin {"none", "find"} /\ run'[r].pc \notin {"none", "find", "adopt", "ended"}
          /\ (run[r].pc \in Boot <=> run'[r].pc \in Boot)
      BY <1>1, <2>2 DEF Boot
    <3> QED BY <1>1, <1>2, <2>1, <2>2, <2>3, <3>1, UpdateParts
  <2>6. RunsOnce'
    <3> SUFFICES ASSUME NEW x \in Run
                 PROVE  /\ x[2] # 0 => run'[x].pc = "none"
                        /\ run'[x].pc \in {"adopt", "stamp"} \cup Loop => task'[run'[x].task].job = x[1]
                        /\ run'[x].pc = "bootCancelJob" => task'[run'[x].old].status = "CANCELLED"
      BY DEF RunsOnce
    <3>1. CASE x = r
      BY <1>1, <2>2, <2>3, <3>1 DEF Loop
    <3>2. CASE x # r
      <4>1. run'[x] = run[x]
        BY <2>2, <3>2
      <4>2. run[x].pc \in {"adopt", "stamp"} \cup Loop => run[x].task \in TaskId
        BY Types DEF IInv, RunInv, RunGood, Loop
      <4>3. run[x].pc = "bootCancelJob" => run[x].old \in TaskId
        BY Types DEF IInv, RunInv, RunGood
      <4>4. run'[x].pc \in {"adopt", "stamp"} \cup Loop => task'[run'[x].task].job = x[1]
        BY <1>1, <2>3, <4>1, <4>2 DEF RunsOnce
      <4>5. run'[x].pc = "bootCancelJob" => task'[run'[x].old].status = "CANCELLED"
        <5>1. run[x].pc = "bootCancelJob" => task[run[x].old].status = "CANCELLED"
          BY <1>1 DEF RunsOnce
        <5>2. run[x].pc = "bootCancelJob" => run[x].old # q
          BY <2>1, <5>1
        <5> QED BY <2>3, <4>1, <4>3, <5>1, <5>2
      <4> QED BY <1>1, <4>1, <4>4, <4>5 DEF RunsOnce
    <3> QED BY <3>1, <3>2
  <2>7. ActiveTasks' = {} /\ q \in CompletedTasks'
    <3>1. \A t \in ActiveTasks : t = q
      BY <1>1, <2>1 DEF OneActiveTask
    <3>2. ActiveTasks' = {}
      BY <2>3, <3>1 DEF ActiveTasks, Active
    <3> QED BY <1>1, <2>3, <3>2 DEF CompletedTasks
  <2>8. Awaited'
    <3> SUFFICES ASSUME NEW u \in Upload, job[u].state = "created", ~(tx.up = u /\ tx.pc = "attach")
                 PROVE  \E t \in TasksOf(u) : \/ task'[t].status = "PENDING"
                                              \/ \E x \in Run : run'[x].pc = "bootCancelJob" /\ run'[x].old = t
      BY <1>2, <2>5 DEF Awaited
    <3>1. PICK t \in TasksOf(u) : \/ task[t].status = "PENDING"
                                  \/ \E x \in Run : run[x].pc = "bootCancelJob" /\ run[x].old = t
      BY <1>1 DEF Awaited
    <3>2. t \in TaskId /\ t # q
      BY <1>1, <2>5, Types DEF TasksOf
    <3>3. \A x \in Run : run[x].pc = "bootCancelJob" => run'[x] = run[x]
      BY <1>1, <2>2
    <3> QED BY <2>3, <3>1, <3>2, <3>3
  <2>9. Owed'
    BY <2>7 DEF Owed
  <2> QED BY <2>5, <2>6, <2>7, <2>8, <2>9 DEF BurstInv
<1> QED BY <1>3, <1>4

\* Who cancels an active task is about to make a new one.
LEMMA BootCancelBurst ==
  ASSUME IInv, IInv', BurstInv, NEW r \in Run, BootCancel(r)
  PROVE  BurstInv'
<1> DEFINE q == run[r].old
<1>1. RunsOnce /\ Awaited /\ Owed /\ OneActiveTask /\ (\A t \in ActiveTasks : Cared(t))
      /\ run[r].pc = "bootCancel" /\ q \in TaskId /\ q \in Begun /\ task[q].job \in Upload /\ r[2] = 0
  BY Types DEF BurstInv, BootCancel, IInv, RunInv, RunGood, RunsOnce, BegunCarryJob, Known, Begun
<1>2. UNCHANGED <<job, tx, response, newest>>
  BY DEF BootCancel, routeVars
<1>3. task' = [task EXCEPT ![q].status = "CANCELLED"] /\ Goto(r, "bootCancelJob")
  BY <1>1, NoneAssumption DEF BootCancel
<1>4. (\A x \in Run \ {r} : run'[x] = run[x]) /\ run'[r].pc = "bootCancelJob" /\ run'[r].old = q
  BY <1>3, GotoMoves, Types
<1>5. /\ task'[q].status = "CANCELLED" /\ task'[q].job = task[q].job
      /\ \A t \in TaskId \ {q} : task'[t] = task[t]
  BY <1>1, <1>3, Types DEF TaskRow
<1> HIDE DEF q
<1>6. /\ JobsOnce' /\ BegunCarryJob' /\ TxOnce' /\ Begun' = Begun
      /\ \A u \in Upload : TasksOf(u)' = TasksOf(u)
      /\ BootRuns' = BootRuns /\ First(r[1])' = run'[r]
      /\ \A u \in Upload \ {r[1]} : First(u)' = First(u)
      /\ job[r[1]].state \notin {"unsent", "created"} /\ r[1] \in Upload
  <2>1. run[r].pc \notin {"none", "find"} /\ run'[r].pc \notin {"none", "find", "adopt", "ended"}
        /\ (run[r].pc \in Boot <=> run'[r].pc \in Boot)
    BY <1>1, <1>4 DEF Boot
  <2> QED BY <1>1, <1>2, <1>4, <1>5, <2>1, UpdateParts
<1>7. RunsOnce'
  <2> SUFFICES ASSUME NEW x \in Run
               PROVE  /\ x[2] # 0 => run'[x].pc = "none"
                      /\ run'[x].pc \in {"adopt", "stamp"} \cup Loop => task'[run'[x].task].job = x[1]
                      /\ run'[x].pc = "bootCancelJob" => task'[run'[x].old].status = "CANCELLED"
    BY DEF RunsOnce
  <2>1. CASE x = r
    BY <1>1, <1>4, <1>5, <2>1 DEF Loop
  <2>2. CASE x # r
    <3>1. run'[x] = run[x]
      BY <1>4, <2>2
    <3>2. run[x].pc \in {"adopt", "stamp"} \cup Loop => run[x].task \in TaskId
      BY Types DEF IInv, RunInv, RunGood, Loop
    <3>3. run[x].pc = "bootCancelJob" => run[x].old \in TaskId
      BY Types DEF IInv, RunInv, RunGood
    <3>4. run'[x].pc \in {"adopt", "stamp"} \cup Loop => task'[run'[x].task].job = x[1]
      BY <1>1, <1>5, <3>1, <3>2 DEF RunsOnce
    <3>5. run'[x].pc = "bootCancelJob" => task'[run'[x].old].status = "CANCELLED"
      BY <1>1, <1>5, <3>1, <3>3 DEF RunsOnce
    <3> QED BY <1>1, <3>1, <3>4, <3>5 DEF RunsOnce
  <2> QED BY <2>1, <2>2
<1>8. Awaited'
  <2> SUFFICES ASSUME NEW u \in Upload, job[u].state = "created", ~(tx.up = u /\ tx.pc = "attach")
               PROVE  \E t \in TasksOf(u) : \/ task'[t].status = "PENDING"
                                            \/ \E x \in Run : run'[x].pc = "bootCancelJob" /\ run'[x].old = t
    BY <1>2, <1>6 DEF Awaited
  <2>1. PICK t \in TasksOf(u) : \/ task[t].status = "PENDING"
                                \/ \E x \in Run : run[x].pc = "bootCancelJob" /\ run[x].old = t
    BY <1>1 DEF Awaited
  <2>2. t \in TaskId
    BY Types DEF TasksOf
  <2>3. \A x \in Run : run[x].pc = "bootCancelJob" => run'[x] = run[x]
    BY <1>1, <1>4
  <2> QED BY <1>4, <1>5, <2>1, <2>2, <2>3
<1>9. Owed'
  <2>1. r \in BootRuns
    BY <1>1 DEF BootRuns, Boot
  <2> QED BY <1>6, <2>1 DEF Owed
<1>10. ASSUME NEW t \in ActiveTasks' PROVE Cared(t)'
  <2>1. t \in TaskId /\ t # q /\ task'[t] = task[t] /\ t \in ActiveTasks
    BY <1>5 DEF ActiveTasks, Active
  <2>2. Cared(t) /\ task[t].job \in Upload /\ Ousted(t)' = Ousted(t)
    BY <1>1, <1>2, <2>1, Types DEF BegunCarryJob, Ousted, BurstInv
  <2>3. \A x \in Run : run[x].pc \in Loop => run'[x] = run[x]
    BY <1>1, <1>4 DEF Loop
  <2>4. CASE task[t].job = r[1]
    BY <1>2, <1>4, <1>6, <2>1, <2>2, <2>3, <2>4 DEF Cared, First, Boot
  <2>5. CASE task[t].job # r[1]
    BY <1>2, <1>6, <2>1, <2>2, <2>3, <2>5 DEF Cared, First
  <2> QED BY <2>4, <2>5
<1> QED BY <1>6, <1>7, <1>8, <1>9, <1>10 DEF BurstInv

\* Its own cancel of the queue's job reaches nobody who waits for that job.
LEMMA BootCancelJobBurst ==
  ASSUME IInv, IInv', BurstInv, faults' = 0, NEW r \in Run, BootCancelJob(r)
  PROVE  BurstInv'
<1>1. JobsOnce /\ RunsOnce /\ BegunCarryJob /\ TxOnce /\ Awaited /\ Owed /\ \A t \in ActiveTasks : Cared(t)
  BY DEF BurstInv
<1>2. UNCHANGED <<task, tx, response, newest>>
  BY DEF BootCancelJob, taskTableVars, routeVars
<1>3. Known' = Known /\ Begun' = Begun /\ ActiveTasks' = ActiveTasks /\ CompletedTasks' = CompletedTasks
      /\ \A u \in Upload : TasksOf(u)' = TasksOf(u)
  BY <1>2 DEF Known, Begun, ActiveTasks, CompletedTasks, TasksOf
<1> DEFINE o == run[r].old
           v == task[o].job
<1>4. run[r].pc = "bootCancelJob" /\ o \in Begun /\ v \in Upload /\ o \in TasksOf(v)
      /\ task[o].status = "CANCELLED" /\ r[2] = 0
  BY <1>1, Types DEF BootCancelJob, IInv, RunInv, RunGood, BegunCarryJob, TasksOf, RunsOnce
<1>5. (\A x \in Run \ {r} : run'[x] = run[x]) /\ run'[r].pc = "bootCreate"
  BY GotoMoves, Types DEF BootCancelJob
<1>6. job' = Cancelled(job, v)
  <2>1. faults \in Nat
    BY BoundsAssumption DEF IInv, TypeOK
  <2> QED BY <2>1 DEF BootCancelJob, Fault
<1>7. /\ \A u \in Upload : job'[u].retries = job[u].retries
      /\ \A u \in Upload \ {v} : job'[u] = job[u]
      /\ job'[v].state \notin {"created", "retry", "active"}
      /\ job'[v].state = job[v].state \/ job'[v].state = "cancelled"
  BY <1>4, <1>6, CancelledOne, Types
<1> HIDE DEF o, v
<1>8. job[v].state # "unsent"
  BY <1>1, <1>4 DEF JobsOnce
<1>9. /\ r = <<r[1], 0>> /\ r[1] \in Upload /\ First(r[1]) = run[r] /\ First(r[1])' = run'[r]
      /\ job[r[1]].state \notin {"unsent", "created"}
  BY <1>1, <1>4, Started DEF First
<1>10. ASSUME NEW u \in Upload \ {r[1]} PROVE First(u)' = First(u)
  <2>1. <<u, 0>> \in Run /\ <<u, 0>>[1] = u
    BY Types
  <2>2. <<u, 0>> # r
    BY <2>1
  <2> QED BY <1>5, <2>1, <2>2 DEF First
<1>11. ASSUME NEW u \in Upload
       PROVE  \/ First(u)' = First(u)
              \/ u = r[1] /\ First(u).pc = "bootCancelJob" /\ First(u)'.pc = "bootCreate"
  <2>1. CASE u = r[1]
    BY <1>4, <1>5, <1>9, <2>1 DEF First
  <2>2. CASE u # r[1]
    BY <1>10, <2>2
  <2> QED BY <2>1, <2>2
<1>12. BootRuns' = BootRuns
  BY <1>4, <1>5 DEF BootRuns, Boot
<1>13. JobsOnce'
  <2> SUFFICES ASSUME NEW u \in Upload
               PROVE  /\ job'[u].retries = 0 /\ job'[u].state \notin {"retry", "failed"}
                      /\ job'[u].state = "active" => First(u)'.pc \notin {"none", "ended"}
                      /\ job'[u].state \in {"unsent", "created"} => First(u)'.pc = "none"
                      /\ job'[u].state = "unsent" => TasksOf(u) = {}
                      /\ job'[u].state # "unsent" => TasksOf(u) # {} \/ (tx.up = u /\ tx.pc = "attach")
                      /\ response[u] = "idle" => job'[u].state = "unsent"
                      /\ First(u)'.pc \in {"none", "find", "adopt"} \cup Boot => \A s, t \in TasksOf(u) : s = t
    BY <1>2, <1>3 DEF JobsOnce
  <2>1. First(u)'.pc \in {"none", "find", "adopt"} \cup Boot => First(u).pc \in {"none", "find", "adopt"} \cup Boot
    BY <1>11 DEF Boot
  <2>2. First(u)'.pc \in {"none", "ended"} <=> First(u).pc \in {"none", "ended"}
    BY <1>11
  <2>3. CASE u = v
    BY <1>1, <1>7, <1>8, <2>1, <2>3 DEF JobsOnce
  <2>4. CASE u # v
    BY <1>1, <1>7, <1>9, <1>11, <2>1, <2>2, <2>4 DEF JobsOnce
  <2> QED BY <2>3, <2>4
<1>14. RunsOnce'
  <2> SUFFICES ASSUME NEW x \in Run
               PROVE  /\ x[2] # 0 => run'[x].pc = "none"
                      /\ run'[x].pc \in {"adopt", "stamp"} \cup Loop => task[run'[x].task].job = x[1]
                      /\ run'[x].pc = "bootCancelJob" => task[run'[x].old].status = "CANCELLED"
    BY <1>2 DEF RunsOnce
  <2>1. CASE x = r
    BY <1>4, <1>5, <2>1 DEF Loop
  <2>2. CASE x # r
    BY <1>1, <1>5, <2>2 DEF RunsOnce
  <2> QED BY <2>1, <2>2
<1>15. BegunCarryJob' /\ Owed'
  BY <1>1, <1>2, <1>3, <1>12 DEF BegunCarryJob, Owed
<1>16. TxOnce'
  <2>1. tx.pc # "free" => tx.up \in Upload
    BY DEF IInv, TxInv
  <2>2. tx.pc = "attach" => First(tx.up)'.pc \in {"none", "find"} \cup Boot
    BY <1>1, <1>2, <1>11, <2>1 DEF TxOnce, Boot, First
  <2>3. tx.pc = "attach" => tx.up # v /\ job'[tx.up] = job[tx.up]
    BY <1>1, <1>4, <1>7, <2>1 DEF TxOnce
  <2>4. tx.pc # "free" /\ job[tx.up].state = "unsent" => job'[tx.up] = job[tx.up]
    BY <1>7, <1>8, <2>1
  <2>5. ASSUME NEW t \in TaskId, Ousted(t) PROVE job'[task[t].job].state \notin {"created", "active"}
    <3>1. task[t].job \in Upload
      BY <1>1, <2>5, Types DEF Ousted, IInv, TxInv, BegunCarryJob
    <3> QED BY <1>1, <1>7, <2>5, <3>1 DEF TxOnce
  <2> QED BY <1>1, <1>2, <1>3, <1>12, <2>1, <2>2, <2>3, <2>4, <2>5 DEF TxOnce, Ousted, First
<1>17. Awaited'
  <2> SUFFICES ASSUME NEW u \in Upload, job'[u].state = "created", ~(tx.up = u /\ tx.pc = "attach")
               PROVE  \E t \in TasksOf(u) : \/ task[t].status = "PENDING"
                                            \/ \E x \in Run : run'[x].pc = "bootCancelJob" /\ run'[x].old = t
    BY <1>2, <1>3 DEF Awaited
  <2>1. u # v /\ job[u].state = "created"
    BY <1>7
  <2>2. PICK t \in TasksOf(u) : \/ task[t].status = "PENDING"
                                \/ \E x \in Run : run[x].pc = "bootCancelJob" /\ run[x].old = t
    BY <1>1, <2>1 DEF Awaited
  <2>3. t # o
    BY <1>4, <2>1 DEF TasksOf
  <2>4. \A x \in Run : run[x].old = t => x # r
    BY <2>3 DEF o
  <2> QED BY <1>5, <2>2, <2>4
<1>18. ASSUME NEW t \in ActiveTasks PROVE Cared(t)'
  <2>1. Cared(t) /\ task[t].job \in Upload /\ Ousted(t)' = Ousted(t) /\ t \in TasksOf(task[t].job)
        /\ t \in TaskId /\ task[t].status # "CANCELLED"
    BY <1>1, <1>2, Types DEF BegunCarryJob, Ousted, TasksOf, ActiveTasks, Active
  <2>2. \A x \in Run : run[x].pc \in Loop => run'[x] = run[x]
    BY <1>4, <1>5 DEF Loop
  <2>3. task[t].status = "PENDING" /\ job[task[t].job].state = "created" => task[t].job # v
    BY <1>1, <1>4, <2>1 DEF JobsOnce
  <2>4. /\ First(task[t].job).pc \in {"find"} \cup Boot => First(task[t].job)'.pc \in {"find"} \cup Boot
        /\ First(task[t].job).pc = "adopt" => First(task[t].job)' = First(task[t].job)
    BY <1>2, <1>11, <2>1 DEF Boot, First
  <2>5. CASE task[t].status = "PENDING"
    BY <1>2, <1>7, <2>1, <2>3, <2>4, <2>5 DEF Cared
  <2>6. CASE task[t].status # "PENDING"
    BY <1>2, <2>1, <2>2, <2>6 DEF Cared
  <2> QED BY <2>5, <2>6
<1> QED BY <1>3, <1>13, <1>14, <1>15, <1>16, <1>17, <1>18 DEF BurstInv

\* A bootstrapped task is under way from the start; the route never reaches its
\* commit without the index entry, so no open commit is overtaken.
LEMMA BootCreateBurst ==
  ASSUME IInv, IInv', BurstInv, NEW r \in Run, BootCreate(r)
  PROVE  BurstInv'
<1>1. JobsOnce /\ RunsOnce /\ BegunCarryJob /\ TxOnce /\ Awaited /\ Owed /\ \A t \in ActiveTasks : Cared(t)
  BY DEF BurstInv
<1>2. UNCHANGED <<job, tx, response, newest>> /\ run[r].pc = "bootCreate" /\ tx.new = NoTask
  BY DEF BootCreate, routeVars, IndexInDoubt
<1>3. CASE ActiveTasks # {}
  <2>1. task' = task /\ Goto(r, "bootFind")
    BY <1>3 DEF BootCreate
  <2>2. (\A x \in Run \ {r} : run'[x] = run[x]) /\ run'[r].pc = "bootFind"
    BY <2>1, GotoMoves, Types
  <2> QED BY <1>2, <2>1, <2>2, MoveBurst DEF Boot, Loop
<1>4. CASE ActiveTasks = {}
  <2> DEFINE n == nextTask
  <2>1. /\ n \in TaskId /\ n \notin Known
        /\ task' = [task EXCEPT ![n] = [status |-> "PROCESSING", job |-> r[1], finishedAt |-> 0]]
        /\ run' = [run EXCEPT ![r].pc = LoopPc(r, 0), ![r].task = n]
    <3>1. n \in 1..(MaxTask + 1) /\ n <= MaxTask
      BY <1>4 DEF BootCreate, IInv, TypeOK
    <3>2. n \in TaskId /\ n >= nextTask
      BY <3>1, BoundsAssumption DEF TaskId
    <3> QED BY <1>4, <3>2 DEF BootCreate, IInv, FreshInv
  <2>2. /\ task'[n] = [status |-> "PROCESSING", job |-> r[1], finishedAt |-> 0]
        /\ \A t \in TaskId \ {n} : task'[t] = task[t]
    BY <2>1, Types
  <2>3. LoopPc(r, 0) \in Loop
    BY DEF LoopPc, Loop
  <2>4. (\A x \in Run \ {r} : run'[x] = run[x]) /\ run'[r].pc \in Loop /\ run'[r].task = n
    <3>1. run \in [Run -> RunRow]
      BY Types
    <3> QED BY <2>1, <2>3, <3>1 DEF RunRow
  <2> HIDE DEF n
  <2>5. r = <<r[1], 0>> /\ r[1] \in Upload /\ First(r[1]) = run[r] /\ First(r[1])' = run'[r]
        /\ job[r[1]].state \notin {"unsent", "created"}
    BY <1>1, <1>2, Started DEF First
  <2>6. ASSUME NEW u \in Upload \ {r[1]} PROVE First(u)' = First(u)
    <3>1. <<u, 0>> \in Run /\ <<u, 0>>[1] = u
      BY Types
    <3>2. <<u, 0>> # r
      BY <3>1
    <3> QED BY <2>4, <3>1, <3>2 DEF First
  <2>7. Known' = Known \cup {n} /\ Begun' = Begun \cup {n} /\ ActiveTasks' = {n}
    <3>1. ActiveTasks' \subseteq {n}
      BY <1>4, <2>2 DEF ActiveTasks
    <3>2. n \in ActiveTasks'
      BY <2>1, <2>2 DEF ActiveTasks, Active
    <3>3. Known' = Known \cup {n}
      BY <2>1, <2>2 DEF Known
    <3>4. Begun' = Begun \cup {n}
      BY <2>1, <2>2, <3>3 DEF Begun, Known
    <3> QED BY <3>1, <3>2, <3>3, <3>4
  <2>8. ASSUME NEW u \in Upload PROVE TasksOf(u)' = IF u = r[1] THEN TasksOf(u) \cup {n} ELSE TasksOf(u)
    BY <2>1, <2>2, <2>7, Types DEF TasksOf
  <2>9. tx.pc \in {"free", "cancel", "cancelJob", "create"}
    BY <1>2, Types DEF IInv, TxInv, TxPc
  <2>10. JobsOnce'
    <3> SUFFICES ASSUME NEW u \in Upload
                 PROVE  /\ job[u].retries = 0 /\ job[u].state \notin {"retry", "failed"}
                        /\ job[u].state = "active" => First(u)'.pc \notin {"none", "ended"}
                        /\ job[u].state \in {"unsent", "created"} => First(u)'.pc = "none"
                        /\ job[u].state = "unsent" => TasksOf(u)' = {}
                        /\ job[u].state # "unsent" => TasksOf(u)' # {} \/ (tx.up = u /\ tx.pc = "attach")
                        /\ response[u] = "idle" => job[u].state = "unsent"
                        /\ First(u)'.pc \in {"none", "find", "adopt"} \cup Boot => \A s, t \in TasksOf(u)' : s = t
      BY <1>2 DEF JobsOnce
    <3>1. CASE u = r[1]
      <4>1. First(u)'.pc \in Loop
        BY <2>4, <2>5, <3>1 DEF First
      <4>2. First(u)'.pc \notin {"none", "find", "adopt", "ended"} \cup Boot
        BY <4>1 DEF Loop, Boot
      <4> QED BY <1>1, <2>5, <2>8, <3>1, <4>2 DEF JobsOnce
    <3>2. CASE u # r[1]
      BY <1>1, <2>6, <2>8, <3>2 DEF JobsOnce
    <3> QED BY <3>1, <3>2
  <2>11. RunsOnce'
    <3> SUFFICES ASSUME NEW x \in Run
                 PROVE  /\ x[2] # 0 => run'[x].pc = "none"
                        /\ run'[x].pc \in {"adopt", "stamp"} \cup Loop => task'[run'[x].task].job = x[1]
                        /\ run'[x].pc = "bootCancelJob" => task'[run'[x].old].status = "CANCELLED"
      BY DEF RunsOnce
    <3>1. CASE x = r
      <4>1. run'[x].pc # "bootCancelJob"
        BY <2>4, <3>1 DEF Loop
      <4> QED BY <1>1, <1>2, <2>2, <2>4, <3>1, <4>1 DEF RunsOnce
    <3>2. CASE x # r
      <4>1. run'[x] = run[x]
        BY <2>4, <3>2
      <4>2. run[x].pc \in {"adopt", "stamp"} \cup Loop => run[x].task \in TaskId \ {n}
        BY <2>1, Types DEF IInv, RunInv, RunGood, Loop
      <4>3. run[x].pc = "bootCancelJob" => run[x].old \in TaskId \ {n}
        BY <2>1, Types DEF IInv, RunInv, RunGood
      <4>4. run'[x].pc \in {"adopt", "stamp"} \cup Loop => task'[run'[x].task].job = x[1]
        BY <1>1, <2>2, <4>1, <4>2 DEF RunsOnce
      <4>5. run'[x].pc = "bootCancelJob" => task'[run'[x].old].status = "CANCELLED"
        BY <1>1, <2>2, <4>1, <4>3 DEF RunsOnce
      <4> QED BY <1>1, <4>1, <4>4, <4>5 DEF RunsOnce
    <3> QED BY <3>1, <3>2
  <2>12. BegunCarryJob'
    BY <1>1, <2>1, <2>2, <2>5, <2>7, Types DEF BegunCarryJob
  <2>13. TxOnce'
    <3>1. tx' = tx /\ response' = response /\ job' = job
      BY <1>2
    <3>2. ASSUME NEW t \in TaskId, Ousted(t) PROVE job[task'[t].job].state \notin {"created", "active"}
      <4>1. t # n
        BY <2>1, <3>2, Types DEF Ousted, IInv, TxInv
      <4> QED BY <1>1, <2>2, <3>2, <4>1 DEF TxOnce
    <3> QED BY <1>1, <2>9, <3>1, <3>2 DEF TxOnce, Ousted
  <2>14. Awaited'
    <3> SUFFICES ASSUME NEW u \in Upload, job[u].state = "created"
                 PROVE  \E t \in TasksOf(u)' : \/ task'[t].status = "PENDING"
                                              \/ \E x \in Run : run'[x].pc = "bootCancelJob" /\ run'[x].old = t
      BY <1>2 DEF Awaited
    <3>1. PICK t \in TasksOf(u) : \/ task[t].status = "PENDING"
                                  \/ \E x \in Run : run[x].pc = "bootCancelJob" /\ run[x].old = t
      BY <1>1, <2>9 DEF Awaited
    <3>2. t \in TaskId \ {n} /\ t \in TasksOf(u)'
      BY <2>1, <2>8, Types DEF TasksOf
    <3>3. \A x \in Run : run[x].pc = "bootCancelJob" => run'[x] = run[x]
      BY <1>2, <2>4
    <3> QED BY <2>2, <3>1, <3>2, <3>3
  <2>15. Owed'
    BY <2>7 DEF Owed
  <2>16. ASSUME NEW t \in ActiveTasks' PROVE Cared(t)'
    <3>1. t = n /\ task'[t].status = "PROCESSING"
      BY <2>2, <2>7
    <3> QED BY <2>4, <3>1 DEF Cared
  <2> QED BY <2>10, <2>11, <2>12, <2>13, <2>14, <2>15, <2>16 DEF BurstInv
<1> QED BY <1>3, <1>4

\* A run that returns has nobody waiting for it, and completes its job.
LEMMA ReturnBurst ==
  ASSUME IInv, IInv', BurstInv, NEW r \in Run, Return(r)
  PROVE  BurstInv'
<1>1. JobsOnce /\ RunsOnce /\ BegunCarryJob /\ TxOnce /\ Awaited /\ Owed /\ \A t \in ActiveTasks : Cared(t)
  BY DEF BurstInv
<1>2. UNCHANGED <<task, tx, response, newest>> /\ run[r].pc = "return"
  BY DEF Return, taskTableVars, routeVars
<1>3. Known' = Known /\ Begun' = Begun /\ ActiveTasks' = ActiveTasks /\ CompletedTasks' = CompletedTasks
      /\ \A u \in Upload : TasksOf(u)' = TasksOf(u)
  BY <1>2 DEF Known, Begun, ActiveTasks, CompletedTasks, TasksOf
<1>4. (\A x \in Run \ {r} : run'[x] = run[x]) /\ run'[r].pc = "ended"
  BY Types DEF Return, NoRun
<1> DEFINE v == r[1]
<1>5. r = <<v, 0>> /\ v \in Upload /\ r[2] = 0 /\ First(v) = run[r] /\ First(v)' = run'[r]
      /\ job[v].state \notin {"unsent", "created"}
  BY <1>1, <1>2, Started DEF First, RunsOnce
<1>6. /\ \A u \in Upload \ {v} : job'[u] = job[u]
      /\ job'[v].retries = 0 /\ job'[v].state \notin {"unsent", "created", "active", "retry", "failed"}
  <2>1. job[v] \in JobRow /\ job \in [Upload -> JobRow] /\ job[v].retries = 0
    BY <1>1, <1>5, Types DEF JobsOnce
  <2>2. job[v].state \notin {"retry", "failed"}
    BY <1>1, <1>5 DEF JobsOnce
  <2>3. CASE job[v].state = "active"
    <3>1. job[v] = [state |-> "active", retries |-> r[2]]
      BY <1>5, <2>1, <2>3 DEF JobRow
    <3>2. job' = [job EXCEPT ![v].state = "completed"]
      BY <3>1 DEF Return
    <3> QED BY <1>5, <2>1, <3>2 DEF JobRow
  <2>4. CASE job[v].state # "active"
    <3>1. job' = job
      BY <2>4 DEF Return
    <3> QED BY <1>5, <2>1, <2>2, <2>4, <3>1
  <2> QED BY <2>3, <2>4
<1>7. ASSUME NEW u \in Upload \ {v} PROVE First(u)' = First(u)
  <2>1. <<u, 0>> \in Run /\ <<u, 0>>[1] = u
    BY Types
  <2>2. <<u, 0>> # r
    BY <2>1
  <2> QED BY <1>4, <2>1, <2>2 DEF First
<1> HIDE DEF v
<1>8. BootRuns' = BootRuns
  BY <1>2, <1>4 DEF BootRuns, Boot
<1>9. JobsOnce'
  <2> SUFFICES ASSUME NEW u \in Upload
               PROVE  /\ job'[u].retries = 0 /\ job'[u].state \notin {"retry", "failed"}
                      /\ job'[u].state = "active" => First(u)'.pc \notin {"none", "ended"}
                      /\ job'[u].state \in {"unsent", "created"} => First(u)'.pc = "none"
                      /\ job'[u].state = "unsent" => TasksOf(u) = {}
                      /\ job'[u].state # "unsent" => TasksOf(u) # {} \/ (tx.up = u /\ tx.pc = "attach")
                      /\ response[u] = "idle" => job'[u].state = "unsent"
                      /\ First(u)'.pc \in {"none", "find", "adopt"} \cup Boot => \A s, t \in TasksOf(u) : s = t
    BY <1>2, <1>3 DEF JobsOnce
  <2>1. CASE u = v
    <3>1. First(u)'.pc = "ended" /\ "ended" \notin {"none", "find", "adopt"} \cup Boot
      BY <1>4, <1>5, <2>1 DEF First, Boot
    <3> QED BY <1>1, <1>5, <1>6, <2>1, <3>1 DEF JobsOnce
  <2>2. CASE u # v
    BY <1>1, <1>6, <1>7, <2>2 DEF JobsOnce
  <2> QED BY <2>1, <2>2
<1>10. RunsOnce'
  <2> SUFFICES ASSUME NEW x \in Run
               PROVE  /\ x[2] # 0 => run'[x].pc = "none"
                      /\ run'[x].pc \in {"adopt", "stamp"} \cup Loop => task[run'[x].task].job = x[1]
                      /\ run'[x].pc = "bootCancelJob" => task[run'[x].old].status = "CANCELLED"
    BY <1>2 DEF RunsOnce
  <2>1. CASE x = r
    BY <1>4, <1>5, <2>1 DEF Loop
  <2>2. CASE x # r
    BY <1>1, <1>4, <2>2 DEF RunsOnce
  <2> QED BY <2>1, <2>2
<1>11. BegunCarryJob' /\ Owed'
  BY <1>1, <1>2, <1>3, <1>8 DEF BegunCarryJob, Owed
<1>12. TxOnce'
  <2>1. tx.pc # "free" => tx.up \in Upload
    BY DEF IInv, TxInv
  <2>2. tx.pc = "attach" => tx.up # v
    BY <1>1, <1>2, <1>5 DEF TxOnce, Boot
  <2>3. tx.pc = "attach" => First(tx.up)' = First(tx.up)
    BY <1>2, <1>7, <2>1, <2>2 DEF First
  <2>4. tx.pc # "free" /\ job[tx.up].state \in {"unsent", "created"} => job'[tx.up] = job[tx.up]
    BY <1>5, <1>6, <2>1
  <2>5. tx.pc = "attach" => job'[tx.up] = job[tx.up]
    BY <1>6, <2>1, <2>2
  <2>6. ASSUME NEW t \in TaskId, Ousted(t) PROVE job'[task[t].job].state \notin {"created", "active"}
    <3>1. task[t].job \in Upload
      BY <1>1, <2>6, Types DEF Ousted, IInv, TxInv, BegunCarryJob
    <3> QED BY <1>1, <1>6, <2>6, <3>1 DEF TxOnce
  <2> QED BY <1>1, <1>2, <1>3, <1>8, <2>1, <2>3, <2>4, <2>5, <2>6 DEF TxOnce, Ousted, First
<1>13. Awaited'
  <2> SUFFICES ASSUME NEW u \in Upload, job'[u].state = "created", ~(tx.up = u /\ tx.pc = "attach")
               PROVE  \E t \in TasksOf(u) : \/ task[t].status = "PENDING"
                                            \/ \E x \in Run : run'[x].pc = "bootCancelJob" /\ run'[x].old = t
    BY <1>2, <1>3 DEF Awaited
  <2>1. job[u].state = "created"
    BY <1>6
  <2>2. PICK t \in TasksOf(u) : \/ task[t].status = "PENDING"
                                \/ \E x \in Run : run[x].pc = "bootCancelJob" /\ run[x].old = t
    BY <1>1, <2>1 DEF Awaited
  <2>3. \A x \in Run : run[x].pc = "bootCancelJob" => run'[x] = run[x]
    BY <1>2, <1>4
  <2> QED BY <2>2, <2>3
<1>14. ASSUME NEW t \in ActiveTasks PROVE Cared(t)'
  <2>1. Cared(t) /\ task[t].job \in Upload /\ Ousted(t)' = Ousted(t)
    BY <1>1, <1>2, Types DEF BegunCarryJob, Ousted
  <2>2. \A x \in Run : run[x].pc \in Loop => run'[x] = run[x]
    BY <1>2, <1>4 DEF Loop
  <2>3. CASE task[t].job = v
    <3>1. run[r].pc \notin {"find", "adopt"} \cup Boot
      BY <1>2 DEF Boot
    <3> QED BY <1>2, <1>5, <2>1, <2>2, <2>3, <3>1 DEF Cared
  <2>4. CASE task[t].job # v
    BY <1>2, <1>6, <1>7, <2>1, <2>2, <2>4 DEF Cared, First
  <2> QED BY <2>3, <2>4
<1> QED BY <1>3, <1>9, <1>10, <1>11, <1>12, <1>13, <1>14 DEF BurstInv

\* The remaining statements of the handler only move their own run.
LEMMA HandlerBurst ==
  ASSUME IInv, IInv', BurstInv, faults' = 0, NEW r \in Run, Handler(r)
  PROVE  BurstInv'
<1>1. JobsOnce /\ RunsOnce /\ run \in [Run -> RunRow] /\ r[1] \in Upload
  BY Types DEF BurstInv
<1>2. \A x \in Run \ {r} : run'[x] = run[x]
  BY HandlerRun
<1>3. CASE ClaimFind(r)
  <2>1. run[r].pc = "find" /\ UNCHANGED <<task, job, tx, response, newest>>
    BY <1>3 DEF ClaimFind, taskTableVars, routeVars
  <2>2. CASE Goto(r, "bootFind")
    <3>1. run'[r].pc = "bootFind"
      BY <1>1, <2>2, GotoMoves
    <3> QED BY <1>2, <2>1, <3>1, MoveBurst DEF Boot, Loop
  <2>3. ASSUME NEW t \in TasksOf(r[1]), run' = [run EXCEPT ![r].pc = "adopt", ![r].task = t]
        PROVE  BurstInv'
    <3>1. run'[r].pc = "adopt" /\ run'[r].task = t /\ task[t].job = r[1]
      BY <1>1, <2>3 DEF RunRow, TasksOf
    <3> QED BY <1>2, <2>1, <3>1, MoveBurst DEF Boot, Loop
  <2> QED BY <1>3, <2>2, <2>3 DEF ClaimFind, TasksOf, Known
<1>4. CASE BootFind(r)
  <2>1. run[r].pc = "bootFind" /\ UNCHANGED <<task, job, tx, response, newest>>
    BY <1>4 DEF BootFind, taskTableVars, routeVars
  <2>2. run'[r].pc \in {"bootCreate", "bootCancel"}
    BY <1>1, <1>4 DEF BootFind, RunRow
  <2> QED BY <1>2, <2>1, <2>2, MoveBurst DEF Boot, Loop
<1>5. CASE ImportRow(r)
  <2>1. run[r].pc = "row" /\ UNCHANGED <<task, job, tx, response, newest>>
    BY <1>5 DEF ImportRow, taskTableVars, routeVars
  <2>2. run'[r].pc \in Loop /\ run'[r].task = run[r].task
    <3>1. LoopPc(r, run[r].i + 1) \in Loop
      BY DEF LoopPc, Loop
    <3> QED BY <1>1, <1>5, <3>1 DEF ImportRow, RunRow
  <2>3. task[run[r].task].job = r[1]
    BY <1>1, <2>1 DEF RunsOnce, Loop
  <2> QED BY <1>2, <2>1, <2>2, <2>3, MoveBurst DEF Boot, Loop
<1>6. CASE CheckCancelled(r)
  <2>1. run[r].pc = "check" /\ UNCHANGED <<task, job, tx, response, newest>>
    BY <1>6 DEF CheckCancelled, taskTableVars, routeVars
  <2>2. task[run[r].task].job = r[1]
    BY <1>1, <2>1 DEF RunsOnce, Loop
  <2>3. CASE task[run[r].task].status = "PROCESSING"
    <3>1. Goto(r, "row")
      BY <1>6, <2>3 DEF CheckCancelled
    <3>2. run'[r].pc = "row" /\ run'[r].task = run[r].task
      BY <1>1, <3>1, GotoMoves
    <3> QED BY <1>2, <2>1, <2>2, <3>2, MoveBurst DEF Boot, Loop
  <2>4. CASE task[run[r].task].status # "PROCESSING"
    <3>1. Goto(r, "return")
      BY <1>6, <2>4 DEF CheckCancelled
    <3>2. run'[r].pc = "return"
      BY <1>1, <3>1, GotoMoves
    <3> QED BY <1>2, <2>1, <2>4, <3>2, MoveBurst DEF Boot, Loop
  <2> QED BY <2>3, <2>4
<1>7. CASE Stamp(r)
  <2>1. run[r].pc = "stamp" /\ UNCHANGED <<task, job, tx, response, newest>> /\ Goto(r, "return")
    BY <1>7 DEF Stamp, taskTableVars, routeVars
  <2>2. run'[r].pc = "return"
    BY <1>1, <2>1, GotoMoves
  <2> QED BY <1>2, <2>1, <2>2, MoveBurst DEF Boot, Loop
<1> QED BY <1>3, <1>4, <1>5, <1>6, <1>7, AdoptBurst, FinalizeBurst, BootCancelBurst, BootCancelJobBurst,
           BootCreateBurst, ReturnBurst DEF Handler

LEMMA InitBurst == Init => BurstInv
<1> SUFFICES ASSUME Init PROVE BurstInv
  OBVIOUS
<1> USE DEF Init
<1>1. Known = {} /\ Begun = {} /\ ActiveTasks = {} /\ BootRuns = {} /\ \A u \in Upload : TasksOf(u) = {}
  BY DEF Known, Begun, ActiveTasks, Active, BootRuns, Boot, NoRun, TasksOf
<1>2. \A r \in Run : run[r].pc = "none"
  BY DEF NoRun
<1>3. \A u \in Upload : <<u, 0>> \in Run /\ First(u).pc = "none"
  BY BoundsAssumption DEF First, NoRun, Run
<1>4. JobsOnce
  BY <1>1, <1>3 DEF JobsOnce
<1>5. RunsOnce
  BY <1>2 DEF RunsOnce, Loop
<1>6. BegunCarryJob /\ Owed
  BY <1>1 DEF BegunCarryJob, Owed
<1>7. TxOnce
  BY DEF TxOnce, Ousted, NoTx
<1>8. Awaited
  BY DEF Awaited
<1> QED BY <1>1, <1>4, <1>5, <1>6, <1>7, <1>8 DEF BurstInv

\* A burst is over at its first fault: until then, uploads, the route, the queue
\* and the handler are all that moves.
BurstStep ==
  \/ \E u \in Upload : RouteOpen(u) \/ Fetch(u)
  \/ Route
  \/ \E r \in Run : Handler(r)

LEMMA BurstSteps ==
  ASSUME IInv, faults = 0 => BurstInv, Next, faults' = 0
  PROVE  faults = 0 /\ BurstInv /\ BurstStep
<1>1. faults \in Nat
  BY BoundsAssumption DEF IInv, TypeOK
<1>2. faults' = faults \/ faults' = faults + 1
  BY DEF Next, Route, RouteOpen, RouteCancel, RouteCancelJob, RouteCreate, RouteSend, RouteCommit,
         RouteReject, RouteRollback, Fetch, Handler, ClaimFind, ClaimAdopt, BootFind, BootCancel,
         BootCancelJob, BootCreate, ImportRow, CheckCancelled, Finalize, Stamp, Return, RunDies,
         JobExpire, Fault
<1>3. faults = 0 /\ BurstInv /\ ~Fault
  BY <1>1, <1>2 DEF Fault
<1>4. ASSUME RouteRollback \/ \E r \in Run : RunDies(r) PROVE FALSE
  BY <1>3, <1>4 DEF RouteRollback, RunDies
<1>5. ASSUME NEW u \in Upload, JobExpire(u) PROVE FALSE
  <2>1. job[u].state = "active" /\ job[u].retries = 0 /\ First(u).pc # "ended"
    BY <1>3, <1>5 DEF JobExpire, BurstInv, JobsOnce
  <2> QED BY <1>3, <1>5, <2>1 DEF JobExpire, First
<1> QED BY <1>3, <1>4, <1>5 DEF Next, BurstStep

LEMMA NextBurst ==
  ASSUME IInv, faults = 0 => BurstInv, [Next]_vars
  PROVE  (faults = 0 => BurstInv)'
<1> SUFFICES ASSUME faults' = 0 PROVE BurstInv'
  OBVIOUS
<1>1. CASE UNCHANGED vars
  BY <1>1 DEF vars, BurstInv, JobsOnce, RunsOnce, BegunCarryJob, TxOnce, Awaited, Owed, Cared, Ousted,
              First, TasksOf, Known, Begun, ActiveTasks, CompletedTasks, BootRuns
<1>2. CASE Next
  <2>1. IInv' /\ BurstInv
    BY <1>2, NextIInv, BurstSteps
  <2>2. CASE (\E u \in Upload : RouteOpen(u)) \/ Route
    BY <2>1, <2>2, OpenBurst, CancelJobBurst, SendBurst, CommitBurst, RejectBurst DEF Route
  <2>3. ASSUME NEW u \in Upload, Fetch(u) PROVE BurstInv'
    BY <2>1, <2>3, FetchBurst
  <2>4. ASSUME NEW r \in Run, Handler(r) PROVE BurstInv'
    BY <2>1, <2>4, HandlerBurst
  <2> QED BY <1>2, <2>2, <2>3, <2>4, BurstSteps DEF BurstStep
<1> QED BY <1>1, <1>2

\* As long as nothing has failed, every job is sent once and runs once, and every
\* active task has somebody left to end it: its job, its handler, or the upload that
\* is about to replace it.
THEOREM BurstInvariant == Spec => [](faults = 0 => BurstInv)
<1>1. Init => (faults = 0 => BurstInv)
  BY InitBurst
<1>2. IInv /\ (faults = 0 => BurstInv) /\ [Next]_vars => (faults = 0 => BurstInv)'
  BY NextBurst
<1> QED BY <1>1, <1>2, InductiveInvariant, PTL DEF Spec

\* At rest nobody is left who could owe an import.
LEMMA QuietSettled ==
  ASSUME IInv, BurstInv, Quiet
  PROVE  SomeImportCompletes /\ BootRuns = {} /\ ActiveTasks = {}
<1>1. JobsOnce /\ RunsOnce /\ BegunCarryJob /\ TxOnce /\ Awaited /\ Owed /\ \A t \in ActiveTasks : Cared(t)
  BY DEF BurstInv
<1>2. BootRuns = {}
  BY DEF Quiet, BootRuns, Boot
<1>3. \A t \in TaskId : ~Ousted(t)
  BY DEF Quiet, Ousted, NoTx
<1>4. ASSUME NEW t \in ActiveTasks PROVE FALSE
  <2>1. Cared(t) /\ task[t].job \in Upload /\ t \in TaskId
    BY <1>1, Types DEF BegunCarryJob, ActiveTasks
  <2>2. job[task[t].job].state # "created" /\ First(task[t].job).pc \in {"none", "ended"}
    BY <2>1, Types DEF Quiet, Queued, First
  <2>3. \A r \in Run : run[r].pc \notin Loop
    BY DEF Quiet, Loop
  <2> QED BY <1>3, <2>1, <2>2, <2>3 DEF Cared, Boot
<1> QED BY <1>1, <1>2, <1>4 DEF Owed, SomeImportCompletes

\* However many uploads cancel one another (beginAndEnqueueImport cancels the task it
\* finds, cancelAndCreateTask the one it collides with), once a burst that nothing
\* failed has settled at least one of its imports has completed.
THEOREM BurstsImport == Spec => [](faults = 0 => SomeImportCompletes)
<1>1. IInv /\ (faults = 0 => BurstInv) => (faults = 0 => SomeImportCompletes)
  BY QuietSettled DEF SomeImportCompletes
<1> QED BY <1>1, BurstInvariant, InductiveInvariant, PTL

-----------------------------------------------------------------------------
(* What a step leaves of the rows, of their order and of what runs touch     *)

LEMMA JobsStay ==
  ASSUME IInv, Next, NEW t \in Known
  PROVE  t \in Known' /\ task'[t].job = task[t].job
<1>1. t \in Known' /\ t \in TaskId /\ task \in [TaskId -> TaskRow]
  BY RowsStay, Types DEF Known
<1>2. ASSUME NEW r \in Run, ClaimAdopt(r) \/ BootCancel(r) \/ Finalize(r) PROVE task'[t].job = task[t].job
  BY <1>1, <1>2 DEF ClaimAdopt, BootCancel, Finalize, TaskRow
<1>3. ASSUME NEW r \in Run, BootCreate(r) PROVE task'[t].job = task[t].job
  <2>1. CASE ActiveTasks = {}
    <3>1. task' = [task EXCEPT ![nextTask] = [status |-> "PROCESSING", job |-> r[1], finishedAt |-> 0]]
          /\ nextTask <= MaxTask
      BY <1>3, <2>1 DEF BootCreate
    <3>2. nextTask # t
      <4>1. nextTask \in 1..(MaxTask + 1)
        BY DEF IInv, TypeOK
      <4>2. nextTask \in TaskId /\ nextTask >= nextTask
        BY <3>1, <4>1, BoundsAssumption DEF TaskId
      <4> QED BY <4>2 DEF IInv, FreshInv
    <3> QED BY <1>1, <3>1, <3>2
  <2>2. CASE ActiveTasks # {}
    BY <1>3, <2>2 DEF BootCreate
  <2> QED BY <2>1, <2>2
<1>4. CASE RouteCommit
  <2>1. tx.new # t /\ t \in TaskId
    BY <1>4, CommittedRows, Types DEF RouteCommit
  <2> QED BY <1>4, <2>1, CommittedRows DEF RouteCommit
<1>5. CASE RouteReject
  <2>1. tx.new # t /\ t \in TaskId
    BY <1>5, CommittedRows, Types DEF RouteReject
  <2> QED BY <1>5, <2>1, CommittedRows DEF RouteReject
<1>6. CASE UNCHANGED task
  BY <1>1, <1>6
<1>7. \/ UNCHANGED task
      \/ RouteCommit \/ RouteReject
      \/ \E r \in Run : ClaimAdopt(r) \/ BootCancel(r) \/ Finalize(r) \/ BootCreate(r)
  BY DEF Next, Route, RouteOpen, RouteCancel, RouteCancelJob, RouteCreate, RouteSend,
         RouteRollback, Fetch, Handler, ClaimFind, BootFind,
         BootCancelJob, ImportRow, CheckCancelled, Stamp, Return, RunDies,
         JobExpire, taskTableVars
<1> QED BY <1>1, <1>2, <1>3, <1>4, <1>5, <1>6, <1>7

\* Only a finalizing update completes a task, at the next tick of the clock.
LEMMA WhoCompletes ==
  ASSUME IInv, Next
  PROVE  \/ /\ clock' = clock
            /\ \A t \in CompletedTasks' : t \in CompletedTasks /\ task'[t].finishedAt = task[t].finishedAt
         \/ \E r \in Run : Finalize(r) /\ Finalizable(run[r].task)
<1> DEFINE P == /\ clock' = clock
                /\ \A t \in CompletedTasks' : t \in CompletedTasks /\ task'[t].finishedAt = task[t].finishedAt
<1>1. task \in [TaskId -> TaskRow]
  BY Types
<1>2. ASSUME NEW q, NEW s, task' = [task EXCEPT ![q].status = s], s # "COMPLETED", clock' = clock PROVE P
  BY <1>1, <1>2 DEF CompletedTasks, TaskRow
<1>3. ASSUME NEW q, NEW s, NEW j, s # "COMPLETED", clock' = clock,
             task' = [task EXCEPT ![q] = [status |-> s, job |-> j, finishedAt |-> 0]]
      PROVE  P
  BY <1>1, <1>3 DEF CompletedTasks
<1>4. ASSUME NEW r \in Run, ClaimAdopt(r) \/ BootCancel(r) PROVE P
  <2>1. clock' = clock /\ (task' = task \/ \E q, s : s # "COMPLETED" /\ task' = [task EXCEPT ![q].status = s])
    BY <1>4 DEF ClaimAdopt, BootCancel
  <2> QED BY <1>2, <2>1 DEF CompletedTasks
<1>5. ASSUME NEW r \in Run, BootCreate(r) PROVE P
  <2>1. clock' = clock /\ (task' = task \/ task' = [task EXCEPT ![nextTask] =
                             [status |-> "PROCESSING", job |-> r[1], finishedAt |-> 0]])
    BY <1>5 DEF BootCreate
  <2> QED BY <1>3, <2>1 DEF CompletedTasks
<1>6. ASSUME RouteCommit \/ RouteReject PROVE P
  <2>1. PICK s \in {"PENDING", "FAILED"} : \E j : task' = Committed(s, j)
    BY <1>6 DEF RouteCommit, RouteReject
  <2>2. PICK j : task' = Committed(s, j)
    BY <2>1
  <2>3. \A t \in TaskId : /\ t = tx.new => task'[t].status = s
                          /\ t # tx.new => /\ task'[t].finishedAt = task[t].finishedAt
                                           /\ task'[t].status \in {"CANCELLED", task[t].status}
    <3>1. /\ task'[tx.new] = [status |-> s, job |-> j, finishedAt |-> 0]
          /\ \A t \in TaskId \ {tx.new} :
               /\ task'[t].finishedAt = task[t].finishedAt
               /\ task'[t].status = IF t = tx.old THEN "CANCELLED" ELSE task[t].status
      <4>1. s # "absent"
        OBVIOUS
      <4> HIDE DEF P
      <4> QED BY <1>6, <2>2, <4>1, CommittedRows
    <3> QED BY <3>1
  <2>4. clock' = clock
    BY <1>6 DEF RouteCommit, RouteReject
  <2> QED BY <2>3, <2>4 DEF CompletedTasks
<1>7. ASSUME NEW r \in Run, Finalize(r), ~Finalizable(run[r].task) PROVE P
  BY <1>7 DEF Finalize, CompletedTasks
<1>8. CASE UNCHANGED <<task, clock>>
  BY <1>8 DEF CompletedTasks
<1>9. \/ UNCHANGED <<task, clock>>
      \/ RouteCommit \/ RouteReject
      \/ \E r \in Run : ClaimAdopt(r) \/ BootCancel(r) \/ Finalize(r) \/ BootCreate(r)
  BY DEF Next, Route, RouteOpen, RouteCancel, RouteCancelJob, RouteCreate, RouteSend,
         RouteRollback, Fetch, Handler, ClaimFind, BootFind,
         BootCancelJob, ImportRow, CheckCancelled, Stamp, Return, RunDies,
         JobExpire, taskTableVars
<1> QED BY <1>4, <1>5, <1>6, <1>7, <1>8, <1>9

\* No two tasks finish at the same tick, so the latest completed one is one task.
LEMMA FinishedInOrder == Spec => []FinishOrder
<1>1. Init => FinishOrder
  BY DEF Init, FinishOrder, CompletedTasks
<1>2. ASSUME IInv, FinishOrder, [Next]_vars PROVE FinishOrder'
  <2>1. CASE UNCHANGED vars
    BY <1>2, <2>1 DEF vars, FinishOrder, CompletedTasks
  <2>2. ASSUME clock' = clock,
               \A t \in CompletedTasks' : t \in CompletedTasks /\ task'[t].finishedAt = task[t].finishedAt
        PROVE  FinishOrder'
    BY <1>2, <2>2 DEF FinishOrder
  <2>3. ASSUME NEW r \in Run, Finalize(r), Finalizable(run[r].task) PROVE FinishOrder'
    <3> DEFINE q == run[r].task
    <3>1. /\ task \in [TaskId -> TaskRow] /\ clock \in Nat /\ q \in TaskId /\ task[q].status = "PROCESSING"
          /\ clock' = clock + 1
          /\ task' = [task EXCEPT ![q].status = "COMPLETED", ![q].finishedAt = clock + 1]
      BY <1>2, <2>3, Types DEF Finalize, Finalizable, IInv, TypeOK, RunInv, RunGood
    <3>2. /\ task'[q].status = "COMPLETED" /\ task'[q].finishedAt = clock + 1
          /\ \A t \in TaskId \ {q} : task'[t] = task[t]
      BY <3>1 DEF TaskRow
    <3>3. \A t \in CompletedTasks' : t = q \/ (t \in CompletedTasks /\ task'[t] = task[t])
      BY <3>2 DEF CompletedTasks
    <3>4. \A t \in CompletedTasks : task[t].finishedAt \in Nat /\ task[t].finishedAt <= clock
      BY <1>2, <3>1 DEF FinishOrder, CompletedTasks, TaskRow
    <3> HIDE DEF q
    <3>5. ASSUME NEW t \in CompletedTasks'
          PROVE  \/ t = q /\ task'[t].finishedAt = clock + 1
                 \/ t \in CompletedTasks /\ task'[t] = task[t] /\ task'[t].finishedAt \in Nat
                    /\ task'[t].finishedAt <= clock /\ task'[t].finishedAt # clock + 1
      <4>1. CASE t = q
        BY <3>2, <4>1
      <4>2. CASE t # q
        <5>1. t \in CompletedTasks /\ task'[t] = task[t]
          BY <3>3, <4>2
        <5>2. task[t].finishedAt \in Nat /\ task[t].finishedAt <= clock
          BY <3>4, <5>1
        <5>3. task[t].finishedAt # clock + 1
          BY <3>1, <5>2
        <5> QED BY <5>1, <5>2, <5>3
      <4> QED BY <4>1, <4>2
    <3>6. ASSUME NEW s \in CompletedTasks', NEW t \in CompletedTasks'
          PROVE  task'[s].finishedAt <= clock' /\ (task'[s].finishedAt = task'[t].finishedAt => s = t)
      <4>1. task'[s].finishedAt <= clock'
        <5>1. task'[s].finishedAt = clock + 1 \/ (task'[s].finishedAt \in Nat /\ task'[s].finishedAt <= clock)
          BY <3>5
        <5> QED BY <3>1, <5>1
      <4>2. CASE s \in CompletedTasks /\ t \in CompletedTasks /\ task'[s] = task[s] /\ task'[t] = task[t]
        BY <1>2, <4>1, <4>2 DEF FinishOrder
      <4>3. CASE s = q /\ task'[s].finishedAt = clock + 1
        BY <3>5, <4>1, <4>3
      <4>4. CASE t = q /\ task'[t].finishedAt = clock + 1
        BY <3>5, <4>1, <4>4
      <4> QED BY <3>5, <4>2, <4>3, <4>4
    <3> QED BY <3>6 DEF FinishOrder
  <2> QED BY <1>2, <2>1, <2>2, <2>3, WhoCompletes
<1> QED BY <1>1, <1>2, InductiveInvariant, PTL DEF Spec

\* Every row of the file that is not another company's, up to where the run is.
LEMMA TouchedSoFar == Spec => []TouchedInv
<1>1. Init => TouchedInv
  BY DEF Init, TouchedInv, NoRun, Boot
<1>2. ASSUME IInv, TouchedInv, [Next]_vars PROVE TouchedInv'
  <2> DEFINE Good(r) ==
        /\ run'[r].pc \in {"find", "adopt"} \cup Boot => run'[r].touched = {}
        /\ run'[r].pc \in {"row", "check"} => run'[r].touched = Past(r[1], run'[r].i)
        /\ run'[r].pc \in {"finalize", "stamp"} => run'[r].touched = Past(r[1], Len(Rows[r[1]]))
  <2>1. ASSUME NEW r \in Run, run'[r] = run[r] PROVE Good(r)
    BY <1>2, <2>1 DEF TouchedInv
  <2>2. ASSUME NEW r \in Run, run'[r].pc \in {"none", "return", "ended"} PROVE Good(r)
    BY <2>2 DEF Boot
  <2>3. ASSUME NEW r \in Run, NEW i \in Nat, run'[r].pc = LoopPc(r, i), run'[r].i = i,
               run'[r].touched = Past(r[1], i)
        PROVE  Good(r)
    <3>1. /\ LoopPc(r, i) \in {"row", "check", "finalize"}
          /\ LoopPc(r, i) = "finalize" => i = Len(Rows[r[1]])
      BY DEF LoopPc
    <3> QED BY <2>3, <3>1 DEF Boot
  <2>4. \A u : Past(u, 0) = {}
    BY DEF Past
  <2>5. run \in [Run -> RunRow]
    BY <1>2, Types
  <2>6. ASSUME NEW r \in Run, Handler(r) PROVE Good(r)
    <3>1. /\ run[r].pc \in {"find", "adopt"} \cup Boot => run[r].touched = {} /\ run[r].i = 0
          /\ run[r].pc \in {"row", "check"} => run[r].touched = Past(r[1], run[r].i)
          /\ run[r].pc \in {"finalize", "stamp"} => run[r].touched = Past(r[1], Len(Rows[r[1]]))
          /\ run[r] \in RunRow
      BY <1>2, <2>5 DEF TouchedInv, IInv, RunInv, RunStart, Boot
    <3>2. ASSUME NEW pc, Goto(r, pc) PROVE run'[r].pc = pc /\ run'[r].touched = run[r].touched /\ run'[r].i = run[r].i
      BY <2>5, <3>2, GotoMoves
    <3>3. CASE ClaimFind(r)
      <4>1. run[r].pc = "find" /\ run'[r].pc \in {"bootFind", "adopt"} /\ run'[r].touched = run[r].touched
        BY <2>5, <3>3, <3>2 DEF ClaimFind, RunRow
      <4> QED BY <3>1, <4>1 DEF Boot
    <3>4. CASE ClaimAdopt(r)
      <4>1. run[r].pc = "adopt" /\ (Goto(r, LoopPc(r, 0)) \/ Goto(r, "return"))
        BY <3>4 DEF ClaimAdopt
      <4>2. CASE Goto(r, LoopPc(r, 0))
        <5>1. run' = [run EXCEPT ![r].pc = LoopPc(r, 0)]
          BY <4>2 DEF Goto
        <5>2. run'[r].pc = LoopPc(r, 0) /\ run'[r].i = 0 /\ run'[r].touched = {}
          BY <2>5, <3>1, <4>1, <5>1 DEF RunRow
        <5>3. run'[r].touched = Past(r[1], 0) /\ 0 \in Nat
          BY <2>4, <5>2
        <5> QED BY <2>3, <5>2, <5>3
      <4>3. CASE Goto(r, "return")
        BY <2>2, <3>2, <4>3
      <4> QED BY <4>1, <4>2, <4>3
    <3>5. CASE BootFind(r)
      <4>1. run[r].pc = "bootFind" /\ run'[r].pc \in {"bootCreate", "bootCancel"} /\ run'[r].touched = run[r].touched
        BY <2>5, <3>5 DEF BootFind, RunRow
      <4> QED BY <3>1, <4>1 DEF Boot
    <3>6. CASE BootCancel(r) \/ BootCancelJob(r)
      <4>1. run[r].pc \in Boot /\ \E pc \in {"bootCreate", "bootCancelJob"} : Goto(r, pc)
        BY <3>6 DEF BootCancel, BootCancelJob, Boot
      <4> QED BY <3>1, <3>2, <4>1 DEF Boot
    <3>7. CASE BootCreate(r)
      <4>1. run[r].pc = "bootCreate" /\ run[r].touched = {} /\ run[r].i = 0
        BY <3>1, <3>7 DEF BootCreate, Boot
      <4>2. CASE ActiveTasks = {}
        <5>1. run' = [run EXCEPT ![r].pc = LoopPc(r, 0), ![r].task = nextTask]
          BY <3>7, <4>2 DEF BootCreate
        <5>2. run'[r].pc = LoopPc(r, 0) /\ run'[r].i = 0 /\ run'[r].touched = {}
          BY <2>5, <4>1, <5>1 DEF RunRow
        <5>3. run'[r].touched = Past(r[1], 0) /\ 0 \in Nat
          BY <2>4, <5>2
        <5> QED BY <2>3, <5>2, <5>3
      <4>3. CASE ActiveTasks # {}
        <5>1. Goto(r, "bootFind")
          BY <3>7, <4>3 DEF BootCreate
        <5> QED BY <3>2, <4>1, <5>1
      <4> QED BY <4>2, <4>3
    <3>8. CASE ImportRow(r)
      <4> DEFINE i == run[r].i
                 w == Rows[r[1]][i + 1]
      <4>1. run[r].pc = "row" /\ i \in Nat /\ run[r].touched = Past(r[1], i)
        BY <3>1, <3>8 DEF ImportRow, RunRow
      <4>2. run'[r].pc = LoopPc(r, i + 1) /\ run'[r].i = i + 1
            /\ run'[r].touched = IF w \in Foreign THEN run[r].touched ELSE run[r].touched \cup {w}
        <5>1. CASE w \in Foreign
          BY <2>5, <3>8, <5>1 DEF ImportRow, RunRow
        <5>2. CASE w \notin Foreign
          BY <2>5, <3>8, <5>2 DEF ImportRow, RunRow
        <5> QED BY <5>1, <5>2
      <4>3. Past(r[1], i + 1) = IF w \in Foreign THEN Past(r[1], i) ELSE Past(r[1], i) \cup {w}
        <5>1. 1..(i + 1) = 1..i \cup {i + 1}
          BY <4>1
        <5> QED BY <5>1 DEF Past
      <4>4. run'[r].touched = Past(r[1], i + 1) /\ i + 1 \in Nat
        BY <4>1, <4>2, <4>3
      <4> HIDE DEF i, w
      <4> QED BY <2>3, <4>2, <4>4
    <3>9. CASE CheckCancelled(r)
      <4>1. run[r].pc = "check" /\ (Goto(r, "row") \/ Goto(r, "return"))
        BY <3>9 DEF CheckCancelled
      <4> QED BY <3>1, <3>2, <4>1 DEF Boot
    <3>10. CASE Finalize(r)
      <4>1. run[r].pc = "finalize" /\ (Goto(r, "stamp") \/ Goto(r, "return"))
        BY <3>10 DEF Finalize
      <4> QED BY <3>1, <3>2, <4>1 DEF Boot
    <3>11. CASE Stamp(r)
      BY <2>2, <3>2, <3>11 DEF Stamp
    <3>12. CASE Return(r)
      BY <2>2, <2>5, <3>12 DEF Return, NoRun
    <3> QED BY <2>6, <3>3, <3>4, <3>5, <3>6, <3>7, <3>8, <3>9, <3>10, <3>11, <3>12 DEF Handler
  <2>7. ASSUME NEW u \in Upload, Fetch(u), NEW r \in Run PROVE Good(r)
    <3>1. CASE r = <<u, job[u].retries>>
      <4>1. run'[r].pc = "find" /\ run'[r].touched = {}
        BY <2>5, <2>7, <3>1 DEF Fetch, NoRun
      <4> QED BY <4>1
    <3>2. CASE r # <<u, job[u].retries>>
      BY <2>1, <2>5, <2>7, <3>2 DEF Fetch
    <3> QED BY <3>1, <3>2
  <2>8. ASSUME NEW x \in Run, RunDies(x), NEW r \in Run PROVE Good(r)
    <3>1. CASE r = x
      BY <2>2, <2>5, <2>8, <3>1 DEF RunDies, NoRun
    <3>2. CASE r # x
      BY <2>1, <2>5, <2>8, <3>2 DEF RunDies
    <3> QED BY <3>1, <3>2
  <2>9. CASE run' = run
    BY <2>1, <2>9 DEF TouchedInv
  <2>10. \/ run' = run
         \/ \E u \in Upload : Fetch(u)
         \/ \E r \in Run : Handler(r) \/ RunDies(r)
    BY <1>2 DEF Next, vars, Route, RouteOpen, RouteCancel, RouteCancelJob, RouteCreate, RouteSend, RouteCommit,
                RouteReject, RouteRollback, JobExpire
  <2>11. ASSUME NEW x \in Run, Handler(x), NEW r \in Run PROVE Good(r)
    <3>1. CASE r # x
      BY <1>2, <2>1, <2>11, <3>1, HandlerRun
    <3> QED BY <2>6, <2>11, <3>1
  <2> QED BY <2>7, <2>8, <2>9, <2>10, <2>11 DEF TouchedInv
<1> QED BY <1>1, <1>2, InductiveInvariant, PTL DEF Spec

\* What may become of the status of a row.
LEMMA StatusMoves ==
  ASSUME IInv, Next, NEW t \in Known
  PROVE  \/ task'[t].status = task[t].status
         \/ task'[t].status = "CANCELLED"
         \/ task'[t].status = "PROCESSING" /\ task[t].status = "PENDING"
            /\ \E r \in Run : ClaimAdopt(r) /\ run[r].task = t
         \/ task'[t].status = "COMPLETED" /\ task[t].status = "PROCESSING"
            /\ \E r \in Run : Finalize(r) /\ run[r].task = t
<1> DEFINE P == \/ task'[t].status = task[t].status
                \/ task'[t].status = "CANCELLED"
                \/ task'[t].status = "PROCESSING" /\ task[t].status = "PENDING"
                   /\ \E r \in Run : ClaimAdopt(r) /\ run[r].task = t
                \/ task'[t].status = "COMPLETED" /\ task[t].status = "PROCESSING"
                   /\ \E r \in Run : Finalize(r) /\ run[r].task = t
<1>1. t \in TaskId /\ task \in [TaskId -> TaskRow]
  BY Types DEF Known
<1>2. ASSUME NEW r \in Run, ClaimAdopt(r) PROVE P
  <2>1. CASE run[r].task = t /\ task[t].status = "PENDING"
    BY <1>1, <1>2, <2>1 DEF ClaimAdopt, Claimable, TaskRow
  <2>2. CASE ~(run[r].task = t /\ task[t].status = "PENDING")
    BY <1>1, <1>2, <2>2 DEF ClaimAdopt, Claimable, TaskRow
  <2> QED BY <2>1, <2>2
<1>3. ASSUME NEW r \in Run, Finalize(r) PROVE P
  <2>1. CASE run[r].task = t /\ task[t].status = "PROCESSING"
    BY <1>1, <1>3, <2>1 DEF Finalize, Finalizable, TaskRow
  <2>2. CASE ~(run[r].task = t /\ task[t].status = "PROCESSING")
    BY <1>1, <1>3, <2>2 DEF Finalize, Finalizable, TaskRow
  <2> QED BY <2>1, <2>2
<1>4. ASSUME NEW r \in Run, BootCancel(r) PROVE P
  BY <1>1, <1>4 DEF BootCancel, TaskRow
<1>5. ASSUME NEW r \in Run, BootCreate(r) PROVE P
  <2>1. CASE ActiveTasks = {}
    <3>1. task' = [task EXCEPT ![nextTask] = [status |-> "PROCESSING", job |-> r[1], finishedAt |-> 0]]
          /\ nextTask <= MaxTask
      BY <1>5, <2>1 DEF BootCreate
    <3>2. nextTask # t
      <4>1. nextTask \in 1..(MaxTask + 1)
        BY DEF IInv, TypeOK
      <4>2. nextTask \in TaskId /\ nextTask >= nextTask
        BY <3>1, <4>1, BoundsAssumption DEF TaskId
      <4> QED BY <4>2 DEF IInv, FreshInv
    <3> QED BY <1>1, <3>1, <3>2
  <2>2. CASE ActiveTasks # {}
    BY <1>5, <2>2 DEF BootCreate
  <2> QED BY <2>1, <2>2
<1>6. ASSUME RouteCommit \/ RouteReject PROVE P
  <2>1. PICK s \in {"PENDING", "FAILED"} : \E j : task' = Committed(s, j)
    BY <1>6 DEF RouteCommit, RouteReject
  <2>2. PICK j : task' = Committed(s, j)
    BY <2>1
  <2>3. s # "absent"
    OBVIOUS
  <2> HIDE DEF P
  <2>4. t # tx.new /\ task'[t].status = IF t = tx.old THEN "CANCELLED" ELSE task[t].status
    BY <1>1, <1>6, <2>2, <2>3, CommittedRows
  <2> QED BY <2>4 DEF P
<1>7. \/ UNCHANGED task
      \/ RouteCommit \/ RouteReject
      \/ \E r \in Run : ClaimAdopt(r) \/ BootCancel(r) \/ Finalize(r) \/ BootCreate(r)
  BY DEF Next, Route, RouteOpen, RouteCancel, RouteCancelJob, RouteCreate, RouteSend,
         RouteRollback, Fetch, Handler, ClaimFind, BootFind,
         BootCancelJob, ImportRow, CheckCancelled, Stamp, Return, RunDies,
         JobExpire, taskTableVars
<1> QED BY <1>2, <1>3, <1>4, <1>5, <1>6, <1>7

\* Who inserts a row, and which.
LEMMA NewRows ==
  ASSUME IInv, Next, NEW t \in Known' \ Known
  PROVE  \/ RouteCommit /\ t = tx.new /\ task'[t].status = "PENDING" /\ task'[t].job = tx.up
         \/ RouteReject /\ task'[t].status = "FAILED" /\ task'[t].job = None
         \/ \E r \in Run : BootCreate(r) /\ ActiveTasks = {} /\ task'[t].status = "PROCESSING" /\ task'[t].job = r[1]
<1>1. t \in TaskId /\ task \in [TaskId -> TaskRow] /\ task[t].status = "absent" /\ task'[t].status # "absent"
  BY Types DEF Known
<1>2. ASSUME NEW r \in Run, ClaimAdopt(r) \/ BootCancel(r) \/ Finalize(r) PROVE FALSE
  <2>2. CASE ClaimAdopt(r)
    BY <1>1, <2>2 DEF ClaimAdopt, Claimable, TaskRow
  <2>3. CASE BootCancel(r)
    <3>1. run[r].old \in Known
      BY <2>3, Types DEF BootCancel, IInv, RunInv, RunGood
    <3> QED BY <1>1, <2>3, <3>1 DEF BootCancel, TaskRow
  <2>4. CASE Finalize(r)
    BY <1>1, <2>4 DEF Finalize, Finalizable, TaskRow
  <2> QED BY <1>2, <2>2, <2>3, <2>4
<1>3. ASSUME NEW r \in Run, BootCreate(r)
      PROVE  ActiveTasks = {} /\ task'[t].status = "PROCESSING" /\ task'[t].job = r[1]
  BY <1>1, <1>3 DEF BootCreate
<1>4. CASE RouteCommit
  <2>1. t = tx.new /\ task'[tx.new] = [status |-> "PENDING", job |-> tx.up, finishedAt |-> 0]
    BY <1>4, CommittedRows DEF RouteCommit
  <2> QED BY <1>4, <2>1
<1>5. CASE RouteReject
  <2>1. t = tx.new /\ task'[tx.new] = [status |-> "FAILED", job |-> None, finishedAt |-> 0]
    BY <1>5, CommittedRows DEF RouteReject
  <2> QED BY <1>5, <2>1
<1>6. \/ UNCHANGED task
      \/ RouteCommit \/ RouteReject
      \/ \E r \in Run : ClaimAdopt(r) \/ BootCancel(r) \/ Finalize(r) \/ BootCreate(r)
  BY DEF Next, Route, RouteOpen, RouteCancel, RouteCancelJob, RouteCreate, RouteSend,
         RouteRollback, Fetch, Handler, ClaimFind, BootFind,
         BootCancelJob, ImportRow, CheckCancelled, Stamp, Return, RunDies,
         JobExpire, taskTableVars
<1> QED BY <1>1, <1>2, <1>3, <1>4, <1>5, <1>6

LEMMA HandlerPc ==
  ASSUME IInv, NEW r \in Run, Handler(r)
  PROVE  run[r].pc \notin {"none", "ended"} /\ run'[r].pc # "none"
<1>1. run[r].pc \notin {"none", "ended"}
  BY DEF Handler, ClaimFind, ClaimAdopt, BootFind, BootCancel, BootCancelJob, BootCreate,
         ImportRow, CheckCancelled, Finalize, Stamp, Return
<1>2. run \in [Run -> RunRow]
  BY Types
<1>3. ASSUME NEW pc, Goto(r, pc), pc # "none" PROVE run'[r].pc # "none"
  BY <1>2, <1>3, GotoMoves
<1>4. \A i : LoopPc(r, i) # "none"
  BY DEF LoopPc
<1>5. ASSUME ClaimFind(r) PROVE run'[r].pc # "none"
  BY <1>2, <1>3, <1>5 DEF ClaimFind, RunRow
<1>6. ASSUME ClaimAdopt(r) PROVE run'[r].pc # "none"
  <2>1. run'[r].pc \in {LoopPc(r, 0), "return"}
    BY <1>2, <1>6 DEF ClaimAdopt, Goto, RunRow
  <2> QED BY <1>4, <2>1
<1>7. ASSUME BootFind(r) \/ BootCancel(r) \/ BootCancelJob(r) PROVE run'[r].pc # "none"
  BY <1>2, <1>7 DEF BootFind, BootCancel, BootCancelJob, Goto, RunRow
<1>8. ASSUME BootCreate(r) PROVE run'[r].pc # "none"
  <2>1. run'[r].pc \in {LoopPc(r, 0), "bootFind"}
    BY <1>2, <1>8 DEF BootCreate, Goto, RunRow
  <2> QED BY <1>4, <2>1
<1>9. ASSUME ImportRow(r) PROVE run'[r].pc # "none"
  <2>1. run'[r].pc = LoopPc(r, run[r].i + 1)
    BY <1>2, <1>9 DEF ImportRow, RunRow
  <2> QED BY <1>4, <2>1
<1>10. ASSUME CheckCancelled(r) \/ Finalize(r) \/ Stamp(r) PROVE run'[r].pc # "none"
  BY <1>2, <1>10 DEF CheckCancelled, Finalize, Stamp, Goto, RunRow
<1>11. ASSUME Return(r) PROVE run'[r].pc # "none"
  BY <1>2, <1>11 DEF Return, NoRun
<1> QED BY <1>1, <1>5, <1>6, <1>7, <1>8, <1>9, <1>10, <1>11 DEF Handler

\* Who moves a job's first attempt, and who the job.
LEMMA FirstMoves ==
  ASSUME IInv, BurstInv, BurstStep, NEW u \in Upload
  PROVE  \/ First(u)' = First(u)
         \/ Fetch(u) /\ First(u).pc = "none" /\ First(u)'.pc = "find"
         \/ Handler(<<u, 0>>) /\ First(u).pc \notin {"none", "ended"} /\ First(u)'.pc # "none"
<1>1. <<u, 0>> \in Run /\ run \in [Run -> RunRow] /\ JobsOnce
  BY Types DEF BurstInv
<1>2. ASSUME NEW v \in Upload, Fetch(v)
      PROVE  First(u)' = First(u) \/ (Fetch(u) /\ First(u).pc = "none" /\ First(u)'.pc = "find")
  <2>1. job[v].retries = 0 /\ job[v].state \notin {"retry"} /\ job[v].state \in Queued
    BY <1>1, <1>2 DEF Fetch, JobsOnce
  <2>2. First(v).pc = "none"
    BY <1>1, <2>1 DEF JobsOnce, Queued
  <2>3. run' = [run EXCEPT ![<<v, 0>>] = [NoRun EXCEPT !.pc = "find"]]
    BY <1>2, <2>1 DEF Fetch
  <2>4. CASE u = v
    BY <1>1, <1>2, <2>2, <2>3, <2>4 DEF First, NoRun
  <2>5. CASE u # v
    BY <1>1, <2>3, <2>5 DEF First
  <2> QED BY <2>4, <2>5
<1>3. ASSUME NEW r \in Run, Handler(r)
      PROVE  \/ First(u)' = First(u)
             \/ Handler(<<u, 0>>) /\ First(u).pc \notin {"none", "ended"} /\ First(u)'.pc # "none"
  <2>1. CASE r = <<u, 0>>
    BY <1>3, <2>1, HandlerPc DEF First
  <2>2. CASE r # <<u, 0>>
    BY <1>1, <1>3, <2>2, HandlerRun DEF First
  <2> QED BY <2>1, <2>2
<1>4. ASSUME (\E v \in Upload : RouteOpen(v)) \/ Route PROVE First(u)' = First(u)
  BY <1>4 DEF Route, RouteOpen, RouteCancel, RouteCancelJob, RouteCreate, RouteSend, RouteCommit,
              RouteReject, First
<1> QED BY <1>2, <1>3, <1>4 DEF BurstStep

LEMMA JobMoves ==
  ASSUME IInv, BurstInv, BurstStep, faults = 0, faults' = 0, NEW u \in Upload
  PROVE  \/ job'[u] = job[u]
         \/ RouteSend /\ tx.up = u /\ job[u].state = "unsent" /\ job'[u].state = "created"
         \/ RouteCancelJob /\ task[tx.old].job = u /\ job'[u].state = "cancelled"
         \/ job'[u].state = "cancelled" /\ BootRuns # {}
         \/ Fetch(u) /\ job[u].state = "created" /\ job'[u].state = "active"
         \/ Return(<<u, 0>>) /\ job[u].state = "active" /\ job'[u].state = "completed" /\ First(u)'.pc = "ended"
<1>1. JobsOnce /\ RunsOnce /\ BegunCarryJob /\ TxOnce /\ job \in [Upload -> JobRow] /\ run \in [Run -> RunRow]
  BY Types DEF BurstInv
<1>2. ~Fault
  BY DEF Fault
<1>3. CASE RouteCancelJob
  <2> DEFINE v == task[tx.old].job
  <2>1. v \in Upload /\ job' = Cancelled(job, v)
    BY <1>1, <1>2, <1>3 DEF RouteCancelJob, IInv, TxInv, BegunCarryJob
  <2> QED BY <1>1, <1>3, <2>1, CancelledOne
<1>4. ASSUME NEW r \in Run, BootCancelJob(r)
      PROVE  job'[u] = job[u] \/ (job'[u].state = "cancelled" /\ BootRuns # {})
  <2> DEFINE v == task[run[r].old].job
  <2>1. v \in Upload /\ job' = Cancelled(job, v)
    BY <1>1, <1>2, <1>4 DEF BootCancelJob, IInv, RunInv, RunGood, BegunCarryJob
  <2>2. r \in BootRuns
    BY <1>4 DEF BootCancelJob, BootRuns, Boot
  <2> QED BY <1>1, <2>1, <2>2, CancelledOne
<1>5. CASE RouteSend
  BY <1>1, <1>5 DEF RouteSend, JobRow, TxOnce
<1>6. ASSUME NEW v \in Upload, Fetch(v)
      PROVE  job'[u] = job[u] \/ (Fetch(u) /\ job[u].state = "created" /\ job'[u].state = "active")
  <2>1. job[v].state = "created"
    BY <1>1, <1>6 DEF Fetch, JobsOnce, Queued
  <2> QED BY <1>1, <1>6, <2>1 DEF Fetch, JobRow
<1>7. ASSUME NEW r \in Run, Return(r)
      PROVE  \/ job'[u] = job[u]
             \/ Return(<<u, 0>>) /\ job[u].state = "active" /\ job'[u].state = "completed" /\ First(u)'.pc = "ended"
  <2>1. r = <<r[1], 0>> /\ r[1] \in Upload
    BY <1>1, <1>7, Started DEF Return
  <2>2. CASE r[1] = u /\ job[u] = [state |-> "active", retries |-> r[2]]
    <3>1. r = <<u, 0>> /\ <<u, 0>> \in Run
      BY <2>1, <2>2
    <3>2. job' = [job EXCEPT ![u].state = "completed"]
      BY <1>7, <2>2 DEF Return
    <3>3. run' = [run EXCEPT ![<<u, 0>>] = [NoRun EXCEPT !.pc = "ended"]]
      BY <1>7, <3>1 DEF Return
    <3> QED BY <1>1, <1>7, <2>2, <3>1, <3>2, <3>3 DEF JobRow, First, NoRun
  <2>3. CASE ~(r[1] = u /\ job[u] = [state |-> "active", retries |-> r[2]])
    BY <1>1, <1>7, <2>1, <2>3 DEF Return
  <2> QED BY <2>2, <2>3
<1>8. \/ job' = job \/ RouteCancelJob \/ RouteSend
      \/ \E v \in Upload : Fetch(v)
      \/ \E r \in Run : BootCancelJob(r) \/ Return(r)
  BY DEF BurstStep, Route, RouteOpen, RouteCancel, RouteCreate, RouteCommit, RouteReject, Handler,
         ClaimFind, ClaimAdopt, BootFind, BootCancel, BootCreate, ImportRow, CheckCancelled, Finalize, Stamp
<1> QED BY <1>3, <1>4, <1>5, <1>6, <1>7, <1>8

-----------------------------------------------------------------------------
(* The newest upload takes over                                             *)

LEMMA JobsDoneStep ==
  ASSUME IInv, IInv', BurstInv, JobsDone, Next, BurstStep, faults = 0, faults' = 0
  PROVE  JobsDone'
<1>1. JobsOnce /\ RunsOnce
  BY DEF BurstInv
<1>2. ASSUME NEW u \in Upload, NEW v \in Upload, job'[u].state = "active", job'[v].state = "active"
      PROVE  u = v
  <2>1. ASSUME NEW x \in Upload, NEW y \in Upload, Fetch(x), job'[y].state = "active" PROVE x = y
    BY <2>1, Types DEF Fetch
  <2>2. (job[u].state = "active" \/ Fetch(u)) /\ (job[v].state = "active" \/ Fetch(v))
    BY <1>2, JobMoves
  <2> QED BY <1>2, <2>1, <2>2 DEF JobsDone
<1>3. ASSUME NEW u \in Upload, job'[u].state = "completed" PROVE First(u)'.pc = "ended"
  <2>1. (job[u].state = "completed" /\ First(u).pc = "ended") \/ First(u)'.pc = "ended"
    BY <1>3, JobMoves DEF JobsDone
  <2> QED BY <2>1, FirstMoves
<1>4. ASSUME NEW u \in Upload, First(u)'.pc = "none", NEW t \in TasksOf(u)'
      PROVE  task'[t].status \in {"PENDING", "CANCELLED"}
  <2>1. First(u).pc = "none"
    BY <1>4, FirstMoves
  <2>2. ASSUME NEW r \in Run, r[1] = u PROVE run[r].pc \in {"none", "ended"}
    <3>1. CASE run[r].pc # "none"
      BY <1>1, <2>1, <2>2, <3>1, Started
    <3> QED BY <3>1
  <2>3. t \in Known' /\ task'[t].job = u
    BY <1>4 DEF TasksOf
  <2>4. CASE t \in Known
    <3>1. t \in TasksOf(u) /\ task[t].job = u /\ t \in TaskId /\ task[t].status \in {"PENDING", "CANCELLED"}
      BY <2>1, <2>3, <2>4, JobsStay DEF TasksOf, Known, JobsDone
    <3>2. ASSUME NEW r \in Run, ClaimAdopt(r), run[r].task = t PROVE FALSE
      <4>1. run[r].pc = "adopt" /\ r[1] = u
        BY <1>1, <3>1, <3>2 DEF ClaimAdopt, RunsOnce
      <4> QED BY <2>2, <4>1
    <3> QED BY <2>4, <3>1, <3>2, StatusMoves
  <2>5. CASE t \notin Known
    <3>1. ASSUME NEW r \in Run, BootCreate(r), task'[t].job = r[1] PROVE FALSE
      <4>1. run[r].pc = "bootCreate" /\ r[1] = u
        BY <2>3, <3>1 DEF BootCreate
      <4> QED BY <2>2, <4>1
    <3> QED BY <2>3, <2>5, <3>1, NewRows, NoneAssumption
  <2> QED BY <2>4, <2>5
<1> QED BY <1>2, <1>3, <1>4 DEF JobsDone

\* A handler that bootstraps does so beside a task that was there before.
LEMMA BootSecond ==
  ASSUME IInv, BurstInv, NEW r \in Run, BootCreate(r)
  PROVE  r[1] \in Upload /\ TasksOf(r[1]) # {}
<1>1. tx.new = NoTask /\ run[r].pc = "bootCreate" /\ JobsOnce /\ RunsOnce
  BY DEF BootCreate, IndexInDoubt, BurstInv
<1>2. tx.pc # "attach"
  BY <1>1, Types DEF IInv, TxInv
<1>3. r[1] \in Upload /\ job[r[1]].state # "unsent"
  BY <1>1, Started
<1> QED BY <1>1, <1>2, <1>3 DEF JobsOnce

LEMMA NothingBeforeStep ==
  ASSUME IInv, IInv', BurstInv, NothingBefore, Next
  PROVE  NothingBefore'
<1>1. ASSUME newest' = None, NEW t \in Begun' PROVE FALSE
  <2>1. newest = None /\ ~RouteCommit
    <3>1. tx.pc = "attach" => tx.up # None
      BY NoneAssumption DEF IInv, TxInv
    <3>2. newest' = newest \/ (RouteCommit /\ newest' = tx.up)
      BY DEF Next, Route, RouteOpen, RouteCancel, RouteCancelJob, RouteCreate, RouteSend, RouteCommit,
             RouteReject, RouteRollback, Fetch, Handler, ClaimFind, ClaimAdopt, BootFind, BootCancel,
             BootCancelJob, BootCreate, ImportRow, CheckCancelled, Finalize, Stamp, Return, RunDies,
             JobExpire, historyVars, routeVars
    <3> QED BY <1>1, <3>1, <3>2 DEF RouteCommit
  <2>2. Begun = {} /\ t \in Known' /\ task'[t].status # "FAILED"
    BY <2>1 DEF NothingBefore, Begun
  <2>3. CASE t \in Known
    <3>1. t \in TaskId /\ task[t].status = "FAILED"
      BY <2>2, <2>3 DEF Begun, Known
    <3> QED BY <2>2, <3>1, EndedStay
  <2>4. CASE t \notin Known
    <3>1. PICK r \in Run : BootCreate(r)
      BY <2>1, <2>2, <2>4, NewRows
    <3>2. PICK s \in TasksOf(r[1]) : r[1] \in Upload
      BY <3>1, BootSecond
    <3>3. s \in Known /\ task[s].job # None
      BY <3>2, NoneAssumption DEF TasksOf
    <3> QED BY <2>2, <3>3 DEF NothingBefore
  <2> QED BY <2>3, <2>4
<1>2. ASSUME NEW t \in Known' \ Begun' PROVE task'[t].job = None
  <2>1. CASE t \in Known
    <3>1. t \notin Begun
      BY <1>2, RowsStay
    <3> QED BY <2>1, <3>1, JobsStay DEF NothingBefore
  <2>2. CASE t \notin Known
    <3>1. task'[t].status = "FAILED"
      BY <1>2 DEF Begun
    <3> QED BY <1>2, <2>2, <3>1, NewRows
  <2> QED BY <2>1, <2>2
<1> QED BY <1>1, <1>2 DEF NothingBefore

LEMMA KeptBack ==
  ASSUME IInv, Next, Kept'
  PROVE  Kept
<1> SUFFICES ASSUME NEW t \in won PROVE task[t].status = "COMPLETED"
  BY DEF Kept
<1>1. task'[t].status = "COMPLETED"
  BY WonGrows DEF Kept
<1>2. t \in TaskId /\ task[t].status \in {"COMPLETED", "CANCELLED"}
  BY DEF IInv, TypeOK, WonInv
<1> QED BY <1>1, <1>2, EndedStay

\* The statements of the handler when nobody bootstraps.
PlainHandler(r) ==
  \/ ClaimFind(r) /\ run'[r].pc = "adopt"
  \/ ClaimAdopt(r) \/ ImportRow(r) \/ CheckCancelled(r) \/ Finalize(r) \/ Stamp(r) \/ Return(r)

\* A second task under a job id stays, and so does who is about to insert it
\* until the task is there.
LEMMA PlainBack ==
  ASSUME IInv, BurstInv, Next, BurstStep, Plain'
  PROVE  /\ Plain
         /\ \/ \E u \in Upload : RouteOpen(u) \/ Fetch(u)
            \/ RouteCancel \/ RouteCancelJob \/ RouteCreate \/ RouteSend \/ RouteCommit
            \/ \E r \in Run : PlainHandler(r)
<1>1. \A u \in Upload : TasksOf(u) \subseteq TasksOf(u)'
  BY JobsStay DEF TasksOf
<1>2. \A u \in Upload : \A s, t \in TasksOf(u) : s = t
  BY <1>1 DEF Plain
<1>3. run \in [Run -> RunRow]
  BY Types
<1>4. ASSUME NEW r \in Run, BootCreate(r), ActiveTasks = {} PROVE FALSE
  <2>1. PICK s \in TasksOf(r[1]) : r[1] \in Upload
    BY <1>4, BootSecond
  <2>2. /\ nextTask \in TaskId /\ nextTask \notin Known
        /\ task' = [task EXCEPT ![nextTask] = [status |-> "PROCESSING", job |-> r[1], finishedAt |-> 0]]
    <3>1. nextTask \in 1..(MaxTask + 1) /\ nextTask <= MaxTask
      BY <1>4 DEF BootCreate, IInv, TypeOK
    <3>2. nextTask \in TaskId /\ nextTask >= nextTask
      BY <3>1, BoundsAssumption DEF TaskId
    <3> QED BY <1>4, <3>2 DEF BootCreate, IInv, FreshInv
  <2>3. nextTask \in TasksOf(r[1])'
    <3>1. task'[nextTask] = [status |-> "PROCESSING", job |-> r[1], finishedAt |-> 0]
      BY <2>2, Types
    <3> QED BY <2>2, <3>1 DEF TasksOf, Known
  <2>4. s \in TasksOf(r[1])' /\ s \in Known
    BY <1>1, <2>1 DEF TasksOf
  <2> QED BY <2>1, <2>2, <2>3, <2>4 DEF Plain
<1>5. ASSUME NEW x \in BootRuns PROVE FALSE
  <2>1. x \in Run /\ run[x].pc \in Boot /\ run'[x].pc \notin Boot
    BY DEF BootRuns, Plain
  <2>2. ASSUME NEW u \in Upload, Fetch(u) PROVE FALSE
    <3>1. job[u].retries = 0 /\ First(u).pc = "none"
      BY <2>2 DEF BurstInv, JobsOnce, Fetch, Queued
    <3>2. x # <<u, 0>>
      BY <2>1, <3>1 DEF First, Boot
    <3> QED BY <1>3, <2>1, <2>2, <3>1, <3>2 DEF Fetch
  <2>3. run' # run
    BY <2>1
  <2>4. PICK r \in Run : Handler(r)
    BY <2>2, <2>3 DEF BurstStep, Route, RouteOpen, RouteCancel, RouteCancelJob, RouteCreate, RouteSend,
                      RouteCommit, RouteReject
  <2>5. r = x
    BY <2>1, <2>4, HandlerRun
  <2>6. BootFind(x) \/ BootCancel(x) \/ BootCancelJob(x) \/ BootCreate(x)
    BY <2>1, <2>4, <2>5 DEF Handler, ClaimFind, ClaimAdopt, ImportRow, CheckCancelled, Finalize, Stamp, Return, Boot
  <2>7. ASSUME NEW pc \in Boot, Goto(x, pc) PROVE FALSE
    <3>1. run'[x].pc = pc
      BY <1>3, <2>1, <2>7, GotoMoves
    <3> QED BY <2>1, <3>1
  <2>8. CASE BootFind(x)
    BY <1>3, <2>1, <2>8 DEF BootFind, RunRow, Boot
  <2>9. CASE BootCancel(x) \/ BootCancelJob(x)
    BY <2>7, <2>9 DEF BootCancel, BootCancelJob, Boot
  <2>10. CASE BootCreate(x)
    BY <1>4, <2>1, <2>7, <2>10 DEF BootCreate, Boot
  <2> QED BY <2>6, <2>8, <2>9, <2>10
<1>6. ASSUME RouteReject PROVE FALSE
  BY <1>5, <1>6 DEF RouteReject, BurstInv, TxOnce
<1>7. ASSUME NEW r \in Run, Handler(r) PROVE PlainHandler(r)
  <2>1. run[r].pc \notin Boot /\ run'[r].pc \notin Boot
    BY <1>5 DEF BootRuns, Plain
  <2>2. ASSUME ClaimFind(r) PROVE run'[r].pc = "adopt"
    <3>1. run'[r].pc \in {"bootFind", "adopt"}
      BY <1>3, <2>2 DEF ClaimFind, Goto, RunRow
    <3> QED BY <2>1, <3>1 DEF Boot
  <2> QED BY <1>7, <2>1, <2>2 DEF Handler, PlainHandler, BootFind, BootCancel, BootCancelJob, BootCreate, Boot
<1> QED BY <1>2, <1>5, <1>6, <1>7 DEF Plain, BurstStep, Route

LEMMA NewestStep ==
  ASSUME IInv, IInv', BurstInv, JobsDone, NothingBefore, NewestInv, FinishOrder, Next, BurstStep,
         faults = 0, faults' = 0
  PROVE  NewestInv'
<1> SUFFICES ASSUME Plain', newest' # None PROVE \E t \in TasksOf(newest)' : IsNewest(t)'
  BY DEF NewestInv
<1>1. /\ Plain
      /\ \/ \E u \in Upload : RouteOpen(u) \/ Fetch(u)
         \/ RouteCancel \/ RouteCancelJob \/ RouteCreate \/ RouteSend \/ RouteCommit
         \/ \E r \in Run : PlainHandler(r)
  BY PlainBack
<1>2. JobsOnce /\ RunsOnce /\ BegunCarryJob /\ TxOnce
  BY DEF BurstInv
<1>3. CASE RouteCommit
  <2> DEFINE n == tx.new
             up == tx.up
  <2>1. /\ tx.pc = "attach" /\ up \in Upload /\ newest' = up /\ job' = job /\ tx' = NoTx
        /\ job[up].state \in {"created", "active"}
    BY <1>2, <1>3 DEF RouteCommit, TxOnce, IInv, TxInv
  <2>2. n \in TaskId /\ task'[n] = [status |-> "PENDING", job |-> up, finishedAt |-> 0]
        /\ ActiveTasks' \subseteq {n}
    BY <1>3, CommittedRows DEF RouteCommit
  <2>3. n \in ActiveTasks'
    BY <2>2 DEF ActiveTasks, Active
  <2> HIDE DEF n, up
  <2>4. ASSUME NEW t, t = n PROVE t \in TasksOf(newest)' /\ IsNewest(t)'
    BY <2>1, <2>2, <2>3, <2>4, NoneAssumption DEF TasksOf, Known, IsNewest, NoTx
  <2> QED BY <2>4
<1>4. CASE ~RouteCommit
  <2>1. newest' = newest
    BY <1>1, <1>4 DEF RouteOpen, RouteCancel, RouteCancelJob, RouteCreate, RouteSend, Fetch, PlainHandler,
           ClaimFind, ClaimAdopt, ImportRow, CheckCancelled, Finalize, Stamp, Return, historyVars, routeVars
  <2>2. newest \in Upload
    BY <2>1 DEF IInv, TypeOK
  <2>3. PICK t \in TasksOf(newest) : IsNewest(t)
    BY <1>1, <2>1, <2>2 DEF NewestInv
  <2>4. /\ t \in TaskId /\ t \in Known /\ task[t].job = newest /\ job[newest].state # "unsent"
        /\ ActiveTasks \subseteq {t}
        /\ \/ t \in ActiveTasks
           \/ t \in CompletedTasks /\ \A s \in CompletedTasks : task[s].finishedAt <= task[t].finishedAt
        /\ tx.old \in {NoTask, t}
        /\ Ousted(t) \/ job[newest].state # "cancelled"
    BY <1>2, <2>2, <2>3, Types DEF TasksOf, IsNewest, JobsOnce
  <2>5. t \in TasksOf(newest)'
    BY <2>1, <2>4, JobsStay DEF TasksOf
  <2>6. ASSUME \/ ActiveTasks' = ActiveTasks /\ CompletedTasks' = CompletedTasks
                  /\ \A s \in CompletedTasks : task'[s].finishedAt = task[s].finishedAt
               \/ /\ ActiveTasks' = {} /\ t \in CompletedTasks'
                  /\ \A s \in CompletedTasks' : task'[s].finishedAt <= task'[t].finishedAt,
               tx'.old \in {NoTask, t},
               Ousted(t)' \/ job'[newest].state # "cancelled"
        PROVE  IsNewest(t)'
    BY <2>1, <2>4, <2>6 DEF IsNewest
  <2>7. task' = task => /\ ActiveTasks' = ActiveTasks /\ CompletedTasks' = CompletedTasks
                        /\ \A s \in CompletedTasks : task'[s].finishedAt = task[s].finishedAt
    BY DEF ActiveTasks, CompletedTasks
  <2>8. ASSUME NEW u \in Upload, RouteOpen(u) PROVE IsNewest(t)'
    <3>1. task' = task /\ job' = job /\ ~Ousted(t)
      BY <2>8 DEF RouteOpen, taskTableVars, Ousted, NoTx
    <3>2. tx'.old \in {NoTask, t}
      BY <2>4, <2>8 DEF RouteOpen, FoundActive
    <3> QED BY <2>4, <2>6, <2>7, <3>1, <3>2
  <2>9. CASE RouteCancel
    <3>1. task' = task /\ job' = job /\ ~Ousted(t) /\ tx'.old = tx.old
      BY <2>9, Types DEF RouteCancel, taskTableVars, Ousted
    <3>2. tx'.old \in {NoTask, t}
      BY <2>4, <3>1
    <3> QED BY <2>4, <2>5, <2>6, <2>7, <3>1, <3>2
  <2>10. CASE RouteCancelJob
    <3>1. task' = task /\ tx'.old = tx.old /\ tx'.pc = "create" /\ tx.old # NoTask
      BY <2>10, Types DEF RouteCancelJob, taskTableVars, IInv, TxInv
    <3>2. Ousted(t)'
      BY <2>4, <3>1 DEF Ousted
    <3>3. tx'.old \in {NoTask, t}
      BY <2>4, <3>1
    <3> QED BY <2>5, <2>6, <2>7, <3>1, <3>2, <3>3
  <2>11. CASE RouteCreate
    <3>1. task' = task /\ job' = job
      BY <2>11 DEF RouteCreate
    <3>2. CASE ActiveTasks \subseteq {tx.old}
      <4>1. tx'.old = tx.old /\ (Ousted(t) => Ousted(t)')
        BY <2>11, <3>2, Types DEF RouteCreate, Ousted
      <4>2. tx'.old \in {NoTask, t} /\ (Ousted(t)' \/ job'[newest].state # "cancelled")
        BY <2>4, <3>1, <4>1
      <4> QED BY <2>5, <2>6, <2>7, <3>1, <4>2
    <3>3. CASE ~(ActiveTasks \subseteq {tx.old})
      <4>1. tx' = NoTx
        BY <2>11, <3>3 DEF RouteCreate
      <4>2. ~Ousted(t) /\ tx'.old = NoTask
        BY <2>4, <3>3, <4>1 DEF Ousted, NoTx
      <4>3. tx'.old \in {NoTask, t} /\ job'[newest].state # "cancelled"
        BY <2>4, <3>1, <4>2
      <4> QED BY <2>5, <2>6, <2>7, <3>1, <4>3
    <3> QED BY <3>2, <3>3
  <2>12. CASE RouteSend
    <3>1. task' = task /\ tx'.old = tx.old /\ (Ousted(t) => Ousted(t)')
      BY <2>12, Types DEF RouteSend, taskTableVars, Ousted
    <3>2. job'[newest].state = "cancelled" => job[newest].state = "cancelled"
      BY <1>2, <2>2, <2>12, Types DEF RouteSend, JobRow
    <3>3. tx'.old \in {NoTask, t} /\ (Ousted(t)' \/ job'[newest].state # "cancelled")
      BY <2>4, <3>1, <3>2
    <3> QED BY <2>5, <2>6, <2>7, <3>1, <3>3
  <2>13. ASSUME NEW u \in Upload, Fetch(u) PROVE IsNewest(t)'
    <3>1. task' = task /\ tx' = tx
      BY <2>13 DEF Fetch, taskTableVars, routeVars
    <3>2. job'[newest].state = "cancelled" => job[newest].state = "cancelled"
      BY <2>2, <2>13, Types DEF Fetch, JobRow
    <3>3. Ousted(t)' = Ousted(t)
      BY <3>1 DEF Ousted
    <3> QED BY <2>4, <2>6, <2>7, <3>1, <3>2, <3>3
  <2>14. ASSUME NEW r \in Run, PlainHandler(r) PROVE IsNewest(t)'
    <3>1. tx' = tx /\ Ousted(t)' = Ousted(t)
      BY <2>14 DEF PlainHandler, ClaimFind, ClaimAdopt, ImportRow, CheckCancelled, Finalize, Stamp, Return,
                   routeVars, Ousted
    <3>2. job'[newest].state = "cancelled" => job[newest].state = "cancelled"
      <4>1. job' = job \/ Return(r)
        BY <2>14 DEF PlainHandler, ClaimFind, ClaimAdopt, ImportRow, CheckCancelled, Finalize, Stamp
      <4>2. CASE Return(r)
        BY <2>2, <4>2, Types DEF Return, JobRow
      <4> QED BY <4>1, <4>2
    <3>3. CASE task' = task
      BY <2>4, <2>6, <2>7, <3>1, <3>2, <3>3
    <3>4. CASE ClaimAdopt(r) /\ Claimable(run[r].task)
      <4> DEFINE q == run[r].task
      <4>1. q \in TaskId /\ task[q].status = "PENDING" /\ task' = [task EXCEPT ![q].status = "PROCESSING"]
        BY <3>4, Types DEF ClaimAdopt, Claimable, IInv, RunInv, RunGood
      <4> HIDE DEF q
      <4>2. /\ task'[q].status = "PROCESSING"
            /\ \A s \in TaskId \ {q} : task'[s] = task[s]
        BY <4>1, Types DEF TaskRow
      <4>3. /\ ActiveTasks' = ActiveTasks /\ CompletedTasks' = CompletedTasks
            /\ \A s \in CompletedTasks : task'[s].finishedAt = task[s].finishedAt
        BY <4>1, <4>2 DEF ActiveTasks, Active, CompletedTasks
      <4> QED BY <2>4, <2>6, <3>1, <3>2, <4>3
    <3>5. CASE Finalize(r) /\ Finalizable(run[r].task)
      <4> DEFINE q == run[r].task
      <4>1. /\ q \in TaskId /\ task[q].status = "PROCESSING" /\ clock \in Nat
            /\ task' = [task EXCEPT ![q].status = "COMPLETED", ![q].finishedAt = clock + 1]
        BY <3>5, Types DEF Finalize, Finalizable, IInv, TypeOK, RunInv, RunGood
      <4> HIDE DEF q
      <4>2. /\ task'[q].status = "COMPLETED" /\ task'[q].finishedAt = clock + 1
            /\ \A s \in TaskId \ {q} : task'[s] = task[s]
        BY <4>1, Types DEF TaskRow
      <4>3. q = t
        BY <2>4, <4>1 DEF ActiveTasks, Active
      <4>4. ActiveTasks' = {} /\ t \in CompletedTasks'
        BY <2>4, <4>1, <4>2, <4>3 DEF ActiveTasks, Active, CompletedTasks
      <4>5. ASSUME NEW s \in CompletedTasks' PROVE task'[s].finishedAt <= task'[t].finishedAt
        <5>1. CASE s = t
          BY <4>1, <4>2, <4>3, <5>1
        <5>2. CASE s # t
          <6>1. s \in CompletedTasks /\ s \in TaskId /\ task'[s] = task[s]
            BY <4>2, <4>3, <5>2 DEF CompletedTasks
          <6>2. task[s].finishedAt \in Nat /\ task[s].finishedAt <= clock
            BY <6>1, Types DEF FinishOrder, TaskRow
          <6>3. task[s].finishedAt <= clock + 1
            BY <4>1, <6>2
          <6> QED BY <4>2, <4>3, <6>1, <6>3
        <5> QED BY <5>1, <5>2
      <4> QED BY <2>4, <2>6, <3>1, <3>2, <4>4, <4>5
    <3>6. \/ task' = task
          \/ ClaimAdopt(r) /\ Claimable(run[r].task)
          \/ Finalize(r) /\ Finalizable(run[r].task)
      BY <2>14 DEF PlainHandler, ClaimFind, ClaimAdopt, ImportRow, CheckCancelled, Finalize, Stamp, Return,
                   taskTableVars
    <3> QED BY <3>3, <3>4, <3>5, <3>6
  <2> QED BY <1>1, <1>4, <2>5, <2>8, <2>9, <2>10, <2>11, <2>12, <2>13, <2>14
<1> QED BY <1>3, <1>4

\* A run that is at its stamp was there, or has just won its finalizing update.
LEMMA WhoStamps ==
  ASSUME IInv, BurstInv, BurstStep, NEW r \in Run, run'[r].pc = "stamp"
  PROVE  /\ run'[r].task = run[r].task
         /\ \/ run[r].pc = "stamp" /\ run'[r] = run[r]
            \/ Finalize(r) /\ Finalizable(run[r].task)
<1>1. run \in [Run -> RunRow]
  BY Types
<1>2. ASSUME NEW u \in Upload, Fetch(u) PROVE run'[r] = run[r]
  <2>1. run' = [run EXCEPT ![<<u, job[u].retries>>] = [NoRun EXCEPT !.pc = "find"]]
    BY <1>2 DEF Fetch
  <2> QED BY <1>1, <2>1 DEF NoRun
<1>3. ASSUME NEW x \in Run, Handler(x), x # r PROVE run'[r] = run[r]
  BY <1>3, HandlerRun
<1>4. ASSUME Handler(r) PROVE run'[r].task = run[r].task /\ Finalize(r) /\ Finalizable(run[r].task)
  <2>1. ASSUME NEW pc, Goto(r, pc) PROVE run'[r].pc = pc /\ run'[r].task = run[r].task
    BY <1>1, <2>1, GotoMoves
  <2>2. \A i : LoopPc(r, i) # "stamp"
    BY DEF LoopPc
  <2>3. ~ClaimFind(r)
    BY <1>1 DEF ClaimFind, Goto, RunRow
  <2>4. ~ClaimAdopt(r)
    <3>1. ASSUME ClaimAdopt(r) PROVE run'[r].pc \in {LoopPc(r, 0), "return"}
      BY <1>1, <3>1 DEF ClaimAdopt, Goto, RunRow
    <3> QED BY <2>2, <3>1
  <2>5. ~BootFind(r) /\ ~BootCancel(r) /\ ~BootCancelJob(r)
    BY <1>1 DEF BootFind, BootCancel, BootCancelJob, Goto, RunRow
  <2>6. ~BootCreate(r)
    <3>1. ASSUME BootCreate(r) PROVE run'[r].pc \in {LoopPc(r, 0), "bootFind"}
      BY <1>1, <3>1 DEF BootCreate, Goto, RunRow
    <3> QED BY <2>2, <3>1
  <2>7. ~ImportRow(r)
    <3>1. ASSUME ImportRow(r) PROVE run'[r].pc = LoopPc(r, run[r].i + 1)
      BY <1>1, <3>1 DEF ImportRow, RunRow
    <3> QED BY <2>2, <3>1
  <2>8. ~CheckCancelled(r) /\ ~Stamp(r)
    BY <1>1 DEF CheckCancelled, Stamp, Goto, RunRow
  <2>9. ~Return(r)
    BY <1>1 DEF Return, NoRun
  <2>10. Finalize(r)
    BY <1>4, <2>3, <2>4, <2>5, <2>6, <2>7, <2>8, <2>9 DEF Handler
  <2>11. Finalizable(run[r].task)
    <3> SUFFICES ASSUME ~Finalizable(run[r].task) PROVE FALSE
      OBVIOUS
    <3>1. Goto(r, "return")
      BY <2>10 DEF Finalize, StampDue
    <3> QED BY <2>1, <3>1
  <2>12. run'[r].task = run[r].task
    BY <2>1, <2>10 DEF Finalize
  <2> QED BY <2>10, <2>11, <2>12
<1>5. ASSUME (\E u \in Upload : RouteOpen(u)) \/ Route PROVE run'[r] = run[r]
  BY <1>5 DEF Route, RouteOpen, RouteCancel, RouteCancelJob, RouteCreate, RouteSend, RouteCommit, RouteReject
<1> QED BY <1>2, <1>3, <1>4, <1>5 DEF BurstStep

\* Only the newest upload's job gets as far as completing a task.
LEMMA FinalizesNewest ==
  ASSUME IInv, BurstInv, JobsDone, NothingBefore, NewestInv, Plain,
         NEW r \in Run, Finalize(r), Finalizable(run[r].task)
  PROVE  /\ newest \in Upload /\ r = <<newest, 0>> /\ r[1] = newest
         /\ job[newest].state = "active"
<1> DEFINE q == run[r].task
<1>1. /\ run[r].pc = "finalize" /\ q \in TaskId /\ q \in Begun /\ q \in ActiveTasks /\ task[q].job = r[1]
      /\ r = <<r[1], 0>> /\ r[1] \in Upload /\ First(r[1]) = run[r] /\ job[r[1]].state \notin {"unsent", "created"}
  <2>1. run[r].pc = "finalize" /\ q \in Known /\ task[q].status = "PROCESSING" /\ task[q].job = r[1]
    BY DEF Finalize, Finalizable, IInv, RunInv, RunGood, BurstInv, RunsOnce, Loop
  <2>2. q \in TaskId /\ q \in Begun /\ q \in ActiveTasks
    BY <2>1 DEF Known, Begun, ActiveTasks, Active
  <2> QED BY <2>1, <2>2, Started DEF BurstInv
<1>2. newest # None /\ newest \in Upload
  BY <1>1 DEF NothingBefore, IInv, TypeOK
<1>3. PICK t \in TasksOf(newest) : IsNewest(t)
  BY <1>2 DEF NewestInv
<1>4. q = t
  BY <1>1, <1>3 DEF IsNewest
<1>5. r[1] = newest
  BY <1>1, <1>3, <1>4 DEF TasksOf
<1>6. ~Ousted(q)
  BY DEF Finalize, RowLocked, Ousted
<1>7. job[newest].state \notin {"cancelled", "unsent", "created"}
  BY <1>1, <1>3, <1>4, <1>5, <1>6 DEF IsNewest
<1>8. job[newest].state \notin {"retry", "failed", "completed"}
  <2>1. job[newest].state \notin {"retry", "failed"}
    BY <1>2 DEF BurstInv, JobsOnce
  <2>2. First(newest).pc # "ended"
    BY <1>1, <1>5
  <2> QED BY <1>2, <2>1, <2>2 DEF JobsDone
<1>9. job[newest].state \in JobState
  BY <1>2, Types DEF JobRow
<1> QED BY <1>1, <1>2, <1>5, <1>7, <1>8, <1>9 DEF JobState, Queued

\* While a run waits to stamp, its completed task is not being overwritten unseen.
LEMMA OverwrittenSeen ==
  ASSUME IInv, RouteCommit, Next, Kept', NEW q \in won
  PROVE  ~Ousted(q)
<1> SUFFICES ASSUME tx.old = q PROVE FALSE
  BY DEF Ousted
<1>1. q \in Known /\ q \in TaskId
  BY DEF IInv, TypeOK, WonInv, Known
<1>2. q # tx.new /\ task'[q].status = "CANCELLED"
  BY <1>1, CommittedRows DEF RouteCommit
<1>3. task'[q].status = "COMPLETED"
  BY WonGrows DEF Kept
<1> QED BY <1>2, <1>3

LEMMA StampOrderStep ==
  ASSUME IInv, IInv', BurstInv, JobsDone, NothingBefore, NewestInv, StampInOrder, Next, BurstStep,
         faults = 0, faults' = 0
  PROVE  StampInOrder'
<1> SUFFICES ASSUME Plain', Kept'
             PROVE  /\ \A r \in Run : run'[r].pc = "stamp" => Holds(r)'
                    /\ newest' # None /\ First(newest)'.pc # "none" =>
                         \A r \in Run : run'[r].pc = "stamp" => r = <<newest', 0>>
  BY DEF StampInOrder
<1>1. /\ Plain /\ Kept
      /\ \/ \E u \in Upload : RouteOpen(u) \/ Fetch(u)
         \/ RouteCancel \/ RouteCancelJob \/ RouteCreate \/ RouteSend \/ RouteCommit
         \/ \E r \in Run : PlainHandler(r)
  BY PlainBack, KeptBack
<1>2. JobsOnce /\ RunsOnce /\ BegunCarryJob /\ TxOnce
  BY DEF BurstInv
<1>3. \A r \in Run : run[r].pc = "stamp" => Holds(r)
  BY <1>1 DEF StampInOrder
<1>4. ASSUME NEW r \in Run, run[r].pc = "stamp"
      PROVE  /\ run[r].task \in won /\ run[r].task \in TaskId /\ run[r].task \in TasksOf(r[1])
             /\ r = <<r[1], 0>> /\ r[1] \in Upload /\ First(r[1]) = run[r]
             /\ job[r[1]].state \notin {"unsent", "created"}
  <2>1. run[r].task \in won /\ run[r].task \in Known /\ task[run[r].task].job = r[1]
    BY <1>2, <1>4 DEF IInv, RunInv, RunGood, RunsOnce
  <2> QED BY <1>2, <1>4, <2>1, Started DEF TasksOf, Known
<1>5. ASSUME NEW r \in Run, Finalize(r), Finalizable(run[r].task)
      PROVE  newest \in Upload /\ r = <<newest, 0>> /\ r[1] = newest /\ job[newest].state = "active"
  BY <1>1, <1>5, FinalizesNewest
<1>6. ASSUME NEW r \in Run, run'[r].pc = "stamp" PROVE Holds(r)'
  <2> DEFINE q == run[r].task
  <2>1. run'[r].task = q
    BY <1>6, WhoStamps
  <2>2. CASE Finalize(r) /\ Finalizable(q)
    <3>1. job' = job
      BY <2>2 DEF Finalize
    <3> QED BY <1>5, <2>2, <3>1 DEF Holds
  <2>3. CASE run[r].pc = "stamp" /\ run'[r] = run[r]
    <3>1. /\ q \in won /\ q \in TaskId /\ q \in TasksOf(r[1])
          /\ r = <<r[1], 0>> /\ r[1] \in Upload /\ job[r[1]].state \notin {"unsent", "created"}
          /\ Holds(r)
      BY <1>3, <1>4, <2>3
    <3>2. CASE job'[r[1]].state = "active"
      BY <3>2 DEF Holds
    <3>3. CASE job[r[1]].state = "active" /\ job'[r[1]].state # "active"
      <4>1. ~Return(<<r[1], 0>>)
        BY <2>3, <3>1 DEF Return
      <4>2. RouteCancelJob /\ task[tx.old].job = r[1]
        BY <1>1, <3>1, <3>3, <4>1, JobMoves DEF Plain
      <4>3. tx.old \in TasksOf(r[1])
        BY <4>2 DEF RouteCancelJob, IInv, TxInv, Begun, TasksOf
      <4>4. tx.old = q
        BY <1>1, <3>1, <4>3 DEF Plain
      <4>5. tx'.old = q /\ tx'.pc = "create"
        BY <4>2, <4>4, Types DEF RouteCancelJob
      <4> QED BY <2>1, <4>5 DEF Holds, Ousted
    <3>4. CASE Ousted(q)
      <4> SUFFICES ASSUME ~(tx'.old = q /\ tx'.pc \in {"create", "send", "attach", "reject"}) PROVE FALSE
        BY <2>1 DEF Holds, Ousted
      <4>1. tx.old = q /\ tx.pc \in {"create", "send", "attach", "reject"} /\ tx' # tx
        BY <3>4 DEF Ousted
      <4>2. RouteCreate \/ RouteSend \/ RouteCommit
        <5>1. ASSUME NEW u \in Upload, RouteOpen(u) \/ Fetch(u) PROVE FALSE
          BY <4>1, <5>1 DEF RouteOpen, NoTx, Fetch, routeVars
        <5>2. ~RouteCancel /\ ~RouteCancelJob
          BY <4>1 DEF RouteCancel, RouteCancelJob
        <5>3. ASSUME NEW x \in Run, PlainHandler(x) PROVE FALSE
          BY <4>1, <5>3 DEF PlainHandler, ClaimFind, ClaimAdopt, ImportRow, CheckCancelled, Finalize, Stamp,
                            Return, routeVars
        <5> QED BY <1>1, <5>1, <5>2, <5>3
      <4>3. ~RouteCommit
        BY <1>1, <3>1, <3>4, OverwrittenSeen
      <4>4. ~RouteSend
        BY <4>1, Types DEF RouteSend
      <4>5. RouteCreate /\ ~(ActiveTasks \subseteq {tx.old})
        BY <4>1, <4>2, <4>3, <4>4, Types DEF RouteCreate
      <4>6. PICK a \in ActiveTasks : a # q
        BY <4>1, <4>5
      <4>7. newest # None /\ newest \in Upload
        BY Types DEF NothingBefore, IInv, TypeOK
      <4>8. PICK t \in TasksOf(newest) : IsNewest(t)
        BY <1>1, <4>7 DEF NewestInv
      <4> QED BY <3>1, <4>1, <4>6, <4>8, Types DEF IsNewest
    <3> QED BY <3>1, <3>2, <3>3, <3>4 DEF Holds
  <2> QED BY <1>6, <2>2, <2>3, WhoStamps
<1>7. ASSUME newest' # None, First(newest)'.pc # "none", NEW r \in Run, run'[r].pc = "stamp"
      PROVE  r = <<newest', 0>>
  <2>1. CASE RouteCommit
    <3>1. newest' = tx.up /\ run' = run /\ tx.pc = "attach" /\ tx.up \in Upload /\ run[r].pc = "stamp"
      BY <1>7, <2>1 DEF RouteCommit, IInv, TxInv
    <3>2. First(tx.up).pc # "none"
      BY <1>7, <3>1 DEF First
    <3>3. job[tx.up].state = "active"
      BY <1>2, <3>1, <3>2 DEF TxOnce, JobsOnce
    <3>4. job[r[1]].state = "active"
      BY <1>3, <1>4, <2>1, <3>1, OverwrittenSeen DEF Holds
    <3>5. r[1] = tx.up
      BY <1>4, <3>1, <3>3, <3>4 DEF JobsDone
    <3> QED BY <1>4, <3>1, <3>5
  <2>2. CASE ~RouteCommit
    <3>1. newest' = newest
      BY <1>1, <2>2 DEF RouteOpen, RouteCancel, RouteCancelJob, RouteCreate, RouteSend, Fetch, PlainHandler,
             ClaimFind, ClaimAdopt, ImportRow, CheckCancelled, Finalize, Stamp, Return, historyVars, routeVars
    <3>2. newest # None /\ newest \in Upload
      BY <1>7, <3>1 DEF IInv, TypeOK
    <3>3. CASE Finalize(r) /\ Finalizable(run[r].task)
      BY <1>5, <3>1, <3>3
    <3>4. CASE run[r].pc = "stamp" /\ First(newest).pc # "none"
      BY <1>1, <3>1, <3>2, <3>4 DEF StampInOrder
    <3>5. CASE run[r].pc = "stamp" /\ First(newest).pc = "none"
      <4>1. ASSUME NEW u \in Upload, u = newest PROVE Fetch(u)
        <5>1. First(u).pc = "none" /\ First(u)'.pc # "none"
          BY <1>7, <3>1, <3>5, <4>1 DEF First
        <5> QED BY <5>1, FirstMoves
      <4>2. Fetch(newest)
        BY <3>2, <4>1
      <4>3. job[r[1]].state # "active" /\ Ousted(run[r].task)
        BY <1>3, <1>4, <3>5, <4>2 DEF Fetch, Holds
      <4>4. PICK t \in TasksOf(newest) : IsNewest(t)
        BY <1>1, <3>2 DEF NewestInv
      <4>5. run[r].task = t
        BY <1>4, <3>5, <4>3, <4>4, Types DEF Ousted, IsNewest
      <4>6. r[1] = newest
        BY <1>4, <3>5, <4>4, <4>5 DEF TasksOf
      <4> QED BY <1>4, <3>5, <4>6
    <3> QED BY <1>7, <3>3, <3>4, <3>5, WhoStamps
  <2> QED BY <2>1, <2>2
<1> QED BY <1>6, <1>7

LEMMA RowsPast ==
  ASSUME NEW u \in Upload
  PROVE  RowsOf(u) = Past(u, Len(Rows[u]))
<1>1. DOMAIN Rows[u] = 1..Len(Rows[u])
  BY RowsAssumption
<1> QED BY <1>1 DEF RowsOf, Past

\* The stamp of the newest upload's run reaches every worker of its file.
LEMMA StampReaches ==
  ASSUME IInv, BurstInv, TouchedInv, Plain, NEW u \in Upload, Stamp(<<u, 0>>), NEW t \in TasksOf(u)
  PROVE  \A w \in RowsOf(u) : lastImportTask'[w] = t
<1> DEFINE r == <<u, 0>>
<1>1. r \in Run /\ r[1] = u /\ run[r].pc = "stamp" /\ run[r].touched \subseteq Worker
  BY Types DEF Stamp, RunRow
<1> HIDE DEF r
<1>2. run[r].touched = RowsOf(u)
  BY <1>1, RowsPast DEF TouchedInv
<1>3. run[r].task \in Known /\ task[run[r].task].job = u
  BY <1>1 DEF IInv, RunInv, RunGood, BurstInv, RunsOnce
<1>4. run[r].task = t
  BY <1>3 DEF TasksOf, Plain
<1>5. lastImportTask' = [w \in Worker |-> IF w \in run[r].touched THEN run[r].task ELSE lastImportTask[w]]
  BY DEF Stamp, r
<1> QED BY <1>1, <1>2, <1>4, <1>5

LEMMA StampedStep ==
  ASSUME IInv, IInv', BurstInv, JobsDone, NothingBefore, NewestInv, StampInOrder, Stamped, TouchedInv,
         Next, BurstStep, faults = 0, faults' = 0
  PROVE  Stamped'
<1> SUFFICES ASSUME Plain', Kept', newest' # None, NEW t \in TasksOf(newest)', task'[t].status = "COMPLETED"
             PROVE  First(newest)'.pc = "stamp" \/ \A w \in RowsOf(newest') : lastImportTask'[w] = t
  BY DEF Stamped, CompletedTasks, RowsOf
<1>1. /\ Plain /\ Kept
      /\ \/ \E u \in Upload : RouteOpen(u) \/ Fetch(u)
         \/ RouteCancel \/ RouteCancelJob \/ RouteCreate \/ RouteSend \/ RouteCommit
         \/ \E r \in Run : PlainHandler(r)
  BY PlainBack, KeptBack
<1>2. ~RouteCommit
  <2> SUFFICES ASSUME RouteCommit PROVE FALSE
    OBVIOUS
  <2>1. tx.up \in Upload /\ newest' = tx.up /\ tx.pc = "attach"
    BY DEF RouteCommit, IInv, TxInv
  <2>2. tx.new \in TaskId /\ task'[tx.new] = [status |-> "PENDING", job |-> tx.up, finishedAt |-> 0]
    BY <2>1, CommittedRows DEF RouteCommit
  <2>3. tx.new \in TasksOf(newest)'
    BY <2>1, <2>2 DEF TasksOf, Known
  <2>4. t = tx.new
    BY <2>1, <2>3 DEF Plain
  <2> QED BY <2>2, <2>4
<1>3. newest' = newest
  BY <1>1, <1>2 DEF RouteOpen, RouteCancel, RouteCancelJob, RouteCreate, RouteSend, Fetch, PlainHandler,
         ClaimFind, ClaimAdopt, ImportRow, CheckCancelled, Finalize, Stamp, Return, historyVars, routeVars
<1>4. PICK u \in Upload : u = newest
  BY <1>3 DEF IInv, TypeOK
<1>5. t \in Known
  <2>1. t \in Known'
    BY DEF TasksOf
  <2> QED BY <1>2, <2>1, NewRows
<1>6. t \in TasksOf(u) /\ t \in TaskId
  BY <1>3, <1>4, <1>5, JobsStay, Types DEF TasksOf
<1> SUFFICES First(u)'.pc = "stamp" \/ \A w \in RowsOf(u) : lastImportTask'[w] = t
  BY <1>3, <1>4 DEF First
<1>7. ASSUME NEW r \in Run, Finalize(r), run[r].task = t, task[t].status = "PROCESSING"
      PROVE  First(u)'.pc = "stamp" \/ \A w \in RowsOf(u) : lastImportTask'[w] = t
  <2>1. r = <<u, 0>> /\ r[1] = u
    BY <1>1, <1>4, <1>7, FinalizesNewest DEF Finalizable
  <2>2. run[r].touched = RowsOf(u)
    BY <1>7, <2>1, RowsPast DEF TouchedInv, Finalize
  <2>3. CASE RowsOf(u) = {}
    BY <2>3
  <2>4. CASE RowsOf(u) # {}
    <3>1. Goto(r, "stamp")
      BY <1>7, <2>2, <2>4 DEF Finalize, Finalizable, StampDue
    <3>2. run'[r].pc = "stamp"
      BY <3>1, Types, GotoMoves
    <3> QED BY <2>1, <3>2 DEF First
  <2> QED BY <2>3, <2>4
<1>8. CASE task[t].status = "COMPLETED"
  <2>1. First(u).pc = "stamp" \/ \A w \in RowsOf(u) : lastImportTask[w] = t
    BY <1>1, <1>4, <1>6, <1>8, NoneAssumption DEF Stamped, CompletedTasks
  <2>2. CASE First(u).pc = "stamp"
    <3>1. ASSUME Handler(<<u, 0>>) PROVE Stamp(<<u, 0>>)
      BY <2>2, <3>1 DEF Handler, First, ClaimFind, ClaimAdopt, BootFind, BootCancel, BootCancelJob, BootCreate,
                        ImportRow, CheckCancelled, Finalize, Return
    <3>2. First(u)' = First(u) \/ Handler(<<u, 0>>)
      BY <2>2, FirstMoves
    <3> QED BY <1>1, <1>6, <2>2, <3>1, <3>2, StampReaches
  <2>3. CASE \A w \in RowsOf(u) : lastImportTask[w] = t
    <3>1. ASSUME NEW r \in Run, Stamp(r) PROVE \A w \in RowsOf(u) : lastImportTask'[w] = t
      <4>1. First(u).pc # "none"
        BY <1>6, <1>8 DEF JobsDone
      <4>2. r = <<u, 0>>
        BY <1>1, <1>4, <3>1, <4>1, NoneAssumption DEF StampInOrder, Stamp
      <4> QED BY <1>1, <1>6, <3>1, <4>2, StampReaches
    <3>2. lastImportTask' = lastImportTask \/ \E r \in Run : Stamp(r)
      BY <1>1 DEF RouteOpen, RouteCancel, RouteCancelJob, RouteCreate, RouteSend, RouteCommit, Fetch, PlainHandler,
             ClaimFind, ClaimAdopt, ImportRow, CheckCancelled, Finalize, Return, workerVars
    <3> QED BY <2>3, <3>1, <3>2
  <2> QED BY <2>1, <2>2, <2>3
<1> QED BY <1>5, <1>7, <1>8, StatusMoves

LEMMA InitSettle == Init => SettleInv
<1> SUFFICES ASSUME Init PROVE SettleInv
  OBVIOUS
<1> USE DEF Init
<1>1. Known = {} /\ Begun = {} /\ BootRuns = {} /\ \A u \in Upload : TasksOf(u) = {}
  BY DEF Known, Begun, BootRuns, Boot, NoRun, TasksOf
<1>2. \A r \in Run : run[r].pc = "none"
  BY DEF NoRun
<1>3. JobsDone
  BY <1>1 DEF JobsDone
<1>4. NothingBefore /\ NewestInv /\ Stamped
  BY <1>1 DEF NothingBefore, NewestInv, Stamped
<1>5. StampInOrder
  BY <1>2 DEF StampInOrder
<1> QED BY <1>3, <1>4, <1>5 DEF SettleInv

LEMMA SettleStep ==
  ASSUME IInv, FinishOrder, TouchedInv, faults = 0 => BurstInv, faults = 0 => SettleInv, [Next]_vars
  PROVE  (faults = 0 => SettleInv)'
<1> SUFFICES ASSUME faults' = 0 PROVE SettleInv'
  OBVIOUS
<1>1. CASE UNCHANGED vars
  BY <1>1 DEF vars, SettleInv, JobsDone, NothingBefore, NewestInv, StampInOrder, Stamped, Plain, Kept, IsNewest,
              Holds, Ousted, First, TasksOf, Known, Begun, ActiveTasks, CompletedTasks, BootRuns
<1>2. CASE Next
  <2>1. IInv' /\ faults = 0 /\ BurstInv /\ BurstStep
    BY <1>2, NextIInv, BurstSteps
  <2>2. JobsDone /\ NothingBefore /\ NewestInv /\ StampInOrder /\ Stamped
    BY <2>1 DEF SettleInv
  <2>3. JobsDone'
    BY <1>2, <2>1, <2>2, JobsDoneStep
  <2>4. NothingBefore'
    BY <1>2, <2>1, <2>2, NothingBeforeStep
  <2>5. NewestInv'
    BY <1>2, <2>1, <2>2, NewestStep
  <2>6. StampInOrder'
    BY <1>2, <2>1, <2>2, StampOrderStep
  <2>7. Stamped'
    BY <1>2, <2>1, <2>2, StampedStep
  <2> QED BY <2>3, <2>4, <2>5, <2>6, <2>7 DEF SettleInv
<1> QED BY <1>1, <1>2

\* As long as nothing has failed and no handler has bootstrapped a second task, all
\* that is active, or completed last, is the newest upload's, and the stamps follow
\* in that order.
THEOREM SettleInvariant == Spec => [](faults = 0 => SettleInv)
<1>1. Init => (faults = 0 => SettleInv)
  BY InitSettle
<1>2. /\ IInv /\ FinishOrder /\ TouchedInv
      /\ (faults = 0 => BurstInv) /\ (faults = 0 => SettleInv) /\ [Next]_vars
      => (faults = 0 => SettleInv)'
  BY SettleStep
<1> QED BY <1>1, <1>2, InductiveInvariant, FinishedInOrder, TouchedSoFar, BurstInvariant, PTL DEF Spec

\* At rest, with one task to a job id, the newest upload's task is the one that
\* finished last.
LEMMA NewestLatest ==
  ASSUME IInv, BurstInv, SettleInv, FinishOrder, Quiet, newest # None, NoBootstrap
  PROVE  /\ Plain /\ newest \in Upload
         /\ LatestCompleted \in CompletedTasks /\ LatestCompleted \in TasksOf(newest)
         /\ job[newest].state = "completed"
<1>1. newest \in Upload /\ BootRuns = {} /\ ActiveTasks = {}
  BY QuietSettled DEF IInv, TypeOK
<1>2. Plain
  BY <1>1, NoneAssumption, Types DEF NoBootstrap, Plain, TasksOf
<1>3. PICK t \in TasksOf(newest) : IsNewest(t)
  BY <1>2 DEF SettleInv, NewestInv
<1>4. t \in CompletedTasks /\ \A s \in CompletedTasks : task[s].finishedAt <= task[t].finishedAt
  BY <1>1, <1>3 DEF IsNewest
<1>5. LatestCompleted = t
  <2> DEFINE Last(x) == \A s \in CompletedTasks : task[s].finishedAt <= task[x].finishedAt
  <2>1. LatestCompleted \in CompletedTasks /\ Last(LatestCompleted)
    BY <1>4 DEF LatestCompleted
  <2>2. \A s \in CompletedTasks : task[s].finishedAt \in Nat
    BY Types DEF CompletedTasks, TaskRow
  <2>3. task[LatestCompleted].finishedAt = task[t].finishedAt
    BY <1>4, <2>1, <2>2
  <2> QED BY <1>4, <2>1, <2>3 DEF FinishOrder
<1>6. job[newest].state = "completed"
  <2>1. job[newest].state # "cancelled"
    BY <1>3 DEF IsNewest, Ousted, Quiet, NoTx
  <2>2. job[newest].state \notin {"unsent", "retry", "failed"}
    BY <1>1, <1>3 DEF BurstInv, JobsOnce
  <2>3. job[newest].state \notin {"created", "active"}
    BY <1>1 DEF Quiet, Queued
  <2>4. job[newest].state \in JobState
    BY <1>1, Types DEF JobRow
  <2> QED BY <2>1, <2>2, <2>3, <2>4 DEF JobState, Queued
<1> QED BY <1>1, <1>2, <1>3, <1>4, <1>5, <1>6

\* Unless a handler ran ahead of its route's commit, it is the last accepted upload
\* whose import completed last, and its job is reported completed.
THEOREM NewestCompletes == Spec => [](faults = 0 => NewestTakesOver)
<1>1. ASSUME IInv, FinishOrder, BurstInv, SettleInv PROVE NewestTakesOver
  BY <1>1, NewestLatest DEF NewestTakesOver, TasksOf
<1>2. /\ IInv /\ FinishOrder /\ (faults = 0 => BurstInv) /\ (faults = 0 => SettleInv)
      => (faults = 0 => NewestTakesOver)
  BY <1>1
<1> QED BY <1>2, InductiveInvariant, FinishedInOrder, BurstInvariant, SettleInvariant, PTL

\* Unless, besides, an upload cancelled a task that had just completed, every worker
\* of that last file carries its stamp in lastImportTaskId, so the next roster
\* generation takes all of them.
THEOREM LatestIsStamped == Spec => [](faults = 0 => LatestStampsItsWorkers)
<1>1. ASSUME IInv, FinishOrder, BurstInv, SettleInv PROVE LatestStampsItsWorkers
  <2> SUFFICES ASSUME Quiet, CompletedTasks # {}, NoBootstrap, NoOverwrittenTask
               PROVE  \A w \in RowsOf(task[LatestCompleted].job) : lastImportTask[w] = LatestCompleted
    BY DEF LatestStampsItsWorkers
  <2>1. newest # None
    BY <1>1 DEF SettleInv, NothingBefore, CompletedTasks, Begun, Known
  <2>2. Kept
    BY DEF NoOverwrittenTask, Kept, CompletedTasks
  <2>3. /\ Plain /\ newest \in Upload
        /\ LatestCompleted \in CompletedTasks /\ LatestCompleted \in TasksOf(newest)
    BY <1>1, <2>1, NewestLatest
  <2>4. First(newest).pc # "stamp"
    BY <1>1, <2>3, Types DEF Quiet, First
  <2>5. task[LatestCompleted].job = newest
    BY <2>3 DEF TasksOf
  <2> QED BY <1>1, <2>1, <2>2, <2>3, <2>4, <2>5 DEF SettleInv, Stamped
<1>2. /\ IInv /\ FinishOrder /\ (faults = 0 => BurstInv) /\ (faults = 0 => SettleInv)
      => (faults = 0 => LatestStampsItsWorkers)
  BY <1>1
<1> QED BY <1>2, InductiveInvariant, FinishedInOrder, BurstInvariant, SettleInvariant, PTL

-----------------------------------------------------------------------------
(* Whoever waits is waited for: the safety half of PipelineDrains           *)

AttemptOf(u) == <<u, job[u].retries>>

\* The attempts of a job start one after another: that of an active job has started, that
\* of a waiting one has not, and none beyond it.
AttemptsInTurn ==
  /\ \A u \in Upload : job[u].state = "active" => run[AttemptOf(u)].pc # "none"
  /\ \A u \in Upload : job[u].state \in Queued \cup {"unsent"} => run[AttemptOf(u)].pc = "none"
  /\ \A u \in Upload, n \in 0..RetryLimit : n > job[u].retries => run[<<u, n>>].pc = "none"

\* An upload's job is sent once, by its own transaction.
UnsentUntilSend ==
  /\ \A u \in Upload : response[u] = "idle" => job[u].state = "unsent"
  /\ IF tx.pc = "free" THEN tx = NoTx ELSE response[tx.up] # "idle"
  /\ tx.pc \in {"cancel", "cancelJob", "create", "send"} => job[tx.up].state = "unsent"

AttemptInv == AttemptsInTurn /\ UnsentUntilSend

LEMMA AttemptTypes ==
  ASSUME IInv
  PROVE  /\ \A u \in Upload : job[u].retries \in 0..RetryLimit /\ AttemptOf(u) \in Run
         /\ \A u \in Upload, n \in 0..RetryLimit : <<u, n>> \in Run
         /\ RetryLimit \in Nat
BY Types, BoundsAssumption DEF JobRow, Run, AttemptOf

\* A cancellation keeps the attempt and touches no job that was not sent.
LEMMA CancelledStates ==
  ASSUME job \in [Upload -> JobRow], NEW o, NEW u \in Upload
  PROVE  LET j == Cancelled(job, o)
         IN /\ j[u].retries = job[u].retries
            /\ j[u] = job[u] \/ (j[u].state = "cancelled" /\ job[u].state # "unsent")
BY DEF Cancelled, JobRow, Queued

\* What the statements that touch jobs or responses do to a job: it is sent by its own
\* transaction, cancelled, or left alone.
LEMMA RouteJobs ==
  ASSUME IInv, (\E u \in Upload : RouteOpen(u)) \/ Route \/ RouteRollback
  PROVE  /\ run' = run
         /\ \A u \in Upload : /\ job'[u].retries = job[u].retries
                              /\ \/ job'[u] = job[u]
                                 \/ job'[u].state = "cancelled" /\ job[u].state # "unsent"
                                 \/ tx.up = u /\ tx.pc = "send" /\ job'[u].state = "created"
         /\ \A u \in Upload : response'[u] = "idle" => response[u] = "idle"
         /\ tx'.pc \in {"cancel", "cancelJob", "create", "send"} =>
              \/ response[tx'.up] = "idle" /\ tx.pc # "send" /\ tx'.up \in Upload
              \/ tx'.up = tx.up /\ tx.up \in Upload /\ tx.pc \in {"cancel", "cancelJob", "create"}
         /\ tx'.pc # "free" => \/ response'[tx'.up] # "idle"
                               \/ tx'.up = tx.up /\ tx.up \in Upload /\ tx.pc # "free"
         /\ tx'.pc = "free" => tx' = NoTx
<1>1. /\ job \in [Upload -> JobRow] /\ None \notin Upload
      /\ response \in [Upload -> {"idle", "open", "accepted", "conflict", "error"}]
      /\ tx \in [up : Upload \cup {None}, pc : TxPc, old : 0..MaxTask, new : 0..MaxTask]
  BY Types
<1>2. tx.pc # "free" => tx.up \in Upload
  BY DEF IInv, TxInv
<1>3. ASSUME NEW u \in Upload, RouteOpen(u) PROVE tx'.up = u /\ tx.pc = "free" /\ response[u] = "idle"
  BY <1>3 DEF RouteOpen, NoTx
<1>4. CASE \E u \in Upload : RouteOpen(u)
  <2>1. run' = run /\ job' = job
    BY <1>4 DEF RouteOpen
  <2>2. \A u \in Upload : response'[u] = "idle" => response[u] = "idle"
    BY <1>1, <1>4 DEF RouteOpen
  <2>3. tx'.pc # "free" /\ response'[tx'.up] # "idle"
    BY <1>1, <1>4 DEF RouteOpen
  <2> QED BY <1>3, <1>4, <2>1, <2>2, <2>3
<1>5. CASE RouteCancel
  BY <1>1, <1>2, <1>5 DEF RouteCancel
<1>6. CASE RouteCancelJob
  <2>1. /\ run' = run /\ response' = response
        /\ tx' = [tx EXCEPT !.pc = "create"] /\ tx.pc = "cancelJob"
    BY <1>6 DEF RouteCancelJob
  <2>2. ASSUME NEW u \in Upload
        PROVE  /\ job'[u].retries = job[u].retries
               /\ job'[u] = job[u] \/ (job'[u].state = "cancelled" /\ job[u].state # "unsent")
    BY <1>1, <1>6, CancelledStates DEF RouteCancelJob
  <2> QED BY <1>1, <1>2, <2>1, <2>2
<1>7. CASE RouteCreate
  <2>1. tx.pc = "create" /\ tx.up \in Upload /\ run' = run /\ job' = job
    BY <1>2, <1>7 DEF RouteCreate
  <2>2. CASE tx' = [tx EXCEPT !.pc = "send", !.new = nextTask] /\ response' = response
    BY <1>1, <2>1, <2>2
  <2>3. CASE tx' = NoTx /\ response' = [response EXCEPT ![tx.up] = "error"]
    BY <1>1, <2>1, <2>3 DEF NoTx
  <2> QED BY <1>7, <2>2, <2>3 DEF RouteCreate
<1>8. CASE RouteSend
  BY <1>1, <1>2, <1>8 DEF RouteSend, JobRow
<1>9. CASE RouteCommit \/ RouteReject \/ RouteRollback
  BY <1>1, <1>9 DEF RouteCommit, RouteReject, RouteRollback, NoTx
<1> QED BY <1>4, <1>5, <1>6, <1>7, <1>8, <1>9 DEF Route

LEMMA HandlerJobs ==
  ASSUME IInv, NEW r \in Run, Handler(r) \/ RunDies(r)
  PROVE  /\ UNCHANGED <<tx, response>>
         /\ run[r].pc # "none" /\ run'[r].pc # "none"
         /\ \A q \in Run : q # r => run'[q] = run[q]
         /\ \A u \in Upload : /\ job'[u].retries = job[u].retries
                              /\ \/ job'[u] = job[u]
                                 \/ job'[u].state \in {"cancelled", "completed"} /\ job[u].state # "unsent"
<1>1. job \in [Upload -> JobRow] /\ run \in [Run -> RunRow]
  BY Types
<1>2. CASE RunDies(r)
  BY <1>1, <1>2 DEF RunDies, routeVars, NoRun
<1>3. CASE Handler(r)
  <2>1. UNCHANGED <<tx, response>>
    BY <1>3 DEF Handler, ClaimFind, ClaimAdopt, BootFind, BootCancel, BootCancelJob, BootCreate,
                ImportRow, CheckCancelled, Finalize, Stamp, Return, routeVars
  <2>2. run[r].pc # "none" /\ run'[r].pc # "none" /\ \A q \in Run : q # r => run'[q] = run[q]
    BY <1>3, HandlerPc, HandlerRun
  <2>3. CASE BootCancelJob(r)
    <3>1. job' = job \/ job' = Cancelled(job, task[run[r].old].job)
      BY <2>3 DEF BootCancelJob
    <3> QED BY <2>1, <2>2, <3>1, <1>1, CancelledStates
  <2>4. CASE Return(r)
    BY <1>1, <2>1, <2>2, <2>4 DEF Return, JobRow
  <2>5. CASE job' = job
    BY <2>1, <2>2, <2>5
  <2> QED BY <1>3, <2>3, <2>4, <2>5
          DEF Handler, ClaimFind, ClaimAdopt, BootFind, BootCancel, BootCreate, ImportRow,
              CheckCancelled, Finalize, Stamp
<1> QED BY <1>2, <1>3

\* A job that pg-boss takes back.
LEMMA ExpiredJob ==
  ASSUME IInv, NEW u \in Upload, JobExpire(u)
  PROVE  /\ run' = run /\ tx' = tx /\ response' = response /\ job[u].state = "active"
         /\ \A v \in Upload : v # u => job'[v] = job[v]
         /\ \/ job'[u].state = "failed" /\ job'[u].retries = job[u].retries
            \/ job'[u].state = "retry" /\ job'[u].retries = job[u].retries + 1
<1>1. job \in [Upload -> JobRow]
  BY Types
<1>2. run' = run /\ tx' = tx /\ response' = response /\ job[u].state = "active"
  BY DEF JobExpire, routeVars
<1>3. CASE job' = [job EXCEPT ![u].state = "retry", ![u].retries = @ + 1]
  BY <1>1, <1>2, <1>3 DEF JobRow
<1>4. CASE job' = [job EXCEPT ![u].state = "failed"]
  BY <1>1, <1>2, <1>4 DEF JobRow
<1> QED BY <1>3, <1>4 DEF JobExpire

\* No handler goes back to its first statement.
LEMMA NeverBack ==
  ASSUME IInv, NEW r \in Run, Handler(r) \/ RunDies(r)
  PROVE  run'[r].pc # "find"
<1>1. run \in [Run -> RunRow]
  BY Types
<1>2. \A i : LoopPc(r, i) # "find"
  BY DEF LoopPc
<1>3. CASE ClaimFind(r) \/ Return(r) \/ RunDies(r)
  BY <1>1, <1>3 DEF ClaimFind, Return, RunDies, Goto, RunRow, NoRun
<1>4. CASE ClaimAdopt(r)
  <2>1. run'[r].pc \in {LoopPc(r, 0), "return"}
    BY <1>1, <1>4 DEF ClaimAdopt, Goto, RunRow
  <2> QED BY <1>2, <2>1
<1>5. CASE BootFind(r) \/ BootCancel(r) \/ BootCancelJob(r)
  BY <1>1, <1>5 DEF BootFind, BootCancel, BootCancelJob, Goto, RunRow
<1>6. CASE BootCreate(r)
  <2>1. run'[r].pc \in {LoopPc(r, 0), "bootFind"}
    BY <1>1, <1>6 DEF BootCreate, Goto, RunRow
  <2> QED BY <1>2, <2>1
<1>7. CASE ImportRow(r)
  <2>1. run'[r].pc = LoopPc(r, run[r].i + 1)
    BY <1>1, <1>7 DEF ImportRow, RunRow
  <2> QED BY <1>2, <2>1
<1>8. CASE CheckCancelled(r) \/ Finalize(r) \/ Stamp(r)
  BY <1>1, <1>8 DEF CheckCancelled, Finalize, Stamp, Goto, RunRow
<1> QED BY <1>3, <1>4, <1>5, <1>6, <1>7, <1>8 DEF Handler

LEMMA NextAttempt ==
  ASSUME IInv, AttemptInv, [Next]_vars, IInv'
  PROVE  AttemptInv'
<1>1. /\ AttemptsInTurn /\ UnsentUntilSend
      /\ job \in [Upload -> JobRow] /\ run \in [Run -> RunRow] /\ RetryLimit \in Nat
      /\ \A u \in Upload : job[u].retries \in 0..RetryLimit /\ AttemptOf(u) \in Run
      /\ \A u \in Upload, n \in 0..RetryLimit : <<u, n>> \in Run
      /\ tx.pc # "free" => tx.up \in Upload
  BY Types, AttemptTypes DEF AttemptInv, IInv, TxInv
<1>2. CASE (\E u \in Upload : RouteOpen(u)) \/ Route \/ RouteRollback
  <2>1. /\ run' = run
        /\ \A u \in Upload : job'[u].retries = job[u].retries
        /\ \A u \in Upload : job'[u].state = "active" => job[u].state = "active"
    BY <1>2, RouteJobs
  <2>2. \A u \in Upload : AttemptOf(u)' = AttemptOf(u)
    BY <2>1 DEF AttemptOf
  <2>3. \A u \in Upload : job'[u].state \in Queued \cup {"unsent"} => job[u].state \in Queued \cup {"unsent"}
    <3>1. \A u \in Upload : tx.up = u /\ tx.pc = "send" => job[u].state = "unsent"
      BY <1>1 DEF UnsentUntilSend
    <3> QED BY <1>2, <3>1, RouteJobs DEF Queued
  <2>4. AttemptsInTurn'
    BY <1>1, <2>1, <2>2, <2>3 DEF AttemptsInTurn
  <2>5. UnsentUntilSend'
    <3>1. ASSUME NEW u \in Upload, job[u].state = "unsent", ~(tx.up = u /\ tx.pc = "send") PROVE job'[u].state = "unsent"
      BY <1>2, <3>1, RouteJobs
    <3>2. ASSUME NEW u \in Upload, response'[u] = "idle" PROVE job'[u].state = "unsent"
      <4>1. response[u] = "idle" /\ job[u].state = "unsent"
        BY <1>1, <1>2, <3>2, RouteJobs DEF UnsentUntilSend
      <4>2. ~(tx.up = u /\ tx.pc = "send")
        BY <1>1, <4>1 DEF UnsentUntilSend
      <4> QED BY <3>1, <4>1, <4>2
    <3>3. ASSUME tx'.pc \in {"cancel", "cancelJob", "create", "send"} PROVE job'[tx'.up].state = "unsent"
      <4>1. CASE response[tx'.up] = "idle" /\ tx.pc # "send" /\ tx'.up \in Upload
        BY <1>1, <3>1, <4>1 DEF UnsentUntilSend
      <4>2. CASE tx'.up = tx.up /\ tx.up \in Upload /\ tx.pc \in {"cancel", "cancelJob", "create"}
        BY <1>1, <3>1, <4>2 DEF UnsentUntilSend
      <4> QED BY <1>2, <3>3, <4>1, <4>2, RouteJobs
    <3>4. ASSUME tx'.pc # "free" PROVE response'[tx'.up] # "idle"
      <4>1. CASE tx'.up = tx.up /\ tx.up \in Upload /\ tx.pc # "free"
        BY <1>1, <1>2, <4>1, RouteJobs DEF UnsentUntilSend
      <4> QED BY <1>2, <3>4, <4>1, RouteJobs
    <3> QED BY <1>2, <3>2, <3>3, <3>4, RouteJobs DEF UnsentUntilSend
  <2> QED BY <2>4, <2>5 DEF AttemptInv
<1>3. ASSUME NEW u \in Upload, Fetch(u) PROVE AttemptInv'
  <2>1. /\ job[u].state \in Queued /\ tx' = tx /\ response' = response
        /\ job' = [job EXCEPT ![u].state = "active"]
        /\ run' = [run EXCEPT ![AttemptOf(u)] = [NoRun EXCEPT !.pc = "find"]]
    BY <1>3 DEF Fetch, routeVars, AttemptOf
  <2>2. /\ \A v \in Upload : v # u => job'[v] = job[v]
        /\ job'[u].state = "active" /\ job'[u].retries = job[u].retries
        /\ \A r \in Run : r # AttemptOf(u) => run'[r] = run[r]
        /\ run'[AttemptOf(u)].pc = "find"
    BY <1>1, <2>1 DEF JobRow, NoRun
  <2>3. \A v \in Upload : AttemptOf(v)' = AttemptOf(v) /\ (v # u => AttemptOf(v) # AttemptOf(u))
    BY <2>2 DEF AttemptOf
  <2>4. \A v \in Upload, n \in 0..RetryLimit : n > job[v].retries => <<v, n>> # AttemptOf(u)
    BY <1>1 DEF AttemptOf
  <2>5. AttemptsInTurn'
    BY <1>1, <2>2, <2>3, <2>4 DEF AttemptsInTurn, Queued
  <2>6. UnsentUntilSend'
    BY <1>1, <2>1, <2>2 DEF UnsentUntilSend, Queued
  <2> QED BY <2>5, <2>6 DEF AttemptInv
<1>4. ASSUME NEW u \in Upload, JobExpire(u) PROVE AttemptInv'
  <2>1. /\ run' = run /\ tx' = tx /\ response' = response /\ job[u].state = "active"
        /\ \A v \in Upload : v # u => job'[v] = job[v]
        /\ \/ job'[u].state = "failed" /\ job'[u].retries = job[u].retries
           \/ job'[u].state = "retry" /\ job'[u].retries = job[u].retries + 1
    BY <1>4, ExpiredJob
  <2>2. job'[u].retries \in 0..RetryLimit
    <3>1. job' \in [Upload -> JobRow]
      BY DEF IInv, TypeOK
    <3> QED BY <3>1 DEF JobRow
  <2>3. \A v \in Upload : v # u => AttemptOf(v)' = AttemptOf(v)
    BY <2>1 DEF AttemptOf
  <2>4. job'[u].state = "retry" => run[AttemptOf(u)'].pc = "none"
    <3> SUFFICES ASSUME job'[u].state = "retry" PROVE run[<<u, job'[u].retries>>].pc = "none"
      BY DEF AttemptOf
    <3>1. job'[u].retries > job[u].retries
      BY <1>1, <2>1
    <3> QED BY <1>1, <2>2, <3>1 DEF AttemptsInTurn
  <2>5. \A n \in 0..RetryLimit : n > job'[u].retries => n > job[u].retries
    BY <1>1, <2>1, <2>2
  <2>6. AttemptsInTurn'
    BY <1>1, <2>1, <2>3, <2>4, <2>5 DEF AttemptsInTurn, Queued
  <2>7. UnsentUntilSend'
    BY <1>1, <2>1 DEF UnsentUntilSend
  <2> QED BY <2>6, <2>7 DEF AttemptInv
<1>5. ASSUME NEW r \in Run, Handler(r) \/ RunDies(r) PROVE AttemptInv'
  <2>1. /\ UNCHANGED <<tx, response>> /\ run[r].pc # "none" /\ run'[r].pc # "none"
        /\ \A q \in Run : q # r => run'[q] = run[q]
    BY <1>5, HandlerJobs
  <2>2. ASSUME NEW u \in Upload
        PROVE  /\ job'[u].retries = job[u].retries
               /\ job'[u].state = job[u].state
                    \/ (job'[u].state \in {"cancelled", "completed"} /\ job[u].state # "unsent")
    BY <1>5, HandlerJobs
  <2>3. \A u \in Upload : AttemptOf(u)' = AttemptOf(u)
    BY <2>2 DEF AttemptOf
  <2>4. AttemptsInTurn'
    BY <1>1, <2>1, <2>2, <2>3 DEF AttemptsInTurn, Queued
  <2>5. UnsentUntilSend'
    BY <1>1, <2>1, <2>2 DEF UnsentUntilSend
  <2> QED BY <2>4, <2>5 DEF AttemptInv
<1>6. CASE UNCHANGED vars
  BY <1>1, <1>6 DEF AttemptInv, AttemptsInTurn, UnsentUntilSend, AttemptOf, vars
<1> QED BY <1>2, <1>3, <1>4, <1>5, <1>6 DEF Next

LEMMA AttemptInvariant == Spec => []AttemptInv
<1>1. Init => AttemptInv
  BY BoundsAssumption DEF Init, AttemptInv, AttemptsInTurn, UnsentUntilSend, AttemptOf, Run, NoRun, NoTx
<1>2. IInv /\ AttemptInv /\ [Next]_vars /\ IInv' => AttemptInv'
  BY NextAttempt
<1> QED BY <1>1, <1>2, InductiveInvariant, PTL DEF Spec

\* A handler waits for an open transaction's row, or for its entry in the unique index.
Waits(r) ==
  \/ run[r].pc \in {"adopt", "finalize"} /\ RowLocked(run[r].task)
  \/ run[r].pc = "bootCancel" /\ RowLocked(run[r].old)
  \/ run[r].pc = "bootCreate" /\ IndexInDoubt

\* As long as the pipeline is not at rest, somebody who is trusted to go on can: the open
\* transaction, which waits for nobody, pg-boss, or a handler that waits for nothing.
SomebodyMoves ==
  ~Quiet =>
    \/ tx.pc # "free"
    \/ \E u \in Upload : job[u].state \in Queued /\ \A v \in Upload : job[v].state # "active"
    \/ \E u \in Upload : job[u].state = "active" /\ run[AttemptOf(u)].pc = "ended"
    \/ \E r \in Run : run[r].pc \notin {"none", "ended"} /\ ~Waits(r)

\* Nobody waits for ever for somebody who waits, or who is gone, whatever has failed:
\* locks are held by the route alone, and every active job has a handler or has lost it
\* (beginAndEnqueueImport, claimTask, cancelAndCreateTask).
THEOREM NobodyWaitsInVain == Spec => []SomebodyMoves
<1>1. IInv /\ AttemptInv => SomebodyMoves
  <2> SUFFICES ASSUME IInv, AttemptInv, ~Quiet, tx.pc = "free"
               PROVE  \/ \E u \in Upload : job[u].state \in Queued /\ \A v \in Upload : job[v].state # "active"
                      \/ \E u \in Upload : job[u].state = "active" /\ run[AttemptOf(u)].pc = "ended"
                      \/ \E r \in Run : run[r].pc \notin {"none", "ended"} /\ ~Waits(r)
    BY DEF SomebodyMoves
  <2>1. tx.new = NoTask /\ \A t : ~RowLocked(t)
    BY DEF IInv, TxInv, RowLocked
  <2>2. \A r \in Run : ~Waits(r)
    BY <2>1 DEF Waits, IndexInDoubt
  <2>3. CASE \E r \in Run : run[r].pc \notin {"none", "ended"}
    BY <2>2, <2>3
  <2>4. CASE \E u \in Upload : job[u].state \in Queued \cup {"active"}
    <3>1. CASE \E u \in Upload : job[u].state = "active"
      <4>1. PICK u \in Upload : job[u].state = "active"
        BY <3>1
      <4>2. AttemptOf(u) \in Run /\ run[AttemptOf(u)].pc # "none"
        BY <4>1, AttemptTypes DEF AttemptInv, AttemptsInTurn
      <4> QED BY <2>2, <4>1, <4>2
    <3>2. CASE \A u \in Upload : job[u].state # "active"
      BY <2>4, <3>2
    <3> QED BY <3>1, <3>2
  <2>5. tx = NoTx
    BY DEF AttemptInv, UnsentUntilSend
  <2> QED BY <2>3, <2>4, <2>5 DEF Quiet
<1> QED BY <1>1, InductiveInvariant, AttemptInvariant, PTL

\* No attempt of a job is started twice, so no two handlers run for one attempt, and jobs
\* end within their retries (pg-boss's retries, claimTask).
AttemptsStartOnce ==
  [][\A r \in Run : run[r].pc # "none" =>
       run'[r].pc # "none" /\ (run'[r].pc = "find" => run[r].pc = "find")]_vars

THEOREM AttemptsOnce == Spec => AttemptsStartOnce
<1> DEFINE Step == \A r \in Run : run[r].pc # "none" =>
                     run'[r].pc # "none" /\ (run'[r].pc = "find" => run[r].pc = "find")
<1>1. IInv /\ AttemptInv /\ [Next]_vars => [Step]_vars
  <2> SUFFICES ASSUME IInv, AttemptInv, [Next]_vars, NEW q \in Run, run[q].pc # "none"
               PROVE  run'[q].pc # "none" /\ (run'[q].pc = "find" => run[q].pc = "find")
    OBVIOUS
  <2>1. CASE run'[q] = run[q]
    BY <2>1
  <2>2. ASSUME NEW r \in Run, Handler(r) \/ RunDies(r)
        PROVE  run'[q] = run[q] \/ (run'[q].pc # "none" /\ run'[q].pc # "find")
    <3>1. CASE q # r
      BY <2>2, <3>1, HandlerJobs
    <3>2. CASE q = r
      BY <2>2, <3>2, HandlerJobs, NeverBack
    <3> QED BY <3>1, <3>2
  <2>3. ASSUME NEW u \in Upload, Fetch(u) PROVE run'[q] = run[q]
    <3>1. run[AttemptOf(u)].pc = "none" /\ run' = [run EXCEPT ![AttemptOf(u)] = [NoRun EXCEPT !.pc = "find"]]
      BY <2>3 DEF Fetch, AttemptInv, AttemptsInTurn, AttemptOf, Queued
    <3> QED BY <3>1, Types
  <2>4. ASSUME NEW u \in Upload, JobExpire(u) PROVE run'[q] = run[q]
    BY <2>4, ExpiredJob
  <2>5. CASE (\E u \in Upload : RouteOpen(u)) \/ Route \/ RouteRollback
    BY <2>1, <2>5, RouteJobs
  <2>6. CASE UNCHANGED vars
    BY <2>6 DEF vars
  <2> QED BY <2>1, <2>2, <2>3, <2>4, <2>5, <2>6 DEF Next
<1>2. [][Step]_vars => AttemptsStartOnce
  BY PTL DEF AttemptsStartOnce
<1> HIDE DEF Step
<1> QED BY <1>1, <1>2, InductiveInvariant, AttemptInvariant, PTL DEF Spec
=============================================================================
