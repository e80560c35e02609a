----------------------- MODULE RosterLifecycleProofs -----------------------
(***************************************************************************)
(* Proofs about RosterLifecycle, for every set of workers, requests, edits,*)
(* publishers and readers and every value of the bounds.                   *)
(***************************************************************************)
EXTENDS RosterLifecycle, FiniteSetTheorems, TLAPS

RosterRow == [status : {"none", "DRAFT", "PUBLISHED"}, gen : Nat,
              plan : SUBSET Worker, alerts : SUBSET Alert]
JobRow == [state : JobState, retries : 0..RetryLimit]
RunRow == [pc : {"none", "latest", "pool", "persist", "return", "ended"},
           latest : 0..MaxImports, pool : SUBSET Worker]
RequestRow == [pc : {"idle", "send", "accepted", "inFlight", "isPublished"}, seen : Nat]
EditRow == [pc : {"idle", "write", "ended"}, gen : Nat, worker : Worker \cup {None},
            adds : BOOLEAN]

\* Generations are numbered by the transactions that wrote them, and every alert
\* by its generation or a later edit, acknowledged or not.
AlertsFresh == roster.gen <= serial /\ \A a \in roster.alerts : a.id >= roster.gen

\* Only an accepted request has a job, and only a job has runs.
Accepted ==
  /\ \A u \in Request : job[u].state # "unsent" => request[u].pc = "accepted"
  /\ \A r \in Run : run[r].pc # "none" => request[r[1]].pc = "accepted"

\* An unforced request past its check saw fewer publications than there are now, if
\* the month is published now.
SeenBefore ==
  /\ \A u \in Request : request[u].seen <= Len(published)
  /\ \A u \in Request \ Forced :
       request[u].pc \in {"send", "accepted"} /\ roster.status = "PUBLISHED"
         => request[u].seen < Len(published)

\* An edit that has been judged is of one of the workers.
EditsName == \A e \in Editor : edit[e].pc = "write" => edit[e].worker \in Worker

\* A month is published, or a reader let in, only after a first publication, and what
\* that one published is no newer than the month is.
FirstPublished ==
  /\ roster.status = "PUBLISHED" => published # <<>>
  /\ \A d \in Reader : reader[d].pc = "plan" => published # <<>>
  /\ published # <<>> => published[1] <= roster.gen

IInv == /\ TypeOK /\ EditsName /\ AlertsFresh /\ NoGhostWorker /\ Accepted /\ SeenBefore
        /\ FirstPublished /\ NothingBeforePublication

-----------------------------------------------------------------------------
(* Types *)

LEMMA RaisedType ==
  ASSUME NEW targets \in SUBSET (Worker \cup {None}), NEW id \in Nat
  PROVE  /\ Raised(targets, id) \in SUBSET Alert
         /\ \A a \in Raised(targets, id) : a.id = id
BY DEF Raised, Alert

LEMMA TargetsType ==
  ASSUME NEW staff \in SUBSET Worker, NEW plan
  PROVE  Targets(staff, plan) \in SUBSET (Worker \cup {None})
BY DEF Targets

LEMMA RewrittenType ==
  ASSUME serial \in Nat, NEW staff \in SUBSET Worker, NEW plan \in SUBSET Worker
  PROVE  /\ Rewritten(staff, plan) \in RosterRow
         /\ Rewritten(staff, plan).status = "DRAFT"
         /\ Rewritten(staff, plan).plan = plan
         /\ Rewritten(staff, plan).gen = serial + 1
         /\ \A a \in Rewritten(staff, plan).alerts : a.id = serial + 1
<1>1. Raised(Targets(staff, plan), serial + 1) \in SUBSET Alert
  BY TargetsType, RaisedType
<1>2. \A a \in Raised(Targets(staff, plan), serial + 1) : a.id = serial + 1
  BY TargetsType, RaisedType
<1> QED BY <1>1, <1>2 DEF Rewritten, RosterRow

\* What persisting and editing do to the roster, in the words the invariant uses.
LEMMA PersistEffect ==
  ASSUME TypeOK, NEW r \in Run, Persist(r)
  PROVE  /\ run[r].pc = "persist"
         /\ \/ /\ roster' \in RosterRow
               /\ roster'.status = "DRAFT" /\ roster'.gen = serial + 1
               /\ \A a \in roster'.alerts : a.id = serial + 1
               /\ \A w \in roster'.plan : worker[w].status # "deleted"
               /\ serial' = serial + 1
               /\ Goto(r, "return")
            \/ Goto(r, "ended") /\ UNCHANGED <<roster, serial>>
<1>1. run[r].pc = "persist"
  BY DEF Persist
<1>2. PICK plan \in Solutions(run[r].pool) :
        IF Exist(plan)
        THEN /\ roster' = Rewritten(run[r].pool, plan)
             /\ serial' = serial + 1
             /\ Goto(r, "return")
        ELSE Goto(r, "ended") /\ UNCHANGED <<roster, serial>>
  BY DEF Persist
<1>3. run[r].pool \in SUBSET Worker /\ serial \in Nat
  BY DEF TypeOK
<1>4. plan \in SUBSET Worker
  BY <1>3 DEF Solutions
<1>5. CASE Exist(plan)
  <2>1. roster' = Rewritten(run[r].pool, plan) /\ serial' = serial + 1 /\ Goto(r, "return")
    BY <1>2, <1>5
  <2>2. /\ Rewritten(run[r].pool, plan) \in RosterRow
        /\ Rewritten(run[r].pool, plan).status = "DRAFT"
        /\ Rewritten(run[r].pool, plan).plan = plan
        /\ Rewritten(run[r].pool, plan).gen = serial + 1
        /\ \A a \in Rewritten(run[r].pool, plan).alerts : a.id = serial + 1
    BY <1>3, <1>4, RewrittenType
  <2>3. \A w \in plan : worker[w].status # "deleted"
    BY <1>5 DEF Exist
  <2> QED BY <1>1, <2>1, <2>2, <2>3
<1>6. CASE ~Exist(plan)
  BY <1>1, <1>2, <1>6
<1> QED BY <1>5, <1>6

LEMMA EditEffect ==
  ASSUME TypeOK, AlertsFresh, EditsName, NEW e \in Editor, EditWrite(e)
  PROVE  \/ /\ roster' \in RosterRow
            /\ roster'.status = roster.status /\ roster'.gen = roster.gen
            /\ \A a \in roster'.alerts : a.id >= roster.gen
            /\ \A w \in roster'.plan : w \in roster.plan \/ worker[w].status # "deleted"
            /\ serial' = serial + 1
         \/ UNCHANGED <<roster, serial>>
<1> DEFINE w == edit[e].worker
           plan == IF edit[e].adds THEN roster.plan \cup {w} ELSE roster.plan \ {w}
           targets == Targets(ActiveWorkers, plan)
           alerts == Reconciled(roster.alerts, targets, serial + 1)
<1>1. roster \in RosterRow /\ serial \in Nat
  BY DEF TypeOK, RosterRow
<1>2. CASE ~Applies(e)
  BY <1>2 DEF EditWrite
<1>3. CASE Applies(e)
  <2>1. roster' = [roster EXCEPT !.plan = plan, !.alerts = alerts] /\ serial' = serial + 1
    BY <1>3 DEF EditWrite
  <2>2. plan \in SUBSET Worker /\ \A x \in plan : x \in roster.plan \/ worker[x].status # "deleted"
    <3>1. w \in Worker
      BY DEF EditWrite, EditsName
    <3>2. edit[e].adds => worker[w].status # "deleted"
      BY <1>3 DEF Applies, Exist
    <3> QED BY <1>1, <3>1, <3>2 DEF RosterRow
  <2>3. alerts \in SUBSET Alert /\ \A a \in alerts : a.id >= roster.gen
    <3>1. targets \in SUBSET (Worker \cup {None})
      BY TargetsType DEF ActiveWorkers
    <3> DEFINE fresh == targets \ {a.about : a \in roster.alerts}
    <3>2. Raised(fresh, serial + 1) \in SUBSET Alert /\ \A a \in Raised(fresh, serial + 1) : a.id = serial + 1
      <4> HIDE DEF targets
      <4> QED BY <1>1, <3>1, RaisedType
    <3>3. alerts = {a \in roster.alerts : a.about \in targets} \cup Raised(fresh, serial + 1)
      BY DEF Reconciled
    <3>4. roster.gen \in Nat /\ roster.alerts \in SUBSET Alert
      BY <1>1 DEF RosterRow
    <3>5. roster.gen <= serial /\ \A a \in roster.alerts : a.id >= roster.gen
      BY DEF AlertsFresh
    <3> HIDE DEF targets, fresh, alerts
    <3> QED BY <1>1, <3>2, <3>3, <3>4, <3>5
  <2> HIDE DEF plan, alerts
  <2>4. roster' \in RosterRow /\ roster'.status = roster.status /\ roster'.gen = roster.gen
    BY <1>1, <2>1, <2>2, <2>3 DEF RosterRow
  <2>5. roster'.plan = plan /\ roster'.alerts = alerts
    BY <1>1, <2>1 DEF RosterRow
  <2> QED BY <2>1, <2>2, <2>3, <2>4, <2>5
<1> QED BY <1>2, <1>3

LEMMA AckEffect ==
  ASSUME TypeOK, NEW a \in roster.alerts, Ack(a)
  PROVE  /\ roster' \in RosterRow
         /\ roster'.status = roster.status /\ roster'.gen = roster.gen
         /\ roster'.plan = roster.plan
         /\ \A b \in roster'.alerts : \E c \in roster.alerts : b.id = c.id
<1>1. roster \in RosterRow /\ a \in Alert
  BY DEF TypeOK, RosterRow
<1>2. [a EXCEPT !.acked = TRUE] \in Alert /\ [a EXCEPT !.acked = TRUE].id = a.id
  BY <1>1 DEF Alert
<1>3. roster' = [roster EXCEPT !.alerts = (roster.alerts \ {a}) \cup {[a EXCEPT !.acked = TRUE]}]
  BY DEF Ack
<1> QED BY <1>1, <1>2, <1>3 DEF RosterRow

LEMMA RunsTyped ==
  ASSUME TypeOK, NEW r \in Run, NEW pc \in {"latest", "pool", "persist", "return", "ended"}, Goto(r, pc)
  PROVE  run' \in [Run -> RunRow]
<1>1. run \in [Run -> RunRow]
  BY DEF TypeOK, RunRow
<1>2. [run[r] EXCEPT !.pc = pc] \in RunRow
  BY <1>1 DEF RunRow
<1> QED BY <1>1, <1>2 DEF Goto

LEMMA InitIInv == Init => IInv
<1> SUFFICES ASSUME Init PROVE IInv
  OBVIOUS
<1> USE RosterConstants DEF Init
<1>1. TypeOK
  BY DEF TypeOK, JobState, Queued, NoRun, NoEdit
<1>2. EditsName /\ AlertsFresh /\ NoGhostWorker /\ Accepted /\ SeenBefore
  BY DEF EditsName, NoEdit, AlertsFresh, NoGhostWorker, Accepted, NoRun, SeenBefore
<1>3. FirstPublished /\ NothingBeforePublication
  BY DEF FirstPublished, NothingBeforePublication
<1> QED BY <1>1, <1>2, <1>3 DEF IInv

\* The route and the queue.
LEMMA QueueTypeOK ==
  ASSUME TypeOK, NEW u \in Request, RequestCheck(u) \/ RequestSend(u) \/ Fetch(u) \/ JobExpire(u)
  PROVE  TypeOK'
<1> USE RosterConstants DEF staffVars, clientVars, requestVars
<1>1. /\ request \in [Request -> RequestRow] /\ job \in [Request -> JobRow]
      /\ run \in [Run -> RunRow] /\ Len(published) \in Nat
  BY DEF TypeOK, RequestRow, JobRow, RunRow
<1>2. CASE RequestCheck(u)
  <2>1. request' \in [Request -> RequestRow]
    BY <1>1, <1>2 DEF RequestCheck, RequestRow
  <2> QED BY <1>2, <2>1 DEF RequestCheck, TypeOK, RequestRow
<1>3. CASE RequestSend(u)
  <2>1. \A pc \in {"inFlight", "accepted"} : [request[u] EXCEPT !.pc = pc] \in RequestRow
    BY <1>1 DEF RequestRow
  <2>2. [job[u] EXCEPT !.state = "created"] \in JobRow
    BY <1>1 DEF JobRow, JobState, Queued
  <2>3. request' \in [Request -> RequestRow] /\ job' \in [Request -> JobRow]
    BY <1>1, <1>3, <2>1, <2>2 DEF RequestSend
  <2> QED BY <1>3, <2>3 DEF RequestSend, TypeOK, RequestRow, JobRow
<1>4. CASE Fetch(u)
  <2>1. job' \in [Request -> JobRow]
    BY <1>1, <1>4 DEF Fetch, JobRow, JobState, Queued
  <2>2. [NoRun EXCEPT !.pc = "latest"] \in RunRow
    BY DEF NoRun, RunRow
  <2>3. run' \in [Run -> RunRow]
    BY <1>1, <1>4, <2>2 DEF Fetch
  <2> QED BY <1>4, <2>1, <2>3 DEF Fetch, TypeOK, JobRow, RunRow
<1>5. CASE JobExpire(u)
  <2>1. job[u].retries \in 0..RetryLimit /\ job[u] \in JobRow
    BY <1>1 DEF JobRow
  <2>2. job' \in [Request -> JobRow]
    <3> DEFINE retried == [state |-> "retry", retries |-> job[u].retries + 1]
    <3>1. [job[u] EXCEPT !.state = "failed"] \in JobRow
      BY <2>1 DEF JobRow, JobState
    <3>2. RetriesLeft(u) => retried \in JobRow
      BY <2>1 DEF RetriesLeft, JobRow, JobState, Queued
    <3>3. CASE RetriesLeft(u) /\ \A v \in Request : job[v].state # "retry"
      <4>1. job' = [job EXCEPT ![u].state = "retry", ![u].retries = @ + 1]
        BY <1>5, <3>3 DEF JobExpire
      <4>2. job' = [job EXCEPT ![u] = retried]
        BY <1>1, <4>1 DEF JobRow
      <4> HIDE DEF retried
      <4> QED BY <1>1, <3>2, <3>3, <4>2
    <3>4. CASE ~(RetriesLeft(u) /\ \A v \in Request : job[v].state # "retry")
      <4>1. job' = [job EXCEPT ![u].state = "failed"]
        BY <1>5, <3>4 DEF JobExpire
      <4> QED BY <1>1, <3>1, <4>1
    <3> QED BY <3>3, <3>4
  <2>3. faults' \in 0..MaxFaults
    BY <1>5 DEF JobExpire, Fault, TypeOK
  <2> QED BY <1>5, <2>2, <2>3 DEF JobExpire, TypeOK, JobRow
<1> QED BY <1>2, <1>3, <1>4, <1>5

LEMMA RunTypeOK ==
  ASSUME TypeOK, NEW r \in Run, Handler(r) \/ RunDies(r)
  PROVE  TypeOK'
<1> USE RosterConstants DEF staffVars, clientVars, requestVars
<1>1. /\ job \in [Request -> JobRow] /\ run \in [Run -> RunRow] /\ r[1] \in Request
      /\ latest \in 0..MaxImports
  BY DEF TypeOK, JobRow, RunRow, Run
<1>2. CASE ReadLatest(r)
  <2>1. run' \in [Run -> RunRow]
    BY <1>1, <1>2 DEF ReadLatest, RunRow
  <2> QED BY <1>2, <2>1 DEF ReadLatest, TypeOK, RunRow
<1>3. CASE ReadPool(r)
  <2>1. {w \in ActiveWorkers : worker[w].stamp \in {0, run[r].latest}} \in SUBSET Worker
    BY DEF ActiveWorkers
  <2>2. run' \in [Run -> RunRow]
    BY <1>1, <1>3, <2>1 DEF ReadPool, RunRow
  <2> QED BY <1>3, <2>2 DEF ReadPool, TypeOK, RunRow
<1>4. CASE Persist(r)
  <2>1. roster' \in RosterRow /\ serial' \in Nat
    BY <1>4, PersistEffect DEF TypeOK, RosterRow
  <2>2. run' \in [Run -> RunRow]
    BY <1>4, PersistEffect, RunsTyped
  <2> QED BY <1>4, <2>1, <2>2 DEF Persist, TypeOK, RunRow, RosterRow
<1>5. CASE Return(r)
  <2>1. run' \in [Run -> RunRow]
    BY <1>5, RunsTyped DEF Return
  <2>2. job' \in [Request -> JobRow]
    BY <1>1, <1>5 DEF Return, JobRow, JobState
  <2> QED BY <1>5, <2>1, <2>2 DEF Return, TypeOK, RunRow, JobRow
<1>6. CASE RunDies(r)
  <2>1. run' \in [Run -> RunRow]
    BY <1>6, RunsTyped DEF RunDies
  <2> QED BY <1>6, <2>1 DEF RunDies, Fault, TypeOK, RunRow
<1> QED BY <1>2, <1>3, <1>4, <1>5, <1>6 DEF Handler

LEMMA PlannerTypeOK ==
  ASSUME TypeOK, AlertsFresh, EditsName,
         \/ \E e \in Editor : EditRead(e) \/ EditWrite(e)
         \/ \E a \in roster.alerts : Ack(a)
         \/ \E p \in Publisher : PublishCheck(p) \/ PublishUpdate(p)
         \/ \E d \in Reader : ReadRoster(d) \/ ReadShifts(d)
  PROVE  TypeOK'
<1> USE RosterConstants DEF staffVars, jobVars, clientVars
<1>1. roster \in RosterRow /\ edit \in [Editor -> EditRow] /\ serial \in Nat
  BY DEF TypeOK, RosterRow, EditRow
<1>2. ASSUME NEW e \in Editor, EditRead(e) PROVE TypeOK'
  <2>1. PICK w \in Worker, adds \in BOOLEAN :
          edit' = [edit EXCEPT ![e] = [pc |-> "write", gen |-> roster.gen, worker |-> w,
                                       adds |-> adds]]
    BY <1>2 DEF EditRead
  <2>2. [pc |-> "write", gen |-> roster.gen, worker |-> w, adds |-> adds] \in EditRow
    BY <1>1 DEF EditRow, RosterRow
  <2>3. edit' \in [Editor -> EditRow]
    BY <1>1, <2>1, <2>2
  <2> QED BY <1>2, <2>3 DEF EditRead, TypeOK, EditRow
<1>3. ASSUME NEW e \in Editor, EditWrite(e) PROVE TypeOK'
  <2>1. roster' \in RosterRow /\ serial' \in Nat
    BY <1>1, <1>3, EditEffect
  <2>2. edit' \in [Editor -> EditRow]
    BY <1>1, <1>3 DEF EditWrite, EditRow
  <2> QED BY <1>3, <2>1, <2>2 DEF EditWrite, TypeOK, EditRow, RosterRow
<1>4. ASSUME NEW a \in roster.alerts, Ack(a) PROVE TypeOK'
  <2>1. roster' \in RosterRow
    BY <1>4, AckEffect
  <2> QED BY <1>4, <2>1 DEF Ack, TypeOK, RosterRow
<1>5. ASSUME NEW p \in Publisher, PublishCheck(p) PROVE TypeOK'
  BY <1>5 DEF PublishCheck, TypeOK
<1>6. ASSUME NEW p \in Publisher, PublishUpdate(p) PROVE TypeOK'
  <2>1. roster' \in RosterRow
    BY <1>1, <1>6 DEF PublishUpdate, RosterRow
  <2>2. published' \in Seq(Nat)
    BY <1>1, <1>6 DEF PublishUpdate, TypeOK, RosterRow
  <2> QED BY <1>6, <2>1, <2>2 DEF PublishUpdate, TypeOK, RosterRow
<1>7. ASSUME NEW d \in Reader, ReadRoster(d) \/ ReadShifts(d) PROVE TypeOK'
  <2> DEFINE ReaderRow == [pc : {"idle", "plan", "ended"}, gen : Nat]
  <2>1. reader \in [Reader -> ReaderRow] /\ roster.gen \in Nat
    BY <1>1 DEF TypeOK, RosterRow
  <2>2. \A pc \in {"plan", "ended"} : [reader[d] EXCEPT !.pc = pc] \in ReaderRow
    BY <2>1
  <2>3. [pc |-> "ended", gen |-> roster.gen] \in ReaderRow
    BY <2>1
  <2>4. reader' \in [Reader -> ReaderRow]
    <3> HIDE DEF ReaderRow
    <3> QED BY <1>7, <2>1, <2>2, <2>3 DEF ReadRoster, ReadShifts
  <2> QED BY <1>7, <2>4 DEF ReadRoster, ReadShifts, TypeOK
<1> QED BY <1>2, <1>3, <1>4, <1>5, <1>6, <1>7

LEMMA StaffTypeOK ==
  ASSUME TypeOK,
         \/ \E w \in Worker : SetStatus(w) \/ Delete(w)
         \/ ImportFinalize \/ ImportStamp
  PROVE  TypeOK'
<1> DEFINE WorkerRow == [status : {"ACTIVE", "INACTIVE", "deleted"}, stamp : 0..MaxImports]
<1> USE RosterConstants DEF rosterVars, jobVars, clientVars
<1>1. /\ worker \in [Worker -> WorkerRow] /\ latest \in 0..MaxImports
      /\ unstamped \in SUBSET Worker
  BY DEF TypeOK
<1>2. UNCHANGED rosterVars
  BY DEF SetStatus, Delete, ImportFinalize, ImportStamp
<1>3. SUFFICES /\ worker' \in [Worker -> WorkerRow] /\ latest' \in 0..MaxImports
               /\ unstamped' \in SUBSET Worker
  BY <1>2 DEF TypeOK
<1>4. ASSUME NEW w \in Worker, NEW s \in {"ACTIVE", "INACTIVE", "deleted"}
      PROVE  [worker EXCEPT ![w].status = s] \in [Worker -> WorkerRow]
  <2>1. [worker[w] EXCEPT !.status = s] \in WorkerRow
    BY <1>1
  <2> HIDE DEF WorkerRow
  <2> QED BY <1>1, <2>1
<1>5. ASSUME NEW w \in Worker PROVE [worker[w] EXCEPT !.stamp = latest] \in WorkerRow
  BY <1>1
<1> HIDE DEF WorkerRow
<1>6. ASSUME NEW w \in Worker, SetStatus(w) \/ Delete(w)
      PROVE  worker' \in [Worker -> WorkerRow]
  <2>1. CASE SetStatus(w)
    <3>1. PICK s \in {"ACTIVE", "INACTIVE"} : worker' = [worker EXCEPT ![w].status = s]
      BY <2>1 DEF SetStatus
    <3> QED BY <1>4, <3>1
  <2>2. CASE Delete(w)
    BY <1>4, <2>2 DEF Delete
  <2> QED BY <1>6, <2>1, <2>2
<1>7. CASE ImportFinalize
  BY <1>1, <1>7 DEF ImportFinalize
<1>8. CASE ImportStamp
  BY <1>1, <1>5, <1>8 DEF ImportStamp
<1>9. ASSUME NEW w \in Worker, SetStatus(w) \/ Delete(w)
      PROVE  latest' \in 0..MaxImports /\ unstamped' \in SUBSET Worker
  BY <1>1, <1>9 DEF SetStatus, Delete
<1> QED BY <1>6, <1>7, <1>8, <1>9

\* Every variable keeps its type.
LEMMA NextTypeOK ==
  ASSUME TypeOK, AlertsFresh, EditsName, [Next]_vars
  PROVE  TypeOK'
<1>1. CASE \E u \in Request : RequestCheck(u) \/ RequestSend(u) \/ Fetch(u) \/ JobExpire(u)
  BY <1>1, QueueTypeOK
<1>2. CASE \E r \in Run : Handler(r) \/ RunDies(r)
  BY <1>2, RunTypeOK
<1>3. CASE \/ \E e \in Editor : EditRead(e) \/ EditWrite(e)
           \/ \E a \in roster.alerts : Ack(a)
           \/ \E p \in Publisher : PublishCheck(p) \/ PublishUpdate(p)
           \/ \E d \in Reader : ReadRoster(d) \/ ReadShifts(d)
  BY <1>3, PlannerTypeOK
<1>4. CASE \/ \E w \in Worker : SetStatus(w) \/ Delete(w)
           \/ ImportFinalize \/ ImportStamp
  BY <1>4, StaffTypeOK
<1>5. CASE UNCHANGED vars
  BY <1>5 DEF vars, TypeOK
<1> QED BY <1>1, <1>2, <1>3, <1>4, <1>5 DEF Next

-----------------------------------------------------------------------------
(* The other parts of the invariant *)

\* The steps that write neither the roster nor a worker.
Elsewhere ==
  \/ \E u \in Request : RequestCheck(u) \/ RequestSend(u) \/ Fetch(u) \/ JobExpire(u)
  \/ \E r \in Run : ReadLatest(r) \/ ReadPool(r) \/ Return(r) \/ RunDies(r)
  \/ \E e \in Editor : EditRead(e)
  \/ \E p \in Publisher : PublishCheck(p)
  \/ \E d \in Reader : ReadRoster(d) \/ ReadShifts(d)
  \/ UNCHANGED vars

LEMMA NextSplit ==
  [Next]_vars <=>
    \/ Elsewhere
    \/ \E r \in Run : Persist(r)
    \/ \E e \in Editor : EditWrite(e)
    \/ \E a \in roster.alerts : Ack(a)
    \/ \E p \in Publisher : PublishUpdate(p)
    \/ \E w \in Worker : SetStatus(w) \/ Delete(w)
    \/ ImportFinalize \/ ImportStamp
BY DEF Elsewhere, Next, Handler

LEMMA ElsewhereEffect == Elsewhere => UNCHANGED <<roster, serial, worker>>
BY DEF Elsewhere, RequestCheck, RequestSend, Fetch, JobExpire, ReadLatest, ReadPool, Return,
       RunDies, EditRead, PublishCheck, ReadRoster, ReadShifts, vars, staffVars

LEMMA StaffEffect ==
  ASSUME \/ \E w \in Worker : SetStatus(w) \/ Delete(w)
         \/ ImportFinalize \/ ImportStamp
  PROVE  UNCHANGED rosterVars
BY DEF SetStatus, Delete, ImportFinalize, ImportStamp

LEMMA NextAlertsFresh ==
  ASSUME IInv, [Next]_vars
  PROVE  AlertsFresh'
<1>1. TypeOK /\ EditsName /\ AlertsFresh /\ roster.gen \in Nat /\ serial \in Nat
  BY DEF IInv, TypeOK
<1>2. CASE Elsewhere
  BY <1>1, <1>2, ElsewhereEffect DEF AlertsFresh
<1>3. ASSUME NEW r \in Run, Persist(r) PROVE AlertsFresh'
  BY <1>1, <1>3, PersistEffect DEF AlertsFresh
<1>4. ASSUME NEW e \in Editor, EditWrite(e) PROVE AlertsFresh'
  BY <1>1, <1>4, EditEffect DEF AlertsFresh
<1>5. ASSUME NEW a \in roster.alerts, Ack(a) PROVE AlertsFresh'
  <2>1. serial' = serial
    BY <1>5 DEF Ack
  <2> QED BY <1>1, <1>5, <2>1, AckEffect DEF AlertsFresh
<1>6. ASSUME NEW p \in Publisher, PublishUpdate(p) PROVE AlertsFresh'
  <2>1. roster' = [roster EXCEPT !.status = "PUBLISHED"] /\ serial' = serial
    BY <1>6 DEF PublishUpdate
  <2>2. roster'.alerts = roster.alerts /\ roster'.gen = roster.gen
    BY <1>1, <2>1 DEF TypeOK
  <2> QED BY <1>1, <2>1, <2>2 DEF AlertsFresh
<1>7. CASE \/ \E w \in Worker : SetStatus(w) \/ Delete(w)
           \/ ImportFinalize \/ ImportStamp
  BY <1>1, <1>7, StaffEffect DEF AlertsFresh, rosterVars
<1> QED BY <1>2, <1>3, <1>4, <1>5, <1>6, <1>7, NextSplit

LEMMA NextNoGhostWorker ==
  ASSUME IInv, [Next]_vars
  PROVE  NoGhostWorker'
<1>1. /\ TypeOK /\ EditsName /\ AlertsFresh /\ NoGhostWorker
      /\ roster \in RosterRow /\ roster.plan \in SUBSET Worker
  BY DEF IInv, TypeOK, RosterRow
<1>2. CASE Elsewhere
  BY <1>1, <1>2, ElsewhereEffect DEF NoGhostWorker
<1>3. ASSUME NEW r \in Run, Persist(r) PROVE NoGhostWorker'
  <2>1. worker' = worker
    BY <1>3 DEF Persist, staffVars
  <2> QED BY <1>1, <1>3, <2>1, PersistEffect DEF NoGhostWorker
<1>4. ASSUME NEW e \in Editor, EditWrite(e) PROVE NoGhostWorker'
  <2>1. worker' = worker
    BY <1>4 DEF EditWrite, staffVars
  <2> QED BY <1>1, <1>4, <2>1, EditEffect DEF NoGhostWorker
<1>5. ASSUME NEW a \in roster.alerts, Ack(a) PROVE NoGhostWorker'
  <2>1. worker' = worker
    BY <1>5 DEF Ack, staffVars
  <2> QED BY <1>1, <1>5, <2>1, AckEffect DEF NoGhostWorker
<1>6. ASSUME NEW p \in Publisher, PublishUpdate(p) PROVE NoGhostWorker'
  <2>1. worker' = worker /\ roster' = [roster EXCEPT !.status = "PUBLISHED"]
    BY <1>6 DEF PublishUpdate, staffVars
  <2>2. roster'.plan = roster.plan
    BY <1>1, <2>1 DEF RosterRow
  <2> QED BY <1>1, <2>1, <2>2 DEF NoGhostWorker
<1>7. ASSUME NEW w \in Worker, SetStatus(w) PROVE NoGhostWorker'
  <2>1. roster' = roster
    BY <1>7 DEF SetStatus, rosterVars
  <2>2. PICK s \in {"ACTIVE", "INACTIVE"} : worker' = [worker EXCEPT ![w].status = s]
    BY <1>7 DEF SetStatus
  <2>3. \A v \in Worker : worker'[v].status = IF v = w THEN s ELSE worker[v].status
    BY <1>1, <2>2 DEF TypeOK
  <2> QED BY <1>1, <2>1, <2>3 DEF NoGhostWorker
<1>8. ASSUME NEW w \in Worker, Delete(w) PROVE NoGhostWorker'
  <2>1. roster' = roster /\ w \notin roster.plan /\ worker' = [worker EXCEPT ![w].status = "deleted"]
    BY <1>8 DEF Delete, Deletable, rosterVars
  <2> QED BY <1>1, <2>1 DEF NoGhostWorker
<1>9. CASE ImportFinalize
  BY <1>1, <1>9 DEF ImportFinalize, rosterVars, NoGhostWorker
<1>10. CASE ImportStamp
  <2>1. roster' = roster
    BY <1>10 DEF ImportStamp, rosterVars
  <2>2. \A v \in Worker : worker'[v].status = worker[v].status
    BY <1>1, <1>10 DEF ImportStamp, TypeOK
  <2> QED BY <1>1, <2>1, <2>2 DEF NoGhostWorker
<1> QED BY <1>2, <1>3, <1>4, <1>5, <1>6, <1>7, <1>8, <1>9, <1>10, NextSplit

LEMMA NextEditsName ==
  ASSUME IInv, [Next]_vars
  PROVE  EditsName'
<1>1. EditsName /\ edit \in [Editor -> EditRow]
  BY DEF IInv, TypeOK, EditRow
<1>2. ASSUME NEW e \in Editor, EditRead(e) PROVE EditsName'
  <2>1. PICK w \in Worker, adds \in BOOLEAN :
          edit' = [edit EXCEPT ![e] = [pc |-> "write", gen |-> roster.gen, worker |-> w,
                                       adds |-> adds]]
    BY <1>2 DEF EditRead
  <2> QED BY <1>1, <2>1 DEF EditsName
<1>3. ASSUME NEW e \in Editor, EditWrite(e) PROVE EditsName'
  <2>1. edit' = [edit EXCEPT ![e].pc = "ended"]
    BY <1>3 DEF EditWrite
  <2> QED BY <1>1, <2>1 DEF EditsName, EditRow
<1>4. CASE edit' = edit
  BY <1>1, <1>4 DEF EditsName
<1>5. \/ \E e \in Editor : EditRead(e) \/ EditWrite(e)
      \/ edit' = edit
  BY DEF Next, RequestCheck, RequestSend, Fetch, JobExpire, Handler, ReadLatest, ReadPool,
         Persist, Return, RunDies, Ack, PublishCheck, PublishUpdate, ReadRoster, ReadShifts,
         SetStatus, Delete, ImportFinalize, ImportStamp, rosterVars, clientVars, vars
<1> QED BY <1>2, <1>3, <1>4, <1>5

\* A request that has been accepted stays accepted.
LEMMA AcceptedStays ==
  ASSUME TypeOK, [Next]_vars, NEW u \in Request, request[u].pc = "accepted"
  PROVE  request'[u].pc = "accepted"
<1>1. request \in [Request -> RequestRow]
  BY DEF TypeOK, RequestRow
<1>2. ASSUME NEW v \in Request, RequestCheck(v) \/ RequestSend(v) PROVE request'[u].pc = "accepted"
  BY <1>1, <1>2 DEF RequestCheck, RequestSend, RequestRow
<1>3. \/ \E v \in Request : RequestCheck(v) \/ RequestSend(v)
      \/ request' = request
  BY DEF Next, Fetch, JobExpire, Handler, ReadLatest, ReadPool, Persist, Return, RunDies,
         EditRead, EditWrite, Ack, PublishCheck, PublishUpdate, ReadRoster, ReadShifts,
         SetStatus, Delete, ImportFinalize, ImportStamp, rosterVars, requestVars, jobVars, vars
<1> QED BY <1>2, <1>3

LEMMA NextAccepted ==
  ASSUME IInv, [Next]_vars
  PROVE  Accepted'
<1>1. /\ TypeOK /\ Accepted
      /\ request \in [Request -> RequestRow] /\ job \in [Request -> JobRow]
      /\ run \in [Run -> RunRow] /\ \A r \in Run : r[1] \in Request
  BY DEF IInv, TypeOK, RequestRow, JobRow, RunRow, Run
<1>2. \A u \in Request : request[u].pc = "accepted" => request'[u].pc = "accepted"
  BY <1>1, AcceptedStays
<1>3. ASSUME NEW u \in Request, RequestSend(u) PROVE Accepted'
  <2>1. run' = run
    BY <1>3 DEF RequestSend
  <2>2. \A v \in Request : job'[v].state # "unsent" => job[v].state # "unsent" \/ request'[v].pc = "accepted"
    BY <1>1, <1>3 DEF RequestSend, RequestRow, JobRow
  <2> QED BY <1>1, <1>2, <2>1, <2>2 DEF Accepted
<1>4. ASSUME NEW u \in Request, Fetch(u) PROVE Accepted'
  <2>1. request' = request /\ job[u].state # "unsent"
    BY <1>4 DEF Fetch, requestVars, Queued
  <2>2. \A v \in Request : job'[v].state # "unsent" => job[v].state # "unsent"
    BY <1>1, <1>4, <2>1 DEF Fetch, JobRow
  <2>3. <<u, job[u].retries>> \in Run /\ <<u, job[u].retries>>[1] = u
    BY <1>1 DEF JobRow, Run
  <2>4. \A r \in Run : r # <<u, job[u].retries>> => run'[r] = run[r]
    BY <1>1, <1>4, <2>3 DEF Fetch
  <2> QED BY <1>1, <2>1, <2>2, <2>3, <2>4 DEF Accepted
<1>5. ASSUME NEW u \in Request, JobExpire(u) PROVE Accepted'
  <2>1. request' = request /\ run' = run /\ job[u].state # "unsent"
    BY <1>5 DEF JobExpire, requestVars
  <2>2. \A v \in Request : v # u => job'[v] = job[v]
    BY <1>1, <1>5 DEF JobExpire
  <2> QED BY <1>1, <2>1, <2>2 DEF Accepted
<1>6. ASSUME NEW r \in Run, Handler(r) \/ RunDies(r) PROVE Accepted'
  <2>1. run[r].pc # "none" /\ request' = request
    BY <1>6 DEF Handler, ReadLatest, ReadPool, Persist, Return, RunDies, requestVars
  <2>2. \A q \in Run : q # r => run'[q] = run[q]
    BY <1>1, <1>6 DEF Handler, ReadLatest, ReadPool, Persist, Return, RunDies, Goto
  <2>3. \A v \in Request : job'[v].state # "unsent" => job[v].state # "unsent"
    BY <1>1, <1>6 DEF Handler, ReadLatest, ReadPool, Persist, Return, RunDies, requestVars, JobRow
  <2> QED BY <1>1, <2>1, <2>2, <2>3 DEF Accepted
<1>7. CASE UNCHANGED <<job, run>>
  BY <1>1, <1>2, <1>7 DEF Accepted
<1>8. \/ \E u \in Request : RequestSend(u) \/ Fetch(u) \/ JobExpire(u)
      \/ \E r \in Run : Handler(r) \/ RunDies(r)
      \/ UNCHANGED <<job, run>>
  BY DEF Next, RequestCheck, EditRead, EditWrite, Ack, PublishCheck, PublishUpdate, ReadRoster,
         ReadShifts, SetStatus, Delete, ImportFinalize, ImportStamp, rosterVars, jobVars, vars
<1> QED BY <1>3, <1>4, <1>5, <1>6, <1>7, <1>8

LEMMA NextSeenBefore ==
  ASSUME IInv, [Next]_vars
  PROVE  SeenBefore'
<1>1. /\ TypeOK /\ EditsName /\ AlertsFresh /\ SeenBefore
      /\ request \in [Request -> RequestRow] /\ roster \in RosterRow
      /\ published \in Seq(Nat) /\ Len(published) \in Nat
  BY DEF IInv, TypeOK, RequestRow, RosterRow
<1>2. ASSUME NEW u \in Request, RequestCheck(u) PROVE SeenBefore'
  <2>1. /\ request' = [request EXCEPT ![u] =
                         [pc |-> IF AlreadyPublished(u) THEN "isPublished" ELSE "send",
                          seen |-> Len(published)]]
        /\ UNCHANGED <<roster, published>>
    BY <1>2 DEF RequestCheck
  <2>2. u \notin Forced /\ roster.status = "PUBLISHED" => request'[u].pc = "isPublished"
    BY <1>1, <2>1 DEF AlreadyPublished
  <2> QED BY <1>1, <2>1, <2>2 DEF SeenBefore
<1>3. ASSUME NEW u \in Request, RequestSend(u) PROVE SeenBefore'
  <2>1. UNCHANGED <<roster, published>> /\ request[u].pc = "send"
    BY <1>3 DEF RequestSend
  <2>2. \A v \in Request : request'[v].seen = request[v].seen /\ (v # u => request'[v].pc = request[v].pc)
    BY <1>1, <1>3 DEF RequestSend, RequestRow
  <2> QED BY <1>1, <2>1, <2>2 DEF SeenBefore
<1>4. ASSUME NEW r \in Run, Persist(r) PROVE SeenBefore'
  <2>1. UNCHANGED <<request, published>>
    BY <1>4 DEF Persist, requestVars
  <2>2. roster'.status = "DRAFT" \/ roster' = roster
    BY <1>1, <1>4, PersistEffect
  <2> QED BY <1>1, <2>1, <2>2 DEF SeenBefore
<1>5. ASSUME NEW e \in Editor, EditWrite(e) PROVE SeenBefore'
  <2>1. UNCHANGED <<request, published>>
    BY <1>5 DEF EditWrite, jobVars
  <2>2. roster'.status = roster.status
    BY <1>1, <1>5, EditEffect
  <2> QED BY <1>1, <2>1, <2>2 DEF SeenBefore
<1>6. ASSUME NEW a \in roster.alerts, Ack(a) PROVE SeenBefore'
  <2>1. UNCHANGED <<request, published>>
    BY <1>6 DEF Ack, jobVars
  <2>2. roster'.status = roster.status
    BY <1>1, <1>6, AckEffect
  <2> QED BY <1>1, <2>1, <2>2 DEF SeenBefore
<1>7. ASSUME NEW p \in Publisher, PublishUpdate(p) PROVE SeenBefore'
  <2>1. request' = request /\ published' = Append(published, roster.gen)
    BY <1>7 DEF PublishUpdate, jobVars
  <2>2. roster.gen \in Nat
    BY <1>1 DEF RosterRow
  <2>3. Len(published') = Len(published) + 1
    BY <1>1, <2>1, <2>2
  <2>4. \A u \in Request : request[u].seen \in Nat
    BY <1>1 DEF RequestRow
  <2> QED BY <1>1, <2>1, <2>3, <2>4 DEF SeenBefore
<1>8. CASE UNCHANGED <<request, roster, published>>
  BY <1>1, <1>8 DEF SeenBefore
<1>9. \/ \E u \in Request : RequestCheck(u) \/ RequestSend(u)
      \/ \E r \in Run : Persist(r)
      \/ \E e \in Editor : EditWrite(e)
      \/ \E a \in roster.alerts : Ack(a)
      \/ \E p \in Publisher : PublishUpdate(p)
      \/ UNCHANGED <<request, roster, published>>
  BY DEF Next, Fetch, JobExpire, Handler, ReadLatest, ReadPool, Return, RunDies, EditRead,
         PublishCheck, ReadRoster, ReadShifts, SetStatus, Delete, ImportFinalize, ImportStamp,
         rosterVars, requestVars, jobVars, vars
<1> QED BY <1>2, <1>3, <1>4, <1>5, <1>6, <1>7, <1>8, <1>9

\* The generation of the month never goes back.
LEMMA GenGrows ==
  ASSUME IInv, [Next]_vars
  PROVE  roster'.gen \in Nat /\ roster'.gen >= roster.gen
<1>1. /\ TypeOK /\ EditsName /\ AlertsFresh /\ roster \in RosterRow
      /\ roster.gen \in Nat /\ serial \in Nat /\ roster.gen <= serial
  BY DEF IInv, TypeOK, RosterRow, AlertsFresh
<1>2. CASE roster' = roster
  BY <1>1, <1>2
<1>3. ASSUME NEW r \in Run, Persist(r) PROVE roster'.gen \in {serial + 1, roster.gen}
  BY <1>1, <1>3, PersistEffect
<1>4. ASSUME NEW e \in Editor, EditWrite(e) PROVE roster'.gen = roster.gen
  BY <1>1, <1>4, EditEffect
<1>5. ASSUME NEW a \in roster.alerts, Ack(a) PROVE roster'.gen = roster.gen
  BY <1>1, <1>5, AckEffect
<1>6. ASSUME NEW p \in Publisher, PublishUpdate(p) PROVE roster'.gen = roster.gen
  BY <1>1, <1>6 DEF PublishUpdate, RosterRow
<1>7. CASE \/ \E w \in Worker : SetStatus(w) \/ Delete(w)
           \/ ImportFinalize \/ ImportStamp
  BY <1>1, <1>7, StaffEffect DEF rosterVars
<1> QED BY <1>1, <1>2, <1>3, <1>4, <1>5, <1>6, <1>7, NextSplit, ElsewhereEffect

\* The first publication is never rewritten.
LEMMA FirstPublicationStays ==
  ASSUME TypeOK, [Next]_vars, published # <<>>
  PROVE  published' # <<>> /\ published'[1] = published[1]
<1>1. published \in Seq(Nat) /\ roster.gen \in Nat
  BY DEF TypeOK
<1>2. ASSUME NEW p \in Publisher, PublishUpdate(p)
      PROVE  published' # <<>> /\ published'[1] = published[1]
  BY <1>1, <1>2 DEF PublishUpdate
<1>3. \/ \E p \in Publisher : PublishUpdate(p)
      \/ published' = published
  BY DEF Next, RequestCheck, RequestSend, Fetch, JobExpire, Handler, ReadLatest, ReadPool,
         Persist, Return, RunDies, EditRead, EditWrite, Ack, PublishCheck, ReadRoster, ReadShifts,
         SetStatus, Delete, ImportFinalize, ImportStamp, rosterVars, requestVars, vars
<1> QED BY <1>2, <1>3

LEMMA NextFirstPublished ==
  ASSUME IInv, [Next]_vars
  PROVE  FirstPublished' /\ NothingBeforePublication'
<1> DEFINE ReaderRow == [pc : {"idle", "plan", "ended"}, gen : Nat]
<1>1. /\ TypeOK /\ EditsName /\ AlertsFresh /\ FirstPublished /\ NothingBeforePublication
      /\ roster \in RosterRow /\ roster.gen \in Nat /\ published \in Seq(Nat)
      /\ reader \in [Reader -> ReaderRow]
  BY DEF IInv, TypeOK, RosterRow
<1>2. published # <<>> => /\ published' # <<>> /\ published'[1] = published[1]
                          /\ published[1] \in Nat
  BY <1>1, FirstPublicationStays
<1>3. roster'.gen \in Nat /\ roster'.gen >= roster.gen
  BY GenGrows
<1>4. ASSUME NEW p \in Publisher, PublishUpdate(p)
      PROVE  FirstPublished' /\ NothingBeforePublication'
  <2>1. /\ published' = Append(published, roster.gen) /\ reader' = reader
        /\ roster' = [roster EXCEPT !.status = "PUBLISHED"]
    BY <1>4 DEF PublishUpdate
  <2>2. roster'.gen = roster.gen
    BY <1>1, <2>1 DEF RosterRow
  <2>3. published = <<>> => published'[1] = roster.gen
    BY <1>1, <2>1
  <2>4. published' # <<>>
    BY <1>1, <2>1
  <2> QED BY <1>1, <1>2, <2>1, <2>2, <2>3, <2>4 DEF FirstPublished, NothingBeforePublication
<1>5. ASSUME NEW d \in Reader, ReadRoster(d)
      PROVE  FirstPublished' /\ NothingBeforePublication'
  <2>1. UNCHANGED <<roster, published>> /\ reader' = [reader EXCEPT ![d].pc = IF Shown THEN "plan" ELSE "ended"]
    BY <1>5 DEF ReadRoster
  <2>2. \A c \in Reader : /\ reader'[c].gen = reader[c].gen
                          /\ reader'[c].pc = "plan" => reader[c].pc = "plan" \/ Shown
    BY <1>1, <2>1
  <2> QED BY <1>1, <2>1, <2>2 DEF FirstPublished, NothingBeforePublication, Shown
<1>6. ASSUME NEW d \in Reader, ReadShifts(d)
      PROVE  FirstPublished' /\ NothingBeforePublication'
  <2>1. /\ UNCHANGED <<roster, published>> /\ reader[d].pc = "plan"
        /\ reader' = [reader EXCEPT ![d] = [pc |-> "ended", gen |-> roster.gen]]
    BY <1>6 DEF ReadShifts
  <2>2. published # <<>> /\ published[1] <= roster.gen
    BY <1>1, <2>1 DEF FirstPublished
  <2> QED BY <1>1, <2>1, <2>2 DEF FirstPublished, NothingBeforePublication
<1>7. CASE UNCHANGED <<published, reader>> /\ (roster'.status = "PUBLISHED" => roster.status = "PUBLISHED")
  BY <1>1, <1>2, <1>3, <1>7 DEF FirstPublished, NothingBeforePublication
<1>8. \/ \E p \in Publisher : PublishUpdate(p)
      \/ \E d \in Reader : ReadRoster(d) \/ ReadShifts(d)
      \/ UNCHANGED <<published, reader>>
  BY DEF Next, RequestCheck, RequestSend, Fetch, JobExpire, Handler, ReadLatest, ReadPool,
         Persist, Return, RunDies, EditRead, EditWrite, Ack, PublishCheck, SetStatus, Delete,
         ImportFinalize, ImportStamp, rosterVars, requestVars, clientVars, vars
<1>9. \/ \E p \in Publisher : PublishUpdate(p)
      \/ roster'.status = "PUBLISHED" => roster.status = "PUBLISHED"
  <2>1. ASSUME NEW r \in Run, Persist(r) PROVE roster'.status = "DRAFT" \/ roster' = roster
    BY <1>1, <2>1, PersistEffect
  <2>2. ASSUME NEW e \in Editor, EditWrite(e) PROVE roster'.status = roster.status
    BY <1>1, <2>2, EditEffect
  <2>3. ASSUME NEW a \in roster.alerts, Ack(a) PROVE roster'.status = roster.status
    BY <1>1, <2>3, AckEffect
  <2>4. CASE \/ \E w \in Worker : SetStatus(w) \/ Delete(w)
             \/ ImportFinalize \/ ImportStamp
    BY <2>4, StaffEffect DEF rosterVars
  <2> QED BY <2>1, <2>2, <2>3, <2>4, NextSplit, ElsewhereEffect
<1> QED BY <1>4, <1>5, <1>6, <1>7, <1>8, <1>9

-----------------------------------------------------------------------------
(* Theorems *)

\* The invariant behind all the results below: fresh alerts, no ghost workers, no job
\* without an accepted request, stale checks only across a publication, and no
\* publication newer than the month.
THEOREM InductiveInvariant == Spec => []IInv
<1>1. IInv /\ [Next]_vars => IInv'
  <2> SUFFICES ASSUME IInv, [Next]_vars PROVE IInv'
    OBVIOUS
  <2>1. TypeOK'
    BY NextTypeOK DEF IInv
  <2> QED BY <2>1, NextEditsName, NextAlertsFresh, NextNoGhostWorker, NextAccepted,
             NextSeenBefore, NextFirstPublished DEF IInv
<1> QED BY InitIInv, <1>1, PTL DEF Spec

\* Every variable of the roster's lifecycle keeps its type.
THEOREM TypeCorrect == Spec => []TypeOK
BY InductiveInvariant, PTL DEF IInv

\* No acknowledgment is carried over into a regenerated month (persistDraft).
THEOREM AcksStartAfresh == Spec => []NoInheritedAck
<1>1. IInv => NoInheritedAck
  BY DEF IInv, AlertsFresh, NoInheritedAck
<1> QED BY InductiveInvariant, <1>1, PTL

\* No shift is ever held by a worker that has been deleted, however deletions fall
\* between reading the pool, solving and persisting, or inside an edit.
THEOREM NoGhosts == Spec => []NoGhostWorker
BY InductiveInvariant, PTL DEF IInv

\* The public page shows nothing of a month that has never been published, whatever
\* commits between its reads (getSchedule).
THEOREM PublicAfterPublication == Spec => []NothingBeforePublication
BY InductiveInvariant, PTL DEF IInv

\* Without force a published month is reopened only by a request that was checked
\* before the publication (POST /rosters/generate).
THEOREM ReopensBlind == Spec => UnforcedReopensBlind
<1> DEFINE Step == \A r \in Run : /\ roster.status = "PUBLISHED" /\ roster'.status = "DRAFT"
                                  /\ run[r].pc = "persist" /\ run'[r].pc = "return"
                                  => r[1] \in Forced \/ request[r[1]].seen < Len(published)
<1>1. IInv => [Step]_vars
  <2> SUFFICES ASSUME IInv, NEW r \in Run, roster.status = "PUBLISHED", run[r].pc = "persist",
                      r[1] \notin Forced
               PROVE  request[r[1]].seen < Len(published)
    OBVIOUS
  <2>1. r[1] \in Request
    BY DEF Run
  <2>2. request[r[1]].pc = "accepted"
    BY DEF IInv, Accepted
  <2> QED BY <2>1, <2>2 DEF IInv, SeenBefore
<1>2. [][Step]_vars => UnforcedReopensBlind
  BY PTL DEF UnforcedReopensBlind
<1> QED BY InductiveInvariant, <1>1, <1>2, PTL

-----------------------------------------------------------------------------
(* Whoever waits for a generation: the safety half of AcceptedGenerates *)

Working == {"latest", "pool", "persist", "return"}
Attempt(u) == <<u, job[u].retries>>

\* pg-boss holds at most one job of the month in each of these states.
OneOfEach ==
  \A u, v \in Request : job[u].state = job[v].state /\ job[u].state \in Queued \cup {"active"} => u = v

\* The attempts of a job start one after another: that of an active job has started, that
\* of a waiting one has not, and none beyond it.
AttemptsInTurn ==
  /\ \A u \in Request : job[u].state = "active" => run[Attempt(u)].pc # "none"
  /\ \A u \in Request : job[u].state \in Queued \cup {"unsent"} => run[Attempt(u)].pc = "none"
  /\ \A u \in Request, n \in 0..RetryLimit : n > job[u].retries => run[<<u, n>>].pc = "none"

AcceptedHasJob == \A u \in Request : request[u].pc = "accepted" => job[u].state # "unsent"

\* Nothing has crashed or expired, and no worker is gone.
Undisturbed == faults = 0 /\ \A w \in Worker : worker[w].status # "deleted"

\* Then no job is at a second attempt, and an active one's handler is at work.
Smooth ==
  Undisturbed =>
    \A u \in Request : /\ job[u].retries = 0 /\ job[u].state \notin {"retry", "failed"}
                       /\ job[u].state = "active" => run[Attempt(u)].pc \in Working

\* Every completed job, and every handler about to return, has a generation of its own.
Done == {u \in Request : job[u].state = "completed"}
Returning == {r \in Run : run[r].pc = "return"}
DoneWasWritten ==
  /\ IsFiniteSet(Done) /\ IsFiniteSet(Returning)
  /\ Cardinality(Done) + Cardinality(Returning) <= serial

QueueInv == OneOfEach /\ AttemptsInTurn /\ AcceptedHasJob /\ Smooth /\ DoneWasWritten

LEMMA RowsTyped ==
  ASSUME IInv
  PROVE  /\ request \in [Request -> RequestRow] /\ job \in [Request -> JobRow]
         /\ run \in [Run -> RunRow] /\ serial \in Nat
         /\ \A u \in Request : job[u].retries \in 0..RetryLimit /\ Attempt(u) \in Run
         /\ \A u \in Request, n \in 0..RetryLimit : <<u, n>> \in Run
BY DEF IInv, TypeOK, RequestRow, JobRow, RunRow, Run, Attempt

\* What each step of the queue and of a handler does to the jobs and the runs.
LEMMA SendEffect ==
  ASSUME IInv, NEW u \in Request, RequestSend(u)
  PROVE  /\ UNCHANGED <<run, serial, faults, worker>>
         /\ \A v \in Request : v # u => job'[v] = job[v] /\ request'[v] = request[v]
         /\ request[u].pc = "send"
         /\ \/ job'[u] = job[u] /\ request'[u].pc # "accepted"
            \/ /\ job'[u].state = "created" /\ job'[u].retries = job[u].retries
               /\ \A v \in Request : job[v].state # "created"
BY RowsTyped DEF RequestSend, staffVars, RequestRow, JobRow

LEMMA FetchEffect ==
  ASSUME IInv, NEW u \in Request, Fetch(u)
  PROVE  /\ UNCHANGED <<request, serial, faults, worker>>
         /\ job[u].state \in Queued /\ \A v \in Request : job[v].state # "active"
         /\ \A v \in Request : v # u => job'[v] = job[v]
         /\ job'[u].state = "active" /\ job'[u].retries = job[u].retries
         /\ \A r \in Run : r # Attempt(u) => run'[r] = run[r]
         /\ run'[Attempt(u)].pc = "latest"
BY RowsTyped DEF Fetch, staffVars, requestVars, Attempt, NoRun, JobRow

LEMMA ExpireEffect ==
  ASSUME IInv, NEW u \in Request, JobExpire(u)
  PROVE  /\ UNCHANGED <<request, run, serial, worker>>
         /\ job[u].state = "active"
         /\ \A v \in Request : v # u => job'[v] = job[v]
         /\ ((run[Attempt(u)].pc = "ended" /\ faults' = faults) \/ faults' = faults + 1)
         /\ \/ job'[u].state = "failed" /\ job'[u].retries = job[u].retries
            \/ /\ job'[u].state = "retry" /\ job'[u].retries = job[u].retries + 1
               /\ \A v \in Request : job[v].state # "retry"
<1>1. job \in [Request -> JobRow]
  BY RowsTyped
<1>2. UNCHANGED <<request, run, serial, worker>> /\ job[u].state = "active"
      /\ ((run[Attempt(u)].pc = "ended" /\ faults' = faults) \/ faults' = faults + 1)
  BY DEF JobExpire, Fault, staffVars, requestVars, Attempt
<1>3. CASE RetriesLeft(u) /\ \A v \in Request : job[v].state # "retry"
  <2>1. job' = [job EXCEPT ![u].state = "retry", ![u].retries = @ + 1]
    BY <1>3 DEF JobExpire
  <2> QED BY <1>1, <1>2, <1>3, <2>1 DEF JobRow
<1>4. CASE ~(RetriesLeft(u) /\ \A v \in Request : job[v].state # "retry")
  <2>1. job' = [job EXCEPT ![u].state = "failed"]
    BY <1>4 DEF JobExpire
  <2> QED BY <1>1, <1>2, <2>1 DEF JobRow
<1> QED BY <1>3, <1>4

\* The pc a handler's step or death moves to; only Persist writes, only Return completes.
LEMMA HandlerEffect ==
  ASSUME IInv, NEW r \in Run, Handler(r) \/ RunDies(r)
  PROVE  /\ UNCHANGED <<request, worker>> /\ run[r].pc \in Working
         /\ \A q \in Run : q # r => run'[q] = run[q]
         /\ run'[r].pc \in Working \cup {"ended"}
         /\ run'[r].pc = "return" => run[r].pc = "persist" /\ serial' = serial + 1
         /\ run'[r].pc # "return" => serial' = serial
         /\ run'[r].pc = "ended" => \/ run[r].pc = "return" /\ Return(r) /\ faults' = faults
                                    \/ job' = job /\ faults' = faults + 1
                                    \/ job' = job /\ faults' = faults /\ ~Undisturbed
         /\ run'[r].pc # "ended" => job' = job /\ faults' = faults
<1>1. run \in [Run -> RunRow] /\ \A w \in run[r].pool : w \in Worker
  BY RowsTyped DEF RunRow
<1>2. CASE ReadLatest(r) \/ ReadPool(r)
  BY <1>1, <1>2 DEF ReadLatest, ReadPool, staffVars, requestVars, Working, RunRow
<1>3. CASE Persist(r)
  <2>1. PICK plan \in Solutions(run[r].pool) :
          IF Exist(plan) THEN serial' = serial + 1 /\ Goto(r, "return")
                         ELSE Goto(r, "ended") /\ UNCHANGED serial
    BY <1>3 DEF Persist
  <2>2. ~Exist(plan) => ~Undisturbed
    BY <1>1 DEF Exist, Undisturbed, Solutions
  <2>3. run[r].pc = "persist" /\ UNCHANGED <<request, worker, job, faults>>
    BY <1>3 DEF Persist, staffVars, requestVars
  <2> QED BY <1>1, <2>1, <2>2, <2>3 DEF Goto, Working, RunRow
<1>4. CASE Return(r)
  BY <1>1, <1>4 DEF Return, Goto, staffVars, requestVars, Working
<1>5. CASE RunDies(r)
  <2>1. run[r].pc \in Working
    BY <1>1, <1>5 DEF RunDies, RunRow, Working
  <2> QED BY <1>1, <1>5, <2>1 DEF RunDies, Fault, Goto, staffVars, requestVars, Working
<1> QED BY <1>2, <1>3, <1>4, <1>5 DEF Handler

LEMMA ReturnEffect ==
  ASSUME IInv, NEW r \in Run, Return(r)
  PROVE  /\ r[1] \in Request /\ r[2] \in 0..RetryLimit /\ r = <<r[1], r[2]>>
         /\ \A v \in Request : v # r[1] => job'[v] = job[v]
         /\ \/ job' = job /\ ~(job[r[1]].state = "active" /\ Attempt(r[1]) = r)
            \/ /\ job[r[1]].state = "active" /\ Attempt(r[1]) = r
               /\ job'[r[1]].state = "completed" /\ job'[r[1]].retries = job[r[1]].retries
<1>1. r[1] \in Request /\ r[2] \in 0..RetryLimit /\ r = <<r[1], r[2]>>
  BY DEF Run
<1>2. job \in [Request -> JobRow]
  BY RowsTyped
<1>3. job[r[1]] = [state |-> "active", retries |-> r[2]] <=> job[r[1]].state = "active" /\ job[r[1]].retries = r[2]
  BY <1>1, <1>2 DEF JobRow
<1>4. Attempt(r[1]) = r <=> job[r[1]].retries = r[2]
  BY <1>1 DEF Attempt
<1> QED BY <1>1, <1>2, <1>3, <1>4 DEF Return, JobRow

\* All other steps leave the queue alone; they may write the roster and delete workers.
Apart ==
  /\ UNCHANGED <<job, run, faults>> /\ serial' \in Nat /\ serial <= serial'
  /\ \A u \in Request : request'[u].pc = "accepted" => request[u].pc = "accepted"
  /\ \A w \in Worker : worker[w].status = "deleted" => worker'[w].status = "deleted"

LEMMA QueueSplit ==
  ASSUME IInv, [Next]_vars
  PROVE  \/ \E u \in Request : RequestSend(u) \/ Fetch(u) \/ JobExpire(u)
         \/ \E r \in Run : Handler(r) \/ RunDies(r)
         \/ Apart
<1>1. serial \in Nat /\ request \in [Request -> RequestRow]
  BY RowsTyped
<1>2. worker \in [Worker -> [status : {"ACTIVE", "INACTIVE", "deleted"}, stamp : 0..MaxImports]]
  BY DEF IInv, TypeOK
<1>3. ASSUME NEW u \in Request, RequestCheck(u) PROVE Apart
  BY <1>1, <1>3 DEF RequestCheck, Apart, staffVars, RequestRow
<1>4. ASSUME NEW e \in Editor, EditRead(e) \/ EditWrite(e) PROVE Apart
  BY <1>1, <1>4 DEF EditRead, EditWrite, Apart, staffVars, jobVars
<1>5. ASSUME \/ \E a \in roster.alerts : Ack(a)
             \/ \E p \in Publisher : PublishCheck(p) \/ PublishUpdate(p)
             \/ \E d \in Reader : ReadRoster(d) \/ ReadShifts(d)
      PROVE  Apart
  BY <1>1, <1>5 DEF Ack, PublishCheck, PublishUpdate, ReadRoster, ReadShifts, Apart, staffVars, jobVars
<1>6. ASSUME NEW w \in Worker, SetStatus(w) \/ Delete(w) PROVE Apart
  BY <1>1, <1>2, <1>6 DEF SetStatus, Delete, Apart, rosterVars, jobVars
<1>7. ASSUME ImportFinalize \/ ImportStamp PROVE Apart
  BY <1>1, <1>2, <1>7 DEF ImportFinalize, ImportStamp, Apart, rosterVars, jobVars
<1>8. CASE UNCHANGED vars
  BY <1>1, <1>8 DEF vars, Apart
<1> QED BY <1>3, <1>4, <1>5, <1>6, <1>7, <1>8 DEF Next

\* A request that is being sent has no job yet.
LEMMA RequestSent ==
  ASSUME IInv, NEW u \in Request, RequestSend(u)
  PROVE  job[u].state = "unsent"
BY DEF IInv, Accepted, RequestSend

LEMMA NextOneOfEach ==
  ASSUME IInv, QueueInv, [Next]_vars
  PROVE  OneOfEach'
<1>1. OneOfEach /\ job \in [Request -> JobRow]
  BY RowsTyped DEF QueueInv
<1>2. ASSUME NEW u \in Request, RequestSend(u) PROVE OneOfEach'
  <2>1. /\ \A v \in Request : v # u => job'[v] = job[v]
        /\ \/ job'[u] = job[u]
           \/ job'[u].state = "created" /\ \A v \in Request : job[v].state # "created"
    BY <1>2, SendEffect
  <2> QED BY <1>1, <2>1 DEF OneOfEach
<1>3. ASSUME NEW u \in Request, Fetch(u) PROVE OneOfEach'
  <2>1. /\ \A v \in Request : v # u => job'[v] = job[v]
        /\ job'[u].state = "active" /\ \A v \in Request : job[v].state # "active"
    BY <1>3, FetchEffect
  <2> QED BY <1>1, <2>1 DEF OneOfEach
<1>4. ASSUME NEW u \in Request, JobExpire(u) PROVE OneOfEach'
  BY <1>1, <1>4, ExpireEffect DEF OneOfEach, JobRow, Queued
<1>5. ASSUME NEW r \in Run, Return(r) PROVE OneOfEach'
  <2>1. r[1] \in Request /\ \A v \in Request : v # r[1] => job'[v] = job[v]
    BY <1>5, ReturnEffect
  <2>2. job'[r[1]] = job[r[1]] \/ job'[r[1]].state = "completed"
    BY <1>1, <1>5, ReturnEffect DEF JobRow
  <2> QED BY <1>1, <2>1, <2>2 DEF OneOfEach, Queued
<1>6. CASE job' = job
  BY <1>1, <1>6 DEF OneOfEach
<1> QED BY <1>2, <1>3, <1>4, <1>5, <1>6, QueueSplit, HandlerEffect DEF Apart

LEMMA NextAttemptsInTurn ==
  ASSUME IInv, QueueInv, [Next]_vars
  PROVE  AttemptsInTurn'
<1>1. /\ AttemptsInTurn /\ job \in [Request -> JobRow] /\ RetryLimit \in Nat
      /\ \A u \in Request : job[u].retries \in 0..RetryLimit /\ Attempt(u) \in Run
      /\ \A u \in Request, n \in 0..RetryLimit : <<u, n>> \in Run
  BY RowsTyped, RosterConstants DEF QueueInv
<1>2. ASSUME NEW u \in Request, RequestSend(u) PROVE AttemptsInTurn'
  <2>1. run' = run
    BY <1>2, SendEffect
  <2>2. ASSUME NEW v \in Request
        PROVE  /\ job'[v].retries = job[v].retries
               /\ job'[v].state = job[v].state \/ job'[v].state = "created"
    BY <1>1, <1>2, SendEffect DEF JobRow
  <2>3. run[Attempt(u)].pc = "none" /\ \A v \in Request : v # u => job'[v] = job[v]
    BY <1>1, <1>2, RequestSent, SendEffect DEF AttemptsInTurn, Queued
  <2>4. \A v \in Request : Attempt(v)' = Attempt(v)
    BY <2>2 DEF Attempt
  <2> QED BY <1>1, <2>1, <2>2, <2>3, <2>4 DEF AttemptsInTurn, Queued
<1>3. ASSUME NEW u \in Request, Fetch(u) PROVE AttemptsInTurn'
  <2>1. /\ job[u].state \in Queued /\ \A v \in Request : job[v].state # "active"
        /\ \A v \in Request : v # u => job'[v] = job[v]
        /\ job'[u].state = "active" /\ job'[u].retries = job[u].retries
        /\ \A r \in Run : r # Attempt(u) => run'[r] = run[r]
        /\ run'[Attempt(u)].pc = "latest"
    BY <1>3, FetchEffect
  <2>2. \A v \in Request : Attempt(v)' = Attempt(v) /\ (v # u => Attempt(v) # Attempt(u))
    BY <2>1 DEF Attempt
  <2>3. \A v \in Request, n \in 0..RetryLimit : n > job[v].retries => <<v, n>> # Attempt(u)
    BY <1>1 DEF Attempt
  <2> QED BY <1>1, <2>1, <2>2, <2>3 DEF AttemptsInTurn, Queued
<1>4. ASSUME NEW u \in Request, JobExpire(u) PROVE AttemptsInTurn'
  <2>1. /\ run' = run /\ \A v \in Request : v # u => job'[v] = job[v]
        /\ \/ job'[u].state = "failed" /\ job'[u].retries = job[u].retries
           \/ job'[u].state = "retry" /\ job'[u].retries = job[u].retries + 1
    BY <1>4, ExpireEffect
  <2>2. job'[u].retries \in 0..RetryLimit
    <3>1. job' \in [Request -> JobRow]
      BY NextTypeOK DEF IInv, TypeOK, JobRow
    <3> QED BY <3>1 DEF JobRow
  <2>3. \A v \in Request : v # u => Attempt(v)' = Attempt(v)
    BY <2>1 DEF Attempt
  <2>4. job'[u].state = "retry" => run[Attempt(u)'].pc = "none"
    <3> SUFFICES ASSUME job'[u].state = "retry" PROVE run[<<u, job'[u].retries>>].pc = "none"
      BY DEF Attempt
    <3>1. job'[u].retries = job[u].retries + 1 /\ job'[u].retries > job[u].retries
      BY <1>1, <2>1
    <3> QED BY <1>1, <2>2, <3>1 DEF AttemptsInTurn
  <2>5. \A n \in 0..RetryLimit : n > job'[u].retries => n > job[u].retries
    BY <1>1, <2>1, <2>2
  <2> QED BY <1>1, <2>1, <2>3, <2>4, <2>5 DEF AttemptsInTurn, Queued
<1>5. ASSUME NEW r \in Run, Handler(r) \/ RunDies(r) PROVE AttemptsInTurn'
  <2>1. /\ run[r].pc # "none" /\ run'[r].pc # "none"
        /\ \A q \in Run : q # r => run'[q] = run[q]
    BY <1>5, HandlerEffect DEF Working
  <2>2. ASSUME NEW v \in Request
        PROVE  /\ job'[v].retries = job[v].retries
               /\ job'[v].state # job[v].state => job'[v].state = "completed"
    <3>1. CASE job' = job
      BY <3>1
    <3>2. CASE Return(r)
      BY <3>2, ReturnEffect
    <3> QED BY <1>5, <3>1, <3>2, HandlerEffect
  <2>3. \A v \in Request : Attempt(v)' = Attempt(v)
    BY <2>2 DEF Attempt
  <2> QED BY <1>1, <2>1, <2>2, <2>3 DEF AttemptsInTurn, Queued
<1>6. CASE Apart
  BY <1>1, <1>6 DEF Apart, AttemptsInTurn, Attempt
<1> QED BY <1>2, <1>3, <1>4, <1>5, <1>6, QueueSplit

LEMMA NextAcceptedHasJob ==
  ASSUME IInv, QueueInv, [Next]_vars
  PROVE  AcceptedHasJob'
<1>1. AcceptedHasJob /\ job \in [Request -> JobRow]
  BY RowsTyped DEF QueueInv
<1>2. ASSUME NEW u \in Request, RequestSend(u) PROVE AcceptedHasJob'
  BY <1>1, <1>2, SendEffect DEF AcceptedHasJob, JobRow
<1>3. ASSUME NEW u \in Request, Fetch(u) \/ JobExpire(u) PROVE AcceptedHasJob'
  BY <1>1, <1>3, FetchEffect, ExpireEffect DEF AcceptedHasJob, JobRow
<1>4. ASSUME NEW r \in Run, Handler(r) \/ RunDies(r) PROVE AcceptedHasJob'
  BY <1>1, <1>4, HandlerEffect, ReturnEffect DEF AcceptedHasJob, JobRow
<1>5. CASE Apart
  BY <1>1, <1>5 DEF Apart, AcceptedHasJob
<1> QED BY <1>2, <1>3, <1>4, <1>5, QueueSplit

\* What has been disturbed stays so.
LEMMA StaysDisturbed ==
  ASSUME IInv, [Next]_vars, Undisturbed'
  PROVE  Undisturbed /\ faults' = faults
<1>1. faults \in Nat /\ MaxFaults \in Nat
  BY RosterConstants DEF IInv, TypeOK
<1>2. \A w \in Worker : worker[w].status = "deleted" => worker'[w].status = "deleted"
  BY QueueSplit, SendEffect, FetchEffect, ExpireEffect, HandlerEffect DEF Apart
<1>3. faults' = faults \/ faults' = faults + 1
  BY QueueSplit, SendEffect, FetchEffect, ExpireEffect, HandlerEffect DEF Apart
<1> QED BY <1>1, <1>2, <1>3 DEF Undisturbed

LEMMA NextSmooth ==
  ASSUME IInv, QueueInv, [Next]_vars
  PROVE  Smooth'
<1> SUFFICES ASSUME Undisturbed'
             PROVE  (\A u \in Request : /\ job[u].retries = 0 /\ job[u].state \notin {"retry", "failed"}
                                        /\ job[u].state = "active" => run[Attempt(u)].pc \in Working)'
  BY DEF Smooth
<1>1. /\ Undisturbed /\ faults' = faults /\ faults \in Nat /\ job \in [Request -> JobRow]
      /\ \A u \in Request : job[u].retries = 0 /\ Attempt(u) \in Run
      /\ \A u \in Request : job[u].state \notin {"retry", "failed"}
      /\ \A u \in Request : job[u].state = "active" => run[Attempt(u)].pc \in Working
  BY RowsTyped, StaysDisturbed DEF QueueInv, Smooth, IInv, TypeOK
<1>2. ASSUME NEW u \in Request, RequestSend(u) PROVE Smooth'
  <2>1. run' = run /\ \A v \in Request : v # u => job'[v] = job[v]
    BY <1>2, SendEffect
  <2>2. job'[u] = job[u] \/ (job'[u].state = "created" /\ job'[u].retries = job[u].retries)
    BY <1>2, SendEffect
  <2> QED BY <1>1, <2>1, <2>2 DEF Smooth, Attempt
<1>3. ASSUME NEW u \in Request, Fetch(u) PROVE Smooth'
  <2>1. /\ \A v \in Request : v # u => job'[v] = job[v] /\ job[v].state # "active"
        /\ job'[u].state = "active" /\ job'[u].retries = job[u].retries
        /\ run'[Attempt(u)].pc = "latest"
    BY <1>3, FetchEffect
  <2> QED BY <1>1, <2>1 DEF Smooth, Attempt, Working
<1>4. ASSUME NEW u \in Request PROVE ~JobExpire(u)
  BY <1>1, ExpireEffect DEF Working
<1>5. ASSUME NEW r \in Run, Handler(r) \/ RunDies(r) PROVE Smooth'
  <2>1. /\ \A q \in Run : q # r => run'[q] = run[q]
        /\ run'[r].pc \in Working \/ (run'[r].pc = "ended" /\ Return(r))
        /\ run'[r].pc # "ended" => job' = job
    BY <1>1, <1>5, HandlerEffect
  <2>2. ASSUME NEW v \in Request
        PROVE  /\ job'[v].retries = 0 /\ job'[v].state \notin {"retry", "failed"}
               /\ job'[v].state = "active" => job[v].state = "active"
               /\ job'[v].state = "active" /\ run'[r].pc = "ended" => Attempt(v) # r
    <3>1. CASE job' = job /\ run'[r].pc # "ended"
      BY <1>1, <3>1
    <3>2. CASE Return(r)
      <4>1. CASE v # r[1] \/ job' = job
        <5>1. job'[v] = job[v]
          BY <3>2, <4>1, ReturnEffect
        <5>2. job[v].state = "active" => Attempt(v) # r
          <6>1. Attempt(v)[1] = v
            BY DEF Attempt
          <6> QED BY <3>2, <4>1, <6>1, ReturnEffect
        <5> QED BY <1>1, <5>1, <5>2
      <4>2. CASE v = r[1] /\ job' # job
        BY <1>1, <3>2, <4>2, ReturnEffect
      <4> QED BY <4>1, <4>2
    <3> QED BY <2>1, <3>1, <3>2 DEF Working
  <2>3. \A v \in Request : Attempt(v)' = Attempt(v)
    BY <1>1, <2>2 DEF Attempt
  <2> QED BY <1>1, <2>1, <2>2, <2>3 DEF Smooth
<1>6. CASE Apart
  BY <1>1, <1>6 DEF Apart, Smooth, Attempt
<1> QED BY <1>2, <1>3, <1>4, <1>5, <1>6, QueueSplit DEF Smooth

LEMMA NextDoneWasWritten ==
  ASSUME IInv, QueueInv, [Next]_vars
  PROVE  DoneWasWritten'
<1>1. /\ IsFiniteSet(Done) /\ IsFiniteSet(Returning) /\ serial \in Nat
      /\ Cardinality(Done) + Cardinality(Returning) <= serial
      /\ Cardinality(Done) \in Nat /\ Cardinality(Returning) \in Nat
  BY RowsTyped, FS_CardinalityType DEF QueueInv, DoneWasWritten
<1>2. /\ job \in [Request -> JobRow] /\ AttemptsInTurn
      /\ \A u \in Request : Attempt(u) \in Run
  BY RowsTyped DEF QueueInv
<1>3. CASE Done' = Done /\ Returning' = Returning /\ serial' \in Nat /\ serial <= serial'
  BY <1>1, <1>3 DEF DoneWasWritten
<1>4. ASSUME NEW u \in Request, RequestSend(u) \/ JobExpire(u) PROVE DoneWasWritten'
  <2>1. UNCHANGED <<run, serial>>
    BY <1>4, SendEffect, ExpireEffect
  <2>2. \A v \in Request : job'[v].state = "completed" <=> job[v].state = "completed"
    <3>1. CASE RequestSend(u)
      <4>1. job[u].state # "completed"
        BY <3>1, SendEffect, RequestSent, <1>2
      <4> QED BY <1>2, <3>1, <4>1, SendEffect DEF JobRow
    <3>2. CASE JobExpire(u)
      BY <1>2, <3>2, ExpireEffect DEF JobRow
    <3> QED BY <1>4, <3>1, <3>2
  <2>3. Done' = Done /\ Returning' = Returning
    BY <2>1, <2>2 DEF Done, Returning
  <2> QED BY <1>1, <1>3, <2>1, <2>3
<1>5. ASSUME NEW u \in Request, Fetch(u) PROVE DoneWasWritten'
  <2>1. serial' = serial /\ \A v \in Request : job'[v].state = "completed" <=> job[v].state = "completed"
    BY <1>2, <1>5, FetchEffect DEF JobRow, Queued
  <2>2. \A r \in Run : run'[r].pc = "return" <=> run[r].pc = "return"
    <3>1. run[Attempt(u)].pc = "none" /\ run'[Attempt(u)].pc = "latest"
      BY <1>2, <1>5, FetchEffect DEF AttemptsInTurn
    <3> QED BY <1>5, <3>1, FetchEffect
  <2>3. Done' = Done /\ Returning' = Returning
    BY <2>1, <2>2 DEF Done, Returning
  <2> QED BY <1>1, <1>3, <2>1, <2>3
<1>6. ASSUME NEW r \in Run, Handler(r) \/ RunDies(r) PROVE DoneWasWritten'
  <2>1. \A q \in Run : q # r => run'[q] = run[q]
    BY <1>6, HandlerEffect
  <2>2. CASE run'[r].pc = "return"
    <3>1. run[r].pc = "persist" /\ serial' = serial + 1 /\ job' = job
      BY <1>6, <2>2, HandlerEffect
    <3>2. Done' = Done /\ Returning' = Returning \cup {r} /\ r \notin Returning
      BY <2>1, <2>2, <3>1 DEF Done, Returning
    <3>3. IsFiniteSet(Returning \cup {r}) /\ Cardinality(Returning \cup {r}) = Cardinality(Returning) + 1
      BY <1>1, <3>2, FS_AddElement
    <3> QED BY <1>1, <3>1, <3>2, <3>3 DEF DoneWasWritten
  <2>3. CASE run'[r].pc # "return" /\ job' = job
    <3>1. serial' = serial
      BY <1>6, <2>3, HandlerEffect
    <3>2. Done' = Done /\ Returning' \in SUBSET Returning
      BY <2>1, <2>3 DEF Done, Returning
    <3>3. IsFiniteSet(Returning') /\ Cardinality(Returning') <= Cardinality(Returning) /\ Cardinality(Returning') \in Nat
      BY <1>1, <3>2, FS_Subset, FS_CardinalityType
    <3> QED BY <1>1, <3>1, <3>2, <3>3 DEF DoneWasWritten
  <2>4. CASE Return(r) /\ job' # job
    <3>1. serial' = serial /\ run[r].pc = "return" /\ run'[r].pc = "ended"
      <4>1. run[r].pc = "return" /\ run'[r].pc = "ended"
        BY <2>4, RowsTyped DEF Return, Goto, RunRow
      <4> QED BY <1>6, <4>1, HandlerEffect
    <3>2. /\ r[1] \in Request /\ job'[r[1]].state = "completed"
          /\ \A v \in Request : v # r[1] => job'[v] = job[v]
      BY <1>2, <2>4, ReturnEffect DEF JobRow
    <3>3. Done' \in SUBSET (Done \cup {r[1]}) /\ Returning' = Returning \ {r} /\ r \in Returning
      BY <2>1, <3>1, <3>2 DEF Done, Returning
    <3>4. IsFiniteSet(Done \cup {r[1]}) /\ Cardinality(Done \cup {r[1]}) <= Cardinality(Done) + 1
          /\ Cardinality(Done \cup {r[1]}) \in Nat
      <4>1. CASE r[1] \in Done
        <5>1. Done \cup {r[1]} = Done
          BY <4>1
        <5>2. IsFiniteSet(Done) /\ Cardinality(Done) \in Nat
          BY <1>1
        <5>3. Cardinality(Done) <= Cardinality(Done) + 1
          BY <5>2
        <5> QED BY <5>1, <5>2, <5>3
      <4>2. CASE r[1] \notin Done
        <5>1. /\ IsFiniteSet(Done \cup {r[1]}) /\ Cardinality(Done) \in Nat
              /\ Cardinality(Done \cup {r[1]}) = Cardinality(Done) + 1
          BY <1>1, <4>2, FS_AddElement
        <5> QED BY <5>1
      <4> QED BY <4>1, <4>2
    <3>5. IsFiniteSet(Done') /\ Cardinality(Done') <= Cardinality(Done \cup {r[1]}) /\ Cardinality(Done') \in Nat
      BY <3>3, <3>4, FS_Subset, FS_CardinalityType
    <3>6. IsFiniteSet(Returning \ {r}) /\ Cardinality(Returning \ {r}) = Cardinality(Returning) - 1
      BY <1>1, <3>3, FS_RemoveElement
    <3> QED BY <1>1, <3>1, <3>3, <3>4, <3>5, <3>6 DEF DoneWasWritten
  <2> QED BY <1>6, <2>2, <2>3, <2>4, HandlerEffect
<1>7. CASE Apart
  BY <1>3, <1>7 DEF Apart, Done, Returning
<1> QED BY <1>4, <1>5, <1>6, <1>7, QueueSplit

LEMMA QueueInvariant == Spec => []QueueInv
<1>1. Init => QueueInv
  <2> SUFFICES ASSUME Init PROVE QueueInv
    OBVIOUS
  <2>1. /\ \A u \in Request : job[u].state = "unsent" /\ job[u].retries = 0 /\ request[u].pc = "idle"
        /\ \A r \in Run : run[r].pc = "none"
        /\ \A u \in Request, n \in 0..RetryLimit : <<u, n>> \in Run
        /\ \A u \in Request : Attempt(u) \in Run
    BY RosterConstants DEF Init, NoRun, Run, Attempt
  <2>2. Done = {} /\ Returning = {} /\ serial = 0
    BY <2>1 DEF Done, Returning, Init
  <2>3. DoneWasWritten
    BY <2>2, FS_EmptySet DEF DoneWasWritten
  <2>4. OneOfEach /\ AttemptsInTurn /\ AcceptedHasJob /\ Smooth
    BY <2>1 DEF OneOfEach, AttemptsInTurn, AcceptedHasJob, Smooth, Queued
  <2> QED BY <2>3, <2>4 DEF QueueInv
<1>2. IInv /\ QueueInv /\ [Next]_vars => QueueInv'
  BY NextOneOfEach, NextAttemptsInTurn, NextAcceptedHasJob, NextSmooth, NextDoneWasWritten DEF QueueInv
<1> QED BY <1>1, <1>2, InductiveInvariant, PTL DEF Spec

\* No job waits for somebody who has nothing to do: while one is queued or active, one of
\* the steps that the queue and the handlers are trusted to take has its guard fulfilled,
\* whatever has crashed or expired before (pg-boss's fetch and retry, generate).
SomebodyActs ==
  (\E u \in Request : job[u].state \in Queued \cup {"active"}) =>
    \/ \E u \in Request : job[u].state \in Queued /\ \A v \in Request : job[v].state # "active"
    \/ \E u \in Request : job[u].state = "active" /\ run[Attempt(u)].pc = "ended"
    \/ \E r \in Run : run[r].pc \in Working

THEOREM NobodyIsForgotten == Spec => []SomebodyActs
<1>1. IInv /\ QueueInv => SomebodyActs
  <2> SUFFICES ASSUME IInv, QueueInv, NEW u \in Request, job[u].state \in Queued \cup {"active"},
                      ~(\E v \in Request : job[v].state \in Queued /\ \A w \in Request : job[w].state # "active")
               PROVE  \/ \E v \in Request : job[v].state = "active" /\ run[Attempt(v)].pc = "ended"
                      \/ \E r \in Run : run[r].pc \in Working
    BY DEF SomebodyActs
  <2>1. PICK v \in Request : job[v].state = "active"
    OBVIOUS
  <2>2. Attempt(v) \in Run /\ run[Attempt(v)].pc # "none" /\ run[Attempt(v)] \in RunRow
    BY <2>1, RowsTyped DEF QueueInv, AttemptsInTurn
  <2>3. run[Attempt(v)].pc \in Working \cup {"ended"}
    BY <2>2 DEF RunRow, Working
  <2> QED BY <2>1, <2>2, <2>3
<1> QED BY <1>1, InductiveInvariant, QueueInvariant, PTL

\* And it goes on for finitely many steps only: a handler never goes back, and no attempt
\* is started twice (one handler for each attempt of a job).
Stage == [none |-> 0, latest |-> 1, pool |-> 2, persist |-> 3, return |-> 4, ended |-> 5]
AttemptsGoForward == [][\A r \in Run : Stage[run[r].pc] <= Stage[run'[r].pc]]_vars

THEOREM AttemptsOnce == Spec => AttemptsGoForward
<1> DEFINE Step == \A r \in Run : Stage[run[r].pc] <= Stage[run'[r].pc]
<1>1. IInv /\ QueueInv /\ [Next]_vars => [Step]_vars
  <2> SUFFICES ASSUME IInv, QueueInv, [Next]_vars, NEW q \in Run
               PROVE  Stage[run[q].pc] <= Stage[run'[q].pc]
    OBVIOUS
  <2>1. run[q].pc \in Working \cup {"none", "ended"} /\ Stage[run[q].pc] \in Nat
    <3>1. run[q].pc \in Working \cup {"none", "ended"}
      BY RowsTyped DEF RunRow, Working
    <3> QED BY <3>1 DEF Working, Stage
  <2>2. CASE run'[q] = run[q]
    BY <2>1, <2>2
  <2>3. CASE run[q].pc = "none" /\ run'[q].pc = "latest"
    BY <2>3 DEF Stage
  <2>4. ASSUME Handler(q) \/ RunDies(q) PROVE Stage[run[q].pc] <= Stage[run'[q].pc]
    <3>1. \/ run[q].pc = "latest" /\ run'[q].pc = "pool"
          \/ run[q].pc = "pool" /\ run'[q].pc = "persist"
          \/ run[q].pc = "persist" /\ run'[q].pc = "return"
          \/ run[q].pc \in Working /\ run'[q].pc = "ended"
      <4>1. run[q].pc \in Working /\ run \in [Run -> RunRow]
        BY <2>4, RowsTyped, HandlerEffect
      <4>2. CASE ReadLatest(q) \/ ReadPool(q)
        BY <4>1, <4>2 DEF ReadLatest, ReadPool, RunRow
      <4>3. CASE Persist(q)
        BY <4>1, <4>3 DEF Persist, Goto, RunRow
      <4>4. CASE Return(q) \/ RunDies(q)
        BY <4>1, <4>4 DEF Return, RunDies, Goto, RunRow
      <4> QED BY <2>4, <4>2, <4>3, <4>4 DEF Handler
    <3> QED BY <3>1 DEF Stage, Working
  <2>5. ASSUME NEW u \in Request, Fetch(u)
        PROVE  run'[q] = run[q] \/ (run[q].pc = "none" /\ run'[q].pc = "latest")
    BY <2>5, FetchEffect DEF QueueInv, AttemptsInTurn
  <2>6. ASSUME NEW r \in Run, Handler(r) \/ RunDies(r), r # q PROVE run'[q] = run[q]
    BY <2>6, HandlerEffect
  <2>7. ASSUME NEW u \in Request, RequestSend(u) \/ JobExpire(u) PROVE run'[q] = run[q]
    BY <2>7, SendEffect, ExpireEffect
  <2>8. ASSUME Apart PROVE run'[q] = run[q]
    BY <2>8 DEF Apart
  <2> QED BY <2>2, <2>3, <2>4, <2>5, <2>6, <2>7, <2>8, QueueSplit
<1>2. [][Step]_vars => AttemptsGoForward
  BY PTL DEF AttemptsGoForward
<1> HIDE DEF Step
<1> QED BY <1>1, <1>2, InductiveInvariant, QueueInvariant, PTL DEF Spec

\* As long as nothing has failed, the month has been written once for each accepted
\* request, or more often, when no job is left: what AcceptedGenerates promises, at the end.
AcceptedAreWritten ==
  Undisturbed /\ (\A u \in Request : job[u].state \notin Queued \cup {"active"}) =>
    Cardinality({u \in Request : request[u].pc = "accepted"}) <= serial

THEOREM AcceptedWritten == Spec => []AcceptedAreWritten
<1>1. IInv /\ QueueInv => AcceptedAreWritten
  <2> SUFFICES ASSUME IInv, QueueInv, Undisturbed,
                      \A u \in Request : job[u].state \notin Queued \cup {"active"}
               PROVE  Cardinality({u \in Request : request[u].pc = "accepted"}) <= serial
    BY DEF AcceptedAreWritten
  <2>1. ASSUME NEW u \in Request
        PROVE  request[u].pc = "accepted" <=> job[u].state = "completed"
    <3>1. job[u].state \in JobState /\ job[u].state \notin {"retry", "failed"}
      BY RowsTyped DEF QueueInv, Smooth, JobRow
    <3> QED BY <3>1 DEF JobState, IInv, Accepted, QueueInv, AcceptedHasJob, Queued
  <2>2. {u \in Request : request[u].pc = "accepted"} = Done
    BY <2>1 DEF Done
  <2>3. Cardinality(Done) \in Nat /\ Cardinality(Returning) \in Nat /\ serial \in Nat
        /\ Cardinality(Done) + Cardinality(Returning) <= serial
    <3>1. IsFiniteSet(Done) /\ IsFiniteSet(Returning)
          /\ Cardinality(Done) + Cardinality(Returning) <= serial
      BY DEF QueueInv, DoneWasWritten
    <3> QED BY <3>1, RowsTyped, FS_CardinalityType
  <2>4. Cardinality(Done) <= serial
    BY <2>3
  <2> QED BY <2>2, <2>4
<1> QED BY <1>1, InductiveInvariant, QueueInvariant, PTL
=============================================================================
