--------------------------- MODULE RosterLifecycle ---------------------------
(***************************************************************************)
(* One company's roster of one month: the generate route, the pg-boss      *)
(* queue `roster-generation' and its handler, manual edits, alert          *)
(* acknowledgment, publication and the public schedule page.               *)
(*                                                                         *)
(* A step is one committed statement or transaction; what a handler has    *)
(* read and not yet used is in its own record.  The month is one slot that *)
(* wants Required workers, and every contract's minimum is one shift, so a *)
(* plan is the set of workers assigned and the alerts it deserves follow.  *)
(***************************************************************************)
EXTENDS Naturals, Sequences, FiniteSets

CONSTANTS
  Request,      \* POST /rosters/generate; the pg-boss job sent for u is called u
  Forced,       \* requests with force: true
  Editor,       \* manual edits (one add or remove each)
  Publisher,    \* POST /rosters/:id/publish
  Reader,       \* GET of a public schedule page
  Worker,
  Required,     \* staffing requirement of the slot
  RetryLimit,
  MaxImports,   \* bound: workforce imports that complete
  MaxFaults,    \* bound: crashes, failed solves and expiries
  None

ASSUME RosterConstants ==
  /\ Forced \subseteq Request
  /\ Required \in Nat
  /\ RetryLimit \in Nat
  /\ MaxImports \in Nat
  /\ MaxFaults \in Nat
  /\ None \notin Worker
  /\ IsFiniteSet(Worker)

VARIABLES
  worker,       \* workers: status and lastImportTaskId (0 is null)
  latest,       \* id of the latest COMPLETED import task, 0 if none
  unstamped,    \* workers that import has touched and not stamped yet
  roster,       \* the rosters row with its shifts, shift_workers and alerts
  serial,       \* writing transactions so far: the source of fresh ids
  request,      \* progress of the generate route
  job,          \* pg-boss rows of the queue
  run,          \* executions of the job handler
  edit, publisher, reader,
  faults,
  published     \* history: publications, as the generation each one published

vars == <<worker, latest, unstamped, roster, serial, request, job, run,
          edit, publisher, reader, faults, published>>

Queued == {"created", "retry"}
JobState == Queued \cup {"unsent", "active", "completed", "failed"}
Run == Request \X (0..RetryLimit)
\* Every attempt persists at most once and every editor writes at most once.
MaxSerial == Cardinality(Run) + Cardinality(Editor)

\* `about' is a worker short of hours, or None for the understaffed slot.
Alert == [about : Worker \cup {None}, id : Nat, acked : BOOLEAN]

NoRun == [pc |-> "none", latest |-> 0, pool |-> {}]
NoEdit == [pc |-> "idle", gen |-> 0, worker |-> None, adds |-> FALSE]

TypeOK ==
  /\ worker \in [Worker -> [status : {"ACTIVE", "INACTIVE", "deleted"}, stamp : 0..MaxImports]]
  /\ latest \in 0..MaxImports
  /\ unstamped \subseteq Worker
  /\ roster \in [status : {"none", "DRAFT", "PUBLISHED"}, gen : Nat,
                 plan : SUBSET Worker, alerts : SUBSET Alert]
  /\ serial \in Nat
  /\ request \in [Request -> [pc : {"idle", "send", "accepted", "inFlight", "isPublished"},
                              seen : Nat]]
  /\ job \in [Request -> [state : JobState, retries : 0..RetryLimit]]
  /\ run \in [Run -> [pc : {"none", "latest", "pool", "persist", "return", "ended"},
                      latest : 0..MaxImports, pool : SUBSET Worker]]
  /\ edit \in [Editor -> [pc : {"idle", "write", "ended"}, gen : Nat,
                          worker : Worker \cup {None}, adds : BOOLEAN]]
  /\ publisher \in [Publisher -> {"idle", "update", "ended"}]
  /\ reader \in [Reader -> [pc : {"idle", "plan", "ended"}, gen : Nat]]
  /\ faults \in 0..MaxFaults
  /\ published \in Seq(Nat)

Init ==
  /\ worker = [w \in Worker |-> [status |-> "ACTIVE", stamp |-> 0]]
  /\ latest = 0
  /\ unstamped = {}
  /\ roster = [status |-> "none", gen |-> 0, plan |-> {}, alerts |-> {}]
  /\ serial = 0
  /\ request = [u \in Request |-> [pc |-> "idle", seen |-> 0]]
  /\ job = [u \in Request |-> [state |-> "unsent", retries |-> 0]]
  /\ run = [r \in Run |-> NoRun]
  /\ edit = [e \in Editor |-> NoEdit]
  /\ publisher = [p \in Publisher |-> "idle"]
  /\ reader = [d \in Reader |-> [pc |-> "idle", gen |-> 0]]
  /\ faults = 0
  /\ published = <<>>

-----------------------------------------------------------------------------
ActiveWorkers == {w \in Worker : worker[w].status = "ACTIVE"}

\* What deserves an alert: staff without a shift, and the slot if understaffed.
Targets(staff, plan) ==
  (staff \ plan) \cup (IF Cardinality(plan) < Required THEN {None} ELSE {})

Raised(targets, id) == [about : targets, id : {id}, acked : {FALSE}]

Unacknowledged == {a \in roster.alerts : ~a.acked}

Fault == faults < MaxFaults /\ faults' = faults + 1

staffVars == <<worker, latest, unstamped>>
clientVars == <<edit, publisher, reader>>

-----------------------------------------------------------------------------
(* POST /rosters/generate *)

MutAlreadyPublished(u) == FALSE
AlreadyPublished(u) == roster.status = "PUBLISHED" /\ u \notin Forced

RequestCheck(u) ==
  /\ request[u].pc = "idle"
  /\ request' = [request EXCEPT ![u] =
                   [pc |-> IF AlreadyPublished(u) THEN "isPublished" ELSE "send",
                    seen |-> Len(published)]]
  /\ UNCHANGED <<staffVars, roster, serial, job, run, clientVars, faults, published>>

\* enqueueRosterGeneration: one `created' job per company and month.
RequestSend(u) ==
  /\ request[u].pc = "send"
  /\ IF \E v \in Request : job[v].state = "created"
     THEN request' = [request EXCEPT ![u].pc = "inFlight"] /\ UNCHANGED job
     ELSE /\ request' = [request EXCEPT ![u].pc = "accepted"]
          /\ job' = [job EXCEPT ![u].state = "created"]
  /\ UNCHANGED <<staffVars, roster, serial, run, clientVars, faults, published>>

-----------------------------------------------------------------------------
(* The job handler: RosterGenerationService.generate *)

requestVars == <<request, published>>

Goto(r, pc) == run' = [run EXCEPT ![r].pc = pc]

\* One active job per singletonKey.
Fetch(u) ==
  /\ job[u].state \in Queued
  /\ \A v \in Request : job[v].state # "active"
  /\ job' = [job EXCEPT ![u].state = "active"]
  /\ run' = [run EXCEPT ![<<u, job[u].retries>>] = [NoRun EXCEPT !.pc = "latest"]]
  /\ UNCHANGED <<staffVars, roster, serial, requestVars, clientVars, faults>>

\* The latest COMPLETED WORKFORCE_SYNC task.
ReadLatest(r) ==
  /\ run[r].pc = "latest"
  /\ run' = [run EXCEPT ![r].pc = "pool", ![r].latest = latest]
  /\ UNCHANGED <<staffVars, roster, serial, requestVars, job, clientVars, faults>>

\* The ACTIVE workers who were never synced, or synced by that task.
ReadPool(r) ==
  /\ run[r].pc = "pool"
  /\ run' = [run EXCEPT ![r].pc = "persist",
                        ![r].pool = {w \in ActiveWorkers : worker[w].stamp \in {0, run[r].latest}}]
  /\ UNCHANGED <<staffVars, roster, serial, requestVars, job, clientVars, faults>>

MutRewritten(staff, plan) ==
  [status |-> "DRAFT", gen |-> serial + 1, plan |-> plan,
   alerts |-> {a \in roster.alerts : a.about \in Targets(staff, plan)}
                \cup Raised(Targets(staff, plan) \ {a.about : a \in roster.alerts}, serial + 1)]

\* The month's shifts and alerts, deleted and written anew.
Rewritten(staff, plan) ==
  [status |-> "DRAFT", gen |-> serial + 1, plan |-> plan,
   alerts |-> Raised(Targets(staff, plan), serial + 1)]

MutExist(plan) == TRUE
\* The foreign keys of shift_workers.
Exist(plan) == \A w \in plan : worker[w].status # "deleted"

\* The solver's hard constraint: coverage plus shortfall equals the requirement.
Solutions(pool) == {plan \in SUBSET pool : Cardinality(plan) <= Required}

\* Solve for the workers read before, and persist the solution in one
\* transaction; the upsert of the rosters row keeps two of them apart.
Persist(r) ==
  /\ run[r].pc = "persist"
  /\ \E plan \in Solutions(run[r].pool) :
       IF Exist(plan)
       THEN /\ roster' = Rewritten(run[r].pool, plan)
            /\ serial' = serial + 1
            /\ Goto(r, "return")
       ELSE /\ Goto(r, "ended")
            /\ UNCHANGED <<roster, serial>>
  /\ UNCHANGED <<staffVars, requestVars, job, clientVars, faults>>

\* pg-boss completes the job, if it is still this attempt's and still active.
Return(r) ==
  /\ run[r].pc = "return"
  /\ Goto(r, "ended")
  /\ job' = IF job[r[1]] = [state |-> "active", retries |-> r[2]]
            THEN [job EXCEPT ![r[1]].state = "completed"] ELSE job
  /\ UNCHANGED <<staffVars, roster, serial, requestVars, clientVars, faults>>

Handler(r) == ReadLatest(r) \/ ReadPool(r) \/ Persist(r) \/ Return(r)

\* The worker process dies, or the solver exits with an error.
RunDies(r) ==
  /\ run[r].pc \notin {"none", "ended"}
  /\ Fault
  /\ Goto(r, "ended")
  /\ UNCHANGED <<staffVars, roster, serial, requestVars, job, clientVars>>

MutRetriesLeft(u) == job[u].retries + 1 < RetryLimit
MutTooManyRetries(u) == job[u].retries <= RetryLimit
RetriesLeft(u) == job[u].retries < RetryLimit

\* The job of a run that ended without returning is retried; a run that has
\* outlived expireInSeconds (a fault) goes on unobserved.
JobExpire(u) ==
  /\ job[u].state = "active"
  /\ IF run[<<u, job[u].retries>>].pc = "ended" THEN UNCHANGED faults ELSE Fault
  /\ IF RetriesLeft(u) /\ \A v \in Request : job[v].state # "retry"
     THEN job' = [job EXCEPT ![u].state = "retry", ![u].retries = @ + 1]
     ELSE job' = [job EXCEPT ![u].state = "failed"]
  /\ UNCHANGED <<staffVars, roster, serial, requestVars, run, clientVars>>

-----------------------------------------------------------------------------
(* The planner: edits, acknowledgments, publication; the public page *)

jobVars == <<request, job, run>>

\* addWorker / removeWorker up to the verdict.
EditRead(e) ==
  /\ edit[e].pc = "idle"
  /\ roster.status # "none"
  /\ \E w \in Worker, adds \in BOOLEAN :
       /\ IF adds THEN w \in ActiveWorkers \ roster.plan ELSE w \in roster.plan
       /\ edit' = [edit EXCEPT ![e] = [pc |-> "write", gen |-> roster.gen, worker |-> w,
                                       adds |-> adds]]
  /\ UNCHANGED <<staffVars, roster, serial, jobVars, publisher, reader, faults, published>>

\* The shift_workers row can still be inserted or deleted: the shift it names is
\* gone once another generation has rewritten the month.
Applies(e) ==
  LET w == edit[e].worker IN
  /\ edit[e].gen = roster.gen
  /\ IF edit[e].adds THEN Exist({w}) /\ w \notin roster.plan ELSE w \in roster.plan

\* recomputeRosterAlerts: alerts that still apply stay as they are.
Reconciled(alerts, targets, id) ==
  {a \in alerts : a.about \in targets}
    \cup Raised(targets \ {a.about : a \in alerts}, id)

EditWrite(e) ==
  LET w == edit[e].worker
      plan == IF edit[e].adds THEN roster.plan \cup {w} ELSE roster.plan \ {w}
  IN
  /\ edit[e].pc = "write"
  /\ edit' = [edit EXCEPT ![e].pc = "ended"]
  /\ IF Applies(e)
     THEN /\ roster' = [roster EXCEPT !.plan = plan,
                          !.alerts = Reconciled(@, Targets(ActiveWorkers, plan), serial + 1)]
          /\ serial' = serial + 1
     ELSE UNCHANGED <<roster, serial>>
  /\ UNCHANGED <<staffVars, jobVars, publisher, reader, faults, published>>

\* ackAlert; its lookup and its update by id differ only in failing later.
Ack(a) ==
  /\ a \in Unacknowledged
  /\ roster' = [roster EXCEPT !.alerts = (@ \ {a}) \cup {[a EXCEPT !.acked = TRUE]}]
  /\ UNCHANGED <<staffVars, serial, jobVars, clientVars, faults, published>>

\* publish: read the unacknowledged alerts, then update the rosters row.
PublishCheck(p) ==
  /\ publisher[p] = "idle"
  /\ roster.status # "none"
  /\ publisher' = [publisher EXCEPT ![p] = IF Unacknowledged = {} THEN "update" ELSE "ended"]
  /\ UNCHANGED <<staffVars, roster, serial, jobVars, edit, reader, faults, published>>

PublishUpdate(p) ==
  /\ publisher[p] = "update"
  /\ publisher' = [publisher EXCEPT ![p] = "ended"]
  /\ roster' = [roster EXCEPT !.status = "PUBLISHED"]
  /\ published' = Append(published, roster.gen)
  /\ UNCHANGED <<staffVars, serial, jobVars, edit, reader, faults>>

MutShown == roster.status # "none"
\* !roster || roster.status !== 'PUBLISHED' is not found.
Shown == roster.status = "PUBLISHED"

\* getSchedule: the roster's status first, the worker's shifts after.
ReadRoster(d) ==
  /\ reader[d].pc = "idle"
  /\ reader' = [reader EXCEPT ![d].pc = IF Shown THEN "plan" ELSE "ended"]
  /\ UNCHANGED <<staffVars, roster, serial, jobVars, edit, publisher, faults, published>>

ReadShifts(d) ==
  /\ reader[d].pc = "plan"
  /\ reader' = [reader EXCEPT ![d] = [pc |-> "ended", gen |-> roster.gen]]
  /\ UNCHANGED <<staffVars, roster, serial, jobVars, edit, publisher, faults, published>>

-----------------------------------------------------------------------------
(* Workers change under a running generation *)

rosterVars == <<roster, serial, jobVars, clientVars, faults, published>>

\* PUT /workers/:id with another status.
SetStatus(w) ==
  /\ worker[w].status # "deleted"
  /\ \E s \in {"ACTIVE", "INACTIVE"} \ {worker[w].status} :
       worker' = [worker EXCEPT ![w].status = s]
  /\ UNCHANGED <<latest, unstamped, rosterVars>>

MutDeletable(w) == TRUE
\* DELETE /workers/:id is refused while the worker holds a shift.
Deletable(w) == w \notin roster.plan

Delete(w) ==
  /\ worker[w].status # "deleted"
  /\ Deletable(w)
  /\ worker' = [worker EXCEPT ![w].status = "deleted"]
  /\ unstamped' = unstamped \ {w}
  /\ UNCHANGED <<latest, rosterVars>>

\* A workforce import completes (WorkforceImport!Finalize) ...
ImportFinalize ==
  /\ latest < MaxImports
  /\ unstamped = {}
  /\ latest' = latest + 1
  /\ unstamped' \in SUBSET {w \in Worker : worker[w].status # "deleted"} \ {{}}
  /\ UNCHANGED <<worker, rosterVars>>

\* ... and then stamps the workers it touched (WorkforceImport!Stamp).
ImportStamp ==
  /\ unstamped # {}
  /\ worker' = [w \in Worker |-> IF w \in unstamped THEN [worker[w] EXCEPT !.stamp = latest]
                                 ELSE worker[w]]
  /\ unstamped' = {}
  /\ UNCHANGED <<latest, rosterVars>>

-----------------------------------------------------------------------------
Next ==
  \/ \E u \in Request : RequestCheck(u) \/ RequestSend(u) \/ Fetch(u) \/ JobExpire(u)
  \/ \E r \in Run : Handler(r) \/ RunDies(r)
  \/ \E e \in Editor : EditRead(e) \/ EditWrite(e)
  \/ \E a \in roster.alerts : Ack(a)
  \/ \E p \in Publisher : PublishCheck(p) \/ PublishUpdate(p)
  \/ \E d \in Reader : ReadRoster(d) \/ ReadShifts(d)
  \/ \E w \in Worker : SetStatus(w) \/ Delete(w)
  \/ ImportFinalize \/ ImportStamp

Spec == Init /\ [][Next]_vars

\* The route, the queue and the handlers keep going; users may stop at will.
Fairness ==
  /\ \A u \in Request : WF_vars(RequestSend(u)) /\ WF_vars(Fetch(u))
                        /\ WF_vars(JobExpire(u) /\ UNCHANGED faults)
  /\ \A r \in Run : WF_vars(Handler(r))

FairSpec == Spec /\ Fairness

-----------------------------------------------------------------------------
(* Properties *)

\* No acknowledgment outlives a regeneration: an acknowledged alert was raised by
\* the current generation or by an edit of it, so the publish gate always asks
\* about the plan it would publish (persistDraft deletes the alerts).
NoInheritedAck == \A a \in roster.alerts : a.acked => a.id >= roster.gen

\* Whatever is deleted while a solve is running, no shift is ever assigned to a
\* worker that does not exist (shift_workers' foreign keys, both ways).
NoGhostWorker == \A w \in roster.plan : worker[w].status # "deleted"

\* The public page never shows anything of a month before its first publication;
\* what it shows may be newer than what was published last, when a regeneration
\* commits between its two reads (getSchedule).
NothingBeforePublication ==
  \A d \in Reader : reader[d].gen # 0 => published # <<>> /\ published[1] <= reader[d].gen

\* A published month is reopened without force only by a request that looked at
\* it before its latest publication: never by one that saw it published.
UnforcedReopensBlind ==
  [][\A r \in Run : /\ roster.status = "PUBLISHED" /\ roster'.status = "DRAFT"
                    /\ run[r].pc = "persist" /\ run'[r].pc = "return"
                    => r[1] \in Forced \/ request[r[1]].seen < Len(published)]_vars

\* An accepted request is followed by a rewritten month, as long as fewer attempts
\* are spoilt (a crash, a worker deleted during the solve) than pg-boss makes.  Not
\* always by its own job: one that must be retried while another job waits in
\* `retry' fails for good.
AcceptedGenerates ==
  \A u \in Request, n \in 0..(MaxSerial - 1) :
    job[u].state = "created" /\ serial = n ~> serial > n

-----------------------------------------------------------------------------
(* What the code says of itself and does not do *)

\* services/rosterService.ts: "Publish gate: blocked while ANY alert on the
\* roster is unacknowledged".
PublishGate ==
  [][Len(published') > Len(published) => Unacknowledged = {}]_vars

\* docs/csv-schema.md: generation considers "ACTIVE workers ... whose
\* `lastImportTaskId` matches the company's most recent completed" import, which
\* each completed import "stamps ... on every worker its rows touched".
TouchedIsEligible ==
  [][\A r \in Run : run[r].pc = "pool" /\ run'[r].pc = "persist" =>
       {w \in ActiveWorkers : w \in unstamped \/ (latest # 0 /\ worker[w].stamp = latest)}
         \subseteq run'[r].pool]_vars
=============================================================================
