# Rostering system: TLA+ models, checks and proofs

This directory models the rostering system where steps of several actors meet
and where boundaries are easy to miss: the workforce-CSV import pipeline, the
life of a month's roster, the pages of the web client with their late answers,
and what crosses from one representation to another (file, draft, form, solver
problem, process clocks). The modules are translated from the source; `PROJECT.json` maps every
definition to its lines, lists the TLC runs, a mutant for every checked
property, the hazards of the code, and the theorems.

## The system

A pnpm monorepo: an Express API and a separate worker process (`apps/api`),
both over one PostgreSQL database through Prisma and pg-boss 12; a CP-SAT
solver run as a Python child process (`solver/solve_roster.py`); a React client
(`apps/web`); shared schemas and a UI kit (`packages/*`).

| Component | State | Operations | Meets |
|---|---|---|---|
| Workforce import (`services/workforceImportService.ts`, `routes/workforce.ts`, `jobs/*`) | `import_tasks`, pg-boss jobs, `workers.lastImportTaskId` | upload (cancel and replace), claim or self-bootstrap, import rows, check, finalize, stamp | pg-boss, roster generation (eligibility) |
| Roster generation (`services/rosterGenerationService.ts`, `routes/rosters.ts`) | `rosters`, `shifts`, `shift_workers`, `alerts` | generate request, job, persistDraft | solver, edits, publication, workers, imports |
| Roster review (`services/rosterService.ts`) | alerts, roster status | acknowledge, publish | generation, edits |
| Manual edits (`services/shiftWorkerService.ts`, `alertRecompute.ts`, `engine/validator.ts`) | `shift_workers`, `alerts` | add, move, remove, recompute alerts | generation, other edits |
| Public schedule (`services/publicScheduleService.ts`) | none | two reads | generation, publication |
| Workers, contracts, companies, requirements (`services/workerService.ts`, `companyService.ts`, `staffingRequirementService.ts`) | one table each | CRUD, replace | generation, edits, the pages |
| Availability (`services/availabilityService.ts`) | `worker_availability` | replace a month | imports, generation, the grid |
| CSV codec (`csv/*`, `services/workforceExportService.ts`) | none | guard, unguard, parse, write | import, export |
| Solver and its clock (`solver/`, `engine/*`) | none | problem, solve, time budget | generation |
| Polling (`routes/jobs.ts`, `routes/importTasks.ts`) | none | read | web |
| Roster screen (`pages/Roster/*`, `store/*`, `api/*`) | page state, dialog and edit slices, query cache | generate, poll, acknowledge, publish, edit, import, switch | API |
| Back office (`ActiveCompanyGate.tsx`, `pages/Companies`, `pages/Workers`) | active company, forms, query cache | create, rename, delete, save in two requests, share | API |
| Availability grid (`AvailabilityGrid.tsx`, `availabilityDraft.ts`, `CalendarGrid`) | draft, selection, focus | load, toggle, save, move | API, keyboard |
| Public page (`pages/PublicSchedule/*`) | hook state | load, change month | API |

What is hard: the route's SQL transaction is READ COMMITTED and holds a
per-company advisory lock that the job handler does not take; its pg-boss calls
go through other connections, so jobs appear before the transaction commits and
survive its rollback; the handler is cancelled only cooperatively; a handler may
crash, be expired while still running, and be retried; publication, the public
page and the choice of eligible workers each read twice; a generation rewrites
a month minutes after it was asked to. In the client, an answer may come after
the page has gone to another company or month, RTK Query keeps the previous
argument's `data` until (or unless) the next one loads, a save is two requests,
and focus follows a scroll only on a later frame.

## Modules

* `WorkforceImport` -- one company's import pipeline. Everything there is keyed
  by company (advisory lock, partial unique index, singletonKey), so one company
  is the whole protocol. One step is one committed SQL statement or one pg-boss
  call. `tx` is the open route transaction: `RouteOpen`, `RouteCancel`,
  `RouteCancelJob`, `RouteCreate`, `RouteSend`, `RouteCommit` and `RouteReject`
  are the statements of `beginAndEnqueueImport`, `RouteRollback` its crash. A
  run `<<u, n>>` is attempt n of the job of upload u: `ClaimFind` and
  `ClaimAdopt` are `claimTask`; `BootFind` to `BootCreate` are
  `cancelAndCreateTask`; `ImportRow`, `CheckCancelled`, `Finalize`, `Stamp` and
  `Return` the rest of `importCsv`. What the transaction has locked or inserted
  makes other statements wait (`RowLocked`, `IndexInDoubt`). `BootCreate` retries
  without a bound, the code 20 times (`MAX_CANCEL_AND_CREATE_ATTEMPTS`,
  `workforceImportService.ts:84`); the runs' uploads are too few to reach it, and what
  is proved for any number of them is proved as long as no handler loses that race more
  often.
* `ImportSlot` -- what the pipeline promises: one slot per company; a task begins
  in it (superseding the one there), ends in it, or is refused.
* `MCWorkforceImport` -- files and model values.
* `WorkforceImportProofs` -- the theorems.
* `RosterLifecycle` -- one company's roster of one month: the generate route, the
  queue `roster-generation`, the handler's four steps (latest import, eligible
  workers, solve and persist, return), edits, acknowledgments, publication, the
  public page, and workers being deactivated, deleted and imported meanwhile.
  The month is one slot with a requirement, contracts ask for one shift each, so
  a plan is the set of assigned workers and the deserved alerts follow from it.
  The solver is any solution its coverage constraint allows; its shortfall and
  deficit slacks are taken to be tight.
* `MCRosterLifecycle` -- model values.
* `RosterLifecycleProofs` -- its theorems.
* `RosterRules` -- pure: the hard and soft rules of a manual edit
  (`engine/validator.ts`) beside the solver's constraints on one worker's month.
* `RosterEdit` -- add, move and remove as concurrent READ COMMITTED transactions
  over `shift_workers` and `alerts`: `Begin` and `Write` are the reads, the
  verdict and the write (which waits for the row's other writer), `ReadPlan` and
  `ReadAlerts` the reads of `recomputeRosterAlerts`, `Commit` its writes,
  `Ack` an acknowledgment in between.  `RosterLifecycle` keeps an edit to one read
  and one write, because what it asks is how edits meet generations.
* `MCRosterEdit` -- guards, shifts and requirements.
* `RosterEditProofs` -- its theorems.

pg-boss is modelled from how the code uses it: a `stately` queue admits one job
per key and state; a fetched job becomes active; a run that ends without
returning, or outlives its expiry, is retried up to the limit, and fails at once
if another job of the key is in `retry`.

### The roster screen

* `Screen` -- what the parts of the page share: company and month, the section
  shown, the one dialog, and what a poll is (`useJobPolling`, `toPollState`).
* `RosterPage` -- the roster of the title and the cached ones (`cached`, `shown`),
  the generation and its banner, acknowledgments, publication, the switch of
  company and month. A call is a record in `calls` until its answer
  is taken; every `Answer...` action is what follows the `await`. A poll that is
  under way when the page stops following its job is such a call too: its answer
  still invalidates the rosters (`AnswerStalePoll`). Two histories name what the code
  leaves open: `astray`, the jobs whose 202 came after the title had moved on, and
  `asked`, what became of the question before a forced generation (Back changed the
  month under it, or a late 409 asked it).
* `SlotEdit` -- the edit dialog with `editFlow.ts`: submit, preview, warnings,
  "Save anyway", blocked, lost. `late` names the openings of the dialog that the
  answer to an edit of an earlier opening has reached.
* `ImportPanel` -- file, check for an active import, upload, result dialog and the
  poll behind it. Every click has a continuation of its own, so a second click during
  the check is a second check and a second upload. `crossed` tells whether a
  continuation has outlived its dialog, `twice` whether "Import" was clicked during
  an earlier click's check. The import itself is an arbitrary end of its job
  (`WorkforceImport` has the rest).
* `RosterScreen`, `MCRosterScreen` -- their composition, and sessions.
* `RosterScreenProofs` -- its theorems.

### The back office

* `BackOffice` -- one tab: active and stored company, page, dialog. `Restart` is
  the browser's reload: only what is stored or in the URL (the page, the month) is
  left, every component starts afresh (`StaffForgotten`, `PageForgotten`,
  `GridForgotten`), and answers on their way are lost with the page that asked.
* `CompanyDirectory` -- gate, companies page, company form (create, then save the
  headcounts; retry), deletion.
* `WorkerDirectory` -- the worker list, the form's two requests, deactivation,
  deletion, the share dialog, and the tags that make the list refetch. The page's
  own state belongs to one instance of it (`visit`): a late answer changes nothing of
  a later one.
* `AvailabilityTable` -- `replaceMonth` as its statements, READ COMMITTED: a delete
  sees what was committed when it began and waits for row locks, an insert waits
  for, or is refused by, a key another transaction holds.
* `AvailabilityGrid` -- load, draft, save and refetch, over `AvailabilityTable`.
* `ScheduleView` -- the public page's hook.
* `Office`, `MCOffice` -- their composition, and sessions.
* `CompanyDirectoryProofs`, `OfficeProofs` -- lemmas on the gate and the companies
  page; those on the other parts, and the theorems.

### Keyboard focus

* `RovingTabindex` -- pure: where a key leads (`rovingTabindex.ts`).
* `GridFocus` -- selection and browser focus in the calendar (with its dialog and
  focus trap) and in the virtualised availability grid.
* `MCGridFocus` -- sizes.
* `GridFocusProofs` -- its theorems.

### Exchange

* `MonthTable` -- the database these share: people, availability, headcounts. A firm's
  matrix of headcounts may lack rows (`Matrices`), as the table may.
* `WorkforceFile` -- the workforce CSV out and in. A name is a sequence of
  characters only as far as guarding needs it; a field is good or of one kind of
  bad; a day cell is the sequence of letters typed.
* `AvailabilityDraft` -- the grid's draft as a pure structure.
* `SolverProblem` -- `engine/problem.ts` and `solve_roster.py`: variables, hard
  constraints, objective, alerts. A cell with a row is held to its headcount; in one
  without a row anybody may be put, up to two shifts a day and the contract's hours. CP-SAT answers with any optimal
  solution, or, cut short, with any solution.
* `RequirementsForm` -- the nine cells, both validations, the column.
* `SolverProcess` -- the child process against Node's timer, Python's budget and
  pg-boss's expiry, in seconds.
* `Exchange`, `MCExchange` -- all five over one table; a session exercises one.
* `ExchangeProofs` -- its theorems.

## Runs

Passing:

| Run | Question | Bounds |
|---|---|---|
| `ImportBurst` | with no fault, does the newest upload win and stamp its workers? | three overlapping uploads, one row each, no retry |
| `ImportFaults` | is the slot kept, are ended tasks final, and does all work drain, through a crash? | two uploads of one row, one crash, expiry, rollback or failed cancel, one retry |
| `ImportRows` | how far does a superseded handler run on, and does its task end? | files of up to four rows with a repeated and a foreign worker, check every two rows, one fault, no retry |
| `RosterGates` | acknowledgment, publication, reopening, staff changing under a solve | two requests (one forced), an edit, a publication, a reader, one worker, one import, one fault, no retry |
| `RosterGenerates` | is an accepted request followed by a rewritten month? | two requests, one worker who may be deleted, one fault, two retries |
| `RosterEdits` | rules, caps and alerts under overlapping edits | two planners with one edit each, two guards, three shifts of one day, starting from each of the 18 rosters the solver allows |
| `RosterScreen` | does what is shown, confirmed, forced and uploaded belong to what the planner sees, and does polling end in a refetch? | two companies, two months, two slots, two workers, two jobs, two imports, up to three clicks on Import or Continue; ten sessions |
| `Office` | do forms, lists, link, grid and public page agree with the tables, with answers late, lost or reordered? | three companies, three workers, two months, two concurrent replacements; about twenty-five sessions, reloads among them |
| `GridFocus` | does the key act where the selection is, and does the focus arrive? | two months of unequal length, two companies of unequal size, two drawn rows and one beyond |
| `Exchange` | does what is entered survive the way to the file, the database and the solver, and do the clocks leave the solver its time? | three workers of two firms, months of one or two days, whole matrices of headcounts and one with a row of 1, a row of 0 and cells without a row, a crew for whom an hour and the spread cost the same, files with up to two manual changes, three toggles, two cells, seven company sizes at the bands' edges |

The bounds are the smallest in which the interesting overlaps occur: two jobs
are needed for one to run while the other is queued, a third upload for a
supersession to be superseded; one fault is a crash at every point of every
attempt; two edits are a race, and three shifts of a day exceed the cap of two.
`MaxTask` is large enough for every route and every self-bootstrap to create a
task. A client session grants a number of clicks of each kind (`Uses` takes one);
the sessions cover each part of a page in depth and the pairs that share state,
and every answer may come at any time after its call, or not at all where the
code distinguishes that. `Crew` holds both sides of every band's edge, `Delay` a
delay below, at and above the headroom. `Editor` is a symmetry set of `RosterEdits`: the edits are interchangeable
and the run checks no liveness. All runs but `GridFocus` disable the deadlock check: the
system rests when the requests, or a session's clicks, are used up.

The client's and the exchange runs check conjunctions of the parts' properties,
which are stated beside the actions they are about; every conjunct has a mutant
that breaks it.

| Property | Parts |
|---|---|
| `ScreenIsOfScope` | `BannerIsOfScope`, `ShownIsOfScope`, `StaleReportIsBrief` |
| `ActsWereAsked` | `ForcedWasAsked`, `WarningsAreOfPending`, `OneEditPerOpening`, `UploadsAreAgreed`, `OneUploadAtATime` |
| `AnswersArrive` | `GenerationShown`, `GridRefetched`, `SubmissionEnds` |
| `SavesAreWhole` | `OneCompanyPerOpening`, `RetryIsForOpening`, `CreatedIsUsable`, `SavedMeansBoth` |
| `ShownIsOwn` | `LoadedMatrixIsOwn`, `ShownLinkWorks`, `DraftIsOfScope`, `ViewIsOfMonthUnlessOvertaken` |
| `ReplacedAlone` | `ReplacedExactlyAlone`, `OthersAreKept` |
| `PagesCatchUp` | `DeletedIsGone`, `ListCatchesUp`, `GridCatchesUp`, `ViewSettles` |
| `KeysActOnSelection` | `SelectedHasFocus`, `SelectionInGrid`, `ReadingOrder` |
| `FocusFollows` | `FocusReturns`, `FocusLands` |
| `FileIsKept` | `RoundTripUnlessQuoted`, `ImportIsFile` |
| `RosterIsBest` | `ExcludedIsExcluded`, `CoverageComesFirst`, `HoursComeSecond`, `OwedHoursHadNoPlace`, `AlertsAreExact` |
| `EntriesArrive` | `DraftIsPayload`, `RefusedIsTooLarge`, `SavedIsMarked`, `StoredIsShown`, `TotalsAreStored` |
| `SolveEnds` | `KilledOnlyOverHeadroom`, `ExpiredOnlyByOthers`, `SolveSettles` |

Violations, each of one statement the repository makes about itself (the
findings quote it):

| Run | What TLC finds |
|---|---|
| `RosterPublishGate` | an alert raised between `publish`'s two statements is published unacknowledged |
| `CompanyRows` | the edit form of a second company opens with the first one's headcounts, and Enter saves them before its own have loaded |

## Known disagreements

Found by TLC with the same modules; the statement is a definition next to the
properties (a cfg with that one property shows the trace), and the passing runs
check what remains true.

| Statement | What happens | What remains |
|---|---|---|
| `NoStampOfCancelledTask` | the route reads a task as active and sets it CANCELLED by id after the handler has completed it (`workforceImportService.ts:194`) | `StampedByWinner` |
| `UploadTakesOver` | the job can start before the route's transaction commits; its handler finds no task of its own, creates one and cancels the newer task it meets | `NewestTakesOver` without that overlap |
| `TaskEnds` | after a crash the retry finds the task PROCESSING and returns at once | `TaskEndsUnlessFault` |
| `TouchedIsEligible` | a generation between an import's completion and its stamping takes none of the workers it touched | -- |
| `DayCap` | two overlapping adds give one worker three shifts of a day | `DayCapUnlessRaced` |
| `ReplacedExactly` | of two PUTs of a month the second deletes only what it saw: rows of both remain (`availabilityService.ts:146`) | `ReplacedExactlyAlone` |
| `PublishesItsTitle` | after a switch to a month without a roster, Publish and Acknowledge act on the previous one (`RosterPage.tsx:66`) | `ShownIsOfScope` |
| `RefusedHasWorkers` | a company with headcounts but no workers cannot be deleted, and the page blames its workers (`companyService.ts:60`) | `DeletedIsGone` |
| `DuplicateIsAnother` | a form whose contract failed retries the creation and is told that the ID belongs to another worker | `SavedMeansBoth` |
| `LinkIsOfWorker` | the share dialog shows the previous worker's link until its own has loaded | `ShownLinkWorks` |
| `NothingUnseen` | Save before the new month has loaded replaces it by what the grid has of the old one | `DraftIsOfScope` |
| `ViewIsOfMonth` | a body read across a change of month is shown for the new month | `ViewIsOfMonthUnlessOvertaken` |
| `WeightsAreLexicographic` | "coverage >> min-hours >> even distribution" (`solve_roster.py:244`): an hour weighs 100, as much as the greatest spread, so a worker who owes one hour beside one who owes none may lose a shift to balance | `HoursComeSecond` |

Seen while modelling, in the code rather than by a run:

* queue -- the monthly cron job carries `{month: 'next'}` and no company
  (`queue.ts:215`), so its handler fails every time;
* import and roster -- a superseded handler overwrites rows the newer import has
  written (within `StaleRowsBounded`); a second generation can wait while one is
  active; an edit of a published roster raises alerts nobody has acknowledged; a request checked before a publication reopens the month after it; the
  public page may show the draft that a regeneration commits between its reads;
* pages -- the first month of a good link, if not published, is shown as an invalid
  link without the month field; the grid's "saved" message is cleared by the
  refetch, and so are edits made while saving; Deactivate writes the row as
  listed;
* roster screen -- a 202 that comes after a switch starts a banner about the company or
  month left (`RosterPage.tsx:102`); Back under the question whether to overwrite a
  publication changes the month that is then overwritten, and a 409 that comes after a
  switch asks about a month no longer shown, while Confirm acts on the one that is
  (`RosterPage.tsx:129-132`); the edit dialog closed during a preview and opened again
  shows the late warnings, and Save anyway confirms an edit nobody was warned about
  (`SlotEditDialog.tsx:190`);
* double click -- Import stays enabled while the check for an active import is under way
  (`WorkforceCsvPanel.tsx:219` looks at the upload only), so a second click checks and
  uploads once more; the second upload cancels the first on the server, which the
  dialog of lines 224-241 exists to ask about;
* focus -- a pending move takes the focus from what was clicked since; after the grid
  has shrunk below the selection no cell is a tab stop;
* file -- one of another month of the same length is accepted
  (`routes/workforce.ts:33-35`); a name that begins with a quote and a trigger
  loses the quote; workers without a contract are not exported; a cell's error
  hides those of the row's schema;
* headcounts -- a number above the column's range passes both schemas and fails with
  500;
* solver -- the kill timer also counts what CP-SAT's clock does not (start, reading,
  building), so only its headroom separates the two, while `timeBudget.ts:63-67`
  says they can never disagree; nothing listens to errors of the child's stdin
  (`runSolver.ts:109`), so a child that dies unread takes the worker
  process with it; a solution cut short may report too many missing hours;
* absent days -- several comments say that a worker without a row for a day cannot work
  it: `problem.ts:24-26` (which adds that an empty `shifts` never occurs; it does) and
  `39-41`, and `schemas/availability.ts:5-6`, `60-62` and `84-88` of `packages/shared`.
  The solver's `availability.get(date, SHIFT_TYPES)`, `problem.ts:108-112` and the grid
  take the worker for fully available that day, and so does `ExcludedIsExcluded`;
* absent headcounts -- the form shows a cell without a row as 0
  (`staffingRequirementsMatrix.ts:20-22`) and stores all nine, but a PUT may omit some,
  and the solver then puts people there whom the form's 0 would keep out: they work off
  their hours or even out the load, and no alert tells.

## Fairness

Weak fairness of the route's statements, of each run's steps, of fetching, and
of taking back a job whose run has ended: Express, Node and pg-boss's
maintenance keep going as long as their processes do. Users and faults owe
nothing. Faults are bounded (`MaxFaults`), so the liveness runs say what happens
once crashes stop.

In the client: the network answers (`Fetched`, `Answer...`, `ListFetched`,
`AnswersWorkers`, `GridAnswers`, `AnswersView`), polling goes on while its
component is mounted, a frame is drawn, the solver's process or its timer goes
on. No click is fair, no job is required to end, and an answer may be a failure.
`SolveSettles` needs only that the started process, or its timer, takes a step.

## Proofs

`WorkforceImportProofs` proves, for every set of uploads, files, foreign
workers, check interval, retry limit and number of faults:

* `InductiveInvariant`, `TypeCorrect`;
* `AtMostOneActiveTask` -- the slot is never double-booked;
* `StampsAreWinners` -- a stamp names a task whose finalizing update matched;
* `EndedTasksStayEnded` -- CANCELLED and FAILED are final;
* `PipelineImplementsSlot` -- `Spec => ImplementsSlot`, the refinement of
  `ImportSlot`;
* `BurstsImport` (`SomeImportCompletes`), `NewestCompletes` (`NewestTakesOver`) and
  `LatestIsStamped` (`LatestStampsItsWorkers`) -- what a burst of uploads settles to,
  as long as `faults = 0`;
* `NobodyWaitsInVain`, `AttemptsOnce` -- the safety half of `PipelineDrains`: somebody
  can always go on, and no attempt of a job is started twice, whatever has failed.

`OneActiveTask` is not inductive: when the route commits it inserts a task, so
one must know that what is active then is at most the task it will cancel. The
strengthening `IInv` says this (`tx.new` is reserved and absent, and the active
tasks are within `{tx.old}` from the insert on), that whoever else could insert
is kept out meanwhile by the index, that ids are handed out in order, that a
run past its claim owns a task that has begun, and that a run about to stamp has
won. The proofs have one step per action; what a handler step can do to
`import_tasks` is stated once as two effect lemmas (an update, an insert).

What a burst settles to says nothing until all is at rest, so its invariants say what
is still owed on the way. `BurstInv`: without a fault a job is sent once and runs once
(`JobsOnce`, `RunsOnce`); an active task is `Cared` for, by its queued job, by its
run, or by the route that is about to replace it (`Ousted`); and a route that is
refused leaves a run behind that will create a task (`TxOnce`). At rest there is none
of these left, hence no active task, and `Owed` leaves a completed one.
`SettleInv` orders the completions. Once a second task is inserted under a job id it
stays, so a state that satisfies `NoBootstrap` at rest was `Plain` all along; then all
that is active, or was the last to complete, is the newest upload's
(`NewestInv`); a run about to stamp still holds the queue, or its task is being
overwritten, hence no earlier run stamps once the newest one has started
(`StampInOrder`); and what a run has touched when it finalizes is its whole file
(`TouchedInv`), so `Stamped`. TLC has checked `BurstInv`, `SettleInv`, `FinishOrder`
and `TouchedInv` as invariants of `ImportBurst` before they were proved. `Plain` and
`Kept` say of a state on the way what `NoBootstrap` and `NoOverwrittenTask` say of one
at rest: the two races that the protocol leaves open have not happened.

`RosterLifecycleProofs` proves, for every set of workers, requests, edits,
publishers and readers and every bound:

* `InductiveInvariant`, `TypeCorrect`;
* `AcksStartAfresh` (`NoInheritedAck`);
* `NoGhosts` (`NoGhostWorker`);
* `ReopensBlind` (`UnforcedReopensBlind`);
* `NobodyIsForgotten`, `AttemptsOnce`, `AcceptedWritten` -- the safety half of
  `AcceptedGenerates`.

The invariant has three parts that relate pieces of state. `AlertsFresh`: every
alert, acknowledged or not, is no older than the generation, which needs that
generation numbers never run ahead of `serial`. `Accepted`: a run exists only for
a request that was accepted, so whoever persists has passed the published check.
`SeenBefore`: if the month is published now, an unforced request past its check
saw fewer publications than there are; it is what a check read long before its
use still guarantees, and it needs that a persist always leaves a DRAFT. The
three steps that write the roster are stated once as effect lemmas
(`PersistEffect`, `EditEffect`, `AckEffect`).

Both modules carry one more property. `StaleRowsStayFew` (`StaleRowsBounded`) has
a second invariant on top of `IInv`: no step takes a claimed task back to PENDING or
PROCESSING, so the rows too many are among those since the last check; the
arithmetic is `RemainderGrows`. `PublicAfterPublication`
(`NothingBeforePublication`) rests on `FirstPublished`: a reader past its first read
was let in by a publication, and the first of these is no newer than the month.

Both also prove what a liveness argument needs besides fairness. Fairness serves a
process whose step stays possible; `NobodyIsForgotten` and `NobodyWaitsInVain` say that
as long as work is left, such a step is there: its guard is fulfilled, for the guards
are what the theorems state (`nextTask <= MaxTask`, a bound of the model, apart).
`AttemptsInTurn` is the invariant: the
attempt of an active job has started, so its handler is at work or has ended and the
job can be taken back; the attempts of a waiting job have not, so a fetch starts a fresh
one. In the pipeline a handler may wait for a row or for the unique index (`Waits`), but
only the route holds these between two statements, and the route waits for nobody.
`AcceptedWritten` counts: completed jobs and handlers about to return are never more
than the transactions that wrote the month (`DoneWasWritten`), and while nothing is
disturbed every accepted request's job is completed in the end (`Smooth`). That these
steps are in fact taken, and that they lead to rest, is model-checked.

`RosterEditProofs` proves, for every set of planners' edits, guards, shifts,
contracts and requirements:

* `InductiveInvariant`, `TypeCorrect`;
* `DayCapHolds` (`DayCapUnlessRaced`), `OverMaxIsConfirmed`
  (`OverMaxWasConfirmed`), `ValidatorIsTheSolver` (`ValidatorAgreesWithSolver`);
* `SoloEditsRepair` (`SoloEditRepairs`) and `AcknowledgmentsSurvive` (`AcksSurvive`),
  which are about steps.

No cap is inductive by itself: the verdict was reached on rows read before the
write. `Judged` says that what an open edit will commit still passes it, or the
worker is in `raced`; for that `OverlapsRace` must keep every two open edits of
one worker marked, and `OwnRows` that an open edit touches only its own worker's
rows. `SoloKnows` says the same of the plan and the alerts that
`recomputeRosterAlerts` reads and writes back.

`GridFocusProofs` proves, for every number of rows and columns, of months' lengths
and of rows drawn:

* `InductiveInvariant`, `TypeCorrect`;
* `KeysFollowSelection` (`KeysActOnSelection`), with lemmas on where
  `RovingTabindex` leads for every size of grid. Where keys lead has no exception. That
  they act on the selected cell holds through tabs and scrolls before a move's row is
  drawn, but not after a click or another list of rows has met such a move, until a
  later key, click or render gives the selection the focus again; that the selection
  is in the grid, not between a change of the list and the next key or click;
* `FocusComesBack` (`FocusReturns`, a part of `FocusFollows`).

`RosterScreenProofs` proves, for all companies, months, slots, workers, jobs,
imports and sessions:

* `InductiveInvariant`, `TypeCorrect`;
* `ScreenFollowsTitle` (`ScreenIsOfScope`), `ActsFollowDialogs` (`ActsWereAsked`).

`ActsWereAsked` is as strong as the code allows, and its parts name each way around it:
a forced generation is of the month it was asked about unless Back or a late 409 came
between, and of the company unless a late 409 did; an edit is confirmed under its own
warnings, in every opening that no earlier one's answer reached; an upload goes back to
a ticked confirmation without exception, is of its file and scope unless a continuation
outlived its dialog, and is the panel's only one unless Import was clicked during a
check. The invariant is one part for each part of the page. `PageInv` ties a generation on
its way, the question before it, the roster shown and the banner to the title's scope; `EditInv` every call of the dialog to the opening and edit it was made in, for which
the dialog waits (`PendingIsOnItsWay`); `PanelInv` an upload to the file and scope that
were agreed to, and the job that is followed to the one its dialog is about.

`OfficeProofs`, with the lemmas of `CompanyDirectoryProofs`, proves for all
companies, workers, months, links, calls and sessions:

* `InductiveInvariant`, `TypeCorrect`;
* `SavesStayWhole` (`SavesAreWhole`), `ShownStaysOwn` (`ShownIsOwn`);
* `ReplacementsAreExact` (`ReplacedAlone`), which is about steps.

`IInv` is `CompanyInv`, `WorkerInv`, `MonthInv`, `GridInv` and `ViewInv`. What each adds
to the properties is what a late answer relies on: a company created for an opening
of the form is known, awaited and retried only there (`OpeningInv`); workers are
numbered in order, one that a deactivation was offered for cannot be deleted
(`SuspectRemains`), a cached link that is no longer the worker's is about to be
fetched again (`LinksAreFresh`), for tags are held back only while something is
pending (`HeldForPending`); a replacement that nothing has overlapped is alone and
finds what it was checked against and has deleted (`Undisturbed`); an entry of the
draft is of the grid's month or of that of the data it came with (`DraftIsOfData`);
and the last request of the public page is for the month it shows, and so is every
body it reads (`LastIsOfShown`, `BodyIsOfShown`), unless the month changed meanwhile.
The parts touch one another only through the tab, so lemmas named `...Quiet` say that
the steps of one leave the invariant of the other alone.

`ExchangeProofs` proves, for every number of firms, workers, months and days, for all
names and characters, files, cells, company sizes and delays:

* `InductiveInvariant`, `TypeCorrect`;
* `FileKept` (`FileIsKept`);
* `EntriesArrived` (`EntriesArrive`), from `DraftPayable` (`DraftIsPayload`), `SavedMarked`
  (`SavedIsMarked`), `RefusedForSize` (`RefusedIsTooLarge`), `StoredShown`
  (`StoredIsShown`) and `TotalsStored` (`TotalsAreStored`);
* `RosterBest` (`RosterIsBest`), from `ExcludedNeverOffered` (`ExcludedIsExcluded`),
  `AlertsTell` (`OpenPlacesAreTold`, `OwedHoursAreTold`), `PlacesFirst`
  (`CoverageComesFirst`), `HoursSecond` (`HoursComeSecond`), `NoShiftLeft`
  (`OwedHoursHadNoPlace`) and `SlacksAreTight` (`OptimalTellsHours`);
* `ClocksAgree` (`KilledOnlyOverHeadroom`, `ExpiredOnlyByOthers`), the safety of `SolveEnds`.

Each part has an invariant over its own state and the tables. That of an import is a
loop invariant: `Progress` says of the rows so far what `ImportIsFile` says of all, and
`IsCopy` ties the rows of an untouched export to the people and days it was written from,
which `GuardUndone` (what undoing a guarded name leaves) turns into the round trip. That
of the draft (`DraftInv`) says that what is excluded is what is marked, and
`CanonicalCell` that every subset of the shifts has one legal list of letters, whichever
toggles led to it. `SaveInv` says that in a session that may save nobody has been
imported, so the workers of the sheet are still its firm's. `Clocks` relates the time
spent inside and outside the search to the three limits, by `BudgetsAgree`: the table of
`timeBudget.ts` and its copy in `solve_roster.py` agree at every size of company, not only
at the bands' edges.

What is optimal is proved from the cost alone. Its totals are folds over sets whose size
is not known, and a fold cannot be unrolled by induction here; instead, if two sums differed
from what a lemma says, a smallest set on which they do would exist (`SmallestSubset`), and
one element less would refute it (`SumTakes`, `SumGrows`, `SumAlike`). `PlacesFirst` is
then an exchange argument. The weights alone do not give it: a place weighs 10000, an hour
100, and a large crew's missing hours exceed any such factor. Suppose some roster leaves
fewer places open than the optimal one; of all such, take the one that shares most with it.
It gives no worker fewer hours (`MostShared`): where it did, some day would have fewer
of the worker's shifts (`FewerSomeDay`), and the optimal roster's shift of that day could
be added (`OneMore`), or put in the place of somebody whom only this roster has there
(`OneLess`), and it would share more. So it owes no more hours, balance is worth
at most 100 (`SpreadBound`), and it costs less: a contradiction. Cells without a row do not
enter the sum of open places and bound nothing, so the argument covers partial matrices.
`NoShiftLeft` (`OwedHoursHadNoPlace`) is a simpler one: a free shift of somebody who owes
two hours or more lowers the cost by more than any spread is worth.

Assumptions: the named ones on the constants (`BoundsAssumption`,
`RowsAssumption`, `RosterConstants`, `GridAssumption`, `StartAssumption`,
`SessionAssumption`, `BackOfficeAssumption`, `WorkerAssumption`, `MonthAssumption`,
`ViewAssumption`, ...), which TLC evaluates in the runs. They say what kind of value each
constant is. Some say more. The hours of a contract are a range (min at most max),
as its schema demands (`packages/shared/src/schemas/contract.ts:12-13`). The
constants' placeholders (`None` and the like) are none of the real values. The stored
headcounts fit their column, and a text that is no number is none of those that fit
(`FormAssumption`). A process that works the roster queue has ensured it first, as
`worker.ts:32` does (`ProcessAssumption`). A session that imports a file does not save
the grid (`SessionAssumption` of `MonthTable`): this one is a choice of scope; what an
import overlaps with is the subject of `WorkforceImport`, what a save overlaps with
that of `AvailabilityTable`.

The proofs have corrected the models. The back office kept the caches and forms of
some components across a reload, and the Workers page's local state across its
unmounting; both now go. `ImportPanel!crossed` missed some of the continuations
that outlive the dialog they were started from. `SolverProblem` once took a cell without
a row for a headcount of 0, and `ImportPanel` two clicks on Import for one.
`GridFocus` took any bounds for its sizes, some of which left a move without a target.
`CoverageComesFirst` also said that hours come before balance; the proof left one case
open, TLC then found a crew for it, and it is now `HoursComeSecond`, with that tie.

Only model-checked:

* all liveness, which is out of the prover's reach: `PipelineDrains`,
  `TaskEndsUnlessFault`, `AcceptedGenerates`, `AnswersArrive`, `PagesCatchUp`,
  `FocusLands`, `SolveSettles`.

Every invariant and every other action property of the passing runs is proved.

## Not modelled

* Start-up, logging, parameter parsing and multipart handling: what an answer's
  status means to its page is in the page's module.
* The cost dashboard and `costSummaryService`: sums that nothing depends on.
* Filters, paging and roles of the lists, toasts, layout, the eligibility hint.
* The expiry of unused entries of the query cache: an entry lives as long as the tab.
* CP-SAT itself, csv-parse, Prisma and PostgreSQL beyond the locks, keys and
  snapshots that the services rely on.
* Load tests, end-to-end tests, seed and deployment. What the load tests assert of
  imports is compared above.

## Plan

Done, each with its proofs: the import pipeline with its refinement; the roster's
lifecycle; concurrent edits and their rules; the roster screen; the back office with
the availability table; grid focus; the exchange formats, the solver's problem and its
process.

Left: liveness, whose safety half is proved for the pipeline and the generation
(`NobodyWaitsInVain`, `NobodyIsForgotten`) and whose rest a prover with fairness would
have to do; the cost summary, and the load tests' own checks, if they come to matter.
