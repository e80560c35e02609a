-------------------------------- MODULE Office --------------------------------
(***************************************************************************)
(* One browser tab: the gate with the pages behind it, and the public page *)
(* that has no gate.  A company chosen in the top bar rescopes the grid,   *)
(* which is not mounted anew.                                              *)
(***************************************************************************)
EXTENDS CompanyDirectory, WorkerDirectory, AvailabilityGrid, ScheduleView

\* What a session starts from is a state of the tables and the browser.
ASSUME SessionAssumption ==
  \A s \in Session :
    /\ s.start \in Page /\ s.stored \subseteq Company \cup {None}
    /\ s.companies \in 0..MaxCompany
    /\ s.rostered \subseteq SUBSET Worker
    /\ s.employer \subseteq [Member -> Company \cup {None}]
    /\ s.table \subseteq SUBSET [worker : Member, month : GridMonth, value : Nat, by : {0}]
    /\ s.good \subseteq BOOLEAN /\ s.published \subseteq SUBSET ViewMonth

vars == <<officeVars, companyVars, workerVars, monthVars, gridVars, viewVars>>

TypeOK == OfficeTypeOK /\ CompanyTypeOK /\ WorkerTypeOK /\ MonthTypeOK /\ GridTypeOK /\ ViewTypeOK

Init == OfficeInit /\ CompanyInit /\ WorkerInit /\ MonthInit /\ GridInit /\ ViewInit

InPages(step) == Place = "pages" /\ step /\ UNCHANGED companyVars

PagesNow(p) == Place = "pages" /\ page = p
PagesNext(p) == PlaceOf(active', list', pinned') = "pages" /\ page' = p

\* A step of the gate or the Companies page, and what it mounts or rescopes.
Gated(step) ==
  /\ page # "schedule" /\ step
  /\ CASE PagesNext("roster") /\ ~PagesNow("roster") -> GridMounts(<<active', month>>)
       [] PagesNext("roster") /\ PagesNow("roster") /\ active' # active -> Rescoped(<<active', month>>)
       [] OTHER -> UNCHANGED <<data, months, fetches, stale, draft, edits, saving, message>>
  /\ CASE PagesNext("workers") /\ ~PagesNow("workers") -> PageMounts
       [] PagesNow("workers") /\ ~PagesNext("workers") -> PageUnmounts
       [] OTHER -> UNCHANGED <<rollVars, localVars>>
  /\ UNCHANGED <<month, staffVars, calls, workerHistory, monthVars, viewVars>>

\* The browser loads the tab again: of the client only localStorage is left.
Restart == page # "schedule" /\ Reload /\ StaffForgotten /\ GridForgotten /\ UNCHANGED viewVars

Gate == Gated(CompanyNext)
Workers == InPages(WorkerNext /\ UNCHANGED <<monthVars, gridVars, viewVars>>)
Availability == InPages(GridNext /\ UNCHANGED <<workerVars, viewVars>>)
Schedule == ViewNext /\ UNCHANGED <<companyVars, workerVars, monthVars, gridVars>>

Next == Gate \/ Restart \/ Workers \/ Availability \/ Schedule

Spec == Init /\ [][Next]_vars

\* The network answers and the database goes on; nobody has to click.
FairSpec ==
  /\ Spec
  /\ WF_vars(Gated(ListFetched))
  /\ WF_vars(InPages(AnswersWorkers /\ UNCHANGED <<monthVars, gridVars, viewVars>>))
  /\ WF_vars(InPages(GridAnswers /\ UNCHANGED <<workerVars, viewVars>>))
  /\ WF_vars(AnswersView /\ UNCHANGED <<companyVars, workerVars, monthVars, gridVars>>)

-----------------------------------------------------------------------------
(* Properties *)

\* What the grid saved, it shows in the end, unless others changed the table too: also
\* if the company or month was changed, and back, before the answer.
GridCatchesUp ==
  []<>( \/ ~PagesNow("roster") \/ meddled
        \/ data # None /\ data.of = Here /\ data.rows = MonthOf(active, month))
\* A save of two requests is whole or is finished by its retry: one company for each
\* form, its requirements before it is made active, a contract before success is told.
\* Code: handleSubmit of CompanyFormModal and WorkerFormModal.
SavesAreWhole == OneCompanyPerOpening /\ RetryIsForOpening /\ CreatedIsUsable /\ SavedMeansBoth

\* Once a form, a dialog, the grid or the public page has loaded, what it shows is its
\* own company's, worker's or month's.  Code: the effects that seed local state from
\* queries whose `data' outlives their argument, and the hook's cancelled flag.
ShownIsOwn == LoadedMatrixIsOwn /\ ShownLinkWorks /\ DraftIsOfScope /\ ViewIsOfMonthUnlessOvertaken

\* A replacement that no other overlaps leaves its payload for its company and month,
\* and everything else as it was.  Code: replaceMonth, deleteMany and createMany.
ReplacedAlone == ReplacedExactlyAlone /\ OthersAreKept

\* In the end every page shows what the tables hold: the list a deletion or a contract
\* changed, the grid a save replaced, the month a worker asked for.  Code: tags and
\* refetches of the api slices, and usePublicSchedule.
PagesCatchUp == DeletedIsGone /\ ListCatchesUp /\ GridCatchesUp /\ ViewSettles
=============================================================================
