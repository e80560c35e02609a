---------------------------- MODULE WorkerDirectory ----------------------------
(***************************************************************************)
(* The Workers page: the list of the active company, the form that saves a *)
(* worker and then the contract, deletion and its fallback, the share link *)
(* (pages/Workers, workers.api.ts), over the rows of workerService.ts.     *)
(*                                                                         *)
(* A row's editable fields are one value, the number of who wrote it last. *)
(* RTK Query holds tags back until no request is pending.                  *)
(***************************************************************************)
EXTENDS BackOffice

CONSTANT MaxWorker   \* bound: workers ever created

Worker == 1..MaxWorker
WholeList == 0   \* the tag of the list itself
Sent == <<>>

VARIABLES
  worker,      \* server: the rows, None if there is none
  hired,       \* server: workers ever created
  rostered,    \* server: workers with shift history
  roll,        \* the cached list of workers, None if there is none
  reading,     \* its fetch: None, Sent, then the rows the server has read for it
  tags,        \* invalidated tags held back
  wform,       \* the form's worker, and the opening's number
  visit,       \* how often the page was left: its local state is its instance's
  calls,       \* calls not answered yet
  suspect,     \* pendingDeactivate
  share,       \* shareLinkWorker
  links,       \* the cached link of a worker, None if there is none
  fetchingLinks,
  link,        \* the modal's `data', with the worker it is of
  reported,    \* history: workers whose form reported success
  clash,       \* history: for a duplicate national ID, the opening and the one that took it
  foreign      \* history: workers changed by another planner

staffVars == <<worker, hired, rostered>>
rollVars == <<roll, reading, tags, links, fetchingLinks, link>>
workerHistory == <<reported, clash, foreign>>
localVars == <<wform, visit, suspect, share>>
workerVars == <<staffVars, rollVars, localVars, calls, workerHistory>>

Row == [nid : Nat, by : Nat, status : {"ACTIVE", "INACTIVE"}, contract : BOOLEAN, token : Nat]

ASSUME WorkerAssumption ==
  MaxWorker \in Nat \ {0} /\ None \notin Row \cup {Sent} \cup [Worker -> Row \cup {None}]

WorkerTypeOK ==
  /\ DOMAIN worker = Worker /\ \A w \in Worker : worker[w] = None \/ worker[w] \in Row
  /\ hired \in 0..MaxWorker /\ rostered \subseteq Worker
  /\ tags \subseteq Worker \cup {WholeList} /\ visit \in Nat
  /\ {wform.id, share} \subseteq Worker \cup {None}
  /\ \A c \in calls : c.kind \in {"save", "contract", "delete", "deactivate", "rotate"}
  /\ suspect = None \/ suspect.id \in Worker
  /\ fetchingLinks \subseteq Worker

WorkerInit ==
  /\ hired = MaxWorker - 1
  /\ worker = [w \in Worker |->
       IF w > hired THEN None
       ELSE [nid |-> 100 + w, by |-> 0, status |-> "ACTIVE", contract |-> TRUE, token |-> 0]]
  /\ rostered \in left.rostered
  /\ roll = None /\ reading = None /\ tags = {}
  /\ wform = [id |-> None, nid |-> 0, no |-> 0]
  /\ visit = 0
  /\ calls = {}
  /\ suspect = None /\ share = None
  /\ links = [w \in Worker |-> None] /\ fetchingLinks = {} /\ link = None
  /\ reported = {} /\ clash = {} /\ foreign = {}

-----------------------------------------------------------------------------
(* The cache *)

\* An answer invalidates tags.  When nothing is pending any more, what carries one of
\* them is fetched again or, without a subscriber, dropped: a list carries its rows'
\* tags and its own.
Watched == IF Shows("share") THEN {share} \ {None} ELSE {}
Released(ts, list, got) ==
  LET known == IF list = None THEN {} ELSE {w \in Worker : list[w] # None} IN
  /\ tags' = {}
  /\ reading' = IF ts \cap (known \cup {WholeList}) # {} THEN Sent ELSE None
  /\ fetchingLinks' = Watched \cap ts
  /\ links' = [w \in Worker |-> IF w \in ts \ Watched THEN None ELSE got[w]]
Settled(ts, idle, list, got, asked) ==
  IF idle THEN Released(ts, list, got) ELSE tags' = ts /\ fetchingLinks' = asked /\ links' = got

Invalidated(ts, rest) ==
  /\ Settled(tags \cup ts, rest = {} /\ reading = None /\ fetchingLinks = {}, roll, links, fetchingLinks)
  /\ rest # {} \/ reading # None \/ fetchingLinks # {} => reading' = reading

\* The page is drawn: its query has a subscriber.
PageMounts ==
  /\ reading' = IF roll = None THEN Sent ELSE reading
  /\ UNCHANGED <<roll, tags, links, fetchingLinks, link, localVars>>

\* The page's state goes with it; a form that shows on its return is a new one.
PageForgotten ==
  /\ visit' = visit + 1
  /\ wform' = [id |-> None, nid |-> wform.no + 1, no |-> wform.no + 1]
  /\ suspect' = None /\ share' = None /\ link' = None

PageUnmounts == PageForgotten /\ UNCHANGED <<roll, reading, tags, links, fetchingLinks>>

\* A reload; what a call had not done by then is lost.
StaffForgotten ==
  /\ PageForgotten
  /\ roll' = None /\ reading' = None /\ tags' = {}
  /\ links' = [w \in Worker |-> None] /\ fetchingLinks' = {}
  /\ calls' = {}
  /\ UNCHANGED <<staffVars, workerHistory>>
Alive(c) == c.visit = visit

RollRead ==
  /\ reading = Sent
  /\ reading' = worker
  /\ UNCHANGED <<officeVars, staffVars, roll, tags, links, fetchingLinks, link, localVars, calls, workerHistory>>

RollArrived ==
  /\ reading \notin {None, Sent}
  /\ roll' = reading
  /\ Settled(tags, calls = {} /\ fetchingLinks = {}, reading, links, fetchingLinks)
  /\ calls # {} \/ fetchingLinks # {} => reading' = None
  /\ UNCHANGED <<officeVars, staffVars, link, localVars, calls, workerHistory>>

LinkFetched(w) ==
  /\ w \in fetchingLinks
  /\ LET got == IF worker[w] # None THEN [links EXCEPT ![w] = worker[w].token] ELSE links
         idle == calls = {} /\ reading = None /\ fetchingLinks = {w}
     IN /\ Settled(tags, idle, roll, got, fetchingLinks \ {w})
        /\ ~idle => reading' = reading
        /\ link' = IF w \in Watched /\ got[w] # None THEN [of |-> w, token |-> got[w]] ELSE link
  /\ UNCHANGED <<officeVars, staffVars, roll, localVars, calls, workerHistory>>

-----------------------------------------------------------------------------
(* The form *)

OnPage == page = "workers" /\ active # None /\ roll # None /\ ~Covered
Listed(w) == OnPage /\ roll[w] # None

OpenWorker(w) ==
  /\ OnPage /\ (w # None => Listed(w))
  /\ Uses("form")
  /\ wform' = [id |-> w, nid |-> IF w = None THEN wform.no + 1 ELSE roll[w].nid, no |-> wform.no + 1]
  /\ DialogOpened("workerForm")
  /\ UNCHANGED <<active, stored, page, staffVars, rollVars, visit, calls, suspect, share, workerHistory>>

CloseWorker ==
  /\ Shows("workerForm")
  /\ DialogClosed
  /\ UNCHANGED <<active, stored, page, left, staffVars, rollVars, localVars, calls, workerHistory>>

\* `submitting' covers the worker's call, not the contract's.
SubmitWorker ==
  /\ Shows("workerForm")
  /\ \A c \in calls : c.kind # "save" \/ ~Alive(c)
  /\ Uses("submit")
  /\ calls' = calls \cup {[kind |-> "save", id |-> wform.id, nid |-> wform.nid, no |-> wform.no, visit |-> visit]}
  /\ UNCHANGED <<active, stored, page, dialog, staffVars, rollVars, localVars, workerHistory>>

Holders(nid) == {w \in Worker : worker[w] # None /\ worker[w].nid = nid}
Answered(c) == c \in calls /\ calls' = calls \ {c}

\* The contract is sent once the worker is saved; by then the list is refetched.
ThenContract(c, w) == calls' = (calls \ {c}) \cup {[c EXCEPT !.kind = "contract", !.id = w]}

Created(c) ==
  /\ c \in calls /\ c.kind = "save" /\ c.id = None
  /\ Holders(c.nid) = {} /\ hired < MaxWorker
  /\ hired' = hired + 1
  /\ worker' = [worker EXCEPT ![hired'] =
       [nid |-> c.nid, by |-> c.no, status |-> "ACTIVE", contract |-> FALSE, token |-> 0]]
  /\ ThenContract(c, hired')
  /\ Invalidated({WholeList}, calls \ {c})
  /\ UNCHANGED <<officeVars, rostered, roll, link, localVars, workerHistory>>

\* 409: shown as a national ID of another worker.
Duplicate(c) ==
  /\ Answered(c) /\ c.kind = "save" /\ c.id = None
  /\ \E w \in Holders(c.nid) : clash' = clash \cup {<<c.no, worker[w].by>>}
  /\ Invalidated({WholeList}, calls')
  /\ UNCHANGED <<officeVars, staffVars, roll, link, localVars, reported, foreign>>

Updated(c) ==
  /\ c \in calls /\ c.kind = "save" /\ c.id # None /\ worker[c.id] # None
  /\ worker' = [worker EXCEPT ![c.id].by = c.no]
  /\ ThenContract(c, c.id)
  /\ Invalidated({c.id, WholeList}, calls \ {c})
  /\ UNCHANGED <<officeVars, hired, rostered, roll, link, localVars, workerHistory>>

MutContractSaved(c) ==
  /\ Answered(c) /\ c.kind = "contract" /\ worker[c.id] # None
  /\ worker' = [worker EXCEPT ![c.id].contract = TRUE]
  /\ reported' = reported \cup {c.id}
  /\ DialogClosed
  /\ Invalidated({}, calls')
  /\ UNCHANGED <<active, stored, page, left, hired, rostered, roll, link, localVars, clash, foreign>>
ContractSaved(c) ==
  /\ Answered(c) /\ c.kind = "contract" /\ worker[c.id] # None
  /\ worker' = [worker EXCEPT ![c.id].contract = TRUE]
  /\ reported' = reported \cup {c.id}
  /\ DialogClosed
  /\ Invalidated({c.id}, calls')
  /\ UNCHANGED <<active, stored, page, left, hired, rostered, roll, link, localVars, clash, foreign>>

\* 404, or the call is lost: the form stays open and says so.
MutSaveFailed(c) ==
  /\ Answered(c) /\ c.kind \in {"save", "contract"}
  /\ reported' = IF c.kind = "contract" THEN reported \cup {c.id} ELSE reported
  /\ Invalidated({c.id, WholeList} \cap (Worker \cup {WholeList}), calls')
  /\ UNCHANGED <<officeVars, staffVars, roll, link, localVars, clash, foreign>>
SaveFailed(c) ==
  /\ Answered(c) /\ c.kind \in {"save", "contract"}
  /\ Invalidated(IF c.kind = "contract" THEN {c.id} ELSE {c.id, WholeList} \ {None}, calls')
  /\ UNCHANGED <<officeVars, staffVars, roll, link, localVars, workerHistory>>

-----------------------------------------------------------------------------
(* Deletion, or deactivation where there is history *)

ClickDelete(w) ==
  /\ Listed(w)
  /\ Uses("remove")
  /\ calls' = calls \cup {[kind |-> "delete", id |-> w, row |-> roll[w], visit |-> visit]}
  /\ UNCHANGED <<active, stored, page, dialog, staffVars, rollVars, localVars, workerHistory>>

Removed(c) ==
  /\ Answered(c) /\ c.kind = "delete"
  /\ worker[c.id] # None /\ c.id \notin rostered
  /\ worker' = [worker EXCEPT ![c.id] = None]
  /\ Invalidated({c.id, WholeList}, calls')
  /\ UNCHANGED <<officeVars, hired, rostered, roll, link, localVars, workerHistory>>

\* The question takes the place of whatever dialog is open.
HasHistory(c) ==
  /\ Answered(c) /\ c.kind = "delete"
  /\ worker[c.id] # None /\ c.id \in rostered
  /\ suspect' = IF Alive(c) THEN c ELSE suspect
  /\ DialogOpened("deactivate")
  /\ Invalidated({c.id, WholeList}, calls')
  /\ UNCHANGED <<active, stored, page, left, staffVars, roll, link, wform, visit, share, workerHistory>>

DeleteFailed(c) ==
  /\ Answered(c) /\ c.kind = "delete"
  /\ Invalidated({c.id, WholeList}, calls')
  /\ UNCHANGED <<officeVars, staffVars, roll, link, localVars, workerHistory>>

ConfirmDeactivate ==
  /\ Shows("deactivate") /\ suspect # None
  /\ calls' = calls \cup {[suspect EXCEPT !.kind = "deactivate"]}
  /\ UNCHANGED <<officeVars, staffVars, rollVars, localVars, workerHistory>>

CancelDeactivate ==
  /\ Shows("deactivate")
  /\ DialogClosed
  /\ suspect' = None
  /\ UNCHANGED <<active, stored, page, left, staffVars, rollVars, wform, visit, calls, share, workerHistory>>

\* The whole row is written as it was listed when Delete was clicked (one with history
\* is still there); whatever the answer, the dialog that is open then is closed.
Deactivated(c) ==
  /\ Answered(c) /\ c.kind = "deactivate"
  /\ worker' = [worker EXCEPT ![c.id] = [@ EXCEPT !.by = c.row.by, !.status = "INACTIVE"]] \/ UNCHANGED worker
  /\ DialogClosed /\ suspect' = IF Alive(c) THEN None ELSE suspect
  /\ Invalidated({c.id, WholeList}, calls')
  /\ UNCHANGED <<active, stored, page, left, hired, rostered, roll, link, wform, visit, share, workerHistory>>

-----------------------------------------------------------------------------
(* The share link *)

OpenShare(w) ==
  /\ Listed(w)
  /\ Uses("share")
  /\ share' = w
  /\ DialogOpened("share")
  /\ link' = IF links[w] # None THEN [of |-> w, token |-> links[w]] ELSE link
  /\ fetchingLinks' = IF links[w] # None THEN fetchingLinks ELSE fetchingLinks \cup {w}
  /\ UNCHANGED <<active, stored, page, staffVars, roll, reading, tags, links, wform, visit, calls, suspect, workerHistory>>

CloseShare ==
  /\ Shows("share")
  /\ DialogClosed
  /\ share' = None
  /\ UNCHANGED <<active, stored, page, left, staffVars, rollVars, wform, visit, calls, suspect, workerHistory>>

Rotate ==
  /\ Shows("share") /\ share # None
  /\ \A c \in calls : c.kind # "rotate" \/ ~Alive(c)
  /\ Uses("rotate")
  /\ calls' = calls \cup {[kind |-> "rotate", id |-> share, visit |-> visit]}
  /\ UNCHANGED <<active, stored, page, dialog, staffVars, rollVars, localVars, workerHistory>>

MutRotated(c) ==
  /\ Answered(c) /\ c.kind = "rotate"
  /\ IF worker[c.id] # None THEN worker' = [worker EXCEPT ![c.id].token = @ + 1] \/ UNCHANGED worker ELSE UNCHANGED worker
  /\ Invalidated({}, calls')
  /\ UNCHANGED <<officeVars, hired, rostered, roll, link, localVars, workerHistory>>
Rotated(c) ==
  /\ Answered(c) /\ c.kind = "rotate"
  /\ IF worker[c.id] # None THEN worker' = [worker EXCEPT ![c.id].token = @ + 1] \/ UNCHANGED worker ELSE UNCHANGED worker
  /\ Invalidated({c.id}, calls')
  /\ UNCHANGED <<officeVars, hired, rostered, roll, link, localVars, workerHistory>>

\* Another planner.
Meanwhile(w) ==
  /\ worker[w] # None
  /\ Uses("meanwhile")
  /\ \/ worker' = [worker EXCEPT ![w].by = 99]
     \/ w \notin rostered /\ worker' = [worker EXCEPT ![w] = None]
     \/ worker' = [worker EXCEPT ![w].token = @ + 1]
  /\ foreign' = foreign \cup {w}
  /\ UNCHANGED <<active, stored, page, dialog, hired, rostered, rollVars, localVars, calls, reported, clash>>

WorkerNext ==
  \/ RollRead \/ RollArrived \/ OpenWorker(None) \/ CloseWorker \/ SubmitWorker
  \/ ConfirmDeactivate \/ CancelDeactivate \/ CloseShare \/ Rotate
  \/ \E w \in Worker : \/ LinkFetched(w) \/ OpenWorker(w) \/ ClickDelete(w)
                       \/ OpenShare(w) \/ Meanwhile(w)
  \/ \E c \in calls : \/ Created(c) \/ Duplicate(c) \/ Updated(c) \/ ContractSaved(c) \/ SaveFailed(c)
                      \/ Removed(c) \/ HasHistory(c) \/ DeleteFailed(c) \/ Deactivated(c) \/ Rotated(c)

\* Every request is answered.
AnswersWorkers ==
  \/ RollRead \/ RollArrived
  \/ \E w \in Worker : LinkFetched(w)
  \/ \E c \in calls : \/ Created(c) \/ Duplicate(c) \/ Updated(c) \/ ContractSaved(c) \/ SaveFailed(c)
                      \/ Removed(c) \/ HasHistory(c) \/ DeleteFailed(c) \/ Deactivated(c) \/ Rotated(c)
WorkerFairness == WF_workerVars(AnswersWorkers)

-----------------------------------------------------------------------------
(* Properties *)

\* A form reports success only for a worker whose contract is saved too.  Code: the
\* two calls of handleSubmit; a worker without a contract is never rostered.
SavedMeansBoth == \A w \in reported : worker[w] # None => worker[w].contract

\* Once the share dialog's link is loaded and nothing is under way, it is the one that
\* works: a rotation replaces it, whatever was fetched or invalidated meanwhile.
ShownLinkWorks ==
  Shows("share") /\ share \notin foreign \cup {None} /\ worker[share] # None /\ calls = {} /\ reading = None /\ fetchingLinks = {} /\ links[share] # None
    => link = [of |-> share, token |-> worker[share].token]

\* The dialog never shows the link of another worker: not so while its own is loading.
LinkIsOfWorker == Shows("share") /\ share # None /\ link # None => link.of = share

\* A national ID that is refused belongs to another worker: not so when the form itself
\* created the worker and only the contract failed.
DuplicateIsAnother == \A c \in clash : c[1] # c[2]

\* What this tab saved, deleted or deactivated, its list shows in the end: the contract
\* of a new worker too, whose list is fetched before the contract is saved.
ListCatchesUp ==
  \A w \in Worker : []<>(w \in foreign \/ roll = None \/ roll[w] = worker[w])
=============================================================================
