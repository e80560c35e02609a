----------------------------- MODULE ImportPanel -----------------------------
(***************************************************************************)
(* The workforce CSV panel (WorkforceCsvPanel.tsx): a file is chosen, the  *)
(* planner acknowledges what importing it means, the panel asks whether an *)
(* import is running, uploads, and follows the job.  Its continuations run *)
(* with the file and scope of the render they were started from, whatever  *)
(* has been cancelled or opened since.  The server is WorkforceImport's.   *)
(***************************************************************************)
EXTENDS Screen, Sequences

CONSTANT MaxImports  \* bound: imports accepted in a behaviour

VARIABLES
  mount,       \* how often the panel has been mounted: continuations keep their instance
  chosen,      \* files chosen so far: the last one's number
  file,        \* pendingFile: a number, or None
  ticked,      \* confirmChecked
  clicks,      \* clicks on "Import" and "Continue" so far: each runs its own continuation
  checks,      \* checks for a running import, not answered yet, by click
  uploads,     \* uploads not answered yet, by click
  importing,   \* importResult.isLoading: the latest upload, if not answered
  imports,     \* server: the accepted imports' jobs, with the scope of each
  follow,      \* useJobPolling(jobId) of the panel
  agreed,      \* history: the clicks on "Import" with the checkbox ticked
  crossed,     \* history: a continuation outlived its dialog, or the scope changed under one
  twice,       \* history: "Import" was clicked while an earlier click's check was under way
  grids        \* scopes whose availability was invalidated after their import

panelVars == <<mount, chosen, file, ticked, clicks, checks, uploads, importing, imports, follow, agreed, crossed, twice, grids>>

ASSUME NoneAssumption == None \notin [no : Nat, file : Nat, scope : Scope, mount : Nat, asked : Nat]

PanelTypeOK ==
  /\ mount \in Nat
  /\ file = None \/ file \in 1..chosen
  /\ ticked \in BOOLEAN
  /\ checks \cup uploads \subseteq
       [no : 1..clicks, file : 1..chosen, scope : Scope, mount : 0..mount, asked : 1..clicks]
  /\ importing = None \/ importing \in uploads
  /\ \A job \in {follow.job, follow.of} : job = None \/ job \in 1..Len(imports)
  /\ agreed \subseteq [no : 1..clicks, file : 1..chosen, scope : Scope]
  /\ grids \subseteq 1..Len(imports)

PanelInit ==
  /\ mount = 0
  /\ chosen = 0
  /\ file = None
  /\ ticked = FALSE
  /\ clicks = 0
  /\ checks = {}
  /\ uploads = {}
  /\ importing = None
  /\ imports = <<>>
  /\ follow = NoPoll
  /\ agreed = {}
  /\ crossed = FALSE
  /\ twice = FALSE
  /\ grids = {}

Mounted == view = "availability"
IsOpen(kind) == Mounted /\ dialog.kind = kind

\* handleFileChosen
Choose ==
  /\ Mounted /\ ~Modal
  /\ Uses("import")
  /\ chosen' = chosen + 1
  /\ file' = chosen + 1
  /\ ticked' = FALSE
  /\ DialogOpened("importConfirm", None)
  /\ UNCHANGED <<scope, visited, view, mount, clicks, checks, uploads, importing, imports, follow, agreed, crossed, twice, grids>>

Tick ==
  /\ IsOpen("importConfirm")
  /\ ticked' = ~ticked
  /\ UNCHANGED <<screenVars, mount, chosen, file, clicks, checks, uploads, importing, imports, follow, agreed, crossed, twice, grids>>

\* importResult.isLoading disables both buttons; without a file they do nothing.
MutClick ==
  /\ file # None
  /\ Uses("click")
  /\ clicks' = clicks + 1
  /\ UNCHANGED <<scope, visited, view, dialog>>
Click ==
  /\ importing = None /\ file # None
  /\ Uses("click")
  /\ clicks' = clicks + 1
  /\ UNCHANGED <<scope, visited, view, dialog>>

\* A click's continuation has its own number, and `asked' is that of its click on "Import".
Clicked(click) == [no |-> clicks + 1, file |-> file, scope |-> scope, mount |-> mount, asked |-> click]
Agreed == [no |-> clicks + 1, file |-> file, scope |-> scope]

\* confirmImport, up to the await.  Only the upload disables the button: a second click
\* during the check is a second continuation, which ends in an upload of its own.
MutConfirmImport ==
  /\ IsOpen("importConfirm") /\ Click
  /\ checks' = checks \cup {Clicked(clicks + 1)}
  /\ agreed' = IF ticked THEN agreed \cup {Agreed} ELSE agreed
  /\ twice' = (twice \/ checks # {})
  /\ UNCHANGED <<mount, chosen, file, ticked, uploads, importing, imports, follow, crossed, grids>>
ConfirmImport ==
  /\ IsOpen("importConfirm") /\ ticked /\ Click
  /\ checks' = checks \cup {Clicked(clicks + 1)}
  /\ agreed' = agreed \cup {Agreed}
  /\ twice' = (twice \/ checks # {})
  /\ UNCHANGED <<mount, chosen, file, ticked, uploads, importing, imports, follow, crossed, grids>>

\* cancelConfirm and cancelInProgressConfirm: neither stops what was started.
CancelImport ==
  /\ IsOpen("importConfirm") \/ IsOpen("importInProgress")
  /\ DialogClosed
  /\ file' = None
  /\ crossed' = (crossed \/ checks # {} \/ uploads # {})
  /\ UNCHANGED <<scope, visited, view, left, mount, chosen, ticked, clicks, checks, uploads, importing, imports, follow, agreed, twice, grids>>

\* Local state belongs to an instance; that of an unmounted one is gone.
Alive(c) == Mounted /\ c.mount = mount

Upload(c) ==
  /\ uploads' = uploads \cup {c}
  /\ importing' = IF Alive(c) THEN c ELSE importing

\* An import is running: ask again.  The panel may show another file by now.
CheckFoundOne(c) ==
  /\ c \in checks
  /\ checks' = checks \ {c}
  /\ DialogOpened("importInProgress", c.asked)
  /\ crossed' = (crossed \/ ~IsOpen("importConfirm") \/ file # c.file)
  /\ UNCHANGED <<scope, visited, view, left, mount, chosen, file, ticked, clicks, uploads, importing, imports, follow, agreed, twice, grids>>

\* None is running, or the check failed: submit the file of the click, whatever else
\* is being uploaded by now.
CheckFoundNone(c) ==
  /\ c \in checks
  /\ checks' = checks \ {c}
  /\ Upload(c)
  /\ UNCHANGED <<screenVars, mount, chosen, file, ticked, clicks, imports, follow, agreed, crossed, twice, grids>>

\* "Continue": submitImport of the current render.
Continue ==
  /\ IsOpen("importInProgress") /\ Click
  /\ Upload(Clicked(dialog.about))
  /\ UNCHANGED <<mount, chosen, file, ticked, checks, imports, follow, agreed, crossed, twice, grids>>

\* Both answers forget the pending file, which may be another one by now.
MutUploadAnswered(u) ==
  /\ u \in uploads
  /\ uploads' = uploads \ {u}
  /\ file' = IF Alive(u) THEN None ELSE file
  /\ crossed' = (crossed \/ file # u.file)
  /\ UNCHANGED <<scope, visited, view, left, mount, chosen, ticked, clicks, checks, importing, agreed, twice, grids>>
UploadAnswered(u) ==
  /\ u \in uploads
  /\ uploads' = uploads \ {u}
  /\ importing' = IF importing = u THEN None ELSE importing
  /\ file' = IF Alive(u) THEN None ELSE file
  /\ crossed' = (crossed \/ file # u.file)
  /\ UNCHANGED <<scope, visited, view, left, mount, chosen, ticked, clicks, checks, agreed, twice, grids>>

\* 202.  A panel that was unmounted meanwhile forgets the job and still gets the dialog.
UploadAccepted(u) ==
  /\ UploadAnswered(u) /\ Len(imports) < MaxImports
  /\ imports' = Append(imports, [scope |-> u.scope, state |-> "active"])
  /\ follow' = IF Alive(u) THEN Follow(follow, Len(imports) + 1) ELSE follow
  /\ DialogOpened("importResult", Len(imports) + 1)

UploadRefused(u) ==
  /\ UploadAnswered(u)
  /\ DialogClosed
  /\ UNCHANGED <<imports, follow>>

\* "Done" and "Run in background" alike stop following the job.
CloseResult ==
  /\ IsOpen("importResult")
  /\ DialogClosed
  /\ follow' = Follow(follow, None)
  /\ UNCHANGED <<scope, visited, view, left, mount, chosen, file, ticked, clicks, checks, uploads, importing, imports, agreed, crossed, twice, grids>>

\* A newer upload cancels the job of an older one.
Ended == {"completed", "failed", "cancelled"}

RunImport(j) ==
  /\ imports[j].state \notin Ended
  /\ \E state \in {"retry"} \cup Ended : imports' = [imports EXCEPT ![j].state = state]
  /\ UNCHANGED <<screenVars, mount, chosen, file, ticked, clicks, checks, uploads, importing, follow, agreed, crossed, twice, grids>>

\* A completed poll invalidates the availability of the current scope.
MutAnswerFollow ==
  /\ Mounted /\ follow.job # None /\ follow.on
  /\ follow' = Polled(follow, imports[follow.job].state)
  /\ UNCHANGED <<screenVars, mount, chosen, file, ticked, clicks, checks, uploads, importing, imports, agreed, crossed, twice, grids>>
AnswerFollow ==
  /\ Mounted /\ follow.job # None /\ follow.on
  /\ follow' = Polled(follow, imports[follow.job].state)
  /\ grids' = IF imports[follow.job] = [scope |-> scope, state |-> "completed"]
                THEN grids \cup {follow.job} ELSE grids
  /\ UNCHANGED <<screenVars, mount, chosen, file, ticked, clicks, checks, uploads, importing, imports, agreed, crossed, twice>>

PanelNext ==
  \/ Choose \/ Tick \/ ConfirmImport \/ CancelImport \/ Continue \/ CloseResult \/ AnswerFollow
  \/ \E c \in checks : CheckFoundOne(c) \/ CheckFoundNone(c)
  \/ \E u \in uploads : UploadAccepted(u) \/ UploadRefused(u)
  \/ \E j \in 1..Len(imports) : RunImport(j)

\* Another scope: the panel stays mounted, and the effect of AnswerFollow runs again.
PanelKeeps ==
  /\ crossed' = (crossed \/ dialog.kind \in ImportDialogs \/ checks # {} \/ uploads # {})
  /\ grids' = IF follow.state = "completed" /\ imports[follow.of].scope = scope'
                THEN grids \cup {follow.of} ELSE grids
  /\ UNCHANGED <<mount, chosen, file, ticked, clicks, checks, uploads, importing, imports, follow, agreed, twice>>

\* Another section: the panel's state is lost with it, its continuations are not.
PanelRemounts ==
  /\ mount' = mount + 1
  /\ file' = None /\ ticked' = FALSE /\ importing' = None
  /\ follow' = NoPoll
  /\ crossed' = (crossed \/ checks # {} \/ uploads # {})
  /\ UNCHANGED <<chosen, clicks, checks, uploads, imports, agreed, twice, grids>>

-----------------------------------------------------------------------------
(* Properties *)

\* Whatever is uploaded goes back to a ticked confirmation: no path to an upload goes
\* around the checkbox.  And what is uploaded is the file, and for the company and
\* month, that were confirmed, unless a dialog was cancelled, or the page moved on,
\* while the check or an upload was under way: then "Continue" takes the panel's new file.
UploadsAreAgreed ==
  \A u \in uploads : \E a \in agreed :
    a.no = u.asked /\ (crossed \/ (a.file = u.file /\ a.scope = u.scope))

\* The panel has one upload under way at a time, over both dialogs that start one, unless
\* "Import" was clicked during the check of an earlier click: then every click uploads, and
\* the server lets the last one replace the others, of which the second dialog never spoke.
OneUploadAtATime == twice \/ \A u, v \in uploads : u.mount = v.mount => u = v

\* Where the result dialog shows the report of an earlier import, `data' having
\* outlived its argument, a poll is under way that replaces it; and a followed job
\* is the one the dialog was opened for.
StaleReportIsBrief ==
  IsOpen("importResult") /\ follow.job # None =>
    /\ follow.job = dialog.about \/ crossed
    /\ follow.of = follow.job \/ follow.on

\* For an import the planner waits for, polling stops when its job has ended, in
\* whatever way, and the availability grid is refetched if it was completed.
GridRefetched ==
  \A j \in 1..MaxImports :
    LET Here == j <= Len(imports) /\ follow.job = j /\ imports[j].scope = scope /\ Mounted
        Told == ~follow.on /\ (imports[j].state = "completed" => j \in grids)
    IN (Here /\ imports[j].state \in Ended) ~> (~Here \/ Told)
=============================================================================
