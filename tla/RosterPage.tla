------------------------------ MODULE RosterPage ------------------------------
(***************************************************************************)
(* The Roster page (pages/Roster/RosterPage.tsx) with the RTK Query cache  *)
(* it reads (rosters.api.ts): generate, regenerate, acknowledge, publish,  *)
(* follow the generation job, and change company or month meanwhile.       *)
(*                                                                         *)
(* The server is what the routes promise: see RosterLifecycle for what     *)
(* they do.  A call reaches it and is answered in one step, at any time    *)
(* after the click.                                                        *)
(***************************************************************************)
EXTENDS Screen, Sequences

CONSTANTS
  Generated,   \* the scopes that have a roster at first
  MaxJobs      \* bound: generation jobs accepted in a behaviour

VARIABLES
  roster,      \* server: per scope, generation (0: none), status, open alerts
  jobs,        \* server: the generation jobs, in order of acceptance
  cached,      \* the cache entry of a scope, None if there is none
  fetching,    \* scopes whose roster is being (re)fetched
  shown,       \* what the page calls `roster', with the scope it is of
  poll,        \* useJobPolling(jobId)
  calls,       \* calls not answered yet
  astray,      \* history: jobs accepted when the title was of another scope already
  asked        \* history: what became of the question before a regeneration

pageVars == <<roster, jobs, cached, fetching, shown, poll, calls, astray, asked>>

NoRoster == [gen |-> 0, status |-> "DRAFT", open |-> FALSE]
Roster == [gen : Nat, status : {"DRAFT", "PUBLISHED"}, open : BOOLEAN]

PageTypeOK ==
  /\ roster \in [Scope -> Roster]
  /\ cached \in [Scope -> Roster \cup {None}]
  /\ fetching \subseteq Scope
  /\ shown = None \/ shown.of \in Scope
  /\ \A job \in {poll.job, poll.of} : job = None \/ job \in 1..Len(jobs)
  /\ asked \in {"here", "late", "moved"}

PageInit ==
  /\ \E first \in [gen : {1}, status : {"DRAFT", "PUBLISHED"}, open : {FALSE}] :
       roster = [s \in Scope |-> IF s \in Generated THEN first ELSE NoRoster]
  /\ jobs = <<>>
  /\ cached = [s \in Scope |-> None]
  /\ fetching = {scope}
  /\ shown = None
  /\ poll = NoPoll
  /\ calls = {}
  /\ astray = {}
  /\ asked = "here"

-----------------------------------------------------------------------------
(* The cache.  `data' is the last result that was a success, whatever scope    *)
(* it was for, until the current one has a result of its own.                  *)

Loaded(s) == cached[s] # None /\ cached[s].gen > 0

Sees(s, r) == shown' = IF r # None /\ r.gen > 0
                         THEN [of |-> s, gen |-> r.gen, status |-> r.status, open |-> r.open]
                         ELSE shown

\* An invalidated entry is dropped, or fetched again if the page subscribes to it.
Invalidate(scopes) ==
  /\ cached' = [s \in Scope |-> IF s \in scopes \ {scope} THEN None ELSE cached[s]]
  /\ fetching' = fetching \cup ({scope} \cap scopes)

MutFetched(s) ==
  /\ s \in fetching
  /\ fetching' = fetching \ {s}
  /\ cached' = [cached EXCEPT ![s] = roster[s]]
  /\ Sees(s, roster[s])
  /\ UNCHANGED <<screenVars, roster, jobs, poll, calls, astray, asked>>
Fetched(s) ==
  /\ s \in fetching
  /\ fetching' = fetching \ {s}
  /\ cached' = [cached EXCEPT ![s] = roster[s]]
  /\ IF s = scope THEN Sees(s, roster[s]) ELSE UNCHANGED shown
  /\ UNCHANGED <<screenVars, roster, jobs, poll, calls, astray, asked>>

\* isLoading is true only before the first result.
Rendered == shown # None \/ \E s \in Scope : cached[s] # None

-----------------------------------------------------------------------------
(* Another company or month *)

Generating == {c \in calls : c.kind = "generate"}

\* The poll of the followed job, if its answer is outstanding.
Polling == {[kind |-> "poll", scope |-> scope, job |-> job] : job \in IF poll.on THEN {poll.job} ELSE {}}

\* Neither remounts the page: only the effect on [companyId, month] resets jobId.
\* A poll may be under way; nobody cancels it.
MutShow(s) ==
  /\ scope' = s
  /\ visited' = visited \cup {s.month}
  /\ Sees(s, cached[s])
  /\ fetching' = IF Loaded(s) THEN fetching ELSE fetching \cup {s}
  /\ UNCHANGED <<view, dialog, roster, jobs, cached, poll, calls, astray>>
Show(s) ==
  /\ scope' = s
  /\ visited' = visited \cup {s.month}
  /\ Sees(s, cached[s])
  /\ fetching' = IF Loaded(s) THEN fetching ELSE fetching \cup {s}
  /\ poll' = Follow(poll, None)
  /\ calls' \in {calls, calls \cup Polling}
  /\ UNCHANGED <<view, dialog, roster, jobs, cached, astray>>

\* The month field or the company select of the layout.
Switch(s) == ~Modal /\ s # scope /\ Uses("switch") /\ Show(s) /\ UNCHANGED asked

\* The browser's history knows months, not companies, and works under a modal.
Back(month) ==
  /\ month \in visited \ {scope.month}
  /\ Uses("switch")
  /\ Show([scope EXCEPT !.month = month])
  /\ asked' = IF dialog.kind = "regenerate" /\ asked = "here" THEN "moved" ELSE asked

ShowSection(section) ==
  /\ ~Modal /\ section # view
  /\ Uses("switch")
  /\ view' = section
  /\ UNCHANGED <<scope, visited, dialog, pageVars>>

-----------------------------------------------------------------------------
(* Generate *)

\* `about' is the scope the planner was asked about, for a forced call.
StartGenerate(force, about) ==
  calls' = calls \cup {[kind |-> "generate", scope |-> scope, force |-> force,
                        about |-> about, asked |-> asked, no |-> left.generate]}

ClickGenerate ==
  /\ ~Modal /\ view = "roster" /\ Rendered
  /\ Uses("generate")
  /\ IF shown # None /\ shown.status = "PUBLISHED"
       THEN DialogOpened("regenerate", scope) /\ asked' = "here" /\ UNCHANGED calls
       ELSE StartGenerate(FALSE, None) /\ UNCHANGED <<dialog, asked>>
  /\ UNCHANGED <<scope, visited, view, roster, jobs, cached, fetching, shown, poll, astray>>

ConfirmRegenerate ==
  /\ dialog.kind = "regenerate"
  /\ DialogClosed
  /\ StartGenerate(TRUE, dialog.about)
  /\ UNCHANGED <<scope, visited, view, left, roster, jobs, cached, fetching, shown, poll, astray, asked>>

CancelRegenerate ==
  /\ dialog.kind = "regenerate"
  /\ DialogClosed
  /\ UNCHANGED <<scope, visited, view, left, pageVars>>

\* 202: jobId is set whatever the page shows by now, also in place of another.
Accepted(c) ==
  /\ Len(jobs) < MaxJobs
  /\ roster[c.scope].status = "PUBLISHED" => c.force
  /\ jobs' = Append(jobs, [scope |-> c.scope, state |-> "active", made |-> 0])
  /\ poll' = Follow(poll, Len(jobs) + 1)
  /\ calls' \in {calls \ {c}, (calls \ {c}) \cup Polling}
  /\ astray' = IF c.scope = scope THEN astray ELSE astray \cup {Len(jobs) + 1}
  /\ UNCHANGED <<dialog, asked>>

\* 409 `already-published': the question replaces whatever dialog is open.
RefusedPublished(c) ==
  /\ roster[c.scope].status = "PUBLISHED" /\ ~c.force
  /\ DialogOpened("regenerate", c.scope)
  /\ asked' = IF c.scope = scope THEN "here" ELSE "late"
  /\ calls' = calls \ {c}
  /\ UNCHANGED <<jobs, poll, astray>>

\* 409 `generation-in-progress', or any other error, at any time: a toast.
RefusedOrFailed(c) == calls' = calls \ {c} /\ UNCHANGED <<dialog, jobs, poll, astray, asked>>

AnswerGenerate(c) ==
  /\ c \in Generating
  /\ Accepted(c) \/ RefusedPublished(c) \/ RefusedOrFailed(c)
  /\ UNCHANGED <<scope, visited, view, left, roster, cached, fetching, shown>>

RunJob(j) ==
  /\ jobs[j].state = "active"
  /\ LET s == jobs[j].scope
         gen == roster[s].gen + 1 IN
     \/ /\ jobs' = [jobs EXCEPT ![j] = [@ EXCEPT !.state = "completed", !.made = gen]]
        /\ \E open \in BOOLEAN :
             roster' = [roster EXCEPT ![s] = [gen |-> gen, status |-> "DRAFT", open |-> open]]
     \/ jobs' = [jobs EXCEPT ![j].state = "failed"] /\ UNCHANGED roster
  /\ UNCHANGED <<screenVars, cached, fetching, shown, poll, calls, astray, asked>>

\* GET /jobs/:id, and onQueryStarted: a completed generation invalidates `Roster'.
MutAnswerPoll ==
  /\ poll.job # None /\ poll.on
  /\ poll' = Polled(poll, jobs[poll.job].state)
  /\ UNCHANGED <<screenVars, roster, jobs, cached, fetching, shown, calls, astray, asked>>
AnswerPoll ==
  /\ poll.job # None /\ poll.on
  /\ poll' = Polled(poll, jobs[poll.job].state)
  /\ IF jobs[poll.job].state = "completed" THEN Invalidate(Scope) ELSE UNCHANGED <<cached, fetching>>
  /\ UNCHANGED <<screenVars, roster, jobs, shown, calls, astray, asked>>

\* The same answer when the page follows the job no more: only the tags are left.
AnswerStalePoll(c) ==
  /\ c \in calls /\ c.kind = "poll"
  /\ calls' = calls \ {c}
  /\ IF jobs[c.job].state = "completed" THEN Invalidate(Scope) ELSE UNCHANGED <<cached, fetching>>
  /\ UNCHANGED <<screenVars, roster, jobs, shown, poll, astray, asked>>

-----------------------------------------------------------------------------
(* Acknowledge and publish: both name the roster by the id that is shown and   *)
(* invalidate the scope in the title.                                          *)

Asks(kind) ==
  calls' = calls \cup {[kind |-> kind, scope |-> scope, of |-> shown.of, gen |-> shown.gen]}

ClickAck ==
  /\ ~Modal /\ view = "roster" /\ shown # None /\ shown.open
  /\ Uses("gate")
  /\ Asks("ack")
  /\ UNCHANGED <<scope, visited, view, dialog, roster, jobs, cached, fetching, shown, poll, astray, asked>>

\* The button is disabled by what is shown; the server checks its own alerts.
ClickPublish ==
  /\ ~Modal /\ view = "roster" /\ shown # None
  /\ ~shown.open /\ shown.status # "PUBLISHED"
  /\ Uses("gate")
  /\ Asks("publish")
  /\ UNCHANGED <<scope, visited, view, dialog, roster, jobs, cached, fetching, shown, poll, astray, asked>>

\* The alert is gone with its generation (404); another may be left.
AnswerAck(c) ==
  /\ c \in calls /\ c.kind = "ack"
  /\ calls' = calls \ {c}
  /\ \/ roster[c.of].gen = c.gen /\ \E open \in BOOLEAN : roster' = [roster EXCEPT ![c.of].open = @ /\ open]
     \/ roster[c.of].gen # c.gen /\ UNCHANGED roster
  /\ Invalidate({c.scope})
  /\ UNCHANGED <<screenVars, jobs, shown, poll, astray, asked>>

AnswerPublish(c) ==
  /\ c \in calls /\ c.kind = "publish"
  /\ calls' = calls \ {c}
  /\ roster' = IF roster[c.of].open THEN roster ELSE [roster EXCEPT ![c.of].status = "PUBLISHED"]
  /\ Invalidate({c.scope})
  /\ UNCHANGED <<screenVars, jobs, shown, poll, astray, asked>>

\* Another planner, or the same one in another tab.
Elsewhere(s) ==
  /\ Uses("elsewhere")
  /\ \/ /\ roster[s].gen > 0 /\ ~roster[s].open
        /\ roster' = [roster EXCEPT ![s].status = "PUBLISHED"]
     \/ \E open \in BOOLEAN :
          roster' = [roster EXCEPT ![s] = [gen |-> @.gen + 1, status |-> "DRAFT", open |-> open]]
  /\ UNCHANGED <<scope, visited, view, dialog, jobs, cached, fetching, shown, poll, calls, astray, asked>>

PageNext ==
  \/ \E s \in Scope : Fetched(s) \/ Elsewhere(s)
  \/ ClickGenerate \/ ConfirmRegenerate \/ CancelRegenerate \/ ClickAck \/ ClickPublish \/ AnswerPoll
  \/ \E c \in calls : AnswerGenerate(c) \/ AnswerAck(c) \/ AnswerPublish(c) \/ AnswerStalePoll(c)
  \/ \E j \in 1..Len(jobs) : RunJob(j)

MovesToScope == \/ \E s \in Scope : Switch(s)
                \/ \E month \in Month : Back(month)

MovesToSection == \E section \in {"roster", "availability"} : ShowSection(section)

-----------------------------------------------------------------------------
(* Properties *)

\* The progress banner is about a job of the company and month in the title, but for
\* a job whose own 202 came after the planner had moved on.  Code: the reset effect
\* of RosterPage.tsx against setJobId after the await.
BannerIsOfScope == poll.job # None => jobs[poll.job].scope = scope \/ poll.job \in astray

\* A regeneration that discards a publication is of the company and month its planner
\* was asked about.  The callback acts on what the title names when it is confirmed,
\* which differs in two ways only: the browser's Back changed the month under the
\* question, never the company; or the question itself was asked by a 409 that came
\* after the planner had moved on.  Code: confirmRegenerate against the modal.
ForcedWasAsked ==
  \A c \in Generating : c.force =>
    /\ c.asked = "here" => c.about = c.scope
    /\ c.asked = "moved" => c.about.company = c.scope.company

\* Once the roster of the title is loaded, it is the one acted upon: a late answer
\* for another company or month does not replace it.
ShownIsOfScope == Loaded(scope) => shown.of = scope

\* Acknowledging and publishing act on the roster of the title.  It is not so where
\* the new company or month has no roster, or none yet: `data' keeps the old one.
PublishesItsTitle == \A c \in calls : c.kind \in {"ack", "publish"} => c.of = c.scope

\* A generation this page follows to its end is shown in the end, unless the planner
\* goes elsewhere: the poll must see the end, stop, and invalidate the cache.
GenerationShown ==
  \A j \in 1..MaxJobs :
    LET Here == j <= Len(jobs) /\ poll.job = j /\ jobs[j].scope = scope
        Shown == shown # None /\ shown.of = scope /\ shown.gen >= jobs[j].made
    IN (Here /\ jobs[j].state = "completed") ~> (~Here \/ Shown)
=============================================================================
