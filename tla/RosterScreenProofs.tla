-------------------------- MODULE RosterScreenProofs --------------------------
(***************************************************************************)
(* That the Roster page shows what its title names, and does what its      *)
(* dialogs asked, for every number of companies, months, slots, workers    *)
(* and clicks, is proved here from invariants of the page, the manual-edit *)
(* dialog and the import panel.                                            *)
(*                                                                         *)
(* Each part has its own invariant over its own state and what the three   *)
(* share.  A step of one part reaches the others only through the dialog   *)
(* slot, the scope and the section, so that it is enough to know of it     *)
(* what PageQuiet, EditQuiet and PanelQuiet say.                           *)
(***************************************************************************)
EXTENDS RosterScreen, SequenceTheorems, TLAPS

-----------------------------------------------------------------------------
(* The page *)

JobStates == {"active", "retry", "completed", "failed", "cancelled"}
PollStates == JobStates \cup {"created"}
Poll == [job : Nat \cup {None}, of : Nat \cup {None}, state : PollStates, on : BOOLEAN]
Job == [scope : Scope, state : JobStates, made : Nat]

\* What the variables are, beyond the type invariants of the runs.
PageShape ==
  /\ poll \in Poll
  /\ jobs \in Seq(Job)
  /\ \A c \in calls : c.scope \in Scope

\* The question before a regeneration is about the title, or, once the month has been
\* changed under it, about the title's company, unless a late answer asked it.
AskedHere ==
  dialog.kind = "regenerate" =>
    /\ dialog.about \in Scope
    /\ asked = "here" => dialog.about = scope
    /\ asked = "moved" => dialog.about.company = scope.company

PageInv ==
  /\ ScreenTypeOK /\ PageTypeOK /\ PageShape
  /\ BannerIsOfScope /\ AskedHere /\ ForcedWasAsked /\ ShownIsOfScope

-----------------------------------------------------------------------------
(* The manual-edit dialog *)

EditShape ==
  /\ flow \in [status : {"idle", "submitting", "blocked", "confirming", "success"}, about : Edit \cup {None}]
  /\ opening \in Nat

\* The dialog is open only over a roster and a cell of it.
OpenOverRoster == Open => shown.of \in Scope /\ focused \in [month : Month, slot : Slot]

\* An edit on its way from the opening that shows is the pending one: the dialog waits for it.
PendingIsOnItsWay ==
  opening \in late \/
    \A c \in edits :
      Open /\ c.opening = opening =>
        flow.status = "submitting" /\ pending = c.edit /\ pending.slot = focused.slot

EditInv ==
  /\ EditTypeOK /\ EditShape
  /\ OpenOverRoster /\ PendingIsOnItsWay /\ WarningsAreOfPending /\ OneEditPerOpening

-----------------------------------------------------------------------------
(* The import panel *)

PanelShape ==
  /\ chosen \in Nat /\ clicks \in Nat
  /\ follow \in Poll
  /\ imports \in Seq([scope : Scope, state : JobStates])
  /\ crossed \in BOOLEAN /\ twice \in BOOLEAN

\* Only a poll has a result.
ResultIsOfJob == follow.state # "created" => follow.of # None

\* The job followed has been polled, or is being polled.
FollowedIsPolled == follow.job # None => follow.of = follow.job \/ follow.on

\* A continuation, as PanelTypeOK has it.
Continuation(ks, fs, ms) == [no : ks, file : fs, scope : Scope, mount : ms, asked : ks]

\* The click numbered n confirmed this file for this scope.
Confirms(n, f, s) == \E a \in agreed : a.no = n /\ a.file = f /\ a.scope = s

\* The job followed is the one the result dialog was opened for, a continuation runs
\* in the instance it was started from, its scope is the title's, and the file in the
\* second question was acknowledged: until a continuation outlives its dialog.
Uncrossed ==
  \/ crossed
  \/ /\ dialog.kind = "importResult" /\ follow.job # None => follow.job = dialog.about
     /\ \A c \in checks \cup uploads : Alive(c) /\ c.scope = scope
     /\ dialog.kind = "importInProgress" /\ file # None => Confirms(dialog.about, file, scope)

\* What a check is of was confirmed, and the second question is asked of a confirmed click.
ChecksAreAgreed ==
  /\ \A c \in checks : Confirms(c.asked, c.file, c.scope)
  /\ dialog.kind = "importInProgress" => \E a \in agreed : a.no = dialog.about

\* A continuation of the present instance runs while it is mounted.
AliveIsMounted == \A c \in checks \cup uploads : c.mount = mount => Mounted

\* Until a second click is made during a check: there is one check, it is answered before
\* the second question opens and no upload of its instance is under way beside it, and
\* isLoading is about every upload of the present instance.
OneAtATime ==
  \/ twice
  \/ /\ \A u, v \in uploads : u.mount = v.mount => u = v
     /\ \A u \in uploads : u.mount = mount => importing = u
     /\ \A c, d \in checks : c = d
     /\ checks # {} => dialog.kind # "importInProgress"
     /\ \A c \in checks, u \in uploads : c.mount # u.mount

PanelInv ==
  /\ PanelTypeOK /\ PanelShape
  /\ ResultIsOfJob /\ FollowedIsPolled /\ Uncrossed
  /\ ChecksAreAgreed /\ UploadsAreAgreed /\ AliveIsMounted /\ OneAtATime

IInv == PageInv /\ EditInv /\ PanelInv

-----------------------------------------------------------------------------
(* Lemmas about the model's operators *)

\* What useJobPolling makes of another job and of an answer.
LEMMA FollowIsPoll ==
  ASSUME NEW p \in Poll, NEW j \in Nat \cup {None}
  PROVE  /\ Follow(p, j) \in Poll
         /\ Follow(p, j).job = j /\ Follow(p, j).of = p.of /\ Follow(p, j).state = p.state
         /\ Follow(p, j).on <=> j # None
BY DEF Follow, Poll

LEMMA PolledIsPoll ==
  ASSUME NEW p \in Poll, NEW s \in JobStates
  PROVE  /\ Polled(p, s) \in Poll
         /\ Polled(p, s).job = p.job /\ Polled(p, s).of = p.job /\ Polled(p, s).state # "created"
<1>1. ToPollState(s) \in PollStates /\ ToPollState(s) # "created"
  BY DEF ToPollState, PollStates, JobStates
<1>2. QED
  BY <1>1 DEF Polled, Poll

\* A refetched entry is dropped from the cache unless it is the one of the title.
LEMMA InvalidateKeeps ==
  ASSUME PageInv, NEW scopes, Invalidate(scopes), UNCHANGED <<scope, shown>>
  PROVE  cached' \in [Scope -> Roster \cup {None}] /\ fetching' \subseteq Scope /\ ShownIsOfScope'
<1>1. scope \in Scope /\ cached \in [Scope -> Roster \cup {None}] /\ fetching \subseteq Scope
  BY DEF PageInv, ScreenTypeOK, PageTypeOK
<1>2. cached' \in [Scope -> Roster \cup {None}] /\ cached'[scope] \in {cached[scope], None}
  BY <1>1 DEF Invalidate
<1>3. Loaded(scope)' => Loaded(scope)
  BY <1>2 DEF Loaded
<1>4. QED
  BY <1>1, <1>2, <1>3 DEF Invalidate, PageInv, ShownIsOfScope

\* What is acknowledged, published or generated is a roster.
LEMMA RosterChanges ==
  ASSUME roster \in [Scope -> Roster], NEW s
  PROVE  /\ [roster EXCEPT ![s].status = "PUBLISHED"] \in [Scope -> Roster]
         /\ \A open \in BOOLEAN :
              /\ [roster EXCEPT ![s].open = open] \in [Scope -> Roster]
              /\ [roster EXCEPT ![s].open = @ /\ open] \in [Scope -> Roster]
              /\ [roster EXCEPT ![s] = [gen |-> @.gen + 1, status |-> "DRAFT", open |-> open]] \in [Scope -> Roster]
<1>1. CASE s \in Scope
  <2>1. [roster[s] EXCEPT !.status = "PUBLISHED"] \in Roster
    BY <1>1 DEF Roster
  <2>2. ASSUME NEW open \in BOOLEAN
        PROVE  /\ [roster[s] EXCEPT !.open = open] \in Roster
               /\ [roster[s] EXCEPT !.open = @ /\ open] \in Roster
               /\ [gen |-> roster[s].gen + 1, status |-> "DRAFT", open |-> open] \in Roster
    BY <1>1 DEF Roster
  <2>3. QED
    BY <1>1, <2>1, <2>2
<1>2. CASE s \notin Scope
  BY <1>2
<1>3. QED
  BY <1>1, <1>2

\* The page shows a scope's roster once it is loaded.
LEMMA SeesOwn ==
  ASSUME NEW s \in Scope, NEW r, Sees(s, r), shown = None \/ shown.of \in Scope
  PROVE  /\ shown' = None \/ shown'.of \in Scope
         /\ shown.of \in Scope => shown'.of \in Scope
         /\ r # None /\ r.gen > 0 => shown'.of = s
BY DEF Sees

-----------------------------------------------------------------------------
(* The steps of the page *)

\* What the page's own steps do to what it shares.
PageQuiet ==
  /\ scope' = scope /\ view' = view
  /\ dialog' = dialog \/ dialog'.kind \in {"none", "regenerate"}
  /\ shown.of \in Scope => shown'.of \in Scope

LEMMA PageShows ==
  ASSUME PageInv, NEW s \in Scope, Fetched(s)
  PROVE  PageInv' /\ PageQuiet
<1> USE DEF Fetched, screenVars
<1>1. cached' \in [Scope -> Roster \cup {None}] /\ fetching' \subseteq Scope
  BY DEF PageInv, PageTypeOK
<1>2. /\ shown' = None \/ shown'.of \in Scope
      /\ shown.of \in Scope => shown'.of \in Scope
      /\ s = scope /\ roster[s] # None /\ roster[s].gen > 0 => shown'.of = s
      /\ s # scope => shown' = shown
  BY SeesOwn DEF PageInv, PageTypeOK
<1>3. ShownIsOfScope'
  <2>1. CASE s = scope
    <3>1. cached'[scope] = roster[s]
      BY <2>1 DEF PageInv, PageTypeOK
    <3>2. QED
      BY <1>2, <2>1, <3>1 DEF Loaded, ShownIsOfScope
  <2>2. CASE s # scope
    <3>1. cached'[scope] = cached[scope]
      BY <2>2 DEF PageInv, PageTypeOK
    <3>2. QED
      BY <1>2, <2>2, <3>1 DEF Loaded, ShownIsOfScope, PageInv
  <2>3. QED
    BY <2>1, <2>2
<1>4. ScreenTypeOK' /\ PageTypeOK' /\ PageShape'
  BY <1>1, <1>2 DEF PageInv, ScreenTypeOK, PageTypeOK, PageShape, NoDialog
<1>5. BannerIsOfScope' /\ AskedHere' /\ ForcedWasAsked'
  BY DEF PageInv, BannerIsOfScope, AskedHere, ForcedWasAsked, Generating
<1>6. QED
  BY <1>2, <1>3, <1>4, <1>5 DEF PageInv, PageQuiet

LEMMA PageClicks ==
  ASSUME PageInv, ClickGenerate \/ ConfirmRegenerate \/ CancelRegenerate
  PROVE  PageInv' /\ PageQuiet
<1> USE DEF ClickGenerate, ConfirmRegenerate, CancelRegenerate, DialogOpened, DialogClosed, NoDialog,
            StartGenerate, pageVars
<1>1. ScreenTypeOK' /\ PageTypeOK' /\ PageShape'
  BY DEF PageInv, ScreenTypeOK, PageTypeOK, PageShape
<1>2. BannerIsOfScope' /\ ShownIsOfScope'
  BY DEF PageInv, BannerIsOfScope, Generating, ShownIsOfScope, Loaded
<1>3. AskedHere'
  BY DEF PageInv, AskedHere, ScreenTypeOK
<1>4. ForcedWasAsked'
  BY DEF PageInv, ForcedWasAsked, Generating, AskedHere
<1>5. PageQuiet
  BY DEF PageQuiet
<1>6. QED
  BY <1>1, <1>2, <1>3, <1>4, <1>5 DEF PageInv

LEMMA PageAsks ==
  ASSUME PageInv, ClickAck \/ ClickPublish
  PROVE  PageInv' /\ PageQuiet
<1> USE DEF ClickAck, ClickPublish, Asks
<1>1. ScreenTypeOK' /\ PageTypeOK' /\ PageShape'
  BY DEF PageInv, ScreenTypeOK, PageTypeOK, PageShape
<1>2. Generating' = Generating
  BY DEF Generating
<1>3. QED
  BY <1>1, <1>2 DEF PageInv, PageQuiet, BannerIsOfScope, ShownIsOfScope, Loaded, AskedHere, ForcedWasAsked

LEMMA PageGenerates ==
  ASSUME PageInv, NEW c \in calls, AnswerGenerate(c)
  PROVE  PageInv' /\ PageQuiet
<1> USE DEF AnswerGenerate
<1>1. /\ Generating' \subseteq Generating /\ c \in Generating /\ c.scope \in Scope
      /\ \A d \in calls' : d.scope \in Scope
  BY DEF Accepted, RefusedPublished, RefusedOrFailed, Polling, Generating, PageInv, PageShape, ScreenTypeOK
<1>2. ForcedWasAsked' /\ ShownIsOfScope'
  BY <1>1 DEF PageInv, ForcedWasAsked, ShownIsOfScope, Loaded
<1>3. CASE Accepted(c)
  <2>1. jobs' \in Seq(Job) /\ Len(jobs') = Len(jobs) + 1 /\ jobs'[Len(jobs) + 1].scope = c.scope
    BY <1>1, <1>3, AppendProperties DEF Accepted, PageInv, PageShape, Job, JobStates
  <2>2. Len(jobs) \in Nat
    BY LenProperties DEF PageInv, PageShape
  <2>3. poll' \in Poll /\ poll'.job = Len(jobs) + 1 /\ poll'.of = poll.of
    <3>1. poll \in Poll /\ Len(jobs) + 1 \in Nat \cup {None}
      BY <2>2 DEF PageInv, PageShape
    <3>2. poll' = Follow(poll, Len(jobs) + 1)
      BY <1>3 DEF Accepted
    <3>3. QED
      BY <3>1, <3>2, FollowIsPoll
  <2>4. ScreenTypeOK' /\ PageTypeOK' /\ PageShape'
    BY <1>1, <1>3, <2>1, <2>2, <2>3 DEF Accepted, PageInv, ScreenTypeOK, PageTypeOK, PageShape
  <2>5. BannerIsOfScope'
    BY <1>1, <1>3, <2>1, <2>3 DEF Accepted, BannerIsOfScope, PageInv
  <2>6. QED
    BY <1>2, <1>3, <2>4, <2>5 DEF Accepted, PageInv, PageQuiet, AskedHere
<1>4. CASE RefusedPublished(c)
  <2> USE DEF RefusedPublished, DialogOpened
  <2>1. ScreenTypeOK' /\ PageTypeOK' /\ PageShape' /\ BannerIsOfScope'
    BY <1>1, <1>4 DEF PageInv, ScreenTypeOK, PageTypeOK, PageShape, BannerIsOfScope
  <2>2. AskedHere'
    BY <1>1, <1>4 DEF PageInv, AskedHere
  <2>3. QED
    BY <1>2, <1>4, <2>1, <2>2 DEF PageInv, PageQuiet
<1>5. CASE RefusedOrFailed(c)
  <2>1. ScreenTypeOK' /\ PageTypeOK' /\ PageShape' /\ BannerIsOfScope' /\ AskedHere'
    BY <1>1, <1>5 DEF RefusedOrFailed, PageInv, ScreenTypeOK, PageTypeOK, PageShape, BannerIsOfScope, AskedHere
  <2>2. QED
    BY <1>2, <1>5, <2>1 DEF PageInv, PageQuiet, RefusedOrFailed
<1>6. QED
  BY <1>3, <1>4, <1>5

LEMMA PageRuns ==
  ASSUME PageInv, NEW j \in 1..Len(jobs), RunJob(j)
  PROVE  PageInv' /\ PageQuiet
<1> USE DEF RunJob, screenVars
<1>0. jobs[j] \in Job
  BY ElementOfSeq DEF PageInv, PageShape
<1>1. /\ roster' \in [Scope -> Roster]
      /\ \E job \in Job : job.scope = jobs[j].scope /\ jobs' = [jobs EXCEPT ![j] = job]
  <2> DEFINE gen == roster[jobs[j].scope].gen + 1
  <2>1. gen \in Nat
    BY <1>0 DEF PageInv, PageTypeOK, Roster, Job
  <2>2. CASE /\ jobs' = [jobs EXCEPT ![j] = [@ EXCEPT !.state = "completed", !.made = gen]]
             /\ \E open \in BOOLEAN :
                  roster' = [roster EXCEPT ![jobs[j].scope] = [gen |-> gen, status |-> "DRAFT", open |-> open]]
    <3>1. [jobs[j] EXCEPT !.state = "completed", !.made = gen] \in Job
      BY <1>0, <2>1 DEF Job, JobStates
    <3>2. [jobs[j] EXCEPT !.state = "completed", !.made = gen].scope = jobs[j].scope
      BY <1>0 DEF Job
    <3>3. roster' \in [Scope -> Roster]
      <4>1. \A open \in BOOLEAN : [gen |-> gen, status |-> "DRAFT", open |-> open] \in Roster
        BY <2>1 DEF Roster
      <4>2. QED
        BY <2>2, <4>1 DEF PageInv, PageTypeOK
    <3>4. QED
      BY <2>2, <3>1, <3>2, <3>3
  <2>3. CASE jobs' = [jobs EXCEPT ![j].state = "failed"] /\ UNCHANGED roster
    <3>1. [jobs[j] EXCEPT !.state = "failed"] \in Job /\ [jobs[j] EXCEPT !.state = "failed"].scope = jobs[j].scope
      BY <1>0 DEF Job, JobStates
    <3>2. jobs' = [jobs EXCEPT ![j] = [jobs[j] EXCEPT !.state = "failed"]]
      BY <2>3
    <3>3. QED
      BY <2>3, <3>1, <3>2 DEF PageInv, PageTypeOK
  <2>4. QED
    BY <2>2, <2>3
<1>2. /\ jobs' \in Seq(Job) /\ Len(jobs') = Len(jobs)
      /\ \A i \in 1..Len(jobs) : jobs'[i].scope = jobs[i].scope
  BY <1>1, ExceptSeq DEF PageInv, PageShape
<1>3. ScreenTypeOK' /\ PageTypeOK' /\ PageShape'
  BY <1>1, <1>2 DEF PageInv, ScreenTypeOK, PageTypeOK, PageShape
<1>4. BannerIsOfScope'
  BY <1>2 DEF BannerIsOfScope, PageInv, PageTypeOK
<1>5. QED
  BY <1>3, <1>4 DEF PageInv, PageQuiet, ShownIsOfScope, Loaded, AskedHere, ForcedWasAsked, Generating

LEMMA PagePolls ==
  ASSUME PageInv, AnswerPoll
  PROVE  PageInv' /\ PageQuiet
<1> USE DEF AnswerPoll, screenVars
<1>1. cached' \in [Scope -> Roster \cup {None}] /\ fetching' \subseteq Scope /\ ShownIsOfScope'
  <2>1. CASE jobs[poll.job].state = "completed"
    BY <2>1, InvalidateKeeps
  <2>2. CASE jobs[poll.job].state # "completed"
    BY <2>2 DEF PageInv, PageTypeOK, ShownIsOfScope, Loaded
  <2>3. QED
    BY <2>1, <2>2
<1>2. jobs[poll.job].state \in JobStates
  <2>1. poll.job \in 1..Len(jobs) /\ jobs \in Seq(Job)
    BY DEF PageInv, PageTypeOK, PageShape
  <2>2. jobs[poll.job] \in Job
    BY <2>1, ElementOfSeq
  <2>3. QED
    BY <2>2 DEF Job
<1>3. poll' \in Poll /\ poll'.job = poll.job /\ poll'.of = poll.job
  BY <1>2, PolledIsPoll DEF PageInv, PageShape
<1>4. ScreenTypeOK' /\ PageTypeOK' /\ PageShape'
  BY <1>1, <1>3 DEF PageInv, ScreenTypeOK, PageTypeOK, PageShape
<1>5. BannerIsOfScope'
  BY <1>3 DEF BannerIsOfScope, PageInv
<1>6. QED
  BY <1>1, <1>4, <1>5 DEF PageInv, PageQuiet, AskedHere, ForcedWasAsked, Generating

LEMMA PageAnswers ==
  ASSUME PageInv, NEW c \in calls, AnswerAck(c) \/ AnswerPublish(c)
  PROVE  PageInv' /\ PageQuiet
<1> USE DEF AnswerAck, AnswerPublish, screenVars
<1>1. cached' \in [Scope -> Roster \cup {None}] /\ fetching' \subseteq Scope /\ ShownIsOfScope'
  BY InvalidateKeeps
<1>2. roster' \in [Scope -> Roster]
  <2>1. roster \in [Scope -> Roster]
    BY DEF PageInv, PageTypeOK
  <2>2. CASE AnswerAck(c)
    <3>1. CASE UNCHANGED roster
      BY <2>1, <3>1
    <3>2. CASE \E open \in BOOLEAN : roster' = [roster EXCEPT ![c.of].open = @ /\ open]
      <4>1. PICK open \in BOOLEAN : roster' = [roster EXCEPT ![c.of].open = @ /\ open]
        BY <3>2
      <4>2. QED
        BY <2>1, <4>1, RosterChanges
    <3>3. QED
      BY <2>2, <3>1, <3>2 DEF AnswerAck
  <2>3. CASE AnswerPublish(c)
    <3>1. [roster EXCEPT ![c.of].status = "PUBLISHED"] \in [Scope -> Roster]
      BY <2>1, RosterChanges
    <3>2. QED
      BY <2>1, <2>3, <3>1 DEF AnswerPublish
  <2>4. QED
    BY <2>2, <2>3
<1>3. ScreenTypeOK' /\ PageTypeOK' /\ PageShape'
  BY <1>1, <1>2 DEF PageInv, ScreenTypeOK, PageTypeOK, PageShape
<1>4. Generating' \subseteq Generating
  BY DEF Generating
<1>5. QED
  BY <1>1, <1>3, <1>4 DEF PageInv, PageQuiet, BannerIsOfScope, AskedHere, ForcedWasAsked

LEMMA PageStalePolls ==
  ASSUME PageInv, NEW c \in calls, AnswerStalePoll(c)
  PROVE  PageInv' /\ PageQuiet
<1> USE DEF AnswerStalePoll, screenVars
<1>1. cached' \in [Scope -> Roster \cup {None}] /\ fetching' \subseteq Scope /\ ShownIsOfScope'
  <2>1. CASE jobs[c.job].state = "completed"
    BY <2>1, InvalidateKeeps
  <2>2. CASE jobs[c.job].state # "completed"
    BY <2>2 DEF PageInv, PageTypeOK, ShownIsOfScope, Loaded
  <2>3. QED
    BY <2>1, <2>2
<1>2. ScreenTypeOK' /\ PageTypeOK' /\ PageShape'
  BY <1>1 DEF PageInv, ScreenTypeOK, PageTypeOK, PageShape
<1>3. Generating' \subseteq Generating
  BY DEF Generating
<1>4. QED
  BY <1>1, <1>2, <1>3 DEF PageInv, PageQuiet, BannerIsOfScope, AskedHere, ForcedWasAsked

LEMMA PageElsewhere ==
  ASSUME PageInv, NEW s \in Scope, Elsewhere(s)
  PROVE  PageInv' /\ PageQuiet
<1> USE DEF Elsewhere
<1>1. roster' \in [Scope -> Roster]
  <2>1. roster \in [Scope -> Roster]
    BY DEF PageInv, PageTypeOK
  <2>2. CASE roster' = [roster EXCEPT ![s].status = "PUBLISHED"]
    BY <2>1, <2>2, RosterChanges
  <2>3. CASE \E open \in BOOLEAN :
               roster' = [roster EXCEPT ![s] = [gen |-> @.gen + 1, status |-> "DRAFT", open |-> open]]
    <3>1. PICK open \in BOOLEAN :
                 roster' = [roster EXCEPT ![s] = [gen |-> @.gen + 1, status |-> "DRAFT", open |-> open]]
      BY <2>3
    <3>2. QED
      BY <2>1, <3>1, RosterChanges
  <2>4. QED
    BY <2>2, <2>3
<1>2. ScreenTypeOK' /\ PageTypeOK' /\ PageShape'
  BY <1>1 DEF PageInv, ScreenTypeOK, PageTypeOK, PageShape
<1>3. QED
  BY <1>2 DEF PageInv, PageQuiet, BannerIsOfScope, ShownIsOfScope, Loaded, AskedHere, ForcedWasAsked,
              Generating

LEMMA PageSteps ==
  ASSUME PageInv, PageNext
  PROVE  PageInv' /\ PageQuiet
BY PageShows, PageClicks, PageAsks, PageGenerates, PageRuns, PagePolls, PageStalePolls, PageAnswers, PageElsewhere DEF PageNext

\* Another company or month: under the question before a regeneration only the month can
\* change, and that is marked.
LEMMA PageMoves ==
  ASSUME PageInv, MovesToScope
  PROVE  /\ PageInv'
         /\ dialog' = dialog /\ view' = view
         /\ shown.of \in Scope => shown'.of \in Scope
<1>1. PICK s \in Scope :
        /\ Show(s)
        /\ dialog.kind = "regenerate" => s.company = scope.company /\ asked' # "here"
        /\ asked' \in {asked, "moved"}
        /\ asked = "late" => asked' = "late"
  <2>1. CASE \E s \in Scope : Switch(s)
    BY <2>1 DEF Switch, Modal, ImportDialogs
  <2>2. CASE \E month \in Month : Back(month)
    <3>1. PICK month \in Month : Back(month)
      BY <2>2
    <3>2. [scope EXCEPT !.month = month] \in Scope /\ [scope EXCEPT !.month = month].company = scope.company
      BY DEF PageInv, ScreenTypeOK, Scope
    <3>3. QED
      BY <3>1, <3>2 DEF Back, PageInv, PageTypeOK
  <2>3. QED
    BY <2>1, <2>2 DEF MovesToScope
<1> USE <1>1 DEF Show
<1>0. Generating' = Generating /\ \A c \in calls' : c.scope \in Scope
  BY DEF Polling, Generating, PageInv, PageShape, ScreenTypeOK
<1>2. poll' \in Poll /\ poll'.job = None /\ poll'.of = poll.of
  BY FollowIsPoll DEF PageInv, PageShape
<1>3. /\ shown' = None \/ shown'.of \in Scope
      /\ shown.of \in Scope => shown'.of \in Scope
      /\ cached[s] # None /\ cached[s].gen > 0 => shown'.of = s
  BY SeesOwn DEF PageInv, PageTypeOK
<1>4. ScreenTypeOK'
  <2>1. s.month \in Month
    BY DEF Scope
  <2>2. QED
    BY <2>1 DEF PageInv, ScreenTypeOK
<1>5. PageTypeOK' /\ PageShape'
  BY <1>0, <1>2, <1>3 DEF PageInv, PageTypeOK, PageShape
<1>6. BannerIsOfScope' /\ ShownIsOfScope'
  BY <1>2, <1>3 DEF BannerIsOfScope, ShownIsOfScope, Loaded
<1>7. ForcedWasAsked'
  BY <1>0 DEF PageInv, ForcedWasAsked
<1>8. AskedHere'
  BY <1>1 DEF PageInv, PageTypeOK, AskedHere
<1>9. QED
  BY <1>3, <1>4, <1>5, <1>6, <1>7, <1>8 DEF PageInv

\* The other parts, and another section, change of the page's state at most the cache,
\* the rosters behind it and the dialog slot.
LEMMA PageKept ==
  ASSUME PageInv,
         UNCHANGED <<scope, visited, jobs, shown, poll, calls, astray, asked>>,
         view' \in {"roster", "availability"},
         dialog' = dialog \/ dialog'.kind \in {"none", "edit"} \cup ImportDialogs,
         roster' \in [Scope -> Roster],
         UNCHANGED <<cached, fetching>> \/ \E scopes \in SUBSET Scope : Invalidate(scopes)
  PROVE  PageInv'
<1>1. cached' \in [Scope -> Roster \cup {None}] /\ fetching' \subseteq Scope /\ ShownIsOfScope'
  <2>1. CASE UNCHANGED <<cached, fetching>>
    BY <2>1 DEF PageInv, PageTypeOK, ShownIsOfScope, Loaded
  <2>2. CASE \E scopes \in SUBSET Scope : Invalidate(scopes)
    BY <2>2, InvalidateKeeps
  <2>3. QED
    BY <2>1, <2>2
<1>2. ScreenTypeOK' /\ PageTypeOK' /\ PageShape'
  BY <1>1 DEF PageInv, ScreenTypeOK, PageTypeOK, PageShape
<1>3. AskedHere'
  BY DEF PageInv, AskedHere, ImportDialogs
<1>4. QED
  BY <1>1, <1>2, <1>3 DEF PageInv, BannerIsOfScope, ForcedWasAsked, Generating

-----------------------------------------------------------------------------
(* The steps of the manual-edit dialog *)

\* What the dialog's steps do to what it shares, beside the cache and the rosters.
EditQuiet ==
  /\ UNCHANGED <<scope, visited, view, jobs, shown, poll, calls, astray, asked>>
  /\ dialog' = dialog \/ dialog'.kind \in {"none", "edit"}
  /\ roster' \in [Scope -> Roster]
  /\ UNCHANGED <<cached, fetching>> \/ \E scopes \in SUBSET Scope : Invalidate(scopes)

LEMMA EditOpens ==
  ASSUME PageInv, EditInv, NEW slot \in Slot, Activate(slot)
  PROVE  EditInv' /\ EditQuiet
<1> USE DEF Activate, DialogOpened, pageVars, Idle, Flow
<1>1. EditTypeOK' /\ EditShape'
  BY DEF EditInv, EditTypeOK, EditShape, PageInv, ScreenTypeOK, Scope
<1>2. OpenOverRoster'
  BY DEF PageInv, PageTypeOK, ScreenTypeOK, Scope, OpenOverRoster
<1>3. PendingIsOnItsWay' /\ WarningsAreOfPending' /\ OneEditPerOpening'
  <2>1. \A c \in edits : c.opening # opening + 1
    BY DEF EditInv, EditTypeOK, EditShape
  <2>2. PendingIsOnItsWay'
    BY <2>1 DEF PendingIsOnItsWay
  <2>3. QED
    BY <2>2 DEF EditInv, WarningsAreOfPending, OneEditPerOpening
<1>4. QED
  BY <1>1, <1>2, <1>3 DEF EditInv, EditQuiet, PageInv, PageTypeOK

LEMMA EditCloses ==
  ASSUME PageInv, EditInv, Dismiss \/ DismissBlocked
  PROVE  EditInv' /\ EditQuiet
<1> USE DEF Dismiss, DismissBlocked, DialogClosed, NoDialog, pageVars, editVars
<1>1. ~Open'
  BY DEF Open
<1>2. EditTypeOK' /\ EditShape'
  BY DEF EditInv, EditTypeOK, EditShape
<1>3. QED
  BY <1>1, <1>2 DEF EditInv, EditQuiet, PageInv, PageTypeOK, OpenOverRoster, PendingIsOnItsWay,
                    WarningsAreOfPending, OneEditPerOpening

\* No edit of this opening is on its way while the dialog waits for the planner.
LEMMA NoneOnItsWay ==
  ASSUME EditInv, Open, flow.status # "submitting", opening \notin late
  PROVE  \A c \in edits : c.opening # opening
BY DEF EditInv, PendingIsOnItsWay

LEMMA EditSubmits ==
  ASSUME PageInv, EditInv, NEW worker \in Worker, Submit(worker)
  PROVE  EditInv' /\ EditQuiet
<1> DEFINE edit == [of |-> shown.of, slot |-> focused.slot, worker |-> worker]
           call == [edit |-> edit, confirm |-> FALSE, warned |-> None, scope |-> scope,
                    gen |-> shown.gen, opening |-> opening]
<1>1. /\ Open /\ flow.status \in {"idle", "success"}
      /\ pending' = edit /\ edits' = edits \cup {call}
      /\ flow' = Flow("submitting", None)
      /\ UNCHANGED <<screenVars, pageVars, focused, opening, late, lost>>
  BY DEF Submit, Editable, Call
<1>2. Open' /\ dialog' = dialog
  BY <1>1 DEF Open, screenVars
<1>3. edit \in Edit
  BY <1>1 DEF EditInv, OpenOverRoster, Edit
<1>4. call.edit = edit /\ ~call.confirm /\ call.opening = opening /\ edit.slot = focused.slot
  OBVIOUS
<1> HIDE DEF call, edit
<1>5. EditTypeOK' /\ EditShape'
  BY <1>1, <1>3, <1>4 DEF EditInv, EditTypeOK, EditShape, Flow
<1>6. OpenOverRoster'
  BY <1>1 DEF EditInv, OpenOverRoster, pageVars
<1>7. opening \in late \/ \A c \in edits : c.opening # opening
  BY <1>1, NoneOnItsWay
<1>8. PendingIsOnItsWay'
  BY <1>1, <1>4, <1>7 DEF PendingIsOnItsWay, Flow
<1>9. WarningsAreOfPending' /\ OneEditPerOpening'
  BY <1>1, <1>4, <1>7 DEF EditInv, WarningsAreOfPending, OneEditPerOpening, Flow
<1>10. QED
  BY <1>1, <1>5, <1>6, <1>8, <1>9 DEF EditInv, EditQuiet, screenVars, pageVars, PageInv, PageTypeOK

\* "Save anyway" resubmits the pending edit, under its own warnings.
LEMMA EditConfirms ==
  ASSUME PageInv, EditInv, ConfirmAnyway
  PROVE  EditInv' /\ EditQuiet
<1> DEFINE call == [edit |-> pending, confirm |-> TRUE, warned |-> flow.about, scope |-> scope,
                    gen |-> shown.gen, opening |-> opening]
<1>1. /\ Open /\ flow.status = "confirming" /\ pending # None
      /\ edits' = edits \cup {call}
      /\ flow' = Flow("submitting", None)
      /\ UNCHANGED <<screenVars, pageVars, focused, pending, opening, late, lost>>
  BY DEF ConfirmAnyway, Call
<1>2. call.edit = pending /\ call.warned = flow.about /\ call.opening = opening
  OBVIOUS
<1> HIDE DEF call
<1>3. opening \in late \/ (pending = flow.about /\ pending.slot = focused.slot)
  BY <1>1 DEF EditInv, WarningsAreOfPending
<1>4. EditTypeOK' /\ EditShape'
  BY <1>1, <1>2 DEF EditInv, EditTypeOK, EditShape, Flow
<1>5. OpenOverRoster'
  BY <1>1 DEF EditInv, OpenOverRoster, pageVars, screenVars, Open
<1>6. opening \in late \/ \A c \in edits : c.opening # opening
  BY <1>1, NoneOnItsWay
<1>7. PendingIsOnItsWay'
  BY <1>1, <1>2, <1>3, <1>6 DEF PendingIsOnItsWay, Flow
<1>8. WarningsAreOfPending' /\ OneEditPerOpening'
  BY <1>1, <1>2, <1>3, <1>6 DEF EditInv, WarningsAreOfPending, OneEditPerOpening, Flow
<1>9. QED
  BY <1>1, <1>4, <1>5, <1>7, <1>8 DEF EditInv, EditQuiet, screenVars, pageVars, PageInv, PageTypeOK

LEMMA EditTurns ==
  ASSUME PageInv, EditInv, MoveNowhere \/ CancelWarned
  PROVE  EditInv' /\ EditQuiet
<1>1. /\ Open /\ flow.status # "submitting"
      /\ flow' \in {Flow("blocked", None), Idle}
      /\ pending' \in {pending, None}
      /\ UNCHANGED <<screenVars, pageVars, focused, edits, opening, late, lost>>
  BY DEF MoveNowhere, Editable, CancelWarned
<1>2. EditTypeOK' /\ EditShape'
  BY <1>1 DEF EditInv, EditTypeOK, EditShape, Flow, Idle
<1>3. OpenOverRoster'
  BY <1>1 DEF EditInv, OpenOverRoster, pageVars, screenVars, Open
<1>4. PendingIsOnItsWay'
  BY <1>1, NoneOnItsWay DEF PendingIsOnItsWay
<1>5. WarningsAreOfPending' /\ OneEditPerOpening'
  BY <1>1 DEF EditInv, WarningsAreOfPending, OneEditPerOpening, Flow, Idle
<1>6. QED
  BY <1>1, <1>2, <1>3, <1>4, <1>5 DEF EditInv, EditQuiet, screenVars, pageVars, PageInv, PageTypeOK

\* An answer to another opening is marked as late; else no other edit of this opening is
\* on its way, and the one answered is the pending one.
LEMMA EditAnswered ==
  ASSUME PageInv, EditInv, NEW c \in edits, AnswerEdit(c)
  PROVE  EditInv' /\ EditQuiet
<1>1. /\ c \in edits /\ edits' = edits \ {c}
      /\ late' = IF Open /\ c.opening # opening THEN late \cup {opening} ELSE late
      /\ Invalidate({c.scope})
      /\ UNCHANGED <<scope, visited, view, jobs, shown, poll, calls, astray, asked, focused, opening>>
  BY DEF AnswerEdit, AnswerSaved, AnswerBlocked, AnswerWarned, AnswerLost, Answered
<1>2. \/ /\ flow' = Flow("success", None) /\ pending' = None /\ dialog' = NoDialog
         /\ \E open \in BOOLEAN : roster' = [roster EXCEPT ![c.edit.of].open = open]
      \/ /\ flow' \in {Flow("blocked", c.edit), Flow("confirming", c.edit), flow}
         /\ UNCHANGED <<dialog, roster, pending>>
  BY DEF AnswerEdit, AnswerSaved, AnswerBlocked, AnswerWarned, AnswerLost, CloseAfter, DialogClosed
<1>3. EditQuiet
  <2>1. roster \in [Scope -> Roster]
    BY DEF PageInv, PageTypeOK
  <2>2. roster' \in [Scope -> Roster]
    <3>1. CASE UNCHANGED roster
      BY <2>1, <3>1
    <3>2. CASE \E open \in BOOLEAN : roster' = [roster EXCEPT ![c.edit.of].open = open]
      <4>1. PICK open \in BOOLEAN : roster' = [roster EXCEPT ![c.edit.of].open = open]
        BY <3>2
      <4>2. QED
        BY <2>1, <4>1, RosterChanges
    <3>3. QED
      BY <1>2, <3>1, <3>2
  <2>3. \E scopes \in SUBSET Scope : Invalidate(scopes)
    <3>1. Invalidate({c.scope} \cap Scope)
      BY <1>1 DEF Invalidate, PageInv, ScreenTypeOK
    <3>2. QED
      BY <3>1
  <2>4. QED
    BY <1>1, <1>2, <2>2, <2>3 DEF EditQuiet, NoDialog
<1>4. EditTypeOK' /\ EditShape'
  <2>1. c.edit \in Edit
    BY DEF EditInv, EditTypeOK
  <2>2. flow' \in [status : {"idle", "submitting", "blocked", "confirming", "success"}, about : Edit \cup {None}]
    BY <1>2, <2>1 DEF EditInv, EditShape, Flow
  <2>3. QED
    BY <1>1, <1>2, <2>1, <2>2 DEF EditInv, EditTypeOK, EditShape
<1>5. Open' => Open /\ UNCHANGED <<dialog, pending>> /\ flow' \in {Flow("blocked", c.edit), Flow("confirming", c.edit), flow}
  BY <1>2 DEF Open, NoDialog
<1>6. OpenOverRoster'
  BY <1>1, <1>5 DEF EditInv, OpenOverRoster
<1>7. PendingIsOnItsWay' /\ WarningsAreOfPending' /\ OneEditPerOpening'
  <2>1. CASE ~Open
    BY <1>1, <1>5, <2>1 DEF EditInv, PendingIsOnItsWay, WarningsAreOfPending, OneEditPerOpening
  <2>2. CASE opening \in late'
    BY <1>1, <1>5, <2>2 DEF EditInv, PendingIsOnItsWay, WarningsAreOfPending, OneEditPerOpening
  <2>3. CASE Open /\ opening \notin late'
    <3>1. opening \notin late /\ late' = late /\ c.opening = opening
      BY <1>1, <2>3
    <3>2. flow.status = "submitting" /\ pending = c.edit /\ pending.slot = focused.slot
      BY <2>3, <3>1 DEF EditInv, PendingIsOnItsWay
    <3>3. \A d \in edits' : d.opening # opening
      BY <1>1, <3>1 DEF EditInv, OneEditPerOpening
    <3>4. QED
      BY <1>1, <1>5, <2>3, <3>1, <3>2, <3>3 DEF EditInv, PendingIsOnItsWay, WarningsAreOfPending,
                                         OneEditPerOpening, Flow
  <2>4. QED
    BY <2>1, <2>2, <2>3
<1>8. QED
  BY <1>3, <1>4, <1>6, <1>7 DEF EditInv

LEMMA EditSteps ==
  ASSUME PageInv, EditInv, EditNext
  PROVE  EditInv' /\ EditQuiet
BY EditOpens, EditCloses, EditSubmits, EditConfirms, EditTurns, EditAnswered DEF EditNext

\* Steps of the other parts leave the dialog's own state alone and do not open it.
LEMMA EditKept ==
  ASSUME EditInv, UNCHANGED editVars, Open' => Open, shown.of \in Scope => shown'.of \in Scope
  PROVE  EditInv'
BY DEF editVars, EditInv, EditTypeOK, EditShape, OpenOverRoster, PendingIsOnItsWay, WarningsAreOfPending,
       OneEditPerOpening

-----------------------------------------------------------------------------
(* The steps of the import panel *)

\* What the panel's steps do to what it shares.
PanelQuiet ==
  /\ UNCHANGED <<scope, visited, view>>
  /\ dialog' = dialog \/ dialog'.kind \in {"none"} \cup ImportDialogs

\* A file is chosen, its box is ticked, or the planner thinks better of it.
\* More clicks, files and mounts only widen the types.
LEMMA Widened ==
  ASSUME NEW k \in Nat, NEW f \in Nat, NEW m \in Nat, NEW k2 \in Nat, NEW f2 \in Nat, NEW m2 \in Nat,
         k <= k2, f <= f2, m <= m2
  PROVE  /\ Continuation(1..k, 1..f, 0..m) \subseteq Continuation(1..k2, 1..f2, 0..m2)
         /\ [no : 1..k, file : 1..f, scope : Scope] \subseteq [no : 1..k2, file : 1..f2, scope : Scope]
<1>1. 1..k \subseteq 1..k2 /\ 1..f \subseteq 1..f2 /\ 0..m \subseteq 0..m2
  OBVIOUS
<1>2. QED
  BY <1>1 DEF Continuation

\* isLoading is false while the present instance has no upload under way, second clicks apart.
LEMMA NothingLoads ==
  ASSUME PanelInv, importing = None
  PROVE  twice \/ \A u \in uploads : u.mount # mount
<1>1. \A u \in uploads : u # None
  <2>1. SUFFICES ASSUME NEW u \in uploads PROVE u # None
    OBVIOUS
  <2>2. u \in Continuation(1..clicks, 1..chosen, 0..mount)
    BY DEF PanelInv, PanelTypeOK, Continuation
  <2>3. 1..clicks \subseteq Nat /\ 1..chosen \subseteq Nat /\ 0..mount \subseteq Nat
    BY DEF PanelInv, PanelTypeOK, PanelShape
  <2>4. u \in Continuation(Nat, Nat, Nat)
    BY <2>2, <2>3 DEF Continuation
  <2>5. QED
    BY <2>4, NoneAssumption DEF Continuation
<1>2. QED
  BY <1>1 DEF PanelInv, OneAtATime

LEMMA PanelAsks ==
  ASSUME PageInv, PanelInv, Choose \/ Tick \/ CancelImport
  PROVE  PanelInv' /\ PanelQuiet
<1>1. CASE Choose
  <2>1. /\ chosen' = chosen + 1 /\ file' = chosen + 1 /\ ticked' = FALSE
        /\ dialog'.kind = "importConfirm"
        /\ UNCHANGED <<scope, visited, view, mount, clicks, checks, uploads, importing, imports, follow, agreed, crossed, twice, grids>>
    BY <1>1 DEF Choose, DialogOpened
  <2>2. PanelTypeOK' /\ PanelShape'
    <3>1. chosen \in Nat /\ clicks \in Nat /\ mount \in Nat /\ chosen <= chosen' /\ chosen' \in 1..chosen' /\ chosen' \in Nat
      BY <2>1 DEF PanelInv, PanelShape, PanelTypeOK
    <3>2. checks' \cup uploads' \subseteq Continuation(1..clicks', 1..chosen', 0..mount')
      <4>1. checks \cup uploads \subseteq Continuation(1..clicks, 1..chosen, 0..mount)
        BY DEF PanelInv, PanelTypeOK, Continuation
      <4>2. Continuation(1..clicks, 1..chosen, 0..mount) \subseteq Continuation(1..clicks, 1..chosen', 0..mount)
        BY <3>1, Widened
      <4>3. QED
        BY <2>1, <4>1, <4>2
    <3>3. agreed' \subseteq [no : 1..clicks', file : 1..chosen', scope : Scope]
      BY <2>1, <3>1, Widened DEF PanelInv, PanelTypeOK
    <3>4. QED
      BY <2>1, <3>1, <3>2, <3>3 DEF PanelInv, PanelTypeOK, PanelShape, Continuation
  <2>3. Uncrossed'
    BY <2>1 DEF PanelInv, Uncrossed, Alive, Mounted
  <2>4. QED
    BY <2>1, <2>2, <2>3 DEF PanelInv, PanelQuiet, ImportDialogs, ResultIsOfJob, FollowedIsPolled, ChecksAreAgreed, Confirms, UploadsAreAgreed,
              AliveIsMounted, Mounted, OneAtATime
<1>2. CASE Tick
  <2> USE <1>2 DEF Tick, screenVars
  <2>1. PanelTypeOK' /\ PanelShape'
    BY DEF PanelInv, PanelTypeOK, PanelShape
  <2>2. QED
    BY <2>1 DEF PanelInv, PanelQuiet, ResultIsOfJob, FollowedIsPolled, Uncrossed, Alive, Mounted,
              ChecksAreAgreed, Confirms, UploadsAreAgreed, AliveIsMounted, OneAtATime
<1>3. CASE CancelImport
  <2>1. /\ dialog'.kind = "none" /\ file' = None
        /\ crossed' = (crossed \/ checks # {} \/ uploads # {})
        /\ UNCHANGED <<scope, visited, view, mount, chosen, ticked, clicks, checks, uploads, importing, imports, follow, agreed, twice, grids>>
    BY <1>3 DEF CancelImport, DialogClosed, NoDialog
  <2>2. PanelTypeOK' /\ PanelShape'
    BY <2>1 DEF PanelInv, PanelTypeOK, PanelShape
  <2>3. Uncrossed'
    BY <2>1 DEF PanelInv, Uncrossed, Alive, Mounted
  <2>4. QED
    BY <2>1, <2>2, <2>3 DEF PanelInv, PanelQuiet, ResultIsOfJob, FollowedIsPolled, ChecksAreAgreed, Confirms, UploadsAreAgreed,
              AliveIsMounted, Mounted, OneAtATime
<1>4. QED
  BY <1>1, <1>2, <1>3

LEMMA PanelConfirms ==
  ASSUME PageInv, PanelInv, ConfirmImport
  PROVE  PanelInv' /\ PanelQuiet
<1> DEFINE check == Clicked(clicks + 1)
           told == Agreed
<1>1. /\ Mounted /\ file # None /\ importing = None /\ dialog.kind = "importConfirm"
      /\ clicks' = clicks + 1 /\ checks' = checks \cup {check} /\ agreed' = agreed \cup {told}
      /\ twice' = (twice \/ checks # {})
      /\ UNCHANGED <<scope, visited, view, dialog>>
      /\ UNCHANGED <<mount, chosen, file, ticked, uploads, importing, imports, follow, crossed, grids>>
  BY DEF ConfirmImport, Click, IsOpen
<1>2. /\ check.file = file /\ check.scope = scope /\ check.mount = mount
      /\ check.no = clicks + 1 /\ check.asked = clicks + 1
      /\ check = [no |-> clicks + 1, file |-> file, scope |-> scope, mount |-> mount, asked |-> clicks + 1]
      /\ told = [no |-> clicks + 1, file |-> file, scope |-> scope]
  BY DEF Clicked, Agreed
<1> HIDE DEF check, told
<1>3. PanelTypeOK' /\ PanelShape'
  <2>1. clicks \in Nat /\ chosen \in Nat /\ mount \in Nat /\ clicks' = clicks + 1 /\ clicks' \in Nat /\ clicks' \in 1..clicks'
    BY <1>1 DEF PanelInv, PanelTypeOK, PanelShape
  <2>2. file \in 1..chosen /\ scope \in Scope /\ mount \in 0..mount
    BY <1>1 DEF PanelInv, PanelTypeOK, PageInv, ScreenTypeOK
  <2>3. checks' \cup uploads' \subseteq Continuation(1..clicks', 1..chosen', 0..mount')
    <3>1. Continuation(1..clicks, 1..chosen, 0..mount) \subseteq Continuation(1..clicks', 1..chosen', 0..mount')
      BY <1>1, <2>1, Widened
    <3>3. check \in Continuation(1..clicks', 1..chosen', 0..mount')
      BY <1>1, <1>2, <2>1, <2>2 DEF Continuation
    <3>4. QED
      BY <1>1, <3>1, <3>3 DEF PanelInv, PanelTypeOK, Continuation
  <2>4. agreed' \subseteq [no : 1..clicks', file : 1..chosen', scope : Scope]
    <3>1. told \in [no : 1..clicks', file : 1..chosen', scope : Scope]
      BY <1>1, <1>2, <2>1, <2>2
    <3>2. [no : 1..clicks, file : 1..chosen, scope : Scope] \subseteq [no : 1..clicks', file : 1..chosen', scope : Scope]
      BY <1>1, <2>1, Widened
    <3>3. QED
      BY <1>1, <3>1, <3>2 DEF PanelInv, PanelTypeOK
  <2>5. QED
    BY <1>1, <2>1, <2>3, <2>4 DEF PanelInv, PanelTypeOK, PanelShape, Continuation
<1>4. ChecksAreAgreed' /\ UploadsAreAgreed'
  BY <1>1, <1>2 DEF PanelInv, ChecksAreAgreed, Confirms, UploadsAreAgreed
<1>5. Uncrossed' /\ AliveIsMounted'
  BY <1>1, <1>2 DEF PanelInv, Uncrossed, AliveIsMounted, Alive, Mounted
<1>6. OneAtATime'
  <2>1. twice \/ \A u \in uploads : u.mount # mount
    BY <1>1, NothingLoads
  <2>2. QED
    BY <1>1, <1>2, <2>1 DEF PanelInv, OneAtATime
<1>7. QED
  BY <1>1, <1>3, <1>4, <1>5, <1>6 DEF PanelInv, PanelQuiet, ResultIsOfJob, FollowedIsPolled

\* The check is answered: either the second question is asked, or its file is sent.
LEMMA PanelChecks ==
  ASSUME PageInv, PanelInv, NEW c \in checks, CheckFoundOne(c) \/ CheckFoundNone(c)
  PROVE  PanelInv' /\ PanelQuiet
<1>1. CASE CheckFoundOne(c)
  <2> USE <1>1 DEF CheckFoundOne, DialogOpened
  <2>1. PanelTypeOK' /\ PanelShape'
    BY DEF PanelInv, PanelTypeOK, PanelShape
  <2>2. Uncrossed' /\ AliveIsMounted'
    BY DEF PanelInv, Uncrossed, ChecksAreAgreed, Confirms, AliveIsMounted, Alive, Mounted
  <2>3. ChecksAreAgreed' /\ UploadsAreAgreed' /\ OneAtATime'
    BY DEF PanelInv, ChecksAreAgreed, Confirms, UploadsAreAgreed, OneAtATime
  <2>4. QED
    BY <2>1, <2>2, <2>3 DEF PanelInv, PanelQuiet, ImportDialogs, ResultIsOfJob, FollowedIsPolled
<1>2. CASE CheckFoundNone(c)
  <2> USE <1>2 DEF CheckFoundNone, Upload, screenVars
  <2>1. PanelTypeOK' /\ PanelShape'
    BY DEF PanelInv, PanelTypeOK, PanelShape
  <2>2. Uncrossed' /\ AliveIsMounted'
    BY DEF PanelInv, Uncrossed, Confirms, AliveIsMounted, Alive, Mounted
  <2>3. UploadsAreAgreed' /\ ChecksAreAgreed'
    BY DEF PanelInv, ChecksAreAgreed, Confirms, UploadsAreAgreed
  <2>4. OneAtATime'
    BY DEF PanelInv, OneAtATime, AliveIsMounted, Alive, Mounted
  <2>5. QED
    BY <2>1, <2>2, <2>3, <2>4 DEF PanelInv, PanelQuiet, ResultIsOfJob, FollowedIsPolled
<1>3. QED
  BY <1>1, <1>2

LEMMA PanelContinues ==
  ASSUME PageInv, PanelInv, Continue
  PROVE  PanelInv' /\ PanelQuiet
<1> DEFINE upload == Clicked(dialog.about)
<1>1. /\ Mounted /\ dialog.kind = "importInProgress" /\ file # None /\ importing = None
      /\ uploads' = uploads \cup {upload} /\ importing' = IF Alive(upload) THEN upload ELSE importing
      /\ clicks' = clicks + 1
      /\ UNCHANGED <<scope, visited, view, dialog>>
      /\ UNCHANGED <<mount, chosen, file, ticked, checks, imports, follow, agreed, crossed, twice, grids>>
  BY DEF Continue, Click, IsOpen, Upload
<1>2. /\ upload.file = file /\ upload.scope = scope /\ upload.mount = mount
      /\ upload = [no |-> clicks + 1, file |-> file, scope |-> scope, mount |-> mount, asked |-> dialog.about]
      /\ upload.no = clicks + 1 /\ upload.asked = dialog.about
  BY DEF Clicked
<1> HIDE DEF upload
<1>3. importing' = upload
  BY <1>1, <1>2 DEF Alive, Mounted
<1>4. PanelTypeOK' /\ PanelShape'
  <2>1. clicks \in Nat /\ chosen \in Nat /\ mount \in Nat /\ clicks' = clicks + 1 /\ clicks' \in Nat /\ clicks' \in 1..clicks'
    BY <1>1 DEF PanelInv, PanelTypeOK, PanelShape
  <2>2. file \in 1..chosen /\ scope \in Scope /\ mount \in 0..mount
    BY <1>1 DEF PanelInv, PanelTypeOK, PageInv, ScreenTypeOK
  <2>3. checks' \cup uploads' \subseteq Continuation(1..clicks', 1..chosen', 0..mount')
    <3>1. Continuation(1..clicks, 1..chosen, 0..mount) \subseteq Continuation(1..clicks', 1..chosen', 0..mount')
      BY <1>1, <2>1, Widened
    <3>2. dialog.about \in 1..clicks'
      <4>1. PICK a \in agreed : a.no = dialog.about
        BY <1>1 DEF PanelInv, ChecksAreAgreed
      <4>2. a \in [no : 1..clicks', file : 1..chosen, scope : Scope]
        BY <1>1, <2>1, Widened DEF PanelInv, PanelTypeOK
      <4>3. QED
        BY <4>1, <4>2
    <3>3. upload \in Continuation(1..clicks', 1..chosen', 0..mount')
      BY <1>1, <1>2, <2>1, <2>2, <3>2 DEF Continuation
    <3>4. QED
      BY <1>1, <3>1, <3>3 DEF PanelInv, PanelTypeOK, Continuation
  <2>4. agreed' \subseteq [no : 1..clicks', file : 1..chosen', scope : Scope]
    BY <1>1, <2>1, Widened DEF PanelInv, PanelTypeOK
  <2>5. QED
    BY <1>1, <1>3, <2>1, <2>3, <2>4 DEF PanelInv, PanelTypeOK, PanelShape, Continuation
<1>5. Uncrossed' /\ AliveIsMounted'
  BY <1>1, <1>2 DEF PanelInv, Uncrossed, Confirms, AliveIsMounted, Alive, Mounted
<1>6. UploadsAreAgreed' /\ ChecksAreAgreed'
  BY <1>1, <1>2 DEF PanelInv, Uncrossed, UploadsAreAgreed, ChecksAreAgreed, Confirms
<1>7. OneAtATime'
  <2>1. twice \/ (checks = {} /\ \A u \in uploads : u.mount # mount)
    BY <1>1, NothingLoads DEF PanelInv, OneAtATime
  <2>2. QED
    BY <1>1, <1>2, <1>3, <2>1 DEF PanelInv, OneAtATime
<1>8. QED
  BY <1>1, <1>4, <1>5, <1>6, <1>7 DEF PanelInv, PanelQuiet, ResultIsOfJob, FollowedIsPolled

\* The upload is answered; where nothing was crossed, by the instance that sent it, which
\* follows the job its dialog is opened for.
LEMMA PanelUploads ==
  ASSUME PageInv, PanelInv, NEW u \in uploads, UploadAccepted(u) \/ UploadRefused(u)
  PROVE  PanelInv' /\ PanelQuiet
<1>1. /\ uploads' = uploads \ {u}
      /\ importing' = IF importing = u THEN None ELSE importing
      /\ file' = IF Alive(u) THEN None ELSE file
      /\ crossed' = (crossed \/ file # u.file)
      /\ UNCHANGED <<scope, visited, view, left, mount, chosen, ticked, clicks, checks, agreed, twice, grids>>
  BY DEF UploadAccepted, UploadRefused, UploadAnswered
<1>2. UploadsAreAgreed' /\ AliveIsMounted' /\ \A c \in checks' : Confirms(c.asked, c.file, c.scope)'
  BY <1>1 DEF PanelInv, UploadsAreAgreed, ChecksAreAgreed, Confirms, AliveIsMounted, Mounted
<1>3. CASE UploadAccepted(u)
  <2>1. u.scope \in Scope /\ imports \in Seq([scope : Scope, state : JobStates]) /\ Len(imports) \in Nat
    BY LenProperties DEF PanelInv, PanelTypeOK, PanelShape
  <2>2. imports' \in Seq([scope : Scope, state : JobStates]) /\ Len(imports') = Len(imports) + 1
    BY <2>1, <1>3, AppendProperties DEF UploadAccepted, JobStates
  <2>3. /\ dialog'.kind = "importResult" /\ dialog'.about = Len(imports) + 1
        /\ follow' = IF Alive(u) THEN Follow(follow, Len(imports) + 1) ELSE follow
    BY <1>3 DEF UploadAccepted, DialogOpened
  <2>4. follow \in Poll
    BY DEF PanelInv, PanelShape
  <2>5. /\ follow' \in Poll /\ follow'.of = follow.of /\ follow'.state = follow.state
        /\ Alive(u) => follow'.job = Len(imports) + 1 /\ (follow'.job # None => follow'.on)
        /\ ~Alive(u) => follow' = follow
    <3>1. CASE Alive(u)
      <4>1. Len(imports) + 1 \in Nat \cup {None} /\ follow' = Follow(follow, Len(imports) + 1)
        BY <2>1, <2>3, <3>1
      <4>2. QED
        BY <2>4, <3>1, <4>1, FollowIsPoll
    <3>2. CASE ~Alive(u)
      BY <3>2, <2>3, <2>4
    <3>3. QED
      BY <3>1, <3>2
  <2>6. PanelTypeOK' /\ PanelShape'
    BY <1>1, <2>1, <2>2, <2>5 DEF PanelInv, PanelTypeOK, PanelShape
  <2>7. ResultIsOfJob' /\ FollowedIsPolled'
    BY <2>5 DEF PanelInv, ResultIsOfJob, FollowedIsPolled
  <2>8. Uncrossed' /\ ChecksAreAgreed' /\ OneAtATime'
    BY <1>1, <1>2, <2>3, <2>5 DEF PanelInv, Uncrossed, ChecksAreAgreed, OneAtATime, Alive, Mounted
  <2>9. QED
    BY <1>1, <1>2, <2>3, <2>6, <2>7, <2>8 DEF PanelInv, PanelQuiet, ImportDialogs
<1>4. CASE UploadRefused(u)
  <2> USE <1>4 DEF UploadRefused, DialogClosed, NoDialog
  <2>1. PanelTypeOK' /\ PanelShape'
    BY <1>1 DEF PanelInv, PanelTypeOK, PanelShape
  <2>2. Uncrossed' /\ ChecksAreAgreed' /\ OneAtATime'
    BY <1>1, <1>2 DEF PanelInv, Uncrossed, ChecksAreAgreed, OneAtATime, Alive, Mounted
  <2>3. QED
    BY <1>1, <1>2, <2>1, <2>2 DEF PanelInv, PanelQuiet, ResultIsOfJob, FollowedIsPolled
<1>5. QED
  BY <1>3, <1>4

LEMMA PanelCloses ==
  ASSUME PageInv, PanelInv, CloseResult
  PROVE  PanelInv' /\ PanelQuiet
<1> USE DEF CloseResult, DialogClosed, NoDialog
<1>1. follow' \in Poll /\ follow'.job = None /\ follow'.of = follow.of /\ follow'.state = follow.state
  BY FollowIsPoll DEF PanelInv, PanelShape
<1>2. PanelTypeOK' /\ PanelShape'
  BY <1>1 DEF PanelInv, PanelTypeOK, PanelShape
<1>3. QED
  BY <1>1, <1>2 DEF PanelInv, PanelQuiet, ResultIsOfJob, FollowedIsPolled, Uncrossed, Alive, Mounted,
              ChecksAreAgreed, Confirms, UploadsAreAgreed, AliveIsMounted, OneAtATime

LEMMA PanelRuns ==
  ASSUME PageInv, PanelInv, NEW j \in 1..Len(imports), RunImport(j)
  PROVE  PanelInv' /\ PanelQuiet
<1> USE DEF RunImport, screenVars
<1>1. imports' \in Seq([scope : Scope, state : JobStates]) /\ Len(imports') = Len(imports)
  <2>1. PICK state \in {"retry"} \cup Ended : imports' = [imports EXCEPT ![j].state = state]
    OBVIOUS
  <2>2. imports[j] \in [scope : Scope, state : JobStates]
    BY ElementOfSeq DEF PanelInv, PanelShape
  <2>3. [imports[j] EXCEPT !.state = state] \in [scope : Scope, state : JobStates]
    BY <2>2 DEF JobStates, Ended
  <2>4. imports' = [imports EXCEPT ![j] = [imports[j] EXCEPT !.state = state]]
    BY <2>1
  <2>5. QED
    BY <2>3, <2>4, ExceptSeq DEF PanelInv, PanelShape
<1>2. PanelTypeOK' /\ PanelShape'
  BY <1>1 DEF PanelInv, PanelTypeOK, PanelShape
<1>3. QED
  BY <1>2 DEF PanelInv, PanelQuiet, ResultIsOfJob, FollowedIsPolled, Uncrossed, Alive, Mounted,
              ChecksAreAgreed, Confirms, UploadsAreAgreed, AliveIsMounted, OneAtATime

LEMMA PanelPolls ==
  ASSUME PageInv, PanelInv, AnswerFollow
  PROVE  PanelInv' /\ PanelQuiet
<1> USE DEF AnswerFollow, screenVars
<1>1. follow.job # None /\ follow.job \in 1..Len(imports)
  BY DEF PanelInv, PanelTypeOK
<1>2. imports[follow.job].state \in JobStates
  <2>1. imports[follow.job] \in [scope : Scope, state : JobStates]
    BY <1>1, ElementOfSeq DEF PanelInv, PanelShape
  <2>2. QED
    BY <2>1
<1>3. follow' \in Poll /\ follow'.job = follow.job /\ follow'.of = follow.job
  BY <1>2, PolledIsPoll DEF PanelInv, PanelShape
<1>4. PanelTypeOK' /\ PanelShape'
  BY <1>1, <1>3 DEF PanelInv, PanelTypeOK, PanelShape
<1>5. QED
  BY <1>1, <1>3, <1>4 DEF PanelInv, PanelQuiet, ResultIsOfJob, FollowedIsPolled, Uncrossed, Alive, Mounted,
                          ChecksAreAgreed, Confirms, UploadsAreAgreed, AliveIsMounted, OneAtATime

LEMMA PanelSteps ==
  ASSUME PageInv, PanelInv, PanelNext
  PROVE  PanelInv' /\ PanelQuiet
BY PanelAsks, PanelConfirms, PanelChecks, PanelContinues, PanelUploads, PanelCloses, PanelRuns, PanelPolls DEF PanelNext

\* Steps of the page and of the manual-edit dialog open none of the panel's dialogs.
LEMMA PanelKept ==
  ASSUME PanelInv, UNCHANGED <<panelVars, scope, view>>,
         dialog' = dialog \/ dialog'.kind \notin ImportDialogs
  PROVE  PanelInv'
<1>1. PanelTypeOK' /\ PanelShape'
  BY DEF panelVars, PanelInv, PanelTypeOK, PanelShape
<1>2. Uncrossed'
  BY DEF panelVars, PanelInv, Uncrossed, Confirms, Alive, Mounted, ImportDialogs
<1>3. QED
  BY <1>1, <1>2 DEF panelVars, ImportDialogs, PanelInv, ResultIsOfJob, FollowedIsPolled, ChecksAreAgreed, Confirms, UploadsAreAgreed,
              AliveIsMounted, Mounted, OneAtATime

\* Another scope: a continuation of the old one, or a dialog about it, is marked as crossed.
LEMMA PanelMoves ==
  ASSUME PageInv, PanelInv, PanelKeeps, UNCHANGED <<dialog, view>>, scope' \in Scope
  PROVE  PanelInv'
<1> USE DEF PanelKeeps
<1>1. PanelTypeOK' /\ PanelShape'
  <2>1. grids' \subseteq 1..Len(imports)
    <3>1. follow.state = "completed" => follow.of \in 1..Len(imports)
      BY DEF PanelInv, PanelTypeOK, ResultIsOfJob
    <3>2. QED
      BY <3>1 DEF PanelInv, PanelTypeOK
  <2>2. QED
    BY <2>1 DEF PanelInv, PanelTypeOK, PanelShape
<1>2. Uncrossed'
  BY DEF PanelInv, Uncrossed, Alive, Mounted, ImportDialogs
<1>3. QED
  BY <1>1, <1>2 DEF PanelInv, ResultIsOfJob, FollowedIsPolled, ChecksAreAgreed, Confirms, UploadsAreAgreed,
              AliveIsMounted, Mounted, OneAtATime

\* Another section: the panel starts anew, or is gone.
LEMMA PanelLeaves ==
  ASSUME PageInv, PanelInv, PanelRemounts, UNCHANGED <<dialog, scope>>
  PROVE  PanelInv'
<1> USE DEF PanelRemounts, NoPoll
<1>1. follow' \in Poll /\ follow'.job = None /\ follow'.of = None /\ follow'.state = "created"
  BY DEF Poll, PollStates
<1>2. PanelTypeOK' /\ PanelShape'
  <2>1. clicks \in Nat /\ chosen \in Nat /\ mount \in Nat /\ mount' \in Nat /\ mount <= mount'
    BY DEF PanelInv, PanelTypeOK, PanelShape
  <2>2. checks \cup uploads \subseteq Continuation(1..clicks, 1..chosen, 0..mount)
    BY DEF PanelInv, PanelTypeOK, Continuation
  <2>3. Continuation(1..clicks, 1..chosen, 0..mount) \subseteq Continuation(1..clicks, 1..chosen, 0..mount')
    BY <2>1, Widened
  <2>4. checks' \cup uploads' \subseteq Continuation(1..clicks', 1..chosen', 0..mount')
    BY <2>2, <2>3
  <2>5. QED
    BY <1>1, <2>1, <2>4 DEF PanelInv, PanelTypeOK, PanelShape, Continuation
<1>3. \A c \in checks \cup uploads : c.mount # mount'
  <2>1. \A c \in checks \cup uploads : c.mount \in 0..mount
    BY DEF PanelInv, PanelTypeOK
  <2>2. QED
    BY <2>1 DEF PanelInv, PanelTypeOK
<1>4. Uncrossed' /\ AliveIsMounted' /\ OneAtATime'
  BY <1>1, <1>3 DEF PanelInv, Uncrossed, AliveIsMounted, OneAtATime
<1>5. QED
  BY <1>1, <1>2, <1>4 DEF PanelInv, ResultIsOfJob, FollowedIsPolled, ChecksAreAgreed, Confirms, UploadsAreAgreed

-----------------------------------------------------------------------------
(* The page as a whole *)

LEMMA InitIInv == Init => IInv
<1> SUFFICES ASSUME Init PROVE IInv
  OBVIOUS
<1> USE DEF Init, ScreenInit, PageInit, EditInit, PanelInit, NoDialog, NoPoll
<1>1. scope \in Scope /\ scope.month \in Month
  BY StartAssumption DEF Scope
<1>2. NoPoll \in Poll
  BY DEF Poll, PollStates
<1>3. PageInv
  <2>1. roster \in [Scope -> Roster]
    <3> HIDE DEF PageInit
    <3>1. NoRoster \in Roster
      BY DEF Roster, NoRoster
    <3>2. PICK first \in [gen : {1}, status : {"DRAFT", "PUBLISHED"}, open : {FALSE}] :
                 roster = [s \in Scope |-> IF s \in Generated THEN first ELSE NoRoster]
      BY DEF PageInit
    <3>3. first \in Roster
      <4>1. {1} \subseteq Nat /\ {FALSE} \subseteq BOOLEAN
        OBVIOUS
      <4>2. first.gen \in Nat /\ first.status \in {"DRAFT", "PUBLISHED"} /\ first.open \in BOOLEAN
        BY <4>1
      <4>3. first = [gen |-> first.gen, status |-> first.status, open |-> first.open]
        OBVIOUS
      <4>4. QED
        BY <4>2, <4>3 DEF Roster
    <3>4. \A s \in Scope : (IF s \in Generated THEN first ELSE NoRoster) \in Roster
      BY <3>1, <3>3
    <3>5. QED
      BY <3>2, <3>4
  <2>2. jobs \in Seq(Job)
    OBVIOUS
  <2>3. ScreenTypeOK /\ PageTypeOK /\ PageShape
    BY <1>1, <1>2, <2>1, <2>2 DEF ScreenTypeOK, PageTypeOK, PageShape
  <2>4. BannerIsOfScope /\ AskedHere /\ ForcedWasAsked /\ ShownIsOfScope
    BY <1>1 DEF BannerIsOfScope, AskedHere, ForcedWasAsked, Generating, ShownIsOfScope, Loaded
  <2>5. QED
    BY <2>3, <2>4 DEF PageInv
<1>4. EditInv
  BY DEF EditInv, EditTypeOK, EditShape, Idle, Flow, OpenOverRoster, Open, PendingIsOnItsWay, WarningsAreOfPending,
         OneEditPerOpening
<1>5. PanelInv
  <2>1. imports \in Seq([scope : Scope, state : JobStates])
    OBVIOUS
  <2>2. PanelTypeOK /\ PanelShape
    BY <1>2, <2>1 DEF PanelTypeOK, PanelShape
  <2>3. QED
    BY <2>2 DEF PanelInv, ResultIsOfJob, FollowedIsPolled, Uncrossed, ChecksAreAgreed, Confirms, UploadsAreAgreed, AliveIsMounted, OneAtATime
<1>6. QED
  BY <1>3, <1>4, <1>5 DEF IInv

LEMMA NextIInv == IInv /\ [Next]_vars => IInv'
<1> SUFFICES ASSUME IInv, [Next]_vars PROVE IInv'
  OBVIOUS
<1>0. PageInv /\ EditInv /\ PanelInv
  BY DEF IInv
<1>1. ASSUME PageNext, UNCHANGED <<editVars, panelVars>>
      PROVE  IInv'
  <2>1. PageInv' /\ PageQuiet
    BY <1>0, <1>1, PageSteps
  <2>2. EditInv'
    <3>1. Open' => Open
      BY <2>1 DEF PageQuiet, Open
    <3>2. QED
      BY <1>0, <1>1, <2>1, <3>1, EditKept DEF PageQuiet
  <2>3. PanelInv'
    BY <1>0, <1>1, <2>1, PanelKept DEF PageQuiet, ImportDialogs
  <2>4. QED
    BY <2>1, <2>2, <2>3 DEF IInv
<1>2. ASSUME MovesToScope, PanelKeeps, UNCHANGED editVars
      PROVE  IInv'
  <2>1. /\ PageInv' /\ dialog' = dialog /\ view' = view
        /\ shown.of \in Scope => shown'.of \in Scope
    BY <1>0, <1>2, PageMoves
  <2>2. EditInv'
    BY <1>0, <1>2, <2>1, EditKept DEF Open
  <2>3. scope' \in Scope
    BY <2>1 DEF PageInv, ScreenTypeOK
  <2>4. PanelInv'
    BY <1>0, <1>2, <2>1, <2>3, PanelMoves
  <2>5. QED
    BY <2>1, <2>2, <2>4 DEF IInv
<1>3. ASSUME MovesToSection, PanelRemounts, UNCHANGED editVars
      PROVE  IInv'
  <2>1. view' \in {"roster", "availability"} /\ UNCHANGED <<scope, visited, dialog, pageVars>>
    BY <1>3 DEF MovesToSection, ShowSection
  <2>2. PageInv'
    BY <1>0, <2>1, PageKept DEF pageVars, PageInv, PageTypeOK
  <2>3. EditInv'
    BY <1>0, <1>3, <2>1, EditKept DEF Open, pageVars
  <2>4. PanelInv'
    BY <1>0, <1>3, <2>1, PanelLeaves
  <2>5. QED
    BY <2>2, <2>3, <2>4 DEF IInv
<1>4. ASSUME EditNext, UNCHANGED panelVars
      PROVE  IInv'
  <2>1. EditInv' /\ EditQuiet
    BY <1>0, <1>4, EditSteps
  <2>2. view' \in {"roster", "availability"}
    BY <1>0, <2>1 DEF EditQuiet, PageInv, ScreenTypeOK
  <2>3. PageInv'
    BY <1>0, <2>1, <2>2, PageKept DEF EditQuiet
  <2>4. PanelInv'
    BY <1>0, <1>4, <2>1, PanelKept DEF EditQuiet, ImportDialogs
  <2>5. QED
    BY <2>1, <2>3, <2>4 DEF IInv
<1>5. ASSUME PanelNext, UNCHANGED <<pageVars, editVars>>
      PROVE  IInv'
  <2>1. PanelInv' /\ PanelQuiet
    BY <1>0, <1>5, PanelSteps
  <2>2. view' \in {"roster", "availability"} /\ roster' \in [Scope -> Roster]
    BY <1>0, <1>5, <2>1 DEF PanelQuiet, PageInv, ScreenTypeOK, PageTypeOK, pageVars
  <2>3. PageInv'
    BY <1>0, <1>5, <2>1, <2>2, PageKept DEF PanelQuiet, pageVars
  <2>4. EditInv'
    <3>1. Open' => Open
      BY <2>1 DEF PanelQuiet, Open, ImportDialogs
    <3>2. QED
      BY <1>0, <1>5, <3>1, EditKept DEF pageVars
  <2>5. QED
    BY <2>1, <2>3, <2>4 DEF IInv
<1>6. CASE UNCHANGED vars
  <2>1. UNCHANGED <<scope, visited, view, dialog>> /\ UNCHANGED <<pageVars, editVars, panelVars>>
    BY <1>6 DEF vars, screenVars
  <2>2. PageInv'
    BY <1>0, <2>1, PageKept DEF pageVars, PageInv, PageTypeOK, ScreenTypeOK
  <2>3. EditInv'
    BY <1>0, <2>1, EditKept DEF Open, pageVars
  <2>4. PanelInv'
    BY <1>0, <2>1, PanelKept
  <2>5. QED
    BY <2>2, <2>3, <2>4 DEF IInv
<1>7. QED
  BY <1>1, <1>2, <1>3, <1>4, <1>5, <1>6 DEF Next

\* The invariant from which the theorems below follow.
THEOREM InductiveInvariant == Spec => []IInv
BY InitIInv, NextIInv, PTL DEF Spec

\* Every variable of the page, the dialog and the panel keeps its type; in particular what
\* is polled is a job there is, and what is uploaded a file that was chosen.
THEOREM TypeCorrect == Spec => []TypeOK
<1>1. IInv => TypeOK
  BY DEF IInv, PageInv, EditInv, PanelInv, TypeOK
<1>2. QED
  BY <1>1, InductiveInvariant, PTL

\* The roster, the banner and the report that show are of the company, month and import in
\* the title, whatever is answered after the planner moved on; but a job whose own 202 came
\* that late has its banner, and a report of an earlier import shows while a poll replaces
\* it.  Code: RosterPage's effects on [companyId, month], the queries' data and
\* WorkforceCsvPanel's poll.
THEOREM ScreenFollowsTitle == Spec => []ScreenIsOfScope
<1>1. IInv => ScreenIsOfScope
  <2> SUFFICES ASSUME IInv PROVE ScreenIsOfScope
    OBVIOUS
  <2>1. BannerIsOfScope /\ ShownIsOfScope
    BY DEF IInv, PageInv
  <2>2. StaleReportIsBrief
    BY DEF IInv, PanelInv, StaleReportIsBrief, Uncrossed, FollowedIsPolled, IsOpen
  <2>3. QED
    BY <2>1, <2>2 DEF ScreenIsOfScope
<1>2. QED
  BY <1>1, InductiveInvariant, PTL

\* A forced generation is of the company and month its dialog asked about, or of another
\* month the browser's Back put under it, or was asked by a 409 that came too late; a
\* confirmed edit is the one its dialog warned about, and the only one of its dialog, in
\* every opening that no answer to an earlier one reached; an upload goes back to a ticked
\* confirmation, and is the only one of its panel until "Import" is clicked twice during
\* one check.  Code: the dialog slot that RosterPage, SlotEditDialog and WorkforceCsvPanel
\* share.
THEOREM ActsFollowDialogs == Spec => []ActsWereAsked
<1>1. IInv => ActsWereAsked
  BY DEF IInv, PageInv, EditInv, PanelInv, OneAtATime, OneUploadAtATime, ActsWereAsked
<1>2. QED
  BY <1>1, InductiveInvariant, PTL
=============================================================================
