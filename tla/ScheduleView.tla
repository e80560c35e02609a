----------------------------- MODULE ScheduleView -----------------------------
(***************************************************************************)
(* The public page a worker opens by link: usePublicSchedule.ts and        *)
(* PublicSchedulePage.tsx.  A change of month abandons the request under   *)
(* way, but only until its headers are in: what follows `await res.json()' *)
(* is not abandoned any more.                                              *)
(***************************************************************************)
EXTENDS BackOffice

CONSTANT ViewMonth   \* months the page may ask for

ASSUME ViewAssumption == ViewMonth # {}

VARIABLES
  good,        \* the token in the address is a worker's
  published,   \* months published for that worker's company
  shown,       \* the month the page asks for
  view,        \* the hook's state; a loaded one has its month
  known,       \* lastKnownName is set
  asked,       \* requests: number, month, and how far the answer is
  asks,        \* requests made so far; the last one is the effect's that is alive
  overtaken    \* history: the month was changed between headers and body

viewVars == <<good, published, shown, view, known, asked, asks, overtaken>>

Loading == [status |-> "loading", month |-> None]
NotPublished == [status |-> "notPublished", month |-> None]
InvalidToken == [status |-> "invalidToken", month |-> None]
Loaded(m) == [status |-> "loaded", month |-> m]

ViewTypeOK ==
  /\ good \in BOOLEAN /\ known \in BOOLEAN /\ overtaken \in BOOLEAN
  /\ published \subseteq ViewMonth /\ shown \in ViewMonth
  /\ view \in {Loading, NotPublished, InvalidToken} \cup {Loaded(m) : m \in ViewMonth}
  /\ \A r \in asked : r.no \in 1..asks /\ r.month \in ViewMonth /\ r.at \in {"sent", "body"}

ViewInit ==
  /\ good \in left.good
  /\ published \in left.published
  /\ shown = CHOOSE m \in ViewMonth : TRUE
  /\ view = Loading
  /\ known = FALSE
  /\ asks = IF page = "schedule" THEN 1 ELSE 0
  /\ asked = IF page = "schedule" THEN {[no |-> 1, month |-> shown, at |-> "sent"]} ELSE {}
  /\ overtaken = FALSE

Abandoned(r) == r.no # asks

\* The field is not drawn on a link that is not valid.
MutSetMonth(m) ==
  /\ page = "schedule" /\ view # InvalidToken /\ m # shown
  /\ Uses("month")
  /\ shown' = m
  /\ view' = Loading
  /\ asked' = asked \cup {[no |-> asks + 1, month |-> m, at |-> "sent"]}
  /\ overtaken' = (overtaken \/ \E r \in asked : r.at = "body")
  /\ UNCHANGED <<active, stored, page, dialog, good, published, known, asks>>
SetMonth(m) ==
  /\ page = "schedule" /\ view # InvalidToken /\ m # shown
  /\ Uses("month")
  /\ shown' = m
  /\ view' = Loading
  /\ asks' = asks + 1
  /\ asked' = asked \cup {[no |-> asks', month |-> m, at |-> "sent"]}
  /\ overtaken' = (overtaken \/ \E r \in asked : r.at = "body")
  /\ UNCHANGED <<active, stored, page, dialog, good, published, known>>

\* PublicScheduleService answers a token that is unknown, and a month that is not
\* published, alike; what is meant is inferred from earlier answers.
Refused(r) ==
  /\ r \in asked /\ r.at = "sent"
  /\ ~good \/ r.month \notin published
  /\ asked' = asked \ {r}
  /\ view' = IF Abandoned(r) THEN view ELSE IF known THEN NotPublished ELSE InvalidToken
  /\ UNCHANGED <<officeVars, good, published, shown, known, asks, overtaken>>

MutHeaders(r) ==
  /\ r \in asked /\ r.at = "sent"
  /\ good /\ r.month \in published
  /\ asked' = (asked \ {r}) \cup {[r EXCEPT !.at = "body"]}
  /\ UNCHANGED <<officeVars, good, published, shown, view, known, asks, overtaken>>
Headers(r) ==
  /\ r \in asked /\ r.at = "sent"
  /\ good /\ r.month \in published
  /\ asked' = (asked \ {r}) \cup (IF Abandoned(r) THEN {} ELSE {[r EXCEPT !.at = "body"]})
  /\ UNCHANGED <<officeVars, good, published, shown, view, known, asks, overtaken>>

Body(r) ==
  /\ r \in asked /\ r.at = "body"
  /\ asked' = asked \ {r}
  /\ known' = TRUE
  /\ view' = Loaded(r.month)
  /\ UNCHANGED <<officeVars, good, published, shown, asks, overtaken>>

\* The connection breaks, or the body is not JSON.
MutBroken(r) ==
  /\ r \in asked
  /\ asked' = asked \ {r}
  /\ UNCHANGED <<officeVars, good, published, shown, view, known, asks, overtaken>>
Broken(r) ==
  /\ r \in asked
  /\ asked' = asked \ {r}
  /\ view' = IF Abandoned(r) THEN view ELSE InvalidToken
  /\ UNCHANGED <<officeVars, good, published, shown, known, asks, overtaken>>

\* The planner rotates the link, publishes a month or takes it back.
PlannerActs ==
  /\ page = "schedule"
  /\ Uses("planner")
  /\ \/ good' = FALSE /\ UNCHANGED published
     \/ \E m \in ViewMonth : /\ published' = IF m \in published THEN published \ {m} ELSE published \cup {m}
                             /\ UNCHANGED good
  /\ UNCHANGED <<active, stored, page, dialog, shown, view, known, asked, asks, overtaken>>

AnswersView == \E r \in asked : Refused(r) \/ Headers(r) \/ Body(r) \/ Broken(r)

ViewNext ==
  \/ PlannerActs
  \/ \E m \in ViewMonth : SetMonth(m)
  \/ \E r \in asked : Refused(r) \/ Headers(r) \/ Body(r) \/ Broken(r)

-----------------------------------------------------------------------------
(* Properties *)

\* The shifts shown are the chosen month's: not so when the month is changed while the
\* body of the previous month's answer is being read, which then replaces the new one.
ViewIsOfMonth == view.status = "loaded" => view.month = shown

\* Nothing but that window shows another month: an answer whose headers come after the
\* change is dropped, whatever the number and order of requests.
ViewIsOfMonthUnlessOvertaken == ViewIsOfMonth \/ overtaken

\* The page does not go on loading: the request of the month that is shown is answered.
ViewSettles == []<>(view # Loading \/ page # "schedule")
=============================================================================
