--------------------------- MODULE AvailabilityGrid ---------------------------
(***************************************************************************)
(* The availability grid of the Roster page (AvailabilityGrid.tsx with     *)
(* availabilityDraft.ts and availability.api.ts), over the server's table. *)
(* The grid does not remount when the company or the month changes; what   *)
(* its query returns for a new scope is the old scope's until the answer   *)
(* is there, and both the draft and Save go by it.                         *)
(***************************************************************************)
EXTENDS AvailabilityTable

VARIABLES
  month,       \* the page's month
  data,        \* what the query returns: rows and the scope they are of, None at first
  months,      \* the cache: a scope's rows, or None
  fetches,     \* requests: scope, and the rows once the server has read them
  stale,       \* invalidated scopes, held back until nothing is pending
  draft,       \* the grid's entries
  edits,       \* edits made so far, the values of the entries
  saving,      \* the PUT under way and its scope, or None
  message      \* saveMessage

gridVars == <<month, data, months, fetches, stale, draft, edits, saving, message>>

GridScope == Company \X GridMonth
Here == <<active, month>>

GridTypeOK ==
  /\ month \in GridMonth
  /\ data = None \/ data.of \in GridScope
  /\ DOMAIN months = GridScope
  /\ \A f \in fetches : f.of \in GridScope
  /\ stale \subseteq GridScope
  /\ \A e \in draft : e.worker \in Member /\ e.month \in GridMonth /\ e.value \in Nat
  /\ message \in {"none", "success", "error"}

Asked(s) == [of |-> s, rows |-> None]

GridInit ==
  /\ month = CHOOSE m \in GridMonth : TRUE
  /\ data = None
  /\ months = [s \in GridScope |-> None]
  /\ fetches = {}
  /\ stale = {}
  /\ draft = {} /\ edits = 10
  /\ saving = None
  /\ message = "none"

OnGrid == page = "roster" /\ active # None
Rows == IF data = None THEN {} ELSE data.rows

\* The draft effect, keyed on the query's data, the company and the month.
Reset(rows) == draft' = rows /\ message' = "none"

\* draftToPayload and the wire keep a draft's entries as they are.
Without(w) == {e \in draft : e.worker # w}

\* A cell or a whole row is marked or cleared, while a save is under way too.
EditRow(w) ==
  /\ OnGrid /\ data # None /\ employer[w] \in {active, data.of[1]}
  /\ Uses("rows")
  /\ edits' = edits + 1
  /\ \/ draft' = Without(w) \cup {Entry(w, month, edits')}
     \/ \E e \in draft : e.worker = w /\ draft' = Without(w)
  /\ UNCHANGED <<active, stored, page, dialog, monthVars, month, data, months, fetches, stale, saving, message>>

Discard ==
  /\ OnGrid /\ saving = None
  /\ Reset(Rows)
  /\ UNCHANGED <<officeVars, monthVars, month, data, months, fetches, stale, edits, saving>>

\* Save is enabled before the month is loaded: the draft is empty then.
Save(p) ==
  /\ OnGrid /\ saving = None
  /\ Uses("saves")
  /\ Receive(p, month, draft, active)
  /\ saving' = [put |-> p, of |-> Here]
  /\ message' = "none"
  /\ UNCHANGED <<active, stored, page, dialog, employer, rowsOf, meddled, month, data, months, fetches, stale, draft, edits>>

\* A change of company or month: cached rows are there at once, else they are fetched.
Rescoped(s) ==
  /\ data' = IF months[s] # None THEN [of |-> s, rows |-> months[s]] ELSE data
  /\ fetches' = IF months[s] # None \/ \E f \in fetches : f.of = s THEN fetches ELSE fetches \cup {Asked(s)}
  /\ Reset(IF data' = None THEN {} ELSE data'.rows)
  /\ UNCHANGED <<months, stale, edits, saving>>

\* The grid as it is drawn for the first time.
GridMounts(s) ==
  /\ data' = IF months[s] # None THEN [of |-> s, rows |-> months[s]] ELSE None
  /\ fetches' = IF months[s] # None \/ \E f \in fetches : f.of = s THEN fetches ELSE fetches \cup {Asked(s)}
  /\ Reset(IF data' = None THEN {} ELSE data'.rows)
  /\ saving' = None
  /\ UNCHANGED <<months, stale, edits>>

\* A reload; the month is in the address.  A save under way goes on as a stranger's.
GridForgotten ==
  /\ data' = None /\ months' = [s \in GridScope |-> None] /\ fetches' = {} /\ stale' = {}
  /\ Reset({}) /\ saving' = None
  /\ meddled' = (meddled \/ saving # None)
  /\ UNCHANGED <<employer, rowsOf, put, raced, month, edits>>

SetGridMonth(m) ==
  /\ OnGrid /\ m # month
  /\ Uses("month")
  /\ month' = m
  /\ Rescoped(<<active, m>>)
  /\ UNCHANGED <<active, stored, page, dialog, monthVars>>

\* Held-back tags: the grid's scope is fetched again, another is dropped.
Settle(cache, pending, tags) ==
  IF pending = {}
  THEN /\ stale' = {}
       /\ fetches' = IF Here \in tags THEN {Asked(Here)} ELSE {}
       /\ months' = [s \in GridScope |-> IF s \in tags \ {Here} THEN None ELSE cache[s]]
  ELSE stale' = tags /\ fetches' = pending /\ months' = cache

MutSaveAnswered ==
  /\ saving # None /\ put[saving.put].at \in {"done", "refused", "failed"}
  /\ message' = IF put[saving.put].at = "done" THEN "success" ELSE "error"
  /\ saving' = None
  /\ UNCHANGED <<officeVars, monthVars, month, data, months, fetches, stale, draft, edits>>
SaveAnswered ==
  /\ saving # None /\ put[saving.put].at \in {"done", "refused", "failed"}
  /\ message' = IF put[saving.put].at = "done" THEN "success" ELSE "error"
  /\ saving' = None
  /\ Settle(months, fetches, stale \cup {saving.of})
  /\ UNCHANGED <<officeVars, monthVars, month, data, draft, edits>>

GridRead(f) ==
  /\ f \in fetches /\ f.rows = None
  /\ fetches' = (fetches \ {f}) \cup {[f EXCEPT !.rows = MonthOf(f.of[1], f.of[2])]}
  /\ UNCHANGED <<officeVars, monthVars, month, data, months, stale, draft, edits, saving, message>>

\* Rows that are equal to the cached ones keep their identity, and the effect is not run.
MutGridArrived(f) ==
  /\ f \in fetches /\ f.rows # None
  /\ Settle([months EXCEPT ![f.of] = f.rows], fetches \ {f}, stale)
  /\ data' = IF f.of = Here THEN f ELSE data
  /\ UNCHANGED <<officeVars, monthVars, month, draft, edits, saving, message>>
GridArrived(f) ==
  /\ f \in fetches /\ f.rows # None
  /\ Settle([months EXCEPT ![f.of] = f.rows], fetches \ {f}, stale)
  /\ data' = IF f.of = Here THEN f ELSE data
  /\ IF data' # data THEN Reset(f.rows) ELSE UNCHANGED <<draft, message>>
  /\ UNCHANGED <<officeVars, monthVars, month, edits, saving>>

\* Another planner's payloads: nothing, or one worker's month.
Payloads(m) == {{}} \cup {{Entry(w, m, 1)} : w \in Member}

TableNext ==
  \/ \E p \in Call : DeleteBegins(p) \/ DeleteEnds(p) \/ Insert(p) \/ Commit(p) \/ Crash(p)
  \/ \E w \in Member : Move(w)
  \/ \E p \in Call, s \in GridScope : \E body \in Payloads(s[2]) : PutElsewhere(p, s[2], body, s[1])

GridNext ==
  \/ TableNext /\ UNCHANGED gridVars
  \/ Discard \/ SaveAnswered
  \/ \E w \in Member : EditRow(w)
  \/ \E p \in Call : Save(p)
  \/ \E m \in GridMonth : SetGridMonth(m)
  \/ \E f \in fetches : GridRead(f) \/ GridArrived(f)

\* The server goes on with a transaction, and answers.
GridAnswers ==
  \/ SaveAnswered
  \/ \E f \in fetches : GridRead(f) \/ GridArrived(f)
  \/ \E p \in Call : Statement(p) /\ UNCHANGED gridVars

-----------------------------------------------------------------------------
(* Properties *)

\* Once the rows of the company and month are there, the draft is theirs and no entry
\* of the scope before is left in it to be saved with them.
DraftIsOfScope ==
  OnGrid /\ data # None => (data.of = Here => \A e \in draft : e.month = month)

\* A save replaces only rows that the grid has shown: not so while the month's rows are
\* being loaded, when Save sends what the grid has of the month before, or nothing.
NothingUnseen == saving # None => data # None /\ data.of = saving.of
=============================================================================
