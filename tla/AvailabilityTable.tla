--------------------------- MODULE AvailabilityTable ---------------------------
(***************************************************************************)
(* PUT /api/availability/:month as its statements: the checks, then one    *)
(* transaction that deletes the month's rows of the company's workers and  *)
(* inserts the payload (availabilityService.ts, replaceMonth).  The        *)
(* database is PostgreSQL's READ COMMITTED, external to the repository: a  *)
(* statement sees what was committed when it began, waits for a row that   *)
(* another transaction has deleted, and a unique key that another one has  *)
(* inserted.                                                               *)
(*                                                                         *)
(* A row stands for one worker's month; its value is the number of the     *)
(* edit it comes from.                                                     *)
(***************************************************************************)
EXTENDS BackOffice

CONSTANTS
  Member,      \* workers
  GridMonth,   \* months
  Call          \* calls: bound

ASSUME MonthAssumption == GridMonth # {}

VARIABLES
  employer,    \* companyId of a worker, None once it is deleted
  rowsOf,      \* committed rows: worker, month, value and the PUT they are from
  put,         \* the calls
  raced,       \* history: calls that overlapped another, or whose workers were moved
  meddled      \* history: somebody else has called, or moved a worker, or the page before a reload

monthVars == <<employer, rowsOf, put, raced, meddled>>

Idle == [at |-> "idle", company |-> None, month |-> None, body |-> {}, victims |-> {}]
Entry(w, m, v) == [worker |-> w, month |-> m, value |-> v]
Key(r) == <<r.worker, r.month>>
RowOf(e, p) == [worker |-> e.worker, month |-> e.month, value |-> e.value, by |-> p]
EntryOf(r) == Entry(r.worker, r.month, r.value)

Open(p) == put[p].at \in {"checked", "deleting", "deleted", "inserted"}

MonthTypeOK ==
  /\ employer \in [Member -> Company \cup {None}]
  /\ \A r \in rowsOf : r.worker \in Member /\ r.month \in GridMonth /\ r.value \in Nat
  /\ \A p \in Call : put[p].at \in {"idle", "checked", "deleting", "deleted", "inserted", "done", "refused", "failed"}
  /\ raced \subseteq Call /\ meddled \in BOOLEAN

MonthInit ==
  /\ employer \in left.employer
  /\ rowsOf \in left.table
  /\ put = [p \in Call |-> Idle]
  /\ raced = {} /\ meddled = FALSE

\* What getMonth answers.
MonthOf(c, m) == {EntryOf(r) : r \in {q \in rowsOf : q.month = m /\ employer[q.worker] = c}}

\* monthAvailabilitySchema takes no date of another month; every worker is the company's.
Accepted(m, body, c) == \A e \in body : e.month = m /\ employer[e.worker] = c

Overlaps(p) == {q \in Call \ {p} : Open(q)}

\* Received and checked, before the transaction opens.
Receive(p, m, body, c) ==
  /\ put[p].at = "idle"
  /\ put' = [put EXCEPT ![p] = [Idle EXCEPT !.at = IF Accepted(m, body, c) THEN "checked" ELSE "refused",
                                            !.company = c, !.month = m, !.body = body]]
  /\ raced' = IF Accepted(m, body, c) /\ Overlaps(p) # {} THEN raced \cup {p} \cup Overlaps(p) ELSE raced

\* deleteMany's snapshot, with the company's workers as they are then.
MutDeleteBegins(p) ==
  /\ put[p].at = "checked"
  /\ put' = [put EXCEPT ![p] = [@ EXCEPT !.at = "deleting", !.victims = {r \in rowsOf : r.month = put[p].month}]]
  /\ UNCHANGED <<officeVars, employer, rowsOf, raced, meddled>>
DeleteBegins(p) ==
  /\ put[p].at = "checked"
  /\ put' = [put EXCEPT ![p] = [@ EXCEPT !.at = "deleting",
       !.victims = {r \in rowsOf : r.month = put[p].month /\ employer[r.worker] = put[p].company}]]
  /\ UNCHANGED <<officeVars, employer, rowsOf, raced, meddled>>

\* It waits for who has deleted one of them; a row that is gone by then is skipped.
DeleteEnds(p) ==
  /\ put[p].at = "deleting"
  /\ \A q \in Call \ {p} : put[q].at \in {"deleted", "inserted"} => put[q].victims \cap put[p].victims = {}
  /\ put' = [put EXCEPT ![p] = [@ EXCEPT !.at = "deleted", !.victims = put[p].victims \cap rowsOf]]
  /\ UNCHANGED <<officeVars, employer, rowsOf, raced, meddled>>

\* Keys of others' rows, committed or about to be, that an insert runs into.
Taken(p) == {Key(r) : r \in rowsOf \ put[p].victims}
Claimed(p) == UNION {{Key(e) : e \in put[q].body} : q \in {x \in Call \ {p} : put[x].at = "inserted"}}

Insert(p) ==
  /\ put[p].at = "deleted"
  /\ {Key(e) : e \in put[p].body} \cap Claimed(p) = {}
  /\ put' = [put EXCEPT ![p].at =
       IF /\ {Key(e) : e \in put[p].body} \cap Taken(p) = {}
          /\ \A e \in put[p].body : employer[e.worker] # None
       THEN "inserted" ELSE "failed"]
  /\ UNCHANGED <<officeVars, employer, rowsOf, raced, meddled>>

MutCommit(p) ==
  /\ put[p].at = "inserted"
  /\ rowsOf' = rowsOf \cup {RowOf(e, p) : e \in put[p].body}
  /\ put' = [put EXCEPT ![p].at = "done"]
  /\ UNCHANGED <<officeVars, employer, raced, meddled>>
Commit(p) ==
  /\ put[p].at = "inserted"
  /\ rowsOf' = (rowsOf \ put[p].victims) \cup {RowOf(e, p) : e \in put[p].body}
  /\ put' = [put EXCEPT ![p].at = "done"]
  /\ UNCHANGED <<officeVars, employer, raced, meddled>>

\* The database goes away: nothing of the transaction stays, and the answer is a 500.
Crash(p) ==
  /\ Open(p)
  /\ put' = [put EXCEPT ![p].at = "failed"]
  /\ UNCHANGED <<officeVars, employer, rowsOf, raced, meddled>>

\* A worker moves to another company with its rows, or is deleted and its rows with it.
Move(w) ==
  /\ page = "roster" /\ employer[w] # None
  /\ Uses("move")
  /\ \/ \E c \in Company \ {employer[w]} : employer' = [employer EXCEPT ![w] = c] /\ UNCHANGED rowsOf
     \/ /\ \A p \in Call : put[p].at = "inserted" => w \notin {e.worker : e \in put[p].body}
        /\ employer' = [employer EXCEPT ![w] = None]
        /\ rowsOf' = {r \in rowsOf : r.worker # w}
  /\ raced' = raced \cup {p \in Call : Open(p)} /\ meddled' = TRUE
  /\ UNCHANGED <<active, stored, page, dialog, put>>

\* Another planner's call.
PutElsewhere(p, m, body, c) ==
  /\ page = "roster" /\ \E w \in Member : employer[w] = c
  /\ Uses("puts")
  /\ Receive(p, m, body, c)
  /\ meddled' = TRUE
  /\ UNCHANGED <<active, stored, page, dialog, employer, rowsOf>>

Statement(p) == DeleteBegins(p) \/ DeleteEnds(p) \/ Insert(p) \/ Commit(p) \/ Crash(p)

-----------------------------------------------------------------------------
(* Properties *)

\* A call that is answered with 200 has left exactly its payload: not so if another call
\* for the month runs at the same time, whose rows it does not see when it deletes.
Exactly(p) ==
  put[p].at = "inserted" /\ put'[p].at = "done"
    => {r \in rowsOf' : r.month = put[p].month /\ employer[r.worker] = put[p].company}
         = {RowOf(e, p) : e \in put[p].body}
ReplacedExactly == [][\A p \in Call : Exactly(p)]_monthVars

\* Alone, it has; however many came before and whatever became of them.
ReplacedExactlyAlone == [][\A p \in Call \ raced : Exactly(p)]_monthVars

\* The rows of other companies' workers, and of other months, stay as they are.
OthersAreKept ==
  [][\A p \in Call \ raced :
       put[p].at # "done" /\ put'[p].at = "done" =>
         \A r \in rowsOf : r.month # put[p].month \/ employer[r.worker] # put[p].company => r \in rowsOf']_monthVars
=============================================================================
