------------------------------ MODULE OfficeProofs ------------------------------
(***************************************************************************)
(* That saves are whole, that what a form, a dialog, the grid or the       *)
(* public page shows is its own, and that a replacement no other overlaps  *)
(* leaves exactly its payload, is proved here for every number of          *)
(* companies, workers, months, calls and clicks.                           *)
(*                                                                         *)
(* Each component has an invariant over its own state.  A step of another  *)
(* one reaches it only through the active company, the route and the       *)
(* dialog slot; what Quiet says of these is enough.                        *)
(***************************************************************************)
EXTENDS Office, CompanyDirectoryProofs

-----------------------------------------------------------------------------
(* The Workers page *)

\* A list of workers as the server or the cache has it.
Roll == [Worker -> Row \cup {None}]

\* The calls under way, by what they carry.
SaveCall == [kind : {"save"}, id : Worker \cup {None}, nid : Nat, no : Nat, visit : Nat]
ContractCall == [kind : {"contract"}, id : Worker, nid : Nat, no : Nat, visit : Nat]
DeleteCall == [kind : {"delete"}, id : Worker, row : Row, visit : Nat]
DeactivateCall == [kind : {"deactivate"}, id : Worker, row : Row, visit : Nat]
RotateCall == [kind : {"rotate"}, id : Worker, visit : Nat]
WorkerCall == SaveCall \cup ContractCall \cup DeleteCall \cup DeactivateCall \cup RotateCall

WorkerShape ==
  /\ worker \in Roll
  /\ roll # None => roll \in Roll
  /\ reading \notin {None, Sent} => reading \in Roll
  /\ wform \in [id : Worker \cup {None}, nid : Nat, no : Nat]
  /\ calls \subseteq WorkerCall
  /\ suspect # None => suspect \in DeleteCall
  /\ links \in [Worker -> Nat \cup {None}]
  /\ reported \subseteq Worker

\* Numbers are given in order, and a link is a worker's.
HiredInOrder == \A w \in Worker : worker[w] # None \/ links[w] # None \/ w \in reported => w <= hired

\* A worker with history cannot be removed, so that a deactivation finds its row.
SuspectRemains ==
  /\ suspect # None => suspect.id \in rostered /\ worker[suspect.id] # None
  /\ \A c \in calls : c.kind = "deactivate" => c.id \in rostered /\ worker[c.id] # None

\* Tags are held back only while something is pending.
HeldForPending == tags # {} => calls # {} \/ reading # None \/ fetchingLinks # {}

\* A cached link that is not the worker's any more is about to be fetched again.
LinksAreFresh ==
  \A w \in Worker \ foreign :
    worker[w] # None /\ links[w] # None => links[w] = worker[w].token \/ w \in tags \/ w \in fetchingLinks

\* The share dialog is the page's, and shows the cached link unless it is fetching it.
SharedOnPage == share # None => PagesNow("workers")
LinkIsCached ==
  Shows("share") /\ share # None /\ links[share] # None =>
    link = [of |-> share, token |-> links[share]] \/ share \in fetchingLinks

WorkerInv ==
  /\ WorkerTypeOK /\ WorkerShape
  /\ HiredInOrder /\ SuspectRemains /\ SavedMeansBoth
  /\ HeldForPending /\ LinksAreFresh /\ SharedOnPage /\ LinkIsCached

-----------------------------------------------------------------------------
(* The availability table *)

Entries == [worker : Member, month : GridMonth, value : Nat]
TableRow == [worker : Member, month : GridMonth, value : Nat, by : Call \cup {0}]

PutState ==
  [at : {"idle", "checked", "deleting", "deleted", "inserted", "done", "refused", "failed"},
   company : Company \cup {None}, month : GridMonth \cup {None}, body : SUBSET Entries, victims : SUBSET TableRow]

MonthShape ==
  /\ rowsOf \subseteq TableRow
  /\ put \in [Call -> PutState]

\* The rows a call replaces.
RowsToReplace(p) == {r \in rowsOf : r.month = put[p].month /\ employer[r.worker] = put[p].company}

\* A call that nothing has overlapped is alone, and what it was checked against and what
\* it has deleted is still so.
Undisturbed(p) ==
  Open(p) =>
    /\ \A q \in Call \ {p} : ~Open(q)
    /\ Accepted(put[p].month, put[p].body, put[p].company)
    /\ put[p].at # "checked" => put[p].victims = RowsToReplace(p)

MonthInv == MonthTypeOK /\ MonthShape /\ \A p \in Call \ raced : Undisturbed(p)

-----------------------------------------------------------------------------
(* The grid *)

EntriesOf(m) == [worker : Member, month : {m}, value : Nat]

\* A cache, and requests, whose rows are their months'.
IsCache(m) ==
  /\ m = [s \in GridScope |-> m[s]]
  /\ \A s \in GridScope : m[s] # None => m[s] \subseteq EntriesOf(s[2])
AreFetches(fs) ==
  \A f \in fs : /\ f = [of |-> f.of, rows |-> f.rows] /\ f.of \in GridScope
                /\ f.rows # None => f.rows \subseteq EntriesOf(f.of[2])

GridShape ==
  /\ IsCache(months) /\ AreFetches(fetches)
  /\ data # None => data.rows \subseteq EntriesOf(data.of[2])
  /\ draft \subseteq Entries /\ edits \in Nat
  /\ saving # None => saving.of \in GridScope

\* An entry of the draft is of the month, or came with the rows of another.
DraftIsOfData == data # None => \A e \in draft : e.month = month \/ e.month = data.of[2]

GridInv == GridTypeOK /\ GridShape /\ DraftIsOfData

-----------------------------------------------------------------------------
(* The public page *)

ViewShape ==
  /\ asks \in Nat
  /\ asked \subseteq [no : 1..asks, month : ViewMonth, at : {"sent", "body"}]

\* The last request is for the month shown, and so is every body being read, unless the
\* month was changed meanwhile.
LastIsOfShown == \A r \in asked : r.no = asks => r.month = shown
BodyIsOfShown == overtaken \/ \A r \in asked : r.at = "body" => r.month = shown

ViewInv == ViewTypeOK /\ ViewShape /\ LastIsOfShown /\ BodyIsOfShown /\ ViewIsOfMonthUnlessOvertaken

IInv == CompanyInv /\ WorkerInv /\ MonthInv /\ GridInv /\ ViewInv

-----------------------------------------------------------------------------
(* The public page *)

LEMMA ViewKeeps == ViewInv /\ ViewNext => ViewInv'
<1> SUFFICES ASSUME ViewInv, ViewNext PROVE ViewInv'
  OBVIOUS
<1> USE DEF officeVars
<1>1. asks \in Nat /\ \A r \in asked : r \in [no : 1..asks, month : ViewMonth, at : {"sent", "body"}]
  BY DEF ViewInv, ViewShape
<1>2. CASE PlannerActs
  BY <1>2 DEF PlannerActs, ViewInv, ViewTypeOK, ViewShape, LastIsOfShown, BodyIsOfShown, ViewIsOfMonthUnlessOvertaken, ViewIsOfMonth
<1>3. ASSUME NEW m \in ViewMonth, SetMonth(m)
      PROVE  ViewInv'
  <2> DEFINE q == [no |-> asks + 1, month |-> m, at |-> "sent"]
  <2>1. /\ shown' = m /\ view' = Loading /\ asks' = asks + 1 /\ asked' = asked \cup {q}
        /\ overtaken' = (overtaken \/ \E r \in asked : r.at = "body")
        /\ UNCHANGED <<good, published, known>>
    BY <1>3 DEF SetMonth
  <2>2. q \in [no : 1..(asks + 1), month : ViewMonth, at : {"sent", "body"}] /\ q.no = asks + 1 /\ q.month = m /\ q.at = "sent"
    BY <1>1
  <2> HIDE DEF q
  <2>3. \A r \in asked : r.no \in 1..(asks + 1) /\ r.no # asks + 1
    BY <1>1
  <2>4. ViewShape'
    <3>1. \A r \in asked : r \in [no : 1..(asks + 1), month : ViewMonth, at : {"sent", "body"}]
      BY <1>1, <2>3
    <3>2. QED
      BY <1>1, <2>1, <2>2, <3>1 DEF ViewShape
  <2>5. LastIsOfShown'
    BY <2>1, <2>2, <2>3 DEF LastIsOfShown
  <2>6. overtaken' \in BOOLEAN /\ BodyIsOfShown'
    BY <2>1, <2>2 DEF BodyIsOfShown, ViewInv, ViewTypeOK
  <2>7. ViewTypeOK'
    BY <1>3, <2>1, <2>2, <2>3, <2>6 DEF ViewInv, ViewTypeOK
  <2>8. ViewIsOfMonthUnlessOvertaken'
    BY <2>1 DEF ViewIsOfMonthUnlessOvertaken, ViewIsOfMonth, Loading
  <2>9. QED
    BY <2>4, <2>5, <2>6, <2>7, <2>8 DEF ViewInv
<1>4. ASSUME NEW r \in asked, Refused(r) \/ Broken(r)
      PROVE  ViewInv'
  BY <1>4 DEF Refused, Broken, ViewInv, ViewTypeOK, ViewShape, LastIsOfShown, BodyIsOfShown,
     ViewIsOfMonthUnlessOvertaken, ViewIsOfMonth, NotPublished, InvalidToken
<1>5. ASSUME NEW r \in asked, Headers(r)
      PROVE  ViewInv'
  <2> DEFINE b == [r EXCEPT !.at = "body"]
  <2>1. /\ asked' = (asked \ {r}) \cup (IF Abandoned(r) THEN {} ELSE {b})
        /\ UNCHANGED <<good, published, shown, view, known, asks, overtaken>>
    BY <1>5 DEF Headers
  <2>2. b \in [no : 1..asks, month : ViewMonth, at : {"sent", "body"}] /\ b.no = r.no /\ b.month = r.month /\ b.at = "body"
    BY <1>1
  <2> HIDE DEF b
  <2>3. ~Abandoned(r) => r.month = shown
    BY DEF Abandoned, ViewInv, LastIsOfShown
  <2>4. ViewShape' /\ ViewTypeOK'
    BY <2>1, <2>2 DEF ViewInv, ViewShape, ViewTypeOK
  <2>5. LastIsOfShown' /\ BodyIsOfShown' /\ ViewIsOfMonthUnlessOvertaken'
    BY <2>1, <2>2, <2>3 DEF ViewInv, LastIsOfShown, BodyIsOfShown, ViewIsOfMonthUnlessOvertaken, ViewIsOfMonth
  <2>6. QED
    BY <2>4, <2>5 DEF ViewInv
<1>6. ASSUME NEW r \in asked, Body(r)
      PROVE  ViewInv'
  BY <1>1, <1>6 DEF Body, ViewInv, ViewTypeOK, ViewShape, LastIsOfShown, BodyIsOfShown,
     ViewIsOfMonthUnlessOvertaken, ViewIsOfMonth, Loaded
<1>7. QED
  BY <1>2, <1>3, <1>4, <1>5, <1>6 DEF ViewNext

LEMMA ViewUntouched == ViewInv /\ UNCHANGED viewVars => ViewInv'
BY DEF viewVars, ViewInv, ViewTypeOK, ViewShape, LastIsOfShown, BodyIsOfShown, ViewIsOfMonthUnlessOvertaken, ViewIsOfMonth

\* The first request is for the first month.
LEMMA ViewStarts ==
  ASSUME OfficeInit, ViewInit, left.good \subseteq BOOLEAN, left.published \subseteq SUBSET ViewMonth
  PROVE  ViewInv
<1> USE DEF ViewInit
<1>1. shown \in ViewMonth
  BY ViewAssumption
<1>2. asks \in Nat /\ asked \subseteq [no : 1..asks, month : {shown}, at : {"sent"}]
  <2>1. CASE page = "schedule"
    BY <2>1
  <2>2. CASE page # "schedule"
    BY <2>2
  <2>3. QED
    BY <2>1, <2>2
<1>3. \A r \in asked : r.no \in 1..asks /\ r.month = shown /\ r.at = "sent"
  BY <1>2
<1>4. asked \subseteq [no : 1..asks, month : ViewMonth, at : {"sent", "body"}]
  BY <1>1, <1>2
<1>5. QED
  BY <1>1, <1>2, <1>3, <1>4 DEF ViewInv, ViewTypeOK, ViewShape, LastIsOfShown, BodyIsOfShown, ViewIsOfMonthUnlessOvertaken,
     ViewIsOfMonth, Loading

-----------------------------------------------------------------------------
(* The availability table *)

LEMMA MonthUntouched == MonthInv /\ UNCHANGED <<employer, rowsOf, put, raced>> /\ meddled' \in BOOLEAN => MonthInv'
BY DEF MonthInv, MonthTypeOK, MonthShape, Undisturbed, Open, Accepted, RowsToReplace

LEMMA MonthStarts ==
  ASSUME OfficeInit, MonthInit, left.employer \subseteq [Member -> Company \cup {None}],
         left.table \subseteq SUBSET [worker : Member, month : GridMonth, value : Nat, by : {0}]
  PROVE  MonthInv
<1> USE DEF MonthInit
<1>1. \A r \in rowsOf : r \in [worker : Member, month : GridMonth, value : Nat, by : {0}]
  OBVIOUS
<1>2. rowsOf \subseteq TableRow
  BY <1>1 DEF TableRow
<1>3. Idle \in PutState
  BY DEF Idle, PutState
<1>4. \A p \in Call : put[p].at = "idle"
  BY DEF Idle
<1>5. QED
  BY <1>1, <1>2, <1>3, <1>4 DEF MonthInv, MonthTypeOK, MonthShape, Undisturbed, Open

\* A call that is received is checked against the workers' company as it is.
LEMMA ReceiveKeeps ==
  ASSUME MonthInv, NEW p \in Call, NEW m \in GridMonth, NEW body \in SUBSET Entries, NEW c \in Company,
         Receive(p, m, body, c), UNCHANGED <<employer, rowsOf>>, meddled' \in BOOLEAN
  PROVE  MonthInv'
<1> DEFINE state == [Idle EXCEPT !.at = IF Accepted(m, body, c) THEN "checked" ELSE "refused",
                                 !.company = c, !.month = m, !.body = body]
<1>1. /\ put[p].at = "idle" /\ put' = [put EXCEPT ![p] = state]
      /\ raced' = IF Accepted(m, body, c) /\ Overlaps(p) # {} THEN raced \cup {p} \cup Overlaps(p) ELSE raced
  BY DEF Receive
<1>2. /\ state \in PutState
      /\ state.at = (IF Accepted(m, body, c) THEN "checked" ELSE "refused")
      /\ state.company = c /\ state.month = m /\ state.body = body
  BY DEF Idle, PutState
<1> HIDE DEF state
<1>3. put \in [Call -> PutState] /\ put'[p] = state /\ \A q \in Call : q # p => put'[q] = put[q]
  BY <1>1 DEF MonthInv, MonthShape
<1>4. MonthTypeOK' /\ MonthShape'
  BY <1>1, <1>2, <1>3 DEF MonthInv, MonthTypeOK, MonthShape, Overlaps, PutState
<1>5. ASSUME NEW q \in Call \ raced'
      PROVE  Undisturbed(q)'
  <2>1. CASE q = p
    BY <1>1, <1>2, <1>3, <1>5, <2>1 DEF Undisturbed, Open, Accepted, Overlaps
  <2>2. CASE q # p
    <3>1. q \notin raced /\ put'[q] = put[q]
      BY <1>1, <1>3, <1>5, <2>2
    <3>2. Open(q) => ~Open(p)'
      BY <1>1, <1>2, <1>3, <1>5, <2>2 DEF Open, Overlaps
    <3>3. QED
      BY <1>3, <2>2, <3>1, <3>2 DEF MonthInv, Undisturbed, Open, Accepted, RowsToReplace
  <2>3. QED
    BY <2>1, <2>2
<1>6. QED
  BY <1>4, <1>5 DEF MonthInv

\* A statement of one call leaves the other calls undisturbed, as none that is is open.
LEMMA StatementKeeps ==
  ASSUME MonthInv, NEW p \in Call, NEW state \in PutState, Open(p), put' = [put EXCEPT ![p] = state],
         rowsOf' \subseteq TableRow, UNCHANGED <<employer, raced, meddled>>,
         p \notin raced => Undisturbed(p)',
         p \in raced \/ ~(\E q \in Call \ raced : q # p /\ Open(q))
  PROVE  MonthInv'
<1>1. put \in [Call -> PutState] /\ put'[p] = state /\ \A q \in Call : q # p => put'[q] = put[q]
  BY DEF MonthInv, MonthShape
<1>2. MonthTypeOK' /\ MonthShape'
  BY <1>1 DEF MonthInv, MonthTypeOK, MonthShape, PutState, TableRow
<1>3. ASSUME NEW q \in Call \ raced, q # p
      PROVE  Undisturbed(q)'
  BY <1>1, <1>3 DEF MonthInv, Undisturbed, Open
<1>4. QED
  BY <1>2, <1>3 DEF MonthInv

\* What a statement finds.
LEMMA OpenCall ==
  ASSUME MonthInv, NEW p \in Call, Open(p)
  PROVE  /\ put[p] \in PutState
         /\ \A q \in Call \ raced : q # p => ~Open(q)
         /\ p \notin raced => Undisturbed(p)
         /\ rowsOf \subseteq TableRow
BY DEF MonthInv, MonthShape, Undisturbed

LEMMA DeleteKeeps ==
  ASSUME MonthInv, NEW p \in Call, DeleteBegins(p) \/ DeleteEnds(p)
  PROVE  MonthInv'
<1>1. Open(p)
  BY DEF DeleteBegins, DeleteEnds, Open
<1>2. PICK state \in PutState :
        /\ put' = [put EXCEPT ![p] = state]
        /\ state.at \in {"deleting", "deleted"}
        /\ state.company = put[p].company /\ state.month = put[p].month /\ state.body = put[p].body
        /\ p \notin raced => state.victims = RowsToReplace(p)
  <2>1. CASE DeleteBegins(p)
    <3>1. RowsToReplace(p) \in SUBSET TableRow
      BY <1>1, OpenCall DEF RowsToReplace
    <3>2. put' = [put EXCEPT ![p] = [@ EXCEPT !.at = "deleting", !.victims = RowsToReplace(p)]]
      BY <2>1 DEF DeleteBegins, RowsToReplace
    <3>3. [put[p] EXCEPT !.at = "deleting", !.victims = RowsToReplace(p)] \in PutState
      BY <1>1, <3>1, OpenCall DEF PutState
    <3>4. put' = [put EXCEPT ![p] = [put[p] EXCEPT !.at = "deleting", !.victims = RowsToReplace(p)]]
      BY <3>2
    <3>5. WITNESS [put[p] EXCEPT !.at = "deleting", !.victims = RowsToReplace(p)] \in PutState
    <3>6. QED
      BY <1>1, <3>4, OpenCall DEF PutState
  <2>2. CASE DeleteEnds(p)
    <3> DEFINE still == put[p].victims \cap rowsOf
    <3>1. still \in SUBSET TableRow
      BY <1>1, OpenCall
    <3>2. put' = [put EXCEPT ![p] = [@ EXCEPT !.at = "deleted", !.victims = still]]
      BY <2>2 DEF DeleteEnds
    <3>3. p \notin raced => still = RowsToReplace(p)
      BY <1>1, <2>2, OpenCall DEF DeleteEnds, Undisturbed, RowsToReplace
    <3> HIDE DEF still
    <3>4. [put[p] EXCEPT !.at = "deleted", !.victims = still] \in PutState
      BY <1>1, <3>1, OpenCall DEF PutState
    <3>5. put' = [put EXCEPT ![p] = [put[p] EXCEPT !.at = "deleted", !.victims = still]]
      BY <3>2
    <3>6. WITNESS [put[p] EXCEPT !.at = "deleted", !.victims = still] \in PutState
    <3>7. QED
      BY <1>1, <3>3, <3>5, OpenCall DEF PutState
  <2>3. QED
    BY <2>1, <2>2
<1>3. put'[p] = state /\ \A q \in Call : q # p => put'[q] = put[q]
  BY <1>2 DEF MonthInv, MonthShape
<1>4. UNCHANGED <<employer, rowsOf, raced, meddled>>
  BY DEF DeleteBegins, DeleteEnds
<1>5. ASSUME p \notin raced
      PROVE  Undisturbed(p)'
  BY <1>1, <1>2, <1>3, <1>4, <1>5, OpenCall DEF Undisturbed, Open, Accepted, RowsToReplace
<1>6. QED
  BY <1>1, <1>2, <1>4, <1>5, OpenCall, StatementKeeps

LEMMA InsertKeeps ==
  ASSUME MonthInv, NEW p \in Call, Insert(p) \/ Crash(p)
  PROVE  MonthInv'
<1>1. Open(p)
  BY DEF Insert, Crash, Open
<1>2. PICK at \in {"inserted", "failed"} : put' = [put EXCEPT ![p] = [put[p] EXCEPT !.at = at]] /\ (at = "inserted" => Insert(p))
  <2>1. PICK at \in {"inserted", "failed"} : put' = [put EXCEPT ![p].at = at] /\ (at = "inserted" => Insert(p))
    <3>1. CASE Insert(p)
      BY <3>1 DEF Insert
    <3>2. CASE Crash(p)
      BY <3>2 DEF Crash
    <3>3. QED
      BY <3>1, <3>2
  <2>2. QED
    BY <2>1
<1> DEFINE state == [put[p] EXCEPT !.at = at]
<1>3. /\ state \in PutState /\ put' = [put EXCEPT ![p] = state]
      /\ state.at = at /\ state.company = put[p].company /\ state.month = put[p].month /\ state.body = put[p].body
      /\ state.victims = put[p].victims
  BY <1>1, <1>2, OpenCall DEF PutState
<1> HIDE DEF state
<1>4. put'[p] = state /\ \A q \in Call : q # p => put'[q] = put[q]
  BY <1>3 DEF MonthInv, MonthShape
<1>5. UNCHANGED <<employer, rowsOf, raced, meddled>>
  BY DEF Insert, Crash
<1>6. ASSUME p \notin raced
      PROVE  Undisturbed(p)'
  BY <1>1, <1>2, <1>3, <1>4, <1>5, <1>6, OpenCall DEF Insert, Undisturbed, Open, Accepted, RowsToReplace
<1>7. QED
  BY <1>1, <1>3, <1>5, <1>6, OpenCall, StatementKeeps

LEMMA CommitKeeps ==
  ASSUME MonthInv, NEW p \in Call, Commit(p)
  PROVE  MonthInv'
<1>1. Open(p)
  BY DEF Commit, Open
<1> DEFINE state == [put[p] EXCEPT !.at = "done"]
<1>2. state \in PutState /\ put' = [put EXCEPT ![p] = state] /\ state.at = "done"
  BY <1>1, OpenCall DEF Commit, PutState
<1> HIDE DEF state
<1>3. put'[p] = state
  BY <1>2 DEF MonthInv, MonthShape
<1>4. rowsOf' \subseteq TableRow
  <2>1. put[p].body \subseteq Entries
    BY <1>1, OpenCall DEF PutState
  <2>2. \A e \in put[p].body : RowOf(e, p) \in TableRow
    BY <2>1 DEF Entries, TableRow, RowOf
  <2>3. QED
    BY <1>1, <2>2, OpenCall DEF Commit
<1>5. UNCHANGED <<employer, raced, meddled>>
  BY DEF Commit
<1>6. ASSUME p \notin raced
      PROVE  Undisturbed(p)'
  BY <1>2, <1>3 DEF Undisturbed, Open
<1>7. QED
  BY <1>1, <1>2, <1>4, <1>5, <1>6, OpenCall, StatementKeeps

LEMMA MoveKeeps ==
  ASSUME MonthInv, NEW w \in Member, Move(w)
  PROVE  MonthInv'
<1>1. /\ employer' \in [Member -> Company \cup {None}] /\ rowsOf' \subseteq rowsOf
      /\ raced' = raced \cup {p \in Call : Open(p)} /\ meddled' = TRUE /\ put' = put
  BY DEF Move, MonthInv, MonthTypeOK
<1>2. MonthTypeOK' /\ MonthShape'
  BY <1>1 DEF MonthInv, MonthTypeOK, MonthShape
<1>3. QED
  BY <1>1, <1>2 DEF MonthInv, Undisturbed, Open

-----------------------------------------------------------------------------
(* The grid *)

\* Every statement, and what the grid makes of it.
LEMMA TableKeeps ==
  ASSUME MonthInv, TableNext
  PROVE  MonthInv'
<1>1. ASSUME NEW p \in Call, DeleteBegins(p) \/ DeleteEnds(p) \/ Insert(p) \/ Commit(p) \/ Crash(p)
      PROVE  MonthInv'
  BY <1>1, DeleteKeeps, InsertKeeps, CommitKeeps
<1>2. ASSUME NEW w \in Member, Move(w)
      PROVE  MonthInv'
  BY <1>2, MoveKeeps
<1>3. ASSUME NEW p \in Call, NEW s \in GridScope, NEW body \in Payloads(s[2]), PutElsewhere(p, s[2], body, s[1])
      PROVE  MonthInv'
  <2>1. s[2] \in GridMonth /\ s[1] \in Company
    BY DEF GridScope
  <2>2. body \in SUBSET Entries
    BY <2>1 DEF Payloads, Entry, Entries
  <2>3. QED
    BY <1>3, <2>1, <2>2, ReceiveKeeps DEF PutElsewhere
<1>4. QED
  BY <1>1, <1>2, <1>3 DEF TableNext

LEMMA GridKeepsTable ==
  ASSUME OfficeTypeOK, MonthInv, GridInv, GridNext
  PROVE  MonthInv'
<1>1. CASE TableNext
  BY <1>1, TableKeeps
<1>2. CASE Discard \/ SaveAnswered \/ (\E w \in Member : EditRow(w)) \/ (\E m \in GridMonth : SetGridMonth(m))
           \/ \E f \in fetches : GridRead(f) \/ GridArrived(f)
  <2>1. UNCHANGED monthVars
    BY <1>2 DEF Discard, SaveAnswered, EditRow, SetGridMonth, GridRead, GridArrived
  <2>2. meddled' \in BOOLEAN
    BY <2>1 DEF monthVars, MonthInv, MonthTypeOK
  <2>3. QED
    BY <2>1, <2>2, MonthUntouched DEF monthVars
<1>3. ASSUME NEW p \in Call, Save(p)
      PROVE  MonthInv'
  <2>1. month \in GridMonth /\ draft \in SUBSET Entries /\ active \in Company /\ meddled' \in BOOLEAN
    BY <1>3 DEF Save, OnGrid, OfficeTypeOK, GridInv, GridTypeOK, GridShape, MonthInv, MonthTypeOK
  <2>2. QED
    BY <1>3, <2>1, ReceiveKeeps DEF Save
<1>4. QED
  BY <1>1, <1>2, <1>3 DEF GridNext

\* The months of a scope are the model's, and a request not answered has no rows.
LEMMA AskedIsFetch ==
  ASSUME NEW s \in GridScope, NEW fs, AreFetches(fs)
  PROVE  AreFetches(fs \cup {Asked(s)}) /\ AreFetches({Asked(s)})
BY DEF AreFetches, Asked

LEMMA SettleKeeps ==
  ASSUME NEW cache, NEW rest, NEW due \in SUBSET GridScope,
         IsCache(cache), AreFetches(rest), Settle(cache, rest, due)
  PROVE  IsCache(months') /\ AreFetches(fetches') /\ stale' \subseteq GridScope
<1>1. CASE rest = {}
  <2>1. IsCache(months')
    <3> DEFINE kept == [s \in GridScope |-> IF s \in due \ {Here} THEN None ELSE cache[s]]
    <3>1. months' = kept
      BY <1>1 DEF Settle
    <3>2. \A s \in GridScope : kept[s] \in {None, cache[s]}
      OBVIOUS
    <3>3. kept = [s \in GridScope |-> kept[s]]
      OBVIOUS
    <3> HIDE DEF kept
    <3>4. QED
      BY <3>1, <3>2, <3>3 DEF IsCache
  <2>2. AreFetches({}) /\ (Here \in due => AreFetches({Asked(Here)}))
    BY <1>1, AskedIsFetch
  <2>3. QED
    BY <1>1, <2>1, <2>2 DEF Settle
<1>2. CASE rest # {}
  BY <1>2 DEF Settle
<1>3. QED
  BY <1>1, <1>2

\* Whatever the scope, the draft is what the query returns for it at once.
LEMMA ScopeKeeps ==
  ASSUME GridInv, NEW s \in GridScope, Rescoped(s) \/ GridMounts(s), month' \in GridMonth
  PROVE  GridInv'
<1> USE DEF Rescoped, GridMounts, Reset
<1>1. months[s] # None => months[s] \subseteq EntriesOf(s[2])
  BY DEF GridInv, GridShape, IsCache
<1>2. /\ data' = None \/ data'.of \in GridScope
      /\ data' # None => data'.rows \subseteq EntriesOf(data'.of[2])
  <2>1. CASE months[s] # None
    BY <1>1, <2>1
  <2>2. CASE months[s] = None
    <3>1. data' \in {data, None}
      BY <2>2
    <3>2. QED
      BY <3>1 DEF GridInv, GridTypeOK, GridShape
  <2>3. QED
    BY <2>1, <2>2
<1>3. /\ draft' = IF data' = None THEN {} ELSE data'.rows
      /\ message' = "none" /\ UNCHANGED <<months, stale, edits>> /\ (saving' = saving \/ saving' = None)
  OBVIOUS
<1>4. AreFetches(fetches')
  BY AskedIsFetch DEF GridInv, GridShape
<1> HIDE DEF Rescoped, GridMounts, Reset
<1>5. draft' \subseteq Entries /\ DraftIsOfData'
  <2>1. data' # None => data'.of[2] \in GridMonth
    BY <1>2 DEF GridScope
  <2>2. data' # None => data'.rows \subseteq Entries /\ \A e \in data'.rows : e.month = data'.of[2]
    BY <1>2, <2>1 DEF EntriesOf, Entries
  <2>3. QED
    BY <1>3, <2>2 DEF DraftIsOfData
<1>6. GridTypeOK'
  <2>1. \A f \in fetches' : f.of \in GridScope
    BY <1>4 DEF AreFetches
  <2>2. \A e \in draft' : e.worker \in Member /\ e.month \in GridMonth /\ e.value \in Nat
    BY <1>5 DEF Entries
  <2>3. QED
    BY <1>2, <1>3, <2>1, <2>2 DEF GridInv, GridTypeOK
<1>7. GridShape'
  BY <1>2, <1>3, <1>4, <1>5 DEF GridInv, GridShape
<1>8. QED
  BY <1>5, <1>6, <1>7 DEF GridInv

\* The rows the server reads for a scope are its month's.
LEMMA ReadIsOfMonth ==
  ASSUME MonthInv, NEW s \in GridScope
  PROVE  MonthOf(s[1], s[2]) \subseteq EntriesOf(s[2])
<1>1. \A r \in rowsOf : r \in TableRow
  BY DEF MonthInv, MonthShape
<1>2. \A r \in rowsOf : r.month = s[2] => EntryOf(r) \in EntriesOf(s[2])
  BY <1>1 DEF TableRow, EntryOf, Entry, EntriesOf
<1>3. QED
  BY <1>2 DEF MonthOf

LEMMA GridUntouched == GridInv /\ UNCHANGED gridVars => GridInv'
BY DEF gridVars, GridInv, GridTypeOK, GridShape, IsCache, AreFetches, DraftIsOfData

LEMMA EditRowKeeps ==
  ASSUME GridInv, NEW w \in Member, EditRow(w)
  PROVE  GridInv'
<1>1. /\ edits' = edits + 1 /\ UNCHANGED <<month, data, months, fetches, stale, saving, message>>
      /\ draft' \subseteq draft \cup {Entry(w, month, edits')}
  BY DEF EditRow, Without
<1>2. Entry(w, month, edits') \in Entries /\ Entry(w, month, edits').month = month
  BY <1>1 DEF GridInv, GridTypeOK, GridShape, Entry, Entries
<1>3. draft' \subseteq Entries /\ DraftIsOfData'
  BY <1>1, <1>2 DEF GridInv, GridShape, DraftIsOfData
<1>4. \A e \in draft' : e.worker \in Member /\ e.month \in GridMonth /\ e.value \in Nat
  BY <1>3 DEF Entries
<1>5. QED
  BY <1>1, <1>3, <1>4 DEF GridInv, GridTypeOK, GridShape

LEMMA DiscardKeeps == GridInv /\ Discard => GridInv'
<1> SUFFICES ASSUME GridInv, Discard PROVE GridInv'
  OBVIOUS
<1>1. /\ draft' = Rows /\ message' = "none"
      /\ UNCHANGED <<month, data, months, fetches, stale, edits, saving>>
  BY DEF Discard, Reset
<1>2. data # None => data.of[2] \in GridMonth
  BY DEF GridInv, GridTypeOK, GridScope
<1>3. Rows \subseteq Entries /\ \A e \in Rows : data # None /\ e.month = data.of[2]
  BY <1>2 DEF GridInv, GridShape, Rows, EntriesOf, Entries
<1>4. \A e \in draft' : e.worker \in Member /\ e.month \in GridMonth /\ e.value \in Nat
  BY <1>1, <1>3 DEF Entries
<1>5. QED
  BY <1>1, <1>3, <1>4 DEF GridInv, GridTypeOK, GridShape, DraftIsOfData

LEMMA SaveKeeps ==
  ASSUME OfficeTypeOK, GridInv, NEW p \in Call, Save(p)
  PROVE  GridInv'
<1>1. Here \in GridScope
  BY DEF Save, OnGrid, OfficeTypeOK, Here, GridScope, GridInv, GridTypeOK
<1>2. /\ saving'.of = Here /\ message' = "none"
      /\ UNCHANGED <<month, data, months, fetches, stale, draft, edits>>
  BY DEF Save
<1>3. QED
  BY <1>1, <1>2 DEF GridInv, GridTypeOK, GridShape, DraftIsOfData

LEMMA SetGridMonthKeeps ==
  ASSUME OfficeTypeOK, GridInv, NEW m \in GridMonth, SetGridMonth(m)
  PROVE  GridInv'
<1>1. <<active, m>> \in GridScope
  BY DEF SetGridMonth, OnGrid, OfficeTypeOK, GridScope
<1>2. QED
  BY <1>1, ScopeKeeps DEF SetGridMonth

LEMMA SaveAnsweredKeeps == GridInv /\ SaveAnswered => GridInv'
<1> SUFFICES ASSUME GridInv, SaveAnswered PROVE GridInv'
  OBVIOUS
<1>1. stale \cup {saving.of} \in SUBSET GridScope
  BY DEF SaveAnswered, GridInv, GridTypeOK, GridShape
<1>2. IsCache(months') /\ AreFetches(fetches') /\ stale' \subseteq GridScope
  BY <1>1, SettleKeeps DEF SaveAnswered, GridInv, GridShape
<1>3. message' \in {"none", "success", "error"} /\ saving' = None /\ UNCHANGED <<month, data, draft, edits>>
  BY DEF SaveAnswered
<1>4. DOMAIN months' = GridScope /\ \A f \in fetches' : f.of \in GridScope
  BY <1>2 DEF IsCache, AreFetches
<1>5. QED
  BY <1>2, <1>3, <1>4 DEF GridInv, GridTypeOK, GridShape, DraftIsOfData

LEMMA GridReadKeeps ==
  ASSUME GridInv, MonthInv, NEW f \in fetches, GridRead(f)
  PROVE  GridInv'
<1> DEFINE g == [f EXCEPT !.rows = MonthOf(f.of[1], f.of[2])]
<1>1. f.of \in GridScope /\ f = [of |-> f.of, rows |-> f.rows]
  BY DEF GridInv, GridShape, AreFetches
<1>2. g = [of |-> g.of, rows |-> g.rows] /\ g.of = f.of /\ g.rows \subseteq EntriesOf(f.of[2])
  <2>1. g = [of |-> f.of, rows |-> MonthOf(f.of[1], f.of[2])]
    BY <1>1
  <2> HIDE DEF g
  <2>2. QED
    BY <1>1, <2>1, ReadIsOfMonth
<1>3. /\ fetches' = (fetches \ {f}) \cup {g}
      /\ UNCHANGED <<month, data, months, stale, draft, edits, saving, message>>
  BY DEF GridRead
<1> HIDE DEF g
<1>4. AreFetches(fetches')
  BY <1>1, <1>2, <1>3 DEF GridInv, GridShape, AreFetches
<1>5. \A h \in fetches' : h.of \in GridScope
  BY <1>4 DEF AreFetches
<1>6. QED
  BY <1>3, <1>4, <1>5 DEF GridInv, GridTypeOK, GridShape, DraftIsOfData

LEMMA GridArrivedKeeps ==
  ASSUME GridInv, NEW f \in fetches, GridArrived(f)
  PROVE  GridInv'
<1>1. f.of \in GridScope /\ f.of[2] \in GridMonth /\ f.rows # None /\ f.rows \subseteq EntriesOf(f.of[2])
  BY DEF GridArrived, GridInv, GridShape, AreFetches, GridScope
<1>2. IsCache([months EXCEPT ![f.of] = f.rows])
  BY <1>1 DEF GridInv, GridShape, IsCache
<1>3. AreFetches(fetches \ {f}) /\ stale \in SUBSET GridScope
  BY DEF GridInv, GridTypeOK, GridShape, AreFetches
<1>4. IsCache(months') /\ AreFetches(fetches') /\ stale' \subseteq GridScope
  BY <1>2, <1>3, SettleKeeps DEF GridArrived
<1>5. DOMAIN months' = GridScope /\ \A h \in fetches' : h.of \in GridScope
  BY <1>4 DEF IsCache, AreFetches
<1>6. /\ UNCHANGED <<month, edits, saving>>
      /\ \/ data' = data /\ draft' = draft /\ message' = message
         \/ data' = f /\ draft' = f.rows /\ message' = "none"
  BY DEF GridArrived, Reset
<1>7. f.rows \subseteq Entries /\ \A e \in f.rows : e.month = f.of[2]
  BY <1>1 DEF EntriesOf, Entries
<1>8. /\ data' = None \/ data'.of \in GridScope
      /\ data' # None => data'.rows \subseteq EntriesOf(data'.of[2])
      /\ draft' \subseteq Entries /\ message' \in {"none", "success", "error"}
  BY <1>1, <1>6, <1>7 DEF GridInv, GridTypeOK, GridShape
<1>9. \A e \in draft' : e.worker \in Member /\ e.month \in GridMonth /\ e.value \in Nat
  BY <1>8 DEF Entries
<1>10. GridTypeOK' /\ GridShape'
  BY <1>4, <1>5, <1>6, <1>8, <1>9 DEF GridInv, GridTypeOK, GridShape
<1>11. QED
  BY <1>6, <1>7, <1>10 DEF GridInv, DraftIsOfData

-----------------------------------------------------------------------------
(* The Workers page *)

LEMMA WorkerBounds ==
  /\ MaxWorker \in Nat \ {0} /\ Worker \subseteq Nat /\ None \notin Worker /\ None \notin Nat /\ WholeList \notin Worker
  /\ None \notin Row /\ None # Sent /\ None \notin Roll
BY WorkerAssumption, BackOfficeAssumption DEF Worker, WholeList, Roll

\* A call by its kind.
LEMMA CallKinds ==
  ASSUME WorkerInv, NEW c \in calls
  PROVE  /\ c.kind = "save" => c \in SaveCall
         /\ c.kind = "contract" => c \in ContractCall
         /\ c.kind = "delete" => c \in DeleteCall
         /\ c.kind = "deactivate" => c \in DeactivateCall
         /\ c.kind = "rotate" => c \in RotateCall
         /\ c.kind # "save" => c.id \in Worker
         /\ c.kind = "save" => c.id \in Worker \cup {None}
<1>1. c \in WorkerCall
  BY DEF WorkerInv, WorkerShape
<1>2. /\ c.kind = "save" => c \in SaveCall
      /\ c.kind = "contract" => c \in ContractCall
      /\ c.kind = "delete" => c \in DeleteCall
      /\ c.kind = "deactivate" => c \in DeactivateCall
      /\ c.kind = "rotate" => c \in RotateCall
      /\ c.kind \in {"save", "contract", "delete", "deactivate", "rotate"}
  BY <1>1 DEF WorkerCall, SaveCall, ContractCall, DeleteCall, DeactivateCall, RotateCall
<1>3. QED
  BY <1>2 DEF SaveCall, ContractCall, DeleteCall, DeactivateCall, RotateCall

\* A row that is written to stays a row.
LEMMA RowWrites ==
  ASSUME NEW r \in Row, NEW n \in Nat
  PROVE  /\ [r EXCEPT !.by = n] \in Row
         /\ [r EXCEPT !.contract = TRUE] \in Row
         /\ [r EXCEPT !.token = @ + 1] \in Row
         /\ [r EXCEPT !.by = n, !.status = "INACTIVE"] \in Row
         /\ [r EXCEPT !.by = n].token = r.token /\ [r EXCEPT !.by = n].contract = r.contract
         /\ [r EXCEPT !.contract = TRUE].token = r.token /\ [r EXCEPT !.contract = TRUE].contract
         /\ [r EXCEPT !.token = @ + 1].contract = r.contract
         /\ [r EXCEPT !.by = n, !.status = "INACTIVE"].token = r.token
         /\ [r EXCEPT !.by = n, !.status = "INACTIVE"].contract = r.contract
<1>1. [r EXCEPT !.by = n] \in Row
  BY DEF Row
<1>2. [r EXCEPT !.contract = TRUE] \in Row
  BY DEF Row
<1>3. [r EXCEPT !.token = @ + 1] \in Row
  BY DEF Row
<1>4. [r EXCEPT !.by = n, !.status = "INACTIVE"] \in Row
  BY DEF Row
<1>5. /\ [r EXCEPT !.by = n].token = r.token /\ [r EXCEPT !.by = n].contract = r.contract
      /\ [r EXCEPT !.contract = TRUE].token = r.token /\ [r EXCEPT !.contract = TRUE].contract
      /\ [r EXCEPT !.token = @ + 1].contract = r.contract
      /\ [r EXCEPT !.by = n, !.status = "INACTIVE"].token = r.token
      /\ [r EXCEPT !.by = n, !.status = "INACTIVE"].contract = r.contract
  BY DEF Row
<1>6. QED
  BY <1>1, <1>2, <1>3, <1>4, <1>5

\* The rows when one worker's is replaced.
LEMMA RowReplaced ==
  ASSUME worker \in Roll, NEW w \in Worker, NEW r \in Row \cup {None}, worker' = [worker EXCEPT ![w] = r]
  PROVE  worker' \in Roll /\ worker'[w] = r /\ \A v \in Worker : v # w => worker'[v] = worker[v]
BY DEF Roll

\* When nothing is pending any more, what is invalid is fetched again or dropped.
LEMMA ReleasedKeeps ==
  ASSUME NEW ts \in SUBSET (Worker \cup {WholeList}), NEW list_, NEW got \in [Worker -> Nat \cup {None}],
         share \in Worker \cup {None}, Released(ts, list_, got)
  PROVE  /\ tags' = {} /\ fetchingLinks' \subseteq Worker /\ reading' \in {None, Sent}
         /\ links' \in [Worker -> Nat \cup {None}]
         /\ \A w \in Worker :
              /\ links'[w] # None => links'[w] = got[w]
              /\ links'[w] # None /\ w \in ts => w \in fetchingLinks'
<1>1. Watched \subseteq Worker
  BY DEF Watched
<1>2. /\ tags' = {} /\ reading' \in {None, Sent} /\ fetchingLinks' = Watched \cap ts
      /\ links' = [w \in Worker |-> IF w \in ts \ Watched THEN None ELSE got[w]]
  BY DEF Released
<1>3. \A w \in Worker : links'[w] \in {None, got[w]} /\ (w \in ts /\ w \notin Watched => links'[w] = None)
  BY <1>2
<1>4. links' \in [Worker -> Nat \cup {None}]
  BY <1>2
<1>5. QED
  BY <1>1, <1>2, <1>3, <1>4

LEMMA InvalidatedKeeps ==
  ASSUME WorkerInv, NEW ts \in SUBSET (Worker \cup {WholeList}), NEW rest, Invalidated(ts, rest),
         UNCHANGED <<link, share, page, foreign>>, dialog' = "share" => dialog = "share",
         rest # {} => calls' # {},
         \A w \in Worker :
           worker'[w] # None =>
             (worker[w] # None /\ worker'[w].token = worker[w].token) \/ w \in ts \/ links[w] = None
  PROVE  /\ tags' \subseteq Worker \cup {WholeList} /\ fetchingLinks' \subseteq Worker
         /\ links' \in [Worker -> Nat \cup {None}]
         /\ reading' \notin {None, Sent} => reading' \in Roll
         /\ \A w \in Worker : links'[w] # None => links[w] # None
         /\ HeldForPending' /\ LinksAreFresh' /\ LinkIsCached'
<1> DEFINE idle == rest = {} /\ reading = None /\ fetchingLinks = {}
<1> DEFINE all == tags \cup ts
<1>1. /\ Settled(all, idle, roll, links, fetchingLinks)
      /\ ~idle => reading' = reading
  BY DEF Invalidated
<1>2. /\ all \in SUBSET (Worker \cup {WholeList}) /\ idle \in BOOLEAN /\ links \in [Worker -> Nat \cup {None}]
      /\ fetchingLinks \in SUBSET Worker /\ share \in Worker \cup {None}
      /\ idle => fetchingLinks = {}
      /\ ~idle => rest # {} \/ reading # None \/ fetchingLinks # {}
  BY DEF WorkerInv, WorkerTypeOK, WorkerShape
<1>3. tags \subseteq all /\ ts \subseteq all
  OBVIOUS
<1> HIDE DEF idle, all
<1>4. /\ tags' \subseteq Worker \cup {WholeList} /\ fetchingLinks' \subseteq Worker
      /\ links' \in [Worker -> Nat \cup {None}]
      /\ idle => tags' = {} /\ reading' \in {None, Sent}
      /\ ~idle => tags' = all /\ fetchingLinks' = fetchingLinks /\ links' = links
      /\ \A w \in Worker :
           /\ links'[w] # None => links'[w] = links[w]
           /\ links'[w] # None /\ w \in all => w \in tags' \/ w \in fetchingLinks'
           /\ links'[w] # None /\ w \in fetchingLinks => w \in fetchingLinks'
  <2>1. CASE idle
    <3>1. Released(all, roll, links)
      BY <1>1, <2>1 DEF Settled
    <3>2. QED
      BY <1>2, <2>1, <3>1, ReleasedKeeps
  <2>2. CASE ~idle
    BY <1>1, <1>2, <2>2 DEF Settled
  <2>3. QED
    BY <2>1, <2>2
<1>5. reading' \notin {None, Sent} => reading' \in Roll
  BY <1>1, <1>2, <1>4 DEF WorkerInv, WorkerShape
<1>6. HeldForPending'
  BY <1>1, <1>2, <1>4 DEF HeldForPending
<1>7. LinksAreFresh'
  BY <1>3, <1>4 DEF WorkerInv, LinksAreFresh
<1>8. LinkIsCached'
  <2> SUFFICES ASSUME Shows("share")', share # None, links'[share] # None
               PROVE  link = [of |-> share, token |-> links'[share]] \/ share \in fetchingLinks'
    BY DEF LinkIsCached
  <2>1. Shows("share")
    BY DEF Shows
  <2>2. share \in Worker /\ links'[share] = links[share] /\ (share \in fetchingLinks => share \in fetchingLinks')
    BY <1>2, <1>4
  <2>3. QED
    BY <2>1, <2>2 DEF WorkerInv, LinkIsCached
<1>9. QED
  BY <1>4, <1>5, <1>6, <1>7, <1>8

\* An answer, whatever it is: by what it does to the rows, the calls and the dialog.
LEMMA AnswerKeeps ==
  ASSUME WorkerInv, Place' = Place, NEW c \in calls, NEW ts \in SUBSET (Worker \cup {WholeList}),
         Invalidated(ts, calls \ {c}),
         UNCHANGED <<rostered, roll, link, wform, visit, share, page, foreign>>,
         dialog' = "share" => dialog = "share",
         hired' \in 0..MaxWorker, hired <= hired', worker' \in Roll,
         calls \ {c} \subseteq calls', calls' \subseteq (calls \ {c}) \cup ContractCall,
         \A w \in Worker :
           worker'[w] # None =>
             /\ (worker[w] # None /\ worker'[w].token = worker[w].token) \/ w \in ts \/ links[w] = None
             /\ w <= hired',
         \A w \in rostered : worker[w] # None => worker'[w] # None,
         reported' \subseteq Worker,
         \A w \in reported' : w <= hired' /\ (worker'[w] # None => worker'[w].contract),
         suspect' \in {suspect, None}
           \/ (suspect' = c /\ c.kind = "delete" /\ c.id \in rostered /\ worker[c.id] # None)
  PROVE  WorkerInv'
<1>1. calls \ {c} # {} => calls' # {}
  OBVIOUS
<1>2. /\ tags' \subseteq Worker \cup {WholeList} /\ fetchingLinks' \subseteq Worker
      /\ links' \in [Worker -> Nat \cup {None}]
      /\ reading' \notin {None, Sent} => reading' \in Roll
      /\ \A w \in Worker : links'[w] # None => links[w] # None
      /\ HeldForPending' /\ LinksAreFresh' /\ LinkIsCached'
  BY <1>1, InvalidatedKeeps
<1>3. suspect' # None => suspect' \in DeleteCall /\ suspect'.id \in rostered /\ worker'[suspect'.id] # None
  BY CallKinds DEF WorkerInv, WorkerShape, SuspectRemains
<1>4. \A d \in calls' : d \in WorkerCall /\ (d.kind = "deactivate" => d \in calls)
  BY DEF WorkerInv, WorkerShape, WorkerCall, ContractCall
<1>5. SuspectRemains'
  BY <1>3, <1>4 DEF WorkerInv, SuspectRemains
<1>6. WorkerShape'
  BY <1>2, <1>3, <1>4 DEF WorkerInv, WorkerShape
<1>7. WorkerTypeOK'
  <2>1. DOMAIN worker' = Worker /\ \A w \in Worker : worker'[w] = None \/ worker'[w] \in Row
    BY DEF Roll
  <2>2. \A d \in calls' : d.kind \in {"save", "contract", "delete", "deactivate", "rotate"}
    BY <1>4 DEF WorkerCall, SaveCall, ContractCall, DeleteCall, DeactivateCall, RotateCall
  <2>3. suspect' = None \/ suspect'.id \in Worker
    BY <1>3 DEF DeleteCall
  <2>4. QED
    BY <1>2, <2>1, <2>2, <2>3 DEF WorkerInv, WorkerTypeOK
<1>8. HiredInOrder'
  <2>1. \A w \in Worker : w \in Nat
    BY WorkerBounds
  <2>2. hired \in Nat /\ hired' \in Nat
    BY DEF WorkerInv, WorkerTypeOK
  <2>3. QED
    BY <1>2, <2>1, <2>2 DEF WorkerInv, HiredInOrder
<1>9. SavedMeansBoth' /\ SharedOnPage'
  BY DEF WorkerInv, SavedMeansBoth, SharedOnPage, PagesNow
<1>10. QED
  BY <1>2, <1>5, <1>6, <1>7, <1>8, <1>9 DEF WorkerInv

\* What every call may count on.
LEMMA WorkerFacts ==
  WorkerInv =>
    /\ worker \in Roll /\ hired \in 0..MaxWorker /\ hired \in Nat
    /\ \A w \in Worker : worker[w] # None => worker[w] \in Row /\ w <= hired
    /\ \A w \in reported : w \in Worker /\ (worker[w] # None => worker[w].contract)
    /\ \A w \in reported : w <= hired
BY DEF WorkerInv, WorkerTypeOK, WorkerShape, HiredInOrder, SavedMeansBoth, Roll

\* The contract's call of a save.
LEMMA ContractOfSave ==
  ASSUME NEW c \in SaveCall, NEW w \in Worker
  PROVE  [c EXCEPT !.kind = "contract", !.id = w] \in ContractCall
BY DEF SaveCall, ContractCall

LEMMA CreatedKeeps ==
  ASSUME WorkerInv, Place' = Place, NEW c \in calls, Created(c)
  PROVE  WorkerInv'
<1> DEFINE n == hired + 1
<1> DEFINE row == [nid |-> c.nid, by |-> c.no, status |-> "ACTIVE", contract |-> FALSE, token |-> 0]
<1> DEFINE d == [c EXCEPT !.kind = "contract", !.id = n]
<1>1. /\ c.kind = "save" /\ hired < MaxWorker /\ hired' = n /\ worker' = [worker EXCEPT ![n] = row]
      /\ calls' = (calls \ {c}) \cup {d}
      /\ Invalidated({WholeList}, calls \ {c})
      /\ UNCHANGED <<active, stored, page, dialog, left, rostered, roll, link, wform, visit, suspect, share, reported, clash, foreign>>
  BY DEF Created, ThenContract, officeVars, localVars, workerHistory
<1>2. n \in Nat /\ n \in Worker /\ n \in 0..MaxWorker /\ hired <= n /\ ~(n <= hired)
  BY <1>1, WorkerFacts, WorkerBounds DEF Worker
<1>3. c \in SaveCall
  BY <1>1, CallKinds
<1>4. row \in Row /\ row.contract = FALSE
  <2>1. c.nid \in Nat /\ c.no \in Nat
    BY <1>3 DEF SaveCall
  <2>2. QED
    BY <2>1 DEF Row
<1>5. d \in ContractCall
  BY <1>2, <1>3, ContractOfSave
<1> HIDE DEF n, row, d
<1>6. worker' \in Roll /\ \A w \in Worker : worker'[w] = IF w = n THEN row ELSE worker[w]
  BY <1>1, <1>2, <1>4, WorkerFacts DEF Roll
<1>7. links[n] = None /\ n \notin reported /\ worker[n] = None
  BY <1>2 DEF WorkerInv, HiredInOrder
<1>8. ASSUME NEW w \in Worker, worker'[w] # None
      PROVE  /\ (worker[w] # None /\ worker'[w].token = worker[w].token) \/ w \in {WholeList} \/ links[w] = None
             /\ w <= hired'
  <2>1. CASE w = n
    BY <1>1, <1>2, <1>7, <2>1
  <2>2. CASE w # n
    <3>1. w \in Nat /\ worker'[w] = worker[w] /\ w <= hired
      BY <1>6, <1>8, <2>2, WorkerFacts, WorkerBounds
    <3>2. QED
      BY <1>1, <1>2, <1>8, <3>1, WorkerFacts
  <2>3. QED
    BY <2>1, <2>2
<1>9. \A w \in reported' : w <= hired' /\ (worker'[w] # None => worker'[w].contract)
  <2>1. \A w \in reported : w \in Worker /\ w \in Nat /\ w # n /\ w <= hired
    BY <1>7, WorkerFacts, WorkerBounds
  <2>2. QED
    BY <1>1, <1>2, <1>6, <2>1, WorkerFacts
<1>10. {WholeList} \in SUBSET (Worker \cup {WholeList}) /\ calls \ {c} \subseteq calls' /\ calls' \subseteq (calls \ {c}) \cup ContractCall
  BY <1>1, <1>5
<1>11. \A w \in rostered : worker[w] # None => worker'[w] # None
  BY <1>6, <1>4, WorkerBounds DEF WorkerInv, WorkerTypeOK
<1>12. reported' \subseteq Worker /\ hired' \in 0..MaxWorker /\ hired <= hired'
  BY <1>1, <1>2, WorkerFacts
<1>13. QED
  BY <1>1, <1>6, <1>8, <1>9, <1>10, <1>11, <1>12, AnswerKeeps

\* An answer that leaves the rows, or writes to one of a worker that stays.
LEMMA RowAnswerKeeps ==
  ASSUME WorkerInv, Place' = Place, NEW c \in calls, NEW ts \in SUBSET (Worker \cup {WholeList}),
         Invalidated(ts, calls \ {c}),
         UNCHANGED <<hired, rostered, roll, link, wform, visit, share, page, foreign>>,
         dialog' = "share" => dialog = "share",
         calls \ {c} \subseteq calls', calls' \subseteq (calls \ {c}) \cup ContractCall,
         worker' \in Roll,
         \A w \in Worker :
           \/ worker'[w] = worker[w]
           \/ worker'[w] = None /\ w \notin rostered
           \/ worker[w] # None /\ worker'[w] # None /\ (worker'[w].token = worker[w].token \/ w \in ts)
                /\ (worker[w].contract => worker'[w].contract),
         reported' = reported \/ (c.kind = "contract" /\ worker[c.id] # None /\ worker'[c.id].contract /\ reported' = reported \cup {c.id}),
         suspect' \in {suspect, None}
           \/ (suspect' = c /\ c.kind = "delete" /\ c.id \in rostered /\ worker[c.id] # None)
  PROVE  WorkerInv'
<1>1. \A w \in Worker :
        worker'[w] # None =>
          /\ (worker[w] # None /\ worker'[w].token = worker[w].token) \/ w \in ts \/ links[w] = None
          /\ w <= hired'
  BY WorkerFacts
<1>2. \A w \in rostered : worker[w] # None => worker'[w] # None
  BY DEF WorkerInv, WorkerTypeOK
<1>3. c.kind = "contract" => c.id \in Worker
  BY CallKinds
<1>4. reported' \subseteq Worker
  BY <1>3, WorkerFacts
<1>5. \A w \in reported : w <= hired' /\ (worker'[w] # None => worker'[w].contract)
  BY WorkerFacts
<1>6. c.kind = "contract" /\ worker[c.id] # None => c.id <= hired
  BY <1>3, WorkerFacts
<1>7. \A w \in reported' : w <= hired' /\ (worker'[w] # None => worker'[w].contract)
  BY <1>5, <1>6
<1>8. hired' \in 0..MaxWorker /\ hired <= hired'
  BY WorkerFacts
<1>9. QED
  BY <1>1, <1>2, <1>4, <1>7, <1>8, AnswerKeeps

LEMMA UpdatedKeeps ==
  ASSUME WorkerInv, Place' = Place, NEW c \in calls, Updated(c)
  PROVE  WorkerInv'
<1> DEFINE d == [c EXCEPT !.kind = "contract", !.id = c.id]
<1>1. /\ c.kind = "save" /\ c.id # None /\ worker[c.id] # None
      /\ worker' = [worker EXCEPT ![c.id].by = c.no]
      /\ calls' = (calls \ {c}) \cup {d}
      /\ Invalidated({c.id, WholeList}, calls \ {c})
      /\ UNCHANGED <<page, dialog, hired, rostered, roll, link, wform, visit, suspect, share, reported, foreign>>
  BY DEF Updated, ThenContract, officeVars, localVars, workerHistory
<1>2. c \in SaveCall /\ c.id \in Worker
  BY <1>1, CallKinds
<1>3. d \in ContractCall
  BY <1>2, ContractOfSave, Zenon
<1> HIDE DEF d
<1>4. PICK r \in Row : worker' = [worker EXCEPT ![c.id] = r] /\ r.token = worker[c.id].token /\ r.contract = worker[c.id].contract
  <2> DEFINE r == [worker[c.id] EXCEPT !.by = c.no]
  <2>1. worker[c.id] \in Row /\ c.no \in Nat
    BY <1>1, <1>2, WorkerFacts DEF SaveCall
  <2>2. r \in Row /\ r.token = worker[c.id].token /\ r.contract = worker[c.id].contract
    BY <2>1, RowWrites, Zenon
  <2>3. worker' = [worker EXCEPT ![c.id] = r]
    BY <1>1
  <2> HIDE DEF r
  <2>4. QED
    BY <2>2, <2>3
<1>5. worker' \in Roll /\ worker'[c.id] = r /\ r # None /\ \A w \in Worker : w # c.id => worker'[w] = worker[w]
  BY <1>2, <1>4, RowReplaced, WorkerFacts, WorkerBounds
<1>6. {c.id, WholeList} \in SUBSET (Worker \cup {WholeList})
  BY <1>2
<1>7. QED
  BY <1>1, <1>3, <1>4, <1>5, <1>6, RowAnswerKeeps

LEMMA ContractSavedKeeps ==
  ASSUME WorkerInv, Place' = Place, NEW c \in calls, ContractSaved(c)
  PROVE  WorkerInv'
<1>1. /\ c.kind = "contract" /\ worker[c.id] # None
      /\ worker' = [worker EXCEPT ![c.id].contract = TRUE] /\ reported' = reported \cup {c.id}
      /\ calls' = calls \ {c} /\ dialog' = "none"
      /\ Invalidated({c.id}, calls \ {c})
      /\ UNCHANGED <<page, hired, rostered, roll, link, wform, visit, suspect, share, foreign>>
  BY DEF ContractSaved, Answered, DialogClosed, localVars
<1>2. c.id \in Worker
  BY <1>1, CallKinds
<1>3. PICK r \in Row : worker' = [worker EXCEPT ![c.id] = r] /\ r.token = worker[c.id].token /\ r.contract
  <2> DEFINE r == [worker[c.id] EXCEPT !.contract = TRUE]
  <2>1. worker[c.id] \in Row /\ 0 \in Nat
    BY <1>1, <1>2, WorkerFacts
  <2>2. r \in Row /\ r.token = worker[c.id].token /\ r.contract
    BY <2>1, RowWrites, Zenon
  <2>3. worker' = [worker EXCEPT ![c.id] = r]
    BY <1>1
  <2> HIDE DEF r
  <2>4. QED
    BY <2>2, <2>3
<1>4. worker' \in Roll /\ worker'[c.id] = r /\ r # None /\ \A w \in Worker : w # c.id => worker'[w] = worker[w]
  BY <1>2, <1>3, RowReplaced, WorkerFacts, WorkerBounds
<1>5. {c.id} \in SUBSET (Worker \cup {WholeList})
  BY <1>2
<1>6. QED
  BY <1>1, <1>3, <1>4, <1>5, RowAnswerKeeps

\* Answers that leave the rows.
LEMMA OtherAnswersKeep ==
  ASSUME WorkerInv, Place' = Place, NEW c \in calls,
         Duplicate(c) \/ SaveFailed(c) \/ HasHistory(c) \/ DeleteFailed(c)
  PROVE  WorkerInv'
<1>1. PICK ts \in SUBSET (Worker \cup {WholeList}) : Invalidated(ts, calls \ {c})
  <2>1. CASE Duplicate(c)
    <3>1. {WholeList} \in SUBSET (Worker \cup {WholeList}) /\ Invalidated({WholeList}, calls \ {c})
      BY <2>1 DEF Duplicate, Answered
    <3>2. QED
      BY <3>1
  <2>2. CASE SaveFailed(c)
    <3> DEFINE of == IF c.kind = "contract" THEN {c.id} ELSE {c.id, WholeList} \ {None}
    <3>1. Invalidated(of, calls \ {c}) /\ c.kind \in {"save", "contract"}
      BY <2>2 DEF SaveFailed, Answered
    <3>2. of \in SUBSET (Worker \cup {WholeList})
      BY <3>1, CallKinds
    <3>3. QED
      BY <3>1, <3>2
  <2>3. CASE HasHistory(c) \/ DeleteFailed(c)
    <3>1. Invalidated({c.id, WholeList}, calls \ {c}) /\ c.kind = "delete"
      BY <2>3 DEF HasHistory, DeleteFailed, Answered
    <3>2. {c.id, WholeList} \in SUBSET (Worker \cup {WholeList})
      BY <3>1, CallKinds
    <3>3. QED
      BY <3>1, <3>2
  <2>4. QED
    BY <2>1, <2>2, <2>3
<1>2. /\ calls' = calls \ {c} /\ (dialog' = "share" => dialog = "share")
      /\ UNCHANGED <<page, worker, hired, rostered, roll, link, wform, visit, share, reported, foreign>>
      /\ suspect' = suspect \/ (suspect' = c /\ c.kind = "delete" /\ c.id \in rostered /\ worker[c.id] # None)
  BY DEF Duplicate, SaveFailed, HasHistory, DeleteFailed, Answered, DialogOpened, officeVars, staffVars, localVars, workerHistory
<1>3. worker' \in Roll /\ \A w \in Worker : worker'[w] = worker[w]
  BY <1>2, WorkerFacts
<1>4. QED
  BY <1>1, <1>2, <1>3, RowAnswerKeeps

LEMMA RemovedKeeps ==
  ASSUME WorkerInv, Place' = Place, NEW c \in calls, Removed(c)
  PROVE  WorkerInv'
<1>1. /\ c.kind = "delete" /\ worker[c.id] # None /\ c.id \notin rostered
      /\ worker' = [worker EXCEPT ![c.id] = None] /\ calls' = calls \ {c}
      /\ Invalidated({c.id, WholeList}, calls \ {c})
      /\ UNCHANGED <<page, dialog, hired, rostered, roll, link, wform, visit, suspect, share, reported, foreign>>
  BY DEF Removed, Answered, officeVars, localVars, workerHistory
<1>2. c.id \in Worker
  BY <1>1, CallKinds
<1>3. worker' \in Roll /\ worker'[c.id] = None /\ \A w \in Worker : w # c.id => worker'[w] = worker[w]
  BY <1>1, <1>2, WorkerFacts DEF Roll
<1>4. {c.id, WholeList} \in SUBSET (Worker \cup {WholeList})
  BY <1>2
<1>5. QED
  BY <1>1, <1>3, <1>4, RowAnswerKeeps

\* The row of a worker with history is still there.
LEMMA DeactivatedKeeps ==
  ASSUME WorkerInv, Place' = Place, NEW c \in calls, Deactivated(c)
  PROVE  WorkerInv'
<1> DEFINE gone == [worker EXCEPT ![c.id] = [@ EXCEPT !.by = c.row.by, !.status = "INACTIVE"]]
<1>1. /\ c.kind = "deactivate" /\ calls' = calls \ {c} /\ dialog' = "none"
      /\ worker' = gone \/ worker' = worker
      /\ suspect' \in {suspect, None}
      /\ Invalidated({c.id, WholeList}, calls \ {c})
      /\ UNCHANGED <<page, hired, rostered, roll, link, wform, visit, share, reported, foreign>>
  BY DEF Deactivated, Answered, DialogClosed, workerHistory
<1>2. c \in DeactivateCall /\ c.id \in Worker /\ worker[c.id] # None
  BY <1>1, CallKinds DEF WorkerInv, SuspectRemains
<1>3. c.row.by \in Nat
  BY <1>2 DEF DeactivateCall, Row
<1>4. PICK r \in Row : gone = [worker EXCEPT ![c.id] = r] /\ r.token = worker[c.id].token /\ r.contract = worker[c.id].contract
  <2> DEFINE r == [worker[c.id] EXCEPT !.by = c.row.by, !.status = "INACTIVE"]
  <2>1. worker[c.id] \in Row
    BY <1>2, WorkerFacts
  <2>2. r \in Row /\ r.token = worker[c.id].token /\ r.contract = worker[c.id].contract
    BY <1>3, <2>1, RowWrites, Zenon
  <2>3. gone = [worker EXCEPT ![c.id] = r]
    OBVIOUS
  <2> HIDE DEF r
  <2>4. QED
    BY <2>2, <2>3
<1> HIDE DEF gone
<1>5. worker' = gone => worker' \in Roll /\ worker'[c.id] = r /\ r # None /\ \A w \in Worker : w # c.id => worker'[w] = worker[w]
  BY <1>2, <1>4, RowReplaced, WorkerFacts, WorkerBounds
<1>6. worker' \in Roll
  BY <1>1, <1>5, WorkerFacts
<1>7. {c.id, WholeList} \in SUBSET (Worker \cup {WholeList})
  BY <1>2
<1>8. \A w \in Worker :
        \/ worker'[w] = worker[w]
        \/ worker[w] # None /\ worker'[w] # None /\ worker'[w].token = worker[w].token /\ (worker[w].contract => worker'[w].contract)
  BY <1>1, <1>2, <1>4, <1>5
<1>9. QED
  BY <1>1, <1>6, <1>7, <1>8, RowAnswerKeeps

LEMMA RotatedKeeps ==
  ASSUME WorkerInv, Place' = Place, NEW c \in calls, Rotated(c)
  PROVE  WorkerInv'
<1> DEFINE turned == [worker EXCEPT ![c.id].token = @ + 1]
<1>1. /\ c.kind = "rotate" /\ calls' = calls \ {c}
      /\ (worker[c.id] # None /\ worker' = turned) \/ worker' = worker
      /\ Invalidated({c.id}, calls \ {c})
      /\ UNCHANGED <<page, dialog, hired, rostered, roll, link, wform, visit, suspect, share, reported, foreign>>
  BY DEF Rotated, Answered, officeVars, localVars, workerHistory
<1>2. c.id \in Worker
  BY <1>1, CallKinds
<1>3. ASSUME worker[c.id] # None
      PROVE  \E r \in Row : turned = [worker EXCEPT ![c.id] = r] /\ r.contract = worker[c.id].contract
  <2> DEFINE r == [worker[c.id] EXCEPT !.token = @ + 1]
  <2>1. worker[c.id] \in Row /\ 0 \in Nat
    BY <1>2, <1>3, WorkerFacts
  <2>2. r \in Row /\ r.contract = worker[c.id].contract
    BY <2>1, RowWrites, Zenon
  <2>3. turned = [worker EXCEPT ![c.id] = r]
    OBVIOUS
  <2> HIDE DEF r
  <2>4. QED
    BY <2>2, <2>3
<1> HIDE DEF turned
<1>4. worker[c.id] # None /\ worker' = turned =>
        /\ worker' \in Roll /\ worker'[c.id] # None /\ worker'[c.id].contract = worker[c.id].contract
        /\ \A w \in Worker : w # c.id => worker'[w] = worker[w]
  BY <1>2, <1>3, RowReplaced, WorkerFacts, WorkerBounds
<1>5. worker' \in Roll
  BY <1>1, <1>4, WorkerFacts
<1>6. {c.id} \in SUBSET (Worker \cup {WholeList})
  BY <1>2
<1>7. \A w \in Worker :
        \/ worker'[w] = worker[w]
        \/ worker[w] # None /\ worker'[w] # None /\ w \in {c.id} /\ (worker[w].contract => worker'[w].contract)
  BY <1>1, <1>2, <1>4
<1>8. QED
  BY <1>1, <1>5, <1>6, <1>7, RowAnswerKeeps

-----------------------------------------------------------------------------
(* The Workers page: clicks, and the answers that fill its cache *)

\* A step that leaves the rows, by what it does to the page and its cache.
LEMMA ClientKeeps ==
  ASSUME WorkerInv, UNCHANGED <<staffVars, workerHistory>>,
         roll' # None => roll' \in Roll, reading' \notin {None, Sent} => reading' \in Roll,
         wform' \in [id : Worker \cup {None}, nid : Nat, no : Nat], visit' \in Nat,
         share' \in Worker \cup {None}, fetchingLinks' \subseteq Worker, tags' \subseteq Worker \cup {WholeList},
         calls' \subseteq WorkerCall, suspect' # None => suspect' \in DeleteCall,
         links' \in [Worker -> Nat \cup {None}],
         \A w \in Worker : links'[w] # None => links[w] # None \/ w <= hired,
         SuspectRemains', HeldForPending', LinksAreFresh', SharedOnPage', LinkIsCached'
  PROVE  WorkerInv'
<1>1. WorkerShape'
  BY DEF WorkerInv, WorkerShape, staffVars, workerHistory
<1>2. WorkerTypeOK'
  <2>1. \A d \in calls' : d.kind \in {"save", "contract", "delete", "deactivate", "rotate"}
    BY DEF WorkerCall, SaveCall, ContractCall, DeleteCall, DeactivateCall, RotateCall
  <2>2. wform'.id \in Worker \cup {None} /\ (suspect' = None \/ suspect'.id \in Worker)
    BY DEF DeleteCall
  <2>3. QED
    BY <2>1, <2>2 DEF WorkerInv, WorkerTypeOK, staffVars
<1>3. HiredInOrder' /\ SavedMeansBoth'
  BY DEF WorkerInv, HiredInOrder, SavedMeansBoth, staffVars, workerHistory
<1>4. QED
  BY <1>1, <1>2, <1>3 DEF WorkerInv

\* What every such step may count on.
LEMMA ClientFacts ==
  WorkerInv =>
    /\ roll # None => roll \in Roll
    /\ reading \notin {None, Sent} => reading \in Roll
    /\ wform \in [id : Worker \cup {None}, nid : Nat, no : Nat] /\ wform.no \in Nat /\ visit \in Nat
    /\ share \in Worker \cup {None} /\ fetchingLinks \subseteq Worker /\ tags \subseteq Worker \cup {WholeList}
    /\ calls \subseteq WorkerCall /\ (suspect # None => suspect \in DeleteCall)
    /\ links \in [Worker -> Nat \cup {None}]
    /\ SuspectRemains /\ HeldForPending /\ LinksAreFresh /\ SharedOnPage /\ LinkIsCached
BY DEF WorkerInv, WorkerTypeOK, WorkerShape

LEMMA RollReadKeeps == WorkerInv /\ Place' = Place /\ RollRead => WorkerInv'
<1> SUFFICES ASSUME WorkerInv, Place' = Place, RollRead PROVE WorkerInv'
  OBVIOUS
<1>1. /\ reading = Sent /\ reading' = worker
      /\ UNCHANGED <<page, dialog, staffVars, workerHistory, worker, hired, rostered, roll, tags, links, fetchingLinks, link,
                     wform, visit, suspect, share, calls, reported, foreign>>
  BY DEF RollRead, officeVars, staffVars, localVars, workerHistory
<1>2. worker \in Roll /\ worker # None
  BY WorkerFacts, WorkerBounds
<1>3. SuspectRemains' /\ HeldForPending' /\ LinksAreFresh' /\ SharedOnPage' /\ LinkIsCached'
  BY <1>1, <1>2, ClientFacts DEF SuspectRemains, HeldForPending, LinksAreFresh, SharedOnPage, PagesNow, LinkIsCached, Shows
<1>4. QED
  BY <1>1, <1>2, <1>3, ClientFacts, ClientKeeps

LEMMA RollArrivedKeeps == WorkerInv /\ Place' = Place /\ RollArrived => WorkerInv'
<1> SUFFICES ASSUME WorkerInv, Place' = Place, RollArrived PROVE WorkerInv'
  OBVIOUS
<1> DEFINE idle == calls = {} /\ fetchingLinks = {}
<1>1. /\ reading \notin {None, Sent} /\ roll' = reading
      /\ Settled(tags, idle, reading, links, fetchingLinks)
      /\ ~idle => reading' = None
      /\ UNCHANGED <<page, dialog, staffVars, workerHistory, worker, hired, rostered, link,
                     wform, visit, suspect, share, calls, reported, foreign>>
  BY DEF RollArrived, officeVars, staffVars, localVars, workerHistory
<1>2. /\ idle => fetchingLinks = {}
      /\ ~idle => calls # {} \/ fetchingLinks # {}
  OBVIOUS
<1> HIDE DEF idle
<1>3. /\ tags' \subseteq Worker \cup {WholeList} /\ fetchingLinks' \subseteq Worker /\ reading' \in {None, Sent}
      /\ links' \in [Worker -> Nat \cup {None}]
      /\ idle => tags' = {}
      /\ ~idle => tags' = tags /\ fetchingLinks' = fetchingLinks
      /\ \A w \in Worker :
           /\ links'[w] # None => links'[w] = links[w]
           /\ links'[w] # None /\ w \in tags => w \in tags' \/ w \in fetchingLinks'
           /\ w \in fetchingLinks => w \in fetchingLinks'
  <2>1. CASE idle
    <3>1. Released(tags, reading, links)
      BY <1>1, <2>1 DEF Settled
    <3>2. QED
      BY <1>2, <2>1, <3>1, ReleasedKeeps, ClientFacts
  <2>2. CASE ~idle
    BY <1>1, <2>2, ClientFacts DEF Settled
  <2>3. QED
    BY <2>1, <2>2
<1>4. HeldForPending' /\ LinksAreFresh'
  BY <1>1, <1>2, <1>3, ClientFacts DEF HeldForPending, LinksAreFresh
<1>5. SuspectRemains' /\ SharedOnPage' /\ LinkIsCached'
  BY <1>1, <1>3, ClientFacts DEF SuspectRemains, SharedOnPage, PagesNow, LinkIsCached, Shows
<1>6. QED
  BY <1>1, <1>3, <1>4, <1>5, ClientFacts, ClientKeeps

LEMMA LinkFetchedKeeps ==
  ASSUME WorkerInv, Place' = Place, NEW w \in Worker, LinkFetched(w)
  PROVE  WorkerInv'
<1> DEFINE got == IF worker[w] # None THEN [links EXCEPT ![w] = worker[w].token] ELSE links
<1> DEFINE idle == calls = {} /\ reading = None /\ fetchingLinks = {w}
<1>1. /\ w \in fetchingLinks
      /\ Settled(tags, idle, roll, got, fetchingLinks \ {w})
      /\ ~idle => reading' = reading
      /\ link' = IF w \in Watched /\ got[w] # None THEN [of |-> w, token |-> got[w]] ELSE link
      /\ UNCHANGED <<page, dialog, staffVars, workerHistory, worker, hired, rostered, roll,
                     wform, visit, suspect, share, calls, reported, foreign>>
  BY DEF LinkFetched, officeVars, staffVars, localVars, workerHistory
<1>2. /\ idle => fetchingLinks = {w}
      /\ ~idle => calls # {} \/ reading # None \/ fetchingLinks \ {w} # {}
  BY <1>1
<1>3. /\ got \in [Worker -> Nat \cup {None}]
      /\ worker[w] # None => got[w] = worker[w].token /\ w <= hired
      /\ worker[w] = None => got[w] = links[w]
      /\ \A v \in Worker : v # w => got[v] = links[v]
  <2>1. worker[w] # None => worker[w].token \in Nat
    BY WorkerFacts DEF Row
  <2>2. QED
    BY <2>1, ClientFacts, WorkerFacts
<1> HIDE DEF idle, got
<1>4. /\ tags' \subseteq Worker \cup {WholeList} /\ fetchingLinks' \subseteq Worker
      /\ reading' \notin {None, Sent} => reading' \in Roll
      /\ links' \in [Worker -> Nat \cup {None}]
      /\ idle => tags' = {}
      /\ ~idle => tags' = tags /\ fetchingLinks' = fetchingLinks \ {w} /\ reading' = reading
      /\ \A v \in Worker :
           /\ links'[v] # None => links'[v] = got[v]
           /\ links'[v] # None /\ v \in tags => v \in tags' \/ v \in fetchingLinks'
           /\ v \in fetchingLinks /\ v # w => v \in fetchingLinks'
  <2>1. CASE idle
    <3>1. Released(tags, roll, got)
      BY <1>1, <2>1 DEF Settled
    <3>2. QED
      BY <1>2, <1>3, <2>1, <3>1, ReleasedKeeps, ClientFacts
  <2>2. CASE ~idle
    BY <1>1, <1>3, <2>2, ClientFacts DEF Settled
  <2>3. QED
    BY <2>1, <2>2
<1>5. HeldForPending'
  BY <1>1, <1>2, <1>4 DEF HeldForPending
<1>6. LinksAreFresh'
  BY <1>1, <1>3, <1>4, ClientFacts DEF LinksAreFresh
<1>7. LinkIsCached'
  <2> SUFFICES ASSUME Shows("share")', share # None, links'[share] # None
               PROVE  link' = [of |-> share, token |-> links'[share]] \/ share \in fetchingLinks'
    BY <1>1 DEF LinkIsCached
  <2>1. share \in Worker /\ Watched = {share} /\ Shows("share")
    BY <1>1, ClientFacts DEF Watched, Shows
  <2>2. CASE share = w
    BY <1>1, <1>4, <2>1, <2>2
  <2>3. CASE share # w
    BY <1>1, <1>3, <1>4, <2>1, <2>3, ClientFacts DEF LinkIsCached
  <2>4. QED
    BY <2>2, <2>3
<1>8. SuspectRemains' /\ SharedOnPage'
  BY <1>1, ClientFacts DEF SuspectRemains, SharedOnPage, PagesNow
<1>9. \A v \in Worker : links'[v] # None => links[v] # None \/ v <= hired
  BY <1>3, <1>4
<1>10. QED
  BY <1>1, <1>4, <1>5, <1>6, <1>7, <1>8, <1>9, ClientFacts, ClientKeeps

\* A click, by what it changes: the form, the calls or the question.
LEMMA ClickKeeps ==
  ASSUME WorkerInv, Place' = Place,
         UNCHANGED <<page, staffVars, rollVars, visit, workerHistory>>, share' \in {share, None},
         dialog' = "share" => dialog = "share",
         wform' \in [id : Worker \cup {None}, nid : Nat, no : Nat],
         calls \subseteq calls',
         \A c \in calls' : c \in calls \/ (c \in WorkerCall /\ (c.kind = "deactivate" => suspect # None /\ c.id = suspect.id)),
         suspect' \in {suspect, None}
  PROVE  WorkerInv'
<1>1. UNCHANGED <<page, worker, hired, rostered, roll, reading, tags, links, fetchingLinks, link, visit, foreign>>
  BY DEF staffVars, rollVars, workerHistory
<1>2. SuspectRemains'
  BY <1>1, ClientFacts DEF SuspectRemains
<1>3. HeldForPending' /\ LinksAreFresh'
  BY <1>1, ClientFacts DEF HeldForPending, LinksAreFresh
<1>4. SharedOnPage' /\ LinkIsCached'
  BY <1>1, ClientFacts DEF SharedOnPage, PagesNow, LinkIsCached, Shows
<1>5. calls' \subseteq WorkerCall /\ share' \in Worker \cup {None}
  BY ClientFacts
<1>6. UNCHANGED staffVars /\ UNCHANGED workerHistory
  OBVIOUS
<1>7. QED
  BY <1>1, <1>2, <1>3, <1>4, <1>5, <1>6, ClientFacts, ClientKeeps

LEMMA OpenWorkerKeeps ==
  ASSUME WorkerInv, Place' = Place, NEW w \in Worker \cup {None}, OpenWorker(w)
  PROVE  WorkerInv'
<1>1. /\ roll # None /\ (w # None => roll[w] # None)
      /\ wform' = [id |-> w, nid |-> IF w = None THEN wform.no + 1 ELSE roll[w].nid, no |-> wform.no + 1]
      /\ dialog' = "workerForm"
      /\ UNCHANGED <<page, staffVars, rollVars, visit, calls, suspect, share, workerHistory>>
  BY DEF OpenWorker, OnPage, Listed, DialogOpened
<1>2. w # None => roll[w].nid \in Nat
  <2>1. w # None => roll[w] \in Row
    BY <1>1, ClientFacts DEF Roll
  <2>2. QED
    BY <2>1 DEF Row
<1>3. wform.no + 1 \in Nat
  BY ClientFacts
<1>4. wform' \in [id : Worker \cup {None}, nid : Nat, no : Nat]
  BY <1>1, <1>2, <1>3
<1>5. UNCHANGED <<page, staffVars, rollVars, visit, workerHistory>> /\ share' \in {share, None} /\ suspect' \in {suspect, None}
  BY <1>1
<1>6. calls' = calls
  BY <1>1
<1>7. QED
  BY <1>1, <1>4, <1>5, <1>6, ClickKeeps

LEMMA DialogClicksKeep ==
  WorkerInv /\ Place' = Place /\ (CloseWorker \/ CancelDeactivate \/ CloseShare) => WorkerInv'
<1> SUFFICES ASSUME WorkerInv, Place' = Place, CloseWorker \/ CancelDeactivate \/ CloseShare PROVE WorkerInv'
  OBVIOUS
<1>1. /\ UNCHANGED <<page, staffVars, rollVars, visit, workerHistory>> /\ share' \in {share, None}
      /\ dialog' = "none" /\ wform' = wform /\ calls' = calls /\ suspect' \in {suspect, None}
  BY DEF CloseWorker, CancelDeactivate, CloseShare, DialogClosed, localVars
<1>2. QED
  BY <1>1, ClientFacts, ClickKeeps

\* A call is sent.
LEMMA CallClicksKeep ==
  ASSUME WorkerInv, Place' = Place,
         SubmitWorker \/ ConfirmDeactivate \/ Rotate \/ \E w \in Worker : ClickDelete(w)
  PROVE  WorkerInv'
<1>1. PICK c \in WorkerCall : calls' = calls \cup {c} /\ (c.kind = "deactivate" => suspect # None /\ c.id = suspect.id)
  <2>1. CASE SubmitWorker
    <3> DEFINE c == [kind |-> "save", id |-> wform.id, nid |-> wform.nid, no |-> wform.no, visit |-> visit]
    <3>1. calls' = calls \cup {c} /\ c.kind = "save"
      BY <2>1 DEF SubmitWorker
    <3>2. c \in WorkerCall
      BY ClientFacts DEF WorkerCall, SaveCall
    <3> HIDE DEF c
    <3>3. QED
      BY <3>1, <3>2
  <2>2. CASE ConfirmDeactivate
    <3> DEFINE c == [suspect EXCEPT !.kind = "deactivate"]
    <3>1. calls' = calls \cup {c} /\ suspect # None /\ suspect \in DeleteCall
      BY <2>2, ClientFacts DEF ConfirmDeactivate
    <3>2. c \in DeactivateCall /\ c.id = suspect.id
      BY <3>1 DEF DeleteCall, DeactivateCall
    <3> HIDE DEF c
    <3>3. QED
      BY <3>1, <3>2 DEF WorkerCall
  <2>3. CASE Rotate
    <3> DEFINE c == [kind |-> "rotate", id |-> share, visit |-> visit]
    <3>1. calls' = calls \cup {c} /\ share \in Worker /\ c.kind = "rotate"
      BY <2>3, ClientFacts DEF Rotate
    <3>2. c \in WorkerCall
      BY <3>1, ClientFacts DEF WorkerCall, RotateCall
    <3> HIDE DEF c
    <3>3. QED
      BY <3>1, <3>2
  <2>4. ASSUME NEW w \in Worker, ClickDelete(w)
        PROVE  \E c \in WorkerCall : calls' = calls \cup {c} /\ (c.kind = "deactivate" => suspect # None /\ c.id = suspect.id)
    <3> DEFINE c == [kind |-> "delete", id |-> w, row |-> roll[w], visit |-> visit]
    <3>1. calls' = calls \cup {c} /\ roll # None /\ roll[w] # None /\ c.kind = "delete"
      BY <2>4 DEF ClickDelete, Listed, OnPage
    <3>2. roll[w] \in Row
      BY <3>1, ClientFacts DEF Roll
    <3>3. c \in WorkerCall
      BY <3>2, ClientFacts DEF WorkerCall, DeleteCall
    <3> HIDE DEF c
    <3>4. QED
      BY <3>1, <3>3
  <2>5. QED
    BY <2>1, <2>2, <2>3, <2>4
<1>2. UNCHANGED <<page, dialog, staffVars, rollVars, visit, share, workerHistory>> /\ UNCHANGED wform /\ UNCHANGED suspect
  BY DEF SubmitWorker, ConfirmDeactivate, Rotate, ClickDelete, officeVars, localVars
<1>3. UNCHANGED <<page, staffVars, rollVars, visit, workerHistory>> /\ share' \in {share, None} /\ suspect' \in {suspect, None}
  BY <1>2
<1>4. calls \subseteq calls'
      /\ \A d \in calls' : d \in calls \/ (d \in WorkerCall /\ (d.kind = "deactivate" => suspect # None /\ d.id = suspect.id))
  BY <1>1
<1>5. QED
  BY <1>2, <1>3, <1>4, ClientFacts, ClickKeeps

\* A link that is not cached is asked for, so that the dialog shows the cached one or waits.
LEMMA OpenShareKeeps ==
  ASSUME WorkerInv, Place = "pages", Place' = Place, NEW w \in Worker, OpenShare(w)
  PROVE  WorkerInv'
<1>1. /\ page = "workers" /\ share' = w /\ dialog' = "share"
      /\ link' = IF links[w] # None THEN [of |-> w, token |-> links[w]] ELSE link
      /\ fetchingLinks' = IF links[w] # None THEN fetchingLinks ELSE fetchingLinks \cup {w}
      /\ UNCHANGED <<page, staffVars, workerHistory, worker, hired, rostered, roll, reading, tags, links,
                     wform, visit, calls, suspect, reported, foreign>>
  BY DEF OpenShare, Listed, OnPage, DialogOpened, staffVars, workerHistory
<1>2. SuspectRemains' /\ SharedOnPage' /\ LinkIsCached'
  BY <1>1, ClientFacts DEF SuspectRemains, SharedOnPage, PagesNow, LinkIsCached
<1>3. HeldForPending' /\ LinksAreFresh' /\ fetchingLinks' \subseteq Worker
  BY <1>1, ClientFacts DEF HeldForPending, LinksAreFresh
<1>4. QED
  BY <1>1, <1>2, <1>3, ClientFacts, ClientKeeps

\* Another planner's writes count as foreign.
LEMMA MeanwhileKeeps ==
  ASSUME WorkerInv, Place' = Place, NEW w \in Worker, Meanwhile(w)
  PROVE  WorkerInv'
<1>1. /\ worker[w] # None /\ foreign' = foreign \cup {w}
      /\ UNCHANGED <<page, dialog, hired, rostered, roll, reading, tags, links, fetchingLinks, link,
                     wform, visit, suspect, share, calls, reported>>
  BY DEF Meanwhile, rollVars, localVars
<1>2. worker[w] \in Row
  BY <1>1, WorkerFacts
<1>3. PICK r \in Row \cup {None} :
        /\ worker' = [worker EXCEPT ![w] = r]
        /\ r = None => w \notin rostered
        /\ r # None => (worker[w].contract => r.contract)
  <2>1. CASE worker' = [worker EXCEPT ![w].by = 99]
    <3> DEFINE r == [worker[w] EXCEPT !.by = 99]
    <3>1. 99 \in Nat
      OBVIOUS
    <3>2. r \in Row /\ r.contract = worker[w].contract
      BY <1>2, <3>1, RowWrites, Zenon
    <3>3. worker' = [worker EXCEPT ![w] = r]
      BY <2>1
    <3> HIDE DEF r
    <3>4. QED
      BY <3>2, <3>3, WorkerBounds
  <2>2. CASE w \notin rostered /\ worker' = [worker EXCEPT ![w] = None]
    BY <2>2
  <2>3. CASE worker' = [worker EXCEPT ![w].token = @ + 1]
    <3> DEFINE r == [worker[w] EXCEPT !.token = @ + 1]
    <3>1. 0 \in Nat
      OBVIOUS
    <3>2. r \in Row /\ r.contract = worker[w].contract
      BY <1>2, <3>1, RowWrites, Zenon
    <3>3. worker' = [worker EXCEPT ![w] = r]
      BY <2>3
    <3> HIDE DEF r
    <3>4. QED
      BY <3>2, <3>3, WorkerBounds
  <2>4. QED
    BY <2>1, <2>2, <2>3 DEF Meanwhile
<1>4. worker' \in Roll /\ worker'[w] = r /\ \A v \in Worker : v # w => worker'[v] = worker[v]
  BY <1>3, RowReplaced, WorkerFacts
<1>5. WorkerShape'
  BY <1>1, <1>4 DEF WorkerInv, WorkerShape
<1>6. WorkerTypeOK'
  BY <1>1, <1>4 DEF WorkerInv, WorkerTypeOK, Roll
<1>7. HiredInOrder' /\ SavedMeansBoth'
  BY <1>1, <1>3, <1>4, WorkerFacts DEF WorkerInv, HiredInOrder, SavedMeansBoth
<1>8. SuspectRemains'
  <2>1. \A v \in rostered : worker[v] # None => worker'[v] # None
    BY <1>3, <1>4 DEF WorkerInv, WorkerTypeOK
  <2>2. QED
    BY <1>1, <2>1, ClientFacts DEF SuspectRemains
<1>9. HeldForPending' /\ LinksAreFresh' /\ SharedOnPage' /\ LinkIsCached'
  BY <1>1, <1>4, ClientFacts DEF HeldForPending, LinksAreFresh, SharedOnPage, PagesNow, LinkIsCached, Shows
<1>10. QED
  BY <1>5, <1>6, <1>7, <1>8, <1>9 DEF WorkerInv

LEMMA WorkerKeeps ==
  ASSUME WorkerInv, Place = "pages", Place' = Place, WorkerNext
  PROVE  WorkerInv'
<1>1. ASSUME NEW w \in Worker, LinkFetched(w) \/ OpenWorker(w) \/ ClickDelete(w) \/ OpenShare(w) \/ Meanwhile(w)
      PROVE  WorkerInv'
  BY <1>1, LinkFetchedKeeps, OpenWorkerKeeps, CallClicksKeep, OpenShareKeeps, MeanwhileKeeps
<1>2. ASSUME NEW c \in calls, \/ Created(c) \/ Duplicate(c) \/ Updated(c) \/ ContractSaved(c) \/ SaveFailed(c)
                              \/ Removed(c) \/ HasHistory(c) \/ DeleteFailed(c) \/ Deactivated(c) \/ Rotated(c)
      PROVE  WorkerInv'
  BY <1>2, CreatedKeeps, UpdatedKeeps, ContractSavedKeeps, OtherAnswersKeep, RemovedKeeps, DeactivatedKeeps, RotatedKeeps
<1>3. None \in Worker \cup {None}
  OBVIOUS
<1>4. QED
  BY <1>1, <1>2, <1>3, RollReadKeeps, RollArrivedKeeps, OpenWorkerKeeps, DialogClicksKeep, CallClicksKeep DEF WorkerNext

\* All that the other components see of a step of the Workers page.
LEMMA WorkerQuiet ==
  ASSUME WorkerNext, dialog \in Dialog
  PROVE  /\ UNCHANGED <<active, stored, page>> /\ dialog' \in Dialog
         /\ dialog' = "companyForm" => dialog = "companyForm"
<1> USE DEF officeVars, DialogOpened, DialogClosed, Dialog
<1>1. ASSUME NEW w \in Worker, LinkFetched(w) \/ OpenWorker(w) \/ ClickDelete(w) \/ OpenShare(w) \/ Meanwhile(w)
      PROVE  /\ UNCHANGED <<active, stored, page>> /\ dialog' \in Dialog
             /\ dialog' = "companyForm" => dialog = "companyForm"
  BY <1>1 DEF LinkFetched, OpenWorker, ClickDelete, OpenShare, Meanwhile
<1>2. ASSUME NEW c \in calls, Created(c) \/ Duplicate(c) \/ Updated(c) \/ ContractSaved(c) \/ SaveFailed(c)
      PROVE  /\ UNCHANGED <<active, stored, page>> /\ dialog' \in Dialog
             /\ dialog' = "companyForm" => dialog = "companyForm"
  BY <1>2 DEF Created, Duplicate, Updated, ContractSaved, SaveFailed
<1>3. ASSUME NEW c \in calls, Removed(c) \/ HasHistory(c) \/ DeleteFailed(c) \/ Deactivated(c) \/ Rotated(c)
      PROVE  /\ UNCHANGED <<active, stored, page>> /\ dialog' \in Dialog
             /\ dialog' = "companyForm" => dialog = "companyForm"
  BY <1>3 DEF Removed, HasHistory, DeleteFailed, Deactivated, Rotated
<1>4. CASE RollRead \/ RollArrived \/ OpenWorker(None) \/ CloseWorker \/ SubmitWorker
  BY <1>4 DEF RollRead, RollArrived, OpenWorker, CloseWorker, SubmitWorker
<1>5. CASE ConfirmDeactivate \/ CancelDeactivate \/ CloseShare \/ Rotate
  BY <1>5 DEF ConfirmDeactivate, CancelDeactivate, CloseShare, Rotate
<1>6. QED
  BY <1>1, <1>2, <1>3, <1>4, <1>5 DEF WorkerNext

\* The page as it is drawn, left or behind another one: a gate's step reaches it so.
LEMMA GateKeepsWorkers ==
  ASSUME WorkerInv, UNCHANGED <<staffVars, calls, workerHistory>>, dialog' = "share" => dialog = "share",
         CASE PagesNext("workers") /\ ~PagesNow("workers") -> PageMounts
           [] PagesNow("workers") /\ ~PagesNext("workers") -> PageUnmounts
           [] OTHER -> UNCHANGED <<rollVars, localVars>>
  PROVE  WorkerInv'
<1> USE DEF staffVars, rollVars, localVars, workerHistory
<1>1. PagesNow("workers")' <=> PagesNext("workers")
  BY DEF PagesNow, PagesNext, Place
<1>2. CASE PagesNext("workers") /\ ~PagesNow("workers")
  <2>1. /\ reading' = IF roll = None THEN Sent ELSE reading
        /\ UNCHANGED <<roll, tags, links, fetchingLinks, link, wform, visit, suspect, share>>
    BY <1>2 DEF PageMounts
  <2>2. share = None
    BY <1>2, ClientFacts DEF SharedOnPage
  <2>3. SuspectRemains' /\ HeldForPending' /\ LinksAreFresh' /\ SharedOnPage' /\ LinkIsCached'
    BY <2>1, <2>2, ClientFacts, WorkerBounds DEF SuspectRemains, HeldForPending, LinksAreFresh, SharedOnPage, LinkIsCached
  <2>4. QED
    BY <2>1, <2>3, ClientFacts, ClientKeeps
<1>3. CASE PagesNow("workers") /\ ~PagesNext("workers")
  <2>1. /\ visit' = visit + 1 /\ wform' = [id |-> None, nid |-> wform.no + 1, no |-> wform.no + 1]
        /\ suspect' = None /\ share' = None
        /\ UNCHANGED <<roll, reading, tags, links, fetchingLinks>>
    BY <1>3 DEF PageUnmounts, PageForgotten
  <2>2. wform.no + 1 \in Nat /\ visit + 1 \in Nat
    BY ClientFacts
  <2>3. SuspectRemains' /\ HeldForPending' /\ LinksAreFresh' /\ SharedOnPage' /\ LinkIsCached'
    BY <2>1, ClientFacts DEF SuspectRemains, HeldForPending, LinksAreFresh, SharedOnPage, LinkIsCached
  <2>4. QED
    BY <2>1, <2>2, <2>3, ClientFacts, ClientKeeps
<1>4. CASE PagesNow("workers") <=> PagesNext("workers")
  <2>1. UNCHANGED <<roll, reading, tags, links, fetchingLinks, link, wform, visit, suspect, share>>
    BY <1>4
  <2>2. share # None => PagesNow("workers") /\ PagesNext("workers")
    BY <1>4, ClientFacts DEF SharedOnPage
  <2>3. share # None => page = "workers" /\ page' = "workers"
    BY <2>2 DEF PagesNow, PagesNext
  <2>4. SuspectRemains' /\ HeldForPending' /\ LinksAreFresh'
    BY <2>1, ClientFacts DEF SuspectRemains, HeldForPending, LinksAreFresh
  <2>5. SharedOnPage' /\ LinkIsCached'
    BY <1>1, <2>1, <2>2, <2>3, ClientFacts DEF SharedOnPage, LinkIsCached, Shows, HomeOf
  <2>6. QED
    BY <2>1, <2>4, <2>5, ClientFacts, ClientKeeps
<1>5. QED
  BY <1>2, <1>3, <1>4

LEMMA WorkersUntouched ==
  ASSUME WorkerInv, UNCHANGED workerVars, Place' = Place, page' = page, dialog' = dialog
  PROVE  WorkerInv'
<1> USE DEF workerVars, staffVars, rollVars, localVars, workerHistory
<1>1. SuspectRemains' /\ HeldForPending' /\ LinksAreFresh' /\ SharedOnPage' /\ LinkIsCached'
  BY ClientFacts DEF SuspectRemains, HeldForPending, LinksAreFresh, SharedOnPage, PagesNow, LinkIsCached, Shows
<1>2. QED
  BY <1>1, ClientFacts, ClientKeeps

\* Nothing of the client is left.
LEMMA ReloadKeepsWorkers == WorkerInv /\ StaffForgotten => WorkerInv'
<1> SUFFICES ASSUME WorkerInv, StaffForgotten PROVE WorkerInv'
  OBVIOUS
<1>1. /\ visit' = visit + 1 /\ wform' = [id |-> None, nid |-> wform.no + 1, no |-> wform.no + 1]
      /\ suspect' = None /\ share' = None
      /\ roll' = None /\ reading' = None /\ tags' = {} /\ fetchingLinks' = {} /\ calls' = {}
      /\ links' = [w \in Worker |-> None]
      /\ UNCHANGED <<staffVars, workerHistory>>
  BY DEF StaffForgotten, PageForgotten
<1>2. wform.no + 1 \in Nat /\ visit + 1 \in Nat
  BY ClientFacts
<1>3. links' \in [Worker -> Nat \cup {None}] /\ \A w \in Worker : links'[w] = None
  BY <1>1
<1>4. SuspectRemains' /\ HeldForPending' /\ LinksAreFresh' /\ SharedOnPage' /\ LinkIsCached'
  BY <1>1, <1>3 DEF SuspectRemains, HeldForPending, LinksAreFresh, SharedOnPage, LinkIsCached
<1>5. QED
  BY <1>1, <1>2, <1>3, <1>4, ClientKeeps

LEMMA WorkersStart ==
  ASSUME WorkerInit, left.rostered \subseteq SUBSET Worker
  PROVE  WorkerInv
<1> USE DEF WorkerInit
<1>1. hired \in 0..MaxWorker /\ hired \in Nat
  BY WorkerBounds
<1>2. worker \in Roll
  <2>1. \A w \in Worker : 100 + w \in Nat
    BY WorkerBounds
  <2>2. \A w \in Worker : [nid |-> 100 + w, by |-> 0, status |-> "ACTIVE", contract |-> TRUE, token |-> 0] \in Row
    BY <2>1 DEF Row
  <2>3. QED
    BY <2>2 DEF Roll
<1>3. WorkerShape /\ WorkerTypeOK
  BY <1>1, <1>2, WorkerBounds DEF WorkerShape, WorkerTypeOK, Roll
<1>4. \A w \in Worker : worker[w] # None => w <= hired
  BY <1>1, WorkerBounds
<1>5. QED
  BY <1>3, <1>4 DEF WorkerInv, HiredInOrder, SuspectRemains, SavedMeansBoth, HeldForPending, LinksAreFresh, SharedOnPage, LinkIsCached

-----------------------------------------------------------------------------
(* The tab *)

\* What the pages see of a step of the gate or the Companies page.
LEMMA CompanyQuiet == CompanyNext => (dialog' = "share" => dialog = "share")
<1> SUFFICES ASSUME CompanyNext, dialog' = "share" PROVE dialog = "share"
  OBVIOUS
<1> USE DEF officeVars, DialogOpened, DialogClosed
<1>1. ASSUME NEW s \in subs, Posted(s) \/ NotPosted(s) \/ Put(s) \/ Edited(s) \/ Deleted(s) \/ DeleteRefused(s) \/ DeleteLost(s)
      PROVE  dialog = "share"
  <2>1. CASE Posted(s) \/ NotPosted(s)
    BY <2>1 DEF Posted, NotPosted
  <2>2. CASE Put(s)
    BY <2>2 DEF Put, SavedCreation
  <2>3. CASE Edited(s)
    BY <2>3 DEF Edited
  <2>4. CASE Deleted(s) \/ DeleteRefused(s) \/ DeleteLost(s)
    BY <2>4 DEF Deleted, DeleteRefused, DeleteLost
  <2>5. QED
    BY <1>1, <2>1, <2>2, <2>3, <2>4
<1>2. ASSUME NEW c \in Company, Choose(c) \/ RowsFetched(c) \/ OpenEdit(c) \/ RequestDelete(c)
      PROVE  dialog = "share"
  BY <1>2 DEF Choose, RowsFetched, OpenEdit, RequestDelete
<1>3. CASE ListFetched \/ SubmitForm \/ SubmitWelcome \/ ConfirmDelete \/ CancelDelete \/ Elsewhere
  BY <1>3 DEF ListFetched, SubmitForm, SubmitWelcome, ConfirmDelete, CancelDelete, Elsewhere
<1>4. CASE OpenCreate \/ Dismiss
  BY <1>4 DEF OpenCreate, CreateButton, Dismiss, CloseForm
<1>5. ASSUME NEW p \in Page, Navigate(p)
      PROVE  dialog = "share"
  BY <1>5 DEF Navigate
<1>6. QED
  BY <1>1, <1>2, <1>3, <1>4, <1>5 DEF CompanyNext

\* All that the other components see of a step of the grid or its table.
LEMMA GridQuiet == GridNext => UNCHANGED <<active, stored, page, dialog>>
<1> SUFFICES ASSUME GridNext PROVE UNCHANGED <<active, stored, page, dialog>>
  OBVIOUS
<1> USE DEF officeVars
<1>1. ASSUME NEW p \in Call, DeleteBegins(p) \/ DeleteEnds(p) \/ Insert(p) \/ Commit(p) \/ Crash(p)
      PROVE  UNCHANGED <<active, stored, page, dialog>>
  BY <1>1 DEF DeleteBegins, DeleteEnds, Insert, Commit, Crash
<1>2. ASSUME NEW w \in Member, Move(w) \/ EditRow(w)
      PROVE  UNCHANGED <<active, stored, page, dialog>>
  BY <1>2 DEF Move, EditRow
<1>3. ASSUME NEW p \in Call, NEW s \in GridScope, NEW body \in Payloads(s[2]), PutElsewhere(p, s[2], body, s[1])
      PROVE  UNCHANGED <<active, stored, page, dialog>>
  BY <1>3 DEF PutElsewhere
<1>4. CASE Discard \/ SaveAnswered \/ (\E p \in Call : Save(p)) \/ (\E m \in GridMonth : SetGridMonth(m))
           \/ \E f \in fetches : GridRead(f) \/ GridArrived(f)
  BY <1>4 DEF Discard, SaveAnswered, Save, SetGridMonth, GridRead, GridArrived
<1>5. QED
  BY <1>1, <1>2, <1>3, <1>4 DEF GridNext, TableNext

LEMMA ViewQuiet == ViewNext => UNCHANGED <<active, stored, page, dialog>>
<1> USE DEF officeVars
<1>1. ASSUME NEW r \in asked, Refused(r) \/ Broken(r) \/ Headers(r) \/ Body(r)
      PROVE  UNCHANGED <<active, stored, page, dialog>>
  BY <1>1 DEF Refused, Broken, Headers, Body
<1>2. ASSUME NEW m \in ViewMonth, SetMonth(m)
      PROVE  UNCHANGED <<active, stored, page, dialog>>
  BY <1>2 DEF SetMonth
<1>3. PlannerActs => UNCHANGED <<active, stored, page, dialog>>
  BY DEF PlannerActs
<1>4. QED
  BY <1>1, <1>2, <1>3 DEF ViewNext

\* The steps of the grid, and of the gate that rescopes or mounts it.
LEMMA GridKeeps ==
  ASSUME OfficeTypeOK, MonthInv, GridInv, GridNext
  PROVE  GridInv'
<1>1. CASE TableNext /\ UNCHANGED gridVars
  BY <1>1, GridUntouched
<1>2. CASE Discard \/ SaveAnswered
  BY <1>2, DiscardKeeps, SaveAnsweredKeeps
<1>3. ASSUME NEW w \in Member, EditRow(w)
      PROVE  GridInv'
  BY <1>3, EditRowKeeps
<1>4. ASSUME NEW p \in Call, Save(p)
      PROVE  GridInv'
  BY <1>4, SaveKeeps
<1>5. ASSUME NEW m \in GridMonth, SetGridMonth(m)
      PROVE  GridInv'
  BY <1>5, SetGridMonthKeeps
<1>6. ASSUME NEW f \in fetches, GridRead(f) \/ GridArrived(f)
      PROVE  GridInv'
  BY <1>6, GridReadKeeps, GridArrivedKeeps
<1>7. QED
  BY <1>1, <1>2, <1>3, <1>4, <1>5, <1>6 DEF GridNext

LEMMA GateKeepsGrid ==
  ASSUME GridInv, CompanyTypeOK', month' = month,
         CASE PagesNext("roster") /\ ~PagesNow("roster") -> GridMounts(<<active', month>>)
           [] PagesNext("roster") /\ PagesNow("roster") /\ active' # active -> Rescoped(<<active', month>>)
           [] OTHER -> UNCHANGED <<data, months, fetches, stale, draft, edits, saving, message>>
  PROVE  GridInv'
<1>1. PagesNext("roster") => active' \in Company
  BY DEF PagesNext, PlaceOf, CompanyTypeOK
<1>2. PagesNext("roster") => <<active', month>> \in GridScope
  BY <1>1 DEF GridScope, GridInv, GridTypeOK
<1>3. month' \in GridMonth
  BY DEF GridInv, GridTypeOK
<1>4. CASE GridMounts(<<active', month>>) /\ PagesNext("roster")
  BY <1>2, <1>3, <1>4, ScopeKeeps
<1>5. CASE Rescoped(<<active', month>>) /\ PagesNext("roster")
  BY <1>2, <1>3, <1>5, ScopeKeeps
<1>6. CASE UNCHANGED <<data, months, fetches, stale, draft, edits, saving, message>>
  BY <1>6, GridUntouched DEF gridVars
<1>7. QED
  BY <1>4, <1>5, <1>6

LEMMA ReloadKeepsGrid == GridInv /\ MonthInv /\ GridForgotten => GridInv' /\ MonthInv'
<1> SUFFICES ASSUME GridInv, MonthInv, GridForgotten PROVE GridInv' /\ MonthInv'
  OBVIOUS
<1> USE DEF GridForgotten, Reset
<1>1. meddled' \in BOOLEAN
  BY DEF MonthInv, MonthTypeOK
<1>2. MonthInv'
  BY <1>1, MonthUntouched
<1>3. IsCache(months') /\ AreFetches(fetches')
  BY DEF IsCache, AreFetches
<1>4. QED
  BY <1>2, <1>3 DEF GridInv, GridTypeOK, GridShape, DraftIsOfData

LEMMA GridStarts == GridInit => GridInv
<1> SUFFICES ASSUME GridInit PROVE GridInv
  OBVIOUS
<1> USE DEF GridInit
<1>1. month \in GridMonth
  BY MonthAssumption
<1>2. IsCache(months) /\ AreFetches(fetches)
  BY DEF IsCache, AreFetches
<1>3. QED
  BY <1>1, <1>2 DEF GridInv, GridTypeOK, GridShape, DraftIsOfData

LEMMA OfficeStarts == Init => IInv
<1> SUFFICES ASSUME Init PROVE IInv
  OBVIOUS
<1>1. left \in Session
  BY DEF Init, OfficeInit
<1>2. /\ left.start \in Page /\ left.stored \subseteq Company \cup {None}
      /\ left.companies \in 0..MaxCompany
      /\ left.rostered \subseteq SUBSET Worker
      /\ left.employer \subseteq [Member -> Company \cup {None}]
      /\ left.table \subseteq SUBSET [worker : Member, month : GridMonth, value : Nat, by : {0}]
      /\ left.good \subseteq BOOLEAN /\ left.published \subseteq SUBSET ViewMonth
  BY <1>1, SessionAssumption
<1>3. CompanyInv /\ WorkerInv /\ MonthInv /\ GridInv /\ ViewInv
  BY <1>2, CompanyStarts, WorkersStart, MonthStarts, GridStarts, ViewStarts DEF Init
<1>4. QED
  BY <1>3 DEF IInv

\* A step of each component keeps the invariants of all.
LEMMA OfficeKeeps == IInv /\ [Next]_vars => IInv'
<1> SUFFICES ASSUME IInv, [Next]_vars PROVE IInv'
  OBVIOUS
<1>1. CompanyInv /\ WorkerInv /\ MonthInv /\ GridInv /\ ViewInv /\ OfficeTypeOK /\ dialog \in Dialog
  BY DEF IInv, CompanyInv, OfficeTypeOK
<1>2. CASE Gate
  <2>1. /\ CompanyNext /\ UNCHANGED <<month, staffVars, calls, workerHistory, monthVars, viewVars>>
        /\ CASE PagesNext("roster") /\ ~PagesNow("roster") -> GridMounts(<<active', month>>)
             [] PagesNext("roster") /\ PagesNow("roster") /\ active' # active -> Rescoped(<<active', month>>)
             [] OTHER -> UNCHANGED <<data, months, fetches, stale, draft, edits, saving, message>>
        /\ CASE PagesNext("workers") /\ ~PagesNow("workers") -> PageMounts
             [] PagesNow("workers") /\ ~PagesNext("workers") -> PageUnmounts
             [] OTHER -> UNCHANGED <<rollVars, localVars>>
    BY <1>2 DEF Gate, Gated
  <2>2. CompanyInv' /\ CompanyTypeOK'
    BY <1>1, <2>1, CompanyKeeps DEF CompanyInv
  <2>3. WorkerInv'
    BY <1>1, <2>1, CompanyQuiet, GateKeepsWorkers
  <2>4. MonthInv'
    <3>1. UNCHANGED <<employer, rowsOf, put, raced>> /\ meddled' \in BOOLEAN
      BY <1>1, <2>1 DEF monthVars, MonthInv, MonthTypeOK
    <3>2. QED
      BY <1>1, <3>1, MonthUntouched
  <2>5. GridInv'
    BY <1>1, <2>1, <2>2, GateKeepsGrid
  <2>6. ViewInv'
    BY <1>1, <2>1, ViewUntouched
  <2>7. QED
    BY <2>2, <2>3, <2>4, <2>5, <2>6 DEF IInv
<1>3. CASE Restart
  <2>1. Reload /\ StaffForgotten /\ GridForgotten /\ UNCHANGED viewVars
    BY <1>3 DEF Restart
  <2>2. QED
    BY <1>1, <2>1, CompanyKeeps, ReloadKeepsWorkers, ReloadKeepsGrid, ViewUntouched DEF IInv
<1>4. CASE Workers
  <2>1. Place = "pages" /\ WorkerNext /\ UNCHANGED <<companyVars, monthVars, gridVars, viewVars>>
    BY <1>4 DEF Workers, InPages
  <2>2. UNCHANGED <<active, stored, page>> /\ dialog' \in Dialog /\ (dialog' = "companyForm" => dialog = "companyForm")
    BY <1>1, <2>1, WorkerQuiet
  <2>3. Place' = Place
    BY <2>1, <2>2 DEF Place, companyVars, cacheVars
  <2>4. CompanyInv'
    BY <1>1, <2>1, <2>2, CompanyUntouched
  <2>5. WorkerInv'
    BY <1>1, <2>1, <2>3, WorkerKeeps
  <2>6. MonthInv'
    <3>1. UNCHANGED <<employer, rowsOf, put, raced>> /\ meddled' \in BOOLEAN
      BY <1>1, <2>1 DEF monthVars, MonthInv, MonthTypeOK
    <3>2. QED
      BY <1>1, <3>1, MonthUntouched
  <2>7. GridInv' /\ ViewInv'
    BY <1>1, <2>1, GridUntouched, ViewUntouched
  <2>8. QED
    BY <2>4, <2>5, <2>6, <2>7 DEF IInv
<1>5. CASE Availability
  <2>1. Place = "pages" /\ GridNext /\ UNCHANGED <<companyVars, workerVars, viewVars>>
    BY <1>5 DEF Availability, InPages
  <2>2. UNCHANGED <<active, stored, page, dialog>>
    BY <2>1, GridQuiet
  <2>3. Place' = Place
    BY <2>1, <2>2 DEF Place, companyVars, cacheVars
  <2>4. CompanyInv'
    BY <1>1, <2>1, <2>2, CompanyUntouched
  <2>5. WorkerInv'
    BY <1>1, <2>1, <2>2, <2>3, WorkersUntouched
  <2>6. MonthInv' /\ GridInv'
    BY <1>1, <2>1, GridKeepsTable, GridKeeps
  <2>7. ViewInv'
    BY <1>1, <2>1, ViewUntouched
  <2>8. QED
    BY <2>4, <2>5, <2>6, <2>7 DEF IInv
<1>6. CASE Schedule \/ UNCHANGED vars
  <2>1. UNCHANGED <<companyVars, workerVars, monthVars, gridVars, active, stored, page, dialog>>
    BY <1>6, ViewQuiet DEF Schedule, vars, officeVars
  <2>2. Place' = Place
    BY <2>1 DEF Place, companyVars, cacheVars
  <2>3. CompanyInv' /\ WorkerInv'
    BY <1>1, <2>1, <2>2, CompanyUntouched, WorkersUntouched
  <2>4. MonthInv'
    <3>1. UNCHANGED <<employer, rowsOf, put, raced>> /\ meddled' \in BOOLEAN
      BY <1>1, <2>1 DEF monthVars, MonthInv, MonthTypeOK
    <3>2. QED
      BY <1>1, <3>1, MonthUntouched
  <2>5. GridInv'
    BY <1>1, <2>1, GridUntouched
  <2>6. ViewInv'
    BY <1>1, <1>6, ViewKeeps, ViewUntouched DEF Schedule, vars
  <2>7. QED
    BY <2>3, <2>4, <2>5, <2>6 DEF IInv
<1>7. QED
  BY <1>2, <1>3, <1>4, <1>5, <1>6 DEF Next

\* The invariants of the five components hold together.  Code: the back office's pages
\* behind their gate, and the public page.
THEOREM InductiveInvariant == Spec => []IInv
<1>1. QED
  BY OfficeStarts, OfficeKeeps, PTL DEF Spec

\* Every variable of the tab and its tables has its type.
THEOREM TypeCorrect == Spec => []TypeOK
<1>1. IInv => TypeOK
  BY DEF IInv, CompanyInv, WorkerInv, MonthInv, GridInv, ViewInv, TypeOK
<1>2. QED
  BY <1>1, InductiveInvariant, PTL

\* One company for each form, the one a retry saves requirements to is the open form's,
\* requirements before it is made active, a contract before success is told: whatever is
\* lost, late, repeated or reloaded.  Code: handleSubmit of CompanyFormModal and
\* WorkerFormModal, ActiveCompanyGate.
THEOREM SavesStayWhole == Spec => []SavesAreWhole
<1>1. IInv => SavesAreWhole
  <2> SUFFICES ASSUME IInv PROVE SavesAreWhole
    OBVIOUS
  <2>1. OneCompanyPerOpening /\ CreatedIsUsable /\ SavedMeansBoth
    BY DEF IInv, CompanyInv, OpeningInv, WorkerInv
  <2>2. RetryIsForOpening
    BY DEF IInv, CompanyInv, OpeningInv, CreatedHere, RetryIsForOpening
  <2>3. QED
    BY <2>1, <2>2 DEF SavesAreWhole
<1>2. QED
  BY <1>1, InductiveInvariant, PTL

\* Loaded requirements, an idle share link, the grid's draft once its month is there and
\* the public page are of the company, worker or month they are shown for.  Code: the
\* effects that seed local state in CompanyFormModal, WorkersPage and AvailabilityGrid,
\* and usePublicSchedule.
THEOREM ShownStaysOwn == Spec => []ShownIsOwn
<1>1. IInv => ShownIsOwn
  <2> SUFFICES ASSUME IInv PROVE ShownIsOwn
    OBVIOUS
  <2>1. LoadedMatrixIsOwn /\ ViewIsOfMonthUnlessOvertaken
    BY DEF IInv, CompanyInv, ViewInv
  <2>2. ShownLinkWorks
    <3> SUFFICES ASSUME Shows("share"), share \notin foreign \cup {None}, worker[share] # None,
                        calls = {}, reading = None, fetchingLinks = {}, links[share] # None
                 PROVE  link = [of |-> share, token |-> worker[share].token]
      BY DEF ShownLinkWorks
    <3>1. share \in Worker /\ tags = {}
      BY DEF IInv, WorkerInv, WorkerTypeOK, HeldForPending
    <3>2. links[share] = worker[share].token
      BY <3>1 DEF IInv, WorkerInv, LinksAreFresh
    <3>3. QED
      BY <3>2 DEF IInv, WorkerInv, LinkIsCached
  <2>3. DraftIsOfScope
    BY DEF IInv, GridInv, DraftIsOfData, DraftIsOfScope, Here
  <2>4. QED
    BY <2>1, <2>2, <2>3 DEF ShownIsOwn
<1>2. QED
  BY <1>1, InductiveInvariant, PTL

-----------------------------------------------------------------------------
(* Replacements *)

\* Only its commit answers a call with success.
LEMMA DoneIsCommit ==
  ASSUME MonthInv, GridNext, NEW p \in Call, put[p].at # "done", put'[p].at = "done"
  PROVE  Commit(p)
<1>1. put \in [Call -> PutState]
  BY DEF MonthInv, MonthShape
<1>2. ASSUME NEW q \in Call, DeleteBegins(q) \/ DeleteEnds(q) \/ Insert(q) \/ Crash(q) \/ Commit(q)
      PROVE  Commit(p)
  <2>1. q # p => put'[p] = put[p]
    BY <1>1, <1>2 DEF DeleteBegins, DeleteEnds, Insert, Crash, Commit
  <2>2. q = p
    BY <2>1
  <2>3. put[q] \in PutState
    BY <1>1
  <2>4. CASE DeleteBegins(q)
    <3>1. put'[q].at = "deleting"
      BY <1>1, <2>3, <2>4 DEF DeleteBegins, PutState
    <3>2. QED
      BY <2>2, <3>1
  <2>5. CASE DeleteEnds(q)
    <3>1. put'[q].at = "deleted"
      BY <1>1, <2>3, <2>5 DEF DeleteEnds, PutState
    <3>2. QED
      BY <2>2, <3>1
  <2>6. CASE Insert(q)
    <3>1. put'[q].at \in {"inserted", "failed"}
      BY <1>1, <2>3, <2>6 DEF Insert, PutState
    <3>2. QED
      BY <2>2, <3>1
  <2>7. CASE Crash(q)
    <3>1. put'[q].at = "failed"
      BY <1>1, <2>3, <2>7 DEF Crash, PutState
    <3>2. QED
      BY <2>2, <3>1
  <2>8. QED
    BY <1>2, <2>2, <2>4, <2>5, <2>6, <2>7
<1>3. ASSUME NEW q \in Call, NEW m, NEW body, NEW c, Receive(q, m, body, c)
      PROVE  FALSE
  <2> DEFINE state == [Idle EXCEPT !.at = IF Accepted(m, body, c) THEN "checked" ELSE "refused",
                                   !.company = c, !.month = m, !.body = body]
  <2>1. put' = [put EXCEPT ![q] = state]
    BY <1>3 DEF Receive
  <2>2. state.at \in {"checked", "refused"}
    BY DEF Idle
  <2> HIDE DEF state
  <2>3. QED
    BY <1>1, <2>1, <2>2
<1>4. CASE put' = put
  BY <1>4
<1>5. (\A q \in Call : ~Save(q)) \/ \E q \in Call : \E m, body, c : Receive(q, m, body, c)
  BY DEF Save
<1>6. (\A q \in Call : \A s \in GridScope : \A body \in Payloads(s[2]) : ~PutElsewhere(q, s[2], body, s[1]))
      \/ \E q \in Call : \E m, body, c : Receive(q, m, body, c)
  BY DEF PutElsewhere
<1>7. CASE Discard \/ SaveAnswered \/ (\E w \in Member : EditRow(w) \/ Move(w)) \/ (\E m \in GridMonth : SetGridMonth(m))
           \/ \E f \in fetches : GridRead(f) \/ GridArrived(f)
  <2>1. put' = put
    BY <1>7 DEF Discard, SaveAnswered, EditRow, Move, SetGridMonth, GridRead, GridArrived, monthVars
  <2>2. QED
    BY <1>4, <2>1
<1>8. QED
  BY <1>2, <1>3, <1>5, <1>6, <1>7 DEF GridNext, TableNext

\* A commit that nothing has overlapped leaves its payload and the rows of others.
LEMMA CommitReplaces ==
  ASSUME MonthInv, NEW p \in Call \ raced, Commit(p)
  PROVE  /\ {r \in rowsOf' : r.month = put[p].month /\ employer[r.worker] = put[p].company}
              = {RowOf(e, p) : e \in put[p].body}
         /\ \A r \in rowsOf : r.month # put[p].month \/ employer[r.worker] # put[p].company => r \in rowsOf'
<1> DEFINE made == {RowOf(e, p) : e \in put[p].body}
<1>1. Undisturbed(p) /\ Open(p) /\ put[p].at = "inserted"
  BY DEF MonthInv, Commit, Open
<1>2. /\ rowsOf' = (rowsOf \ RowsToReplace(p)) \cup made
      /\ \A e \in put[p].body : e.month = put[p].month /\ employer[e.worker] = put[p].company
  BY <1>1 DEF Undisturbed, Commit, Accepted
<1>3. \A r \in made : r.month = put[p].month /\ employer[r.worker] = put[p].company
  BY <1>2 DEF RowOf
<1> HIDE DEF made
<1>4. {r \in rowsOf' : r.month = put[p].month /\ employer[r.worker] = put[p].company} = made
  BY <1>2, <1>3 DEF RowsToReplace
<1>5. \A r \in rowsOf : r.month # put[p].month \/ employer[r.worker] # put[p].company => r \in rowsOf'
  BY <1>2 DEF RowsToReplace
<1>6. QED
  BY <1>4, <1>5 DEF made

\* A replacement that is alone leaves exactly its payload for its company and month, and
\* no row of another; for every history of calls before it, crashed ones too.  Code:
\* replaceMonth, deleteMany and createMany.
THEOREM ReplacementsAreExact == Spec => ReplacedAlone
<1> DEFINE Own == \A p \in Call \ raced : Exactly(p)
<1> DEFINE Others == \A p \in Call \ raced :
                       put[p].at # "done" /\ put'[p].at = "done" =>
                         \A r \in rowsOf : r.month # put[p].month \/ employer[r.worker] # put[p].company => r \in rowsOf'
<1>1. IInv /\ [Next]_vars => [Own /\ Others]_monthVars
  <2> SUFFICES ASSUME IInv, [Next]_vars, ~UNCHANGED monthVars PROVE Own /\ Others
    OBVIOUS
  <2>1. Availability \/ UNCHANGED monthVars \/ Restart
    BY DEF Next, Gate, Gated, Workers, InPages, Schedule, vars
  <2>2. MonthInv
    BY DEF IInv
  <2>3. CASE Restart
    <3>1. put' = put
      BY <2>3 DEF Restart, GridForgotten
    <3>2. QED
      BY <3>1 DEF Exactly
  <2>4. CASE Availability
    <3>1. GridNext
      BY <2>4 DEF Availability, InPages
    <3>2. ASSUME NEW p \in Call \ raced, put[p].at # "done", put'[p].at = "done"
          PROVE  /\ {r \in rowsOf' : r.month = put[p].month /\ employer[r.worker] = put[p].company}
                      = {RowOf(e, p) : e \in put[p].body}
                 /\ \A r \in rowsOf : r.month # put[p].month \/ employer[r.worker] # put[p].company => r \in rowsOf'
      BY <2>2, <3>1, <3>2, DoneIsCommit, CommitReplaces
    <3>3. QED
      BY <3>2 DEF Exactly
  <2>5. QED
    BY <2>1, <2>3, <2>4
<1>2. [][Own]_monthVars => ReplacedExactlyAlone
  BY PTL DEF ReplacedExactlyAlone
<1>3. [][Others]_monthVars => OthersAreKept
  BY PTL DEF OthersAreKept
<1>4. [Own /\ Others]_monthVars => [Own]_monthVars /\ [Others]_monthVars
  OBVIOUS
<1> HIDE DEF Own, Others
<1>5. Spec => [][Own]_monthVars /\ [][Others]_monthVars
  BY <1>1, <1>4, InductiveInvariant, PTL DEF Spec
<1>6. QED
  BY <1>2, <1>3, <1>5 DEF ReplacedAlone
=============================================================================
