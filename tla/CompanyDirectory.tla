---------------------------- MODULE CompanyDirectory ----------------------------
(***************************************************************************)
(* Companies and their staffing requirements: the gate in front of every   *)
(* page (ActiveCompanyGate.tsx), the Companies page and its form, and the  *)
(* rows they write (companyService.ts, staffingRequirementService.ts).     *)
(*                                                                         *)
(* Requirements are abstracted to whose they are: the company whose rows   *)
(* the matrix was filled from, or the one it was typed for.  Names are     *)
(* left out; a name that is taken is an answer the server may give.        *)
(***************************************************************************)
EXTENDS BackOffice

VARIABLES
  exists, born,  \* server: companies, and how many were ever created
  rows,          \* server: whose requirements a company has, 0 if it has no rows, or Nobodys
  staffed,       \* server: companies with workers
  list,          \* the cached company list, None before the first answer
  listing,       \* the list is being (re)fetched
  cached,        \* the cached requirements of a company, None if there are none
  loading,       \* companies whose requirements are being fetched
  form,          \* CompanyFormModal: the company edited, the one created, whose matrix it
                 \* shows, and whose rows its query returns (`data' outlives its argument)
  picking,       \* the picker's form is open
  pinned,        \* firstRunCreatedCompany
  pending,       \* pendingDelete
  subs,          \* submissions and deletes not answered yet
  madeBy,        \* history: the opening a company was created in
  chosen,        \* history: companies selected because they were created
  buried,        \* history: companies this tab deleted
  refused,       \* history: companies whose deletion was refused
  crossed        \* history: a form was opened again while its submission was under way

tableVars == <<exists, born, rows, staffed>>
cacheVars == <<list, listing, cached, loading>>
historyVars == <<madeBy, chosen, buried, refused, crossed>>
companyVars == <<tableVars, cacheVars, form, picking, pinned, pending, subs, historyVars>>

\* Zeros, or what was typed for a company that was not created in the end.
Nobodys == MaxCompany + 1

Fresh(no) == [company |-> None, created |-> None, matrix |-> 0, seen |-> None, no |-> no, mount |-> no]

\* The next opening of a form that stays mounted.
Reopened(c, data) ==
  [form EXCEPT !.company = c, !.created = None, !.no = @ + 1, !.seen = data,
               !.matrix = IF c = None \/ data = None THEN 0 ELSE data]

CompanyTypeOK ==
  /\ exists \subseteq 1..born /\ born \in 0..MaxCompany
  /\ rows \in [Company -> 0..Nobodys]
  /\ list = None \/ list \subseteq Company
  /\ cached \in [Company -> 0..Nobodys \cup {None}] /\ loading \subseteq Company
  /\ {form.company, form.created, pinned, pending} \subseteq Company \cup {None}
  /\ form.matrix \in 0..Nobodys
  /\ \A s \in subs : s.kind \in {"post", "put", "edit", "delete"} /\ s.no \in Nat

CompanyInit ==
  /\ born = left.companies
  /\ exists = 1..born
  /\ rows = [c \in Company |-> IF c \in exists THEN c ELSE 0]
  /\ staffed \in left.staffed
  /\ list = None /\ listing = TRUE
  /\ cached = [c \in Company |-> None] /\ loading = {}
  /\ form = Fresh(0)
  /\ picking = FALSE
  /\ pinned = None /\ pending = None
  /\ subs = {}
  /\ madeBy = [c \in Company |-> None]
  /\ chosen = {} /\ buried = {} /\ refused = {}
  /\ crossed = FALSE

-----------------------------------------------------------------------------
(* The gate *)

PlaceOf(a, l, p) ==
  CASE l = None -> "loading"
    [] l # None /\ a \in l -> "pages"
    [] l # None /\ a \notin l /\ (l = {} \/ p # None) -> "welcome"
    [] OTHER -> "picker"
Place == PlaceOf(active, list, pinned)

\* The form is an instance of the page or the picker: a new place has a new one.
Stays == PlaceOf(active', list', pinned') = Place /\ page' = page
Keeps(f) == IF Stays THEN f ELSE Fresh(form.no + 1)
KeepsPending == pending' = IF Stays THEN pending ELSE None

FormOpen == \/ Place = "pages" /\ Shows("companyForm")
            \/ Place = "picker" /\ picking

\* A reload, the second tab's too: the store is read from localStorage again.
Reload ==
  /\ Uses("reload")
  /\ active' = stored /\ DialogClosed
  /\ list' = None /\ listing' = TRUE
  /\ cached' = [c \in Company |-> None] /\ loading' = {}
  /\ form' = Fresh(form.no + 1) /\ picking' = FALSE
  /\ pinned' = None /\ pending' = None /\ subs' = {}
  /\ UNCHANGED <<stored, page, tableVars, historyVars>>

\* A click in the picker, or the select of the top bar.
Choose(c) ==
  /\ list # None /\ c \in list \ {active}
  /\ ~Covered /\ ~FormOpen
  /\ Place \in {"pages", "picker"}
  /\ Uses("switch")
  /\ Selected(c)
  /\ UNCHANGED <<page, dialog, tableVars, cacheVars, picking, pinned, subs, historyVars>>
  /\ KeepsPending /\ form' = Keeps(form)

-----------------------------------------------------------------------------
(* The cache *)

ListFetched ==
  /\ listing
  /\ list' = exists /\ listing' = FALSE
  /\ UNCHANGED <<officeVars, tableVars, cached, loading, picking, pinned, subs, historyVars>>
  /\ KeepsPending /\ form' = Keeps(form)

\* The query's answer fills the matrix of an edit that is open.
RowsFetched(c) ==
  /\ c \in loading
  /\ loading' = loading \ {c}
  /\ cached' = [cached EXCEPT ![c] = rows[c]]
  /\ form' = IF FormOpen /\ form.company = c THEN [form EXCEPT !.seen = rows[c], !.matrix = rows[c]] ELSE form
  /\ UNCHANGED <<officeVars, tableVars, list, listing, picking, pinned, pending, subs, historyVars>>

\* One tag for all matrices: what is open is fetched again, the rest is dropped.
InvalidateRows ==
  LET subscribed == {c \in {form.company} : FormOpen /\ c # None} IN
  /\ cached' = [c \in Company |-> IF c \in subscribed THEN cached[c] ELSE None]
  /\ loading' = loading \cup subscribed

-----------------------------------------------------------------------------
(* Opening and leaving the form *)

Waiting == {s \in subs : s.kind # "delete"}
Outlived == \E s \in Waiting : s.mount = form.mount

CreateButton ==
  \/ Place = "pages" /\ page = "companies" /\ ~Covered /\ DialogOpened("companyForm") /\ UNCHANGED picking
  \/ Place = "picker" /\ ~picking /\ picking' = TRUE /\ UNCHANGED dialog

MutOpenCreate ==
  /\ CreateButton
  /\ Uses("create")
  /\ form' = [Reopened(None, form.seen) EXCEPT !.created = form.created]
  /\ crossed' = (crossed \/ Outlived)
  /\ UNCHANGED <<active, stored, page, tableVars, cacheVars, pinned, pending, subs, madeBy, chosen, buried, refused>>
OpenCreate ==
  /\ CreateButton
  /\ Uses("create")
  /\ form' = Reopened(None, form.seen)
  /\ crossed' = (crossed \/ Outlived)
  /\ UNCHANGED <<active, stored, page, tableVars, cacheVars, pinned, pending, subs, madeBy, chosen, buried, refused>>

\* The seeding effect runs at once with whatever rows the query returns.
MutOpenEdit(c) ==
  /\ Place = "pages" /\ page = "companies" /\ ~Covered /\ c \in list
  /\ Uses("edit")
  /\ DialogOpened("companyForm")
  /\ form' = Reopened(c, form.seen)
  /\ loading' = IF cached[c] # None THEN loading ELSE loading \cup {c}
  /\ crossed' = (crossed \/ Outlived)
  /\ UNCHANGED <<active, stored, page, tableVars, list, listing, cached, picking, pinned, pending, subs,
                 madeBy, chosen, buried, refused>>
OpenEdit(c) ==
  /\ Place = "pages" /\ page = "companies" /\ ~Covered /\ c \in list
  /\ Uses("edit")
  /\ DialogOpened("companyForm")
  /\ form' = Reopened(c, IF cached[c] # None THEN cached[c] ELSE form.seen)
  /\ loading' = IF cached[c] # None THEN loading ELSE loading \cup {c}
  /\ crossed' = (crossed \/ Outlived)
  /\ UNCHANGED <<active, stored, page, tableVars, list, listing, cached, picking, pinned, pending, subs,
                 madeBy, chosen, buried, refused>>

CloseForm ==
  IF Place = "picker" THEN picking' = FALSE /\ UNCHANGED dialog ELSE DialogClosed /\ UNCHANGED picking

\* Escape, the overlay and the cross work while a submission is under way.
Dismiss ==
  /\ FormOpen
  /\ CloseForm
  /\ UNCHANGED <<active, stored, page, left, tableVars, cacheVars, form, pinned, pending, subs, historyVars>>

\* The layout, and the gate in it, survive a change of route; the page does not.
Navigate(p) ==
  /\ p \notin {page, "schedule"}
  /\ Uses("navigate")
  /\ page' = p
  /\ pending' = None
  /\ UNCHANGED <<active, stored, dialog, tableVars, cacheVars, picking, pinned, subs, historyVars>>
  /\ form' = IF Place = "pages" THEN Fresh(form.no + 1) ELSE form

-----------------------------------------------------------------------------
(* Submitting: POST then PUT, or PATCH and PUT together *)

Sub(kind, c, matrix) ==
  [kind |-> kind, company |-> c, matrix |-> matrix, no |-> form.no, mount |-> form.mount, place |-> Place]

\* A matrix of zeros is filled in for the company it is saved to.
Entered(s) == IF s.matrix = 0 THEN s.company ELSE s.matrix

\* Save waits for the rows of an edit; Enter in the name field, the form's only one
\* until they are there, does not.
SubmitForm ==
  /\ FormOpen
  /\ \A s \in Waiting : s.mount # form.mount
  /\ subs' = subs \cup {CASE form.company # None -> Sub("edit", form.company, IF form.seen = None THEN Nobodys ELSE form.matrix)
                          [] form.company = None /\ form.created # None -> Sub("put", form.created, 0)
                          [] OTHER -> Sub("post", None, 0)}
  /\ UNCHANGED <<officeVars, tableVars, cacheVars, form, picking, pinned, pending, historyVars>>

\* The first-run form of the gate itself: its state lives as long as the layout.
SubmitWelcome ==
  /\ Place = "welcome"
  /\ \A s \in Waiting : s.place # "welcome"
  /\ Uses("create")
  /\ subs' = subs \cup {IF pinned = None THEN Sub("post", None, 0) ELSE Sub("put", pinned, 0)}
  /\ UNCHANGED <<active, stored, page, dialog, tableVars, cacheVars, form, picking, pinned, pending, historyVars>>

\* 201: pinned, so that a retry saves only the requirements, which are sent at once.
MutPosted(s) ==
  /\ s \in subs /\ s.kind = "post" /\ born < MaxCompany
  /\ LET c == born + 1 IN
     /\ born' = c /\ exists' = exists \cup {c}
     /\ madeBy' = [madeBy EXCEPT ![c] = s.no]
     /\ subs' = (subs \ {s}) \cup {[s EXCEPT !.kind = "put", !.company = c]}
  /\ listing' = TRUE
  /\ UNCHANGED <<officeVars, rows, staffed, list, cached, loading, form, pinned, picking, pending, chosen, buried, refused, crossed>>
Posted(s) ==
  /\ s \in subs /\ s.kind = "post" /\ born < MaxCompany
  /\ LET c == born + 1 IN
     /\ born' = c /\ exists' = exists \cup {c}
     /\ madeBy' = [madeBy EXCEPT ![c] = s.no]
     /\ subs' = (subs \ {s}) \cup {[s EXCEPT !.kind = "put", !.company = c]}
     /\ pinned' = IF s.place = "welcome" THEN c ELSE pinned
     /\ form' = IF s.place # "welcome" /\ s.mount = form.mount THEN [form EXCEPT !.created = c] ELSE form
  /\ listing' = TRUE
  /\ UNCHANGED <<officeVars, rows, staffed, list, cached, loading, picking, pending, chosen, buried, refused, crossed>>

\* 409, or the call is lost; the list is fetched again all the same.
NotPosted(s) ==
  /\ s \in subs /\ s.kind = "post"
  /\ subs' = subs \ {s}
  /\ listing' = TRUE
  /\ UNCHANGED <<officeVars, tableVars, list, cached, loading, form, picking, pinned, pending, historyVars>>

\* onSaved of the place the submission came from.
SavedCreation(s) ==
  /\ Selected(s.company)
  /\ chosen' = chosen \cup {s.company}
  /\ CASE s.place = "pages" -> DialogClosed /\ UNCHANGED picking
       [] s.place = "picker" -> picking' = FALSE /\ UNCHANGED dialog
       [] OTHER -> UNCHANGED <<dialog, picking>>

MutPut(s) ==
  /\ s \in subs /\ s.kind = "put"
  /\ subs' = subs \ {s}
  /\ InvalidateRows
  /\ \/ s.company \in exists /\ rows' = [rows EXCEPT ![s.company] = Entered(s)]
     \/ UNCHANGED rows
  /\ SavedCreation(s)
  /\ UNCHANGED <<page, left, exists, born, staffed, list, listing, pinned, madeBy, buried, refused, crossed>>
  /\ KeepsPending /\ form' = Keeps(form)
Put(s) ==
  /\ s \in subs /\ s.kind = "put"
  /\ subs' = subs \ {s}
  /\ InvalidateRows
  /\ \/ /\ s.company \in exists
        /\ rows' = [rows EXCEPT ![s.company] = Entered(s)]
        /\ SavedCreation(s)
     \/ UNCHANGED <<active, stored, dialog, picking, rows, chosen>>
  /\ UNCHANGED <<page, left, exists, born, staffed, list, listing, pinned, madeBy, buried, refused, crossed>>
  /\ KeepsPending /\ form' = Keeps(form)

\* Both calls are settled; either may have failed.  Only if neither did is the form closed.
Edited(s) ==
  /\ s \in subs /\ s.kind = "edit"
  /\ subs' = subs \ {s}
  /\ InvalidateRows
  /\ listing' \in {TRUE, listing}
  /\ \/ /\ s.company \in exists
        /\ rows' = [rows EXCEPT ![s.company] = Entered(s)]
        /\ DialogClosed \/ UNCHANGED dialog
     \/ UNCHANGED <<dialog, rows>>
  /\ UNCHANGED <<active, stored, page, left, exists, born, staffed, list, form, picking, pinned, pending, historyVars>>

-----------------------------------------------------------------------------
(* Deleting *)

\* The page counts workers by its own list, which may be behind.
RequestDelete(c) ==
  /\ Place = "pages" /\ page = "companies" /\ ~Covered /\ c \in list
  /\ Uses("delete")
  /\ pending' = c
  /\ DialogOpened("deleteConfirm") \/ (c \in staffed /\ DialogOpened("deleteBlocked"))
  /\ UNCHANGED <<active, stored, page, tableVars, cacheVars, form, picking, pinned, subs, historyVars>>

\* It may be clicked again while the first call is under way.
ConfirmDelete ==
  /\ Place = "pages" /\ Shows("deleteConfirm") /\ pending # None
  /\ subs' = subs \cup {[Sub("delete", pending, 0) EXCEPT !.place = active]}
  /\ UNCHANGED <<officeVars, tableVars, cacheVars, form, picking, pinned, pending, historyVars>>

CancelDelete ==
  /\ Place = "pages" /\ (Shows("deleteConfirm") \/ Shows("deleteBlocked"))
  /\ DialogClosed
  /\ pending' = None
  /\ UNCHANGED <<active, stored, page, left, tableVars, cacheVars, form, picking, pinned, subs, historyVars>>

\* The schema restricts: no worker, no requirement row may be left.
Deletable(c) == c \in exists \ staffed /\ rows[c] = 0

\* `place' is the active company of the click's render.
MutDeleted(s) ==
  /\ s \in subs /\ s.kind = "delete" /\ Deletable(s.company)
  /\ subs' = subs \ {s}
  /\ exists' = exists \ {s.company}
  /\ buried' = buried \cup {s.company}
  /\ DialogClosed /\ pending' = IF s.mount = form.mount THEN None ELSE pending
  /\ IF s.company = s.place THEN Selected(None) ELSE UNCHANGED <<active, stored>>
  /\ UNCHANGED <<page, left, born, rows, staffed, list, listing, cached, loading, picking, pinned, madeBy, chosen, refused, crossed>>
  /\ form' = Keeps(form)
Deleted(s) ==
  /\ s \in subs /\ s.kind = "delete" /\ Deletable(s.company)
  /\ subs' = subs \ {s}
  /\ exists' = exists \ {s.company}
  /\ buried' = buried \cup {s.company}
  /\ DialogClosed /\ pending' = IF s.mount = form.mount THEN None ELSE pending
  /\ IF s.company = s.place THEN Selected(None) ELSE UNCHANGED <<active, stored>>
  /\ listing' = TRUE
  /\ UNCHANGED <<page, left, born, rows, staffed, list, cached, loading, picking, pinned, madeBy, chosen, refused, crossed>>
  /\ form' = Keeps(form)

\* 409, whatever restricted it, says that workers are assigned.
DeleteRefused(s) ==
  /\ s \in subs /\ s.kind = "delete" /\ s.company \in exists /\ ~Deletable(s.company)
  /\ subs' = subs \ {s}
  /\ DialogOpened("deleteBlocked")
  /\ refused' = refused \cup {<<s.company, s.company \in staffed>>}
  /\ listing' = TRUE
  /\ UNCHANGED <<active, stored, page, left, tableVars, list, cached, loading, form, picking, pinned, pending,
                 madeBy, chosen, buried, crossed>>

\* 404, or the call is lost.
DeleteLost(s) ==
  /\ s \in subs /\ s.kind = "delete"
  /\ subs' = subs \ {s}
  /\ DialogClosed
  /\ listing' = TRUE
  /\ UNCHANGED <<active, stored, page, left, tableVars, list, cached, loading, form, picking, pinned, pending, historyVars>>

-----------------------------------------------------------------------------
\* Another planner, and another tab of this browser, which shares localStorage.
Elsewhere ==
  /\ Uses("elsewhere")
  /\ \/ \E c \in Company : Deletable(c) /\ exists' = exists \ {c} /\ UNCHANGED <<born, staffed, stored>>
     \/ born < MaxCompany /\ born' = born + 1 /\ exists' = exists \cup {born'} /\ UNCHANGED <<staffed, stored>>
     \/ \E c \in exists : staffed' = staffed \cup {c} /\ UNCHANGED <<exists, born, stored>>
     \/ \E c \in exists : stored' = c /\ UNCHANGED <<exists, born, staffed>>
  /\ UNCHANGED <<active, page, dialog, rows, cacheVars, form, picking, pinned, pending, subs, historyVars>>

CompanyNext ==
  \/ ListFetched \/ OpenCreate \/ Dismiss \/ SubmitForm \/ SubmitWelcome
  \/ ConfirmDelete \/ CancelDelete \/ Elsewhere
  \/ \E c \in Company : Choose(c) \/ RowsFetched(c) \/ OpenEdit(c) \/ RequestDelete(c)
  \/ \E p \in Page : Navigate(p)
  \/ \E s \in subs : Posted(s) \/ NotPosted(s) \/ Put(s) \/ Edited(s) \/ Deleted(s) \/ DeleteRefused(s) \/ DeleteLost(s)

CompanyFairness == WF_companyVars(ListFetched)

-----------------------------------------------------------------------------
(* Properties *)

\* A submission creates at most one company however often it is retried.  Code: the
\* pinned `createdCompany' and `firstRunCreatedCompany', against late answers.
OneCompanyPerOpening ==
  \A c, d \in Company : madeBy[c] # None /\ madeBy[c] = madeBy[d] => c = d

\* The company a retry saves requirements to was created by the form that is open: a
\* reopened form forgets it, unless it was opened again while the creation was under way.
RetryIsForOpening ==
  FormOpen /\ form.created # None => madeBy[form.created] = form.no \/ crossed

\* A company is made active on its creation only once its requirements are saved.
CreatedIsUsable == \A c \in chosen : rows[c] # 0

\* Once the requirements of the company that is edited are cached, they are the ones
\* shown, although the query returned another company's before.
LoadedMatrixIsOwn ==
  FormOpen /\ form.company # None =>
    cached[form.company] \in {None, form.matrix}

\* A company's requirements are never another's: not so while they are being loaded.
RowsAreOwn == \A c \in Company : rows[c] \in {0, c}

\* A deletion that is refused is one of a company with workers.
RefusedHasWorkers == \A r \in refused : r[2]

\* A company this tab deleted leaves its list, and with it the gate shuts.
DeletedIsGone == \A c \in Company : c \in buried ~> list = None \/ c \notin list
=============================================================================
