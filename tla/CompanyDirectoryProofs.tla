------------------------- MODULE CompanyDirectoryProofs -------------------------
(***************************************************************************)
(* What the gate and the Companies page keep true, step by step, for every *)
(* number of companies and every session: a submission creates at most one *)
(* company however often it is retried, a retry is for the form that is    *)
(* open, and a matrix that has loaded is that of the company edited.       *)
(*                                                                         *)
(* The order of the openings carries it.  A form that is drawn anew has a  *)
(* number above all earlier ones, so that an answer that is late can be    *)
(* told by its number from one that the form still waits for.              *)
(***************************************************************************)
EXTENDS CompanyDirectory, TLAPS

-----------------------------------------------------------------------------
(* The invariant *)

Places == {"loading", "pages", "welcome", "picker"}
Owner == 0..Nobodys
Maybe == Company \cup {None}

Form == [company : Maybe, created : Maybe, matrix : Owner, seen : Owner \cup {None}, no : Nat, mount : Nat]

\* The place of a deletion is the company that was active.
Submission ==
  [kind : {"post", "put", "edit", "delete"}, company : Maybe, matrix : Owner, no : Nat, mount : Nat,
   place : Places \cup Maybe]

\* What the variables are, beyond the type invariants of the run.
CompanyShape ==
  /\ form \in Form
  /\ subs \subseteq Submission
  /\ \A s \in subs : s.kind # "post" => s.company \in Company
  /\ madeBy \in [Company -> Nat \cup {None}]
  /\ chosen \subseteq Company
  /\ crossed \in BOOLEAN

\* Openings are numbered upwards, and a drawn form's are those from its first on.
OpeningsInOrder ==
  /\ form.mount <= form.no
  /\ \A s \in subs :
       /\ s.mount <= s.no /\ s.no <= form.no /\ s.mount <= form.mount
       /\ s.no >= form.mount => s.mount = form.mount

\* No company is of an opening to come.
MadeEarlier == \A c \in Company : madeBy[c] # None => madeBy[c] <= form.no /\ c <= born

\* An opening waits for one creation at most, and for none once it has created.
OnePost ==
  \A s \in subs : s.kind = "post" =>
    /\ \A c \in Company : madeBy[c] # s.no
    /\ \A t \in subs : t.kind = "post" /\ t.no = s.no => t = s

\* The company to retry for was created from this opening.
CreatedHere ==
  form.created # None => form.created <= born /\ (madeBy[form.created] = form.no \/ crossed)

\* What a drawn form waits for was submitted in its last opening.
AwaitedHere == \A s \in Waiting : s.mount = form.mount => s.no = form.no \/ crossed

\* The first-run form is drawn in the form's place and shares its numbers.
WelcomeIsForm ==
  Place = "welcome" /\ pinned = None =>
    /\ form.created = None
    /\ \A s \in Waiting : s.mount = form.mount => s.place = "welcome"
WelcomeStays == \A s \in Waiting : s.place = "welcome" /\ s.mount = form.mount => Place = "welcome"

\* An opening that has created a company knows it.
MadeIsKnown ==
  \A c \in Company : madeBy[c] = form.no => form.created # None \/ (pinned # None /\ Place = "welcome")

\* Only the Companies page edits.
EditedOnPage == form.company # None => Place = "pages" /\ page = "companies"

OpeningInv ==
  /\ OpeningsInOrder /\ MadeEarlier /\ OnePost /\ OneCompanyPerOpening
  /\ CreatedHere /\ AwaitedHere /\ WelcomeIsForm /\ WelcomeStays /\ MadeIsKnown

CompanyInv ==
  /\ OfficeTypeOK /\ CompanyTypeOK /\ CompanyShape
  /\ OpeningInv /\ EditedOnPage /\ LoadedMatrixIsOwn /\ CreatedIsUsable

-----------------------------------------------------------------------------
(* Lemmas about the model's operators *)

\* What the bounds are.
LEMMA Bounds ==
  /\ None \notin Nat /\ MaxCompany \in Nat /\ Nobodys \in Nat
  /\ Company \subseteq Nat /\ Company \subseteq Owner \ {0} /\ 0 \in Owner /\ Nobodys \in Owner \ {0}
BY BackOfficeAssumption DEF Nobodys, Company, Owner

\* There are four places, and a company created in the gate leads to its form or nowhere.
LEMMA PlaceIsOne ==
  ASSUME NEW a, NEW l, NEW p
  PROVE  PlaceOf(a, l, p) \in Places
BY DEF PlaceOf, Places

LEMMA PinnedPlace ==
  ASSUME NEW a, NEW l, NEW p, NEW q, q # None
  PROVE  PlaceOf(a, l, q) = PlaceOf(a, l, p) \/ (PlaceOf(a, l, p) = "picker" /\ PlaceOf(a, l, q) = "welcome")
BY DEF PlaceOf

\* A form that is drawn anew is a form.
LEMMA FreshIsForm ==
  ASSUME NEW n \in Nat
  PROVE  /\ Fresh(n) \in Form
         /\ Fresh(n).no = n /\ Fresh(n).mount = n /\ Fresh(n).created = None /\ Fresh(n).company = None
BY Bounds DEF Fresh, Form, Maybe

\* So is one that is opened again.
LEMMA ReopenedIsForm ==
  ASSUME form \in Form, NEW c \in Maybe, NEW d \in Owner \cup {None}
  PROVE  LET f == Reopened(c, d) IN
         /\ f \in Form /\ f.no = form.no + 1 /\ f.mount = form.mount /\ f.created = None /\ f.company = c
         /\ c # None /\ d # None => f.matrix = d
<1> DEFINE m == IF c = None \/ d = None THEN 0 ELSE d
<1>1. m \in Owner /\ (c # None /\ d # None => m = d) /\ None \in Maybe
  BY Bounds DEF Maybe
<1>2. Reopened(c, d) = [form EXCEPT !.company = c, !.created = None, !.no = @ + 1, !.seen = d, !.matrix = m]
  BY DEF Reopened
<1> HIDE DEF m
<1>3. Reopened(c, d) =
        [company |-> c, created |-> None, matrix |-> m, seen |-> d, no |-> form.no + 1, mount |-> form.mount]
  BY <1>2 DEF Form
<1>4. form.no + 1 \in Nat /\ form.mount \in Nat
  BY DEF Form
<1>5. QED
  BY <1>1, <1>3, <1>4 DEF Form

\* Openings go on as they are when a form is the same and waits for nothing new.
LEMMA SameForm ==
  ASSUME CompanyInv,
         form'.no = form.no, form'.mount = form.mount, form'.created = form.created,
         subs' \subseteq subs, madeBy' = madeBy, pinned' = pinned, crossed' = crossed, Place' = Place,
         born' \in Nat, born <= born'
  PROVE  OpeningInv'
<1>1. /\ born \in Nat /\ form.no \in Nat /\ form.mount \in Nat
      /\ \A s \in subs : s.no \in Nat /\ s.mount \in Nat
      /\ Company \subseteq Nat /\ form.created \in Company \cup {None}
  BY Bounds DEF CompanyInv, CompanyTypeOK, CompanyShape, Form, Submission, Maybe
<1>2. Waiting' \subseteq Waiting
  BY DEF Waiting
<1>3. OpeningsInOrder' /\ OnePost' /\ OneCompanyPerOpening'
  BY DEF CompanyInv, OpeningInv, OpeningsInOrder, OnePost, OneCompanyPerOpening
<1>4. MadeEarlier' /\ CreatedHere' /\ MadeIsKnown'
  <2>1. MadeEarlier'
    BY <1>1 DEF CompanyInv, OpeningInv, MadeEarlier
  <2>2. CreatedHere'
    <3>1. form.created # None => form.created \in Nat
      BY <1>1
    <3>2. CreatedHere /\ (form.created # None => form.created <= born')
      BY <1>1, <3>1 DEF CompanyInv, OpeningInv, CreatedHere
    <3>3. QED
      BY <3>2 DEF CreatedHere
  <2>3. MadeIsKnown'
    BY DEF CompanyInv, OpeningInv, MadeIsKnown
  <2>4. QED
    BY <2>1, <2>2, <2>3
<1>5. AwaitedHere' /\ WelcomeIsForm' /\ WelcomeStays'
  BY <1>2 DEF CompanyInv, OpeningInv, AwaitedHere, WelcomeIsForm, WelcomeStays
<1>6. QED
  BY <1>3, <1>4, <1>5 DEF OpeningInv

\* A form that is drawn anew waits for nothing, and nothing was created in it.
LEMMA NewForm ==
  ASSUME CompanyInv, form' = Fresh(form.no + 1), subs' \subseteq subs, madeBy' = madeBy, born' = born
  PROVE  OpeningInv'
<1>1. /\ born \in Nat /\ form.no \in Nat /\ form.mount \in Nat
      /\ \A s \in subs : s.no \in Nat /\ s.mount \in Nat
      /\ Company \subseteq Nat
      /\ \A c \in Company : madeBy[c] \in Nat \cup {None}
  BY Bounds DEF CompanyInv, CompanyTypeOK, CompanyShape, Form, Submission
<1>2. form'.no = form.no + 1 /\ form'.mount = form.no + 1 /\ form'.created = None
  BY <1>1, FreshIsForm
<1>3. \A s \in subs' : s.no < form'.mount /\ s.mount < form'.mount /\ s.mount <= s.no
  BY <1>1, <1>2 DEF CompanyInv, OpeningInv, OpeningsInOrder
<1>4. \A c \in Company : madeBy'[c] # form'.no
  BY <1>1, <1>2, Bounds DEF CompanyInv, OpeningInv, MadeEarlier
<1>5. Waiting' \subseteq subs'
  BY DEF Waiting
<1>6. OpeningsInOrder' /\ OnePost' /\ OneCompanyPerOpening'
  BY <1>1, <1>2, <1>3 DEF CompanyInv, OpeningInv, OpeningsInOrder, OnePost, OneCompanyPerOpening
<1>7. MadeEarlier' /\ CreatedHere' /\ MadeIsKnown'
  BY <1>1, <1>2, <1>4 DEF CompanyInv, OpeningInv, MadeEarlier, CreatedHere, MadeIsKnown
<1>8. AwaitedHere' /\ WelcomeIsForm' /\ WelcomeStays'
  BY <1>1, <1>2, <1>3, <1>5 DEF CompanyInv, AwaitedHere, WelcomeIsForm, WelcomeStays
<1>9. QED
  BY <1>6, <1>7, <1>8 DEF OpeningInv

\* A step that may take the form to another place.
LEMMA KeepsForm ==
  ASSUME CompanyInv, form' = Keeps(form), subs' \subseteq subs, madeBy' = madeBy, pinned' = pinned,
         crossed' = crossed, born' = born
  PROVE  /\ OpeningInv' /\ EditedOnPage' /\ form' \in Form
         /\ \/ form' = form /\ Place' = Place /\ page' = page
            \/ form'.company = None
<1>1. form \in Form /\ form.no \in Nat /\ born \in Nat
  BY DEF CompanyInv, CompanyTypeOK, CompanyShape, Form
<1>2. CASE Stays
  <2>1. form' = form /\ Place' = Place /\ page' = page
    BY <1>2 DEF Keeps, Stays, Place
  <2>2. QED
    BY <1>1, <2>1, SameForm DEF CompanyInv, EditedOnPage
<1>3. CASE ~Stays
  <2>1. form' = Fresh(form.no + 1)
    BY <1>3 DEF Keeps
  <2>2. form' \in Form /\ form'.company = None
    BY <1>1, <2>1, FreshIsForm
  <2>3. QED
    BY <2>1, <2>2, NewForm DEF EditedOnPage
<1>4. QED
  BY <1>2, <1>3

\* The edit that shows keeps its rows.
LEMMA SameMatrix ==
  ASSUME CompanyInv, EditedOnPage',
         form'.company = form.company, form'.matrix = form.matrix, page' = page,
         dialog' = dialog \/ dialog' # "companyForm",
         FormOpen /\ form.company # None => cached'[form.company] = cached[form.company]
  PROVE  LoadedMatrixIsOwn'
<1> SUFFICES ASSUME FormOpen', form'.company # None
             PROVE  cached'[form'.company] \in {None, form'.matrix}
  BY DEF LoadedMatrixIsOwn
<1>1. Shows("companyForm")' /\ Place = "pages"
  BY DEF FormOpen, EditedOnPage, CompanyInv
<1>2. FormOpen
  BY <1>1 DEF FormOpen, Shows, HomeOf
<1>3. QED
  BY <1>2 DEF CompanyInv, LoadedMatrixIsOwn

\* Invalidated rows are dropped, unless the edit that shows is of them.
LEMMA InvalidateKeeps ==
  ASSUME CompanyInv, InvalidateRows
  PROVE  /\ cached' \in [Company -> Owner \cup {None}] /\ loading' \subseteq Company
         /\ FormOpen /\ form.company # None => cached'[form.company] = cached[form.company]
<1>1. form.company \in Maybe /\ cached \in [Company -> Owner \cup {None}] /\ loading \subseteq Company
  BY DEF CompanyInv, CompanyShape, CompanyTypeOK, Form, Owner
<1>2. QED
  BY <1>1 DEF InvalidateRows, Maybe

-----------------------------------------------------------------------------
(* The steps of the gate and the page *)

\* Types, by what a step changes.
CompanyTypes == OfficeTypeOK /\ CompanyTypeOK /\ CompanyShape

LEMMA ReloadKeeps == CompanyInv /\ Reload => CompanyInv'
<1> SUFFICES ASSUME CompanyInv, Reload PROVE CompanyInv'
  OBVIOUS
<1> USE DEF Reload, tableVars, historyVars, DialogClosed
<1>1. form.no \in Nat
  BY DEF CompanyInv, CompanyShape, Form
<1>2. form' \in Form /\ form'.company = None
  BY <1>1, FreshIsForm
<1>3. CompanyTypes'
  BY <1>2, Bounds DEF CompanyTypes, CompanyInv, OfficeTypeOK, Dialog, CompanyTypeOK, CompanyShape, Form, Maybe, Owner
<1>4. OpeningInv'
  BY NewForm
<1>5. EditedOnPage' /\ LoadedMatrixIsOwn' /\ CreatedIsUsable'
  BY <1>2 DEF EditedOnPage, LoadedMatrixIsOwn, CreatedIsUsable, CompanyInv
<1>6. QED
  BY <1>3, <1>4, <1>5 DEF CompanyInv, CompanyTypes

LEMMA ChooseKeeps ==
  ASSUME CompanyInv, NEW c \in Company, Choose(c)
  PROVE  CompanyInv'
<1> USE DEF Choose, tableVars, cacheVars, historyVars, Selected
<1>1. /\ OpeningInv' /\ EditedOnPage' /\ form' \in Form
      /\ \/ form' = form /\ Place' = Place /\ page' = page
         \/ form'.company = None
  BY KeepsForm
<1>2. CompanyTypes'
  BY <1>1, Bounds DEF CompanyTypes, CompanyInv, OfficeTypeOK, CompanyTypeOK, CompanyShape, Form, Maybe, Owner, KeepsPending
<1>3. LoadedMatrixIsOwn'
  BY <1>1, SameMatrix DEF LoadedMatrixIsOwn
<1>4. QED
  BY <1>1, <1>2, <1>3 DEF CompanyInv, CompanyTypes, CreatedIsUsable

LEMMA ListFetchedKeeps == CompanyInv /\ ListFetched => CompanyInv'
<1> SUFFICES ASSUME CompanyInv, ListFetched PROVE CompanyInv'
  OBVIOUS
<1> USE DEF ListFetched, officeVars, tableVars, historyVars
<1>1. /\ OpeningInv' /\ EditedOnPage' /\ form' \in Form
      /\ \/ form' = form /\ Place' = Place /\ page' = page
         \/ form'.company = None
  BY KeepsForm
<1>2. exists \subseteq Company
  BY Bounds DEF CompanyInv, CompanyTypeOK, Company
<1>3. CompanyTypes'
  BY <1>1, <1>2, Bounds DEF CompanyTypes, CompanyInv, OfficeTypeOK, CompanyTypeOK, CompanyShape, Form, Maybe, Owner, KeepsPending
<1>4. LoadedMatrixIsOwn'
  BY <1>1, SameMatrix DEF LoadedMatrixIsOwn
<1>5. QED
  BY <1>1, <1>3, <1>4 DEF CompanyInv, CompanyTypes, CreatedIsUsable

LEMMA NavigateKeeps ==
  ASSUME CompanyInv, NEW p \in Page, Navigate(p)
  PROVE  CompanyInv'
<1> USE DEF Navigate, tableVars, cacheVars, historyVars
<1>1. Place' = Place
  BY DEF Place
<1>2. form.no \in Nat /\ form \in Form /\ born \in Nat
  BY DEF CompanyInv, CompanyShape, CompanyTypeOK, Form
<1>3. CASE Place = "pages"
  <2>1. form' = Fresh(form.no + 1)
    BY <1>3
  <2>2. form' \in Form /\ form'.company = None
    BY <2>1, <1>2, FreshIsForm
  <2>3. OpeningInv'
    BY <2>1, NewForm
  <2>4. CompanyTypes'
    BY <2>2, Bounds DEF CompanyTypes, CompanyInv, OfficeTypeOK, CompanyTypeOK, CompanyShape, Form, Maybe, Owner
  <2>5. QED
    BY <2>2, <2>3, <2>4 DEF CompanyInv, CompanyTypes, EditedOnPage, LoadedMatrixIsOwn, CreatedIsUsable
<1>4. CASE Place # "pages"
  <2>1. form' = form /\ form.company = None
    BY <1>4 DEF CompanyInv, EditedOnPage
  <2>2. OpeningInv'
    BY <2>1, <1>1, <1>2, SameForm
  <2>3. CompanyTypes'
    BY <2>1, Bounds DEF CompanyTypes, CompanyInv, OfficeTypeOK, CompanyTypeOK, CompanyShape
  <2>4. QED
    BY <2>1, <2>2, <2>3 DEF CompanyInv, CompanyTypes, EditedOnPage, LoadedMatrixIsOwn, CreatedIsUsable
<1>5. QED
  BY <1>3, <1>4

LEMMA RowsFetchedKeeps ==
  ASSUME CompanyInv, NEW c \in Company, RowsFetched(c)
  PROVE  CompanyInv'
<1> USE DEF RowsFetched, officeVars, tableVars, historyVars
<1>1. Place' = Place /\ (FormOpen' <=> FormOpen)
  BY DEF Place, FormOpen, Shows, HomeOf
<1>2. rows[c] \in Owner /\ form \in Form /\ born \in Nat
  BY Bounds DEF CompanyInv, CompanyTypeOK, CompanyShape, Owner
<1>3. /\ form' \in Form /\ form'.no = form.no /\ form'.mount = form.mount /\ form'.created = form.created
      /\ form'.company = form.company
      /\ FormOpen /\ form.company = c => form'.matrix = rows[c]
      /\ ~(FormOpen /\ form.company = c) => form'.matrix = form.matrix
  BY <1>2 DEF Form
<1>4. CompanyTypes'
  BY <1>2, <1>3, Bounds DEF CompanyTypes, CompanyInv, OfficeTypeOK, CompanyTypeOK, CompanyShape, Form, Maybe, Owner
<1>5. OpeningInv'
  BY <1>1, <1>2, <1>3, SameForm
<1>6. cached \in [Company -> Owner \cup {None}] /\ form.company \in Maybe
  BY <1>2 DEF CompanyInv, CompanyTypeOK, Owner, Form
<1>7. LoadedMatrixIsOwn'
  <2>1. CASE FormOpen /\ form.company = c
    BY <1>1, <1>3, <1>6, <2>1 DEF LoadedMatrixIsOwn
  <2>2. CASE ~(FormOpen /\ form.company = c)
    BY <1>1, <1>3, <1>6, <2>2 DEF LoadedMatrixIsOwn, CompanyInv, Maybe
  <2>3. QED
    BY <2>1, <2>2
<1>8. EditedOnPage' /\ CreatedIsUsable'
  BY <1>1, <1>3 DEF EditedOnPage, CreatedIsUsable, CompanyInv
<1>9. QED
  BY <1>4, <1>5, <1>7, <1>8 DEF CompanyInv, CompanyTypes

\* A form that is opened again has a number of its own; what it still waits for is late.
LEMMA Reopens ==
  ASSUME CompanyInv, Place # "welcome", Place' = Place,
         form'.no = form.no + 1, form'.mount = form.mount, form'.created = None,
         subs' = subs, madeBy' = madeBy, pinned' = pinned, born' = born, crossed' = (crossed \/ Outlived)
  PROVE  OpeningInv'
<1>1. /\ born \in Nat /\ form.no \in Nat /\ form.mount \in Nat
      /\ \A s \in subs : s.no \in Nat /\ s.mount \in Nat
      /\ Company \subseteq Nat
      /\ \A c \in Company : madeBy[c] \in Nat \cup {None}
  BY Bounds DEF CompanyInv, CompanyTypeOK, CompanyShape, Form, Submission
<1>2. \A c \in Company : madeBy[c] # None => madeBy[c] \in Nat /\ madeBy[c] <= form.no
  BY <1>1 DEF CompanyInv, OpeningInv, MadeEarlier
<1>3. \A c \in Company : madeBy[c] # form.no + 1
  BY <1>1, <1>2, Bounds
<1>4. OpeningsInOrder'
  BY <1>1 DEF CompanyInv, OpeningInv, OpeningsInOrder
<1>5. MadeEarlier' /\ MadeIsKnown'
  BY <1>1, <1>2, <1>3 DEF CompanyInv, OpeningInv, MadeEarlier, MadeIsKnown
<1>6. OnePost' /\ OneCompanyPerOpening' /\ CreatedHere'
  BY DEF CompanyInv, OpeningInv, OnePost, OneCompanyPerOpening, CreatedHere
<1>7. AwaitedHere' /\ WelcomeIsForm' /\ WelcomeStays'
  BY DEF CompanyInv, OpeningInv, AwaitedHere, WelcomeIsForm, WelcomeStays, Waiting, Outlived
<1>8. QED
  BY <1>4, <1>5, <1>6, <1>7 DEF OpeningInv

LEMMA OpenCreateKeeps == CompanyInv /\ OpenCreate => CompanyInv'
<1> SUFFICES ASSUME CompanyInv, OpenCreate PROVE CompanyInv'
  OBVIOUS
<1> USE DEF OpenCreate, CreateButton, tableVars, cacheVars, DialogOpened
<1>1. Place' = Place /\ Place \in {"pages", "picker"}
  BY DEF Place
<1>2. form \in Form /\ crossed \in BOOLEAN
  BY DEF CompanyInv, CompanyShape
<1>3. /\ form' \in Form /\ form'.no = form.no + 1 /\ form'.mount = form.mount /\ form'.created = None
      /\ form'.company = None
  <2>1. form.seen \in Owner \cup {None} /\ None \in Maybe
    BY <1>2 DEF Form, Maybe
  <2>2. QED
    BY <1>2, <2>1, ReopenedIsForm
<1>4. OpeningInv'
  BY <1>1, <1>3, Reopens
<1>5. (crossed \/ Outlived) \in BOOLEAN
  BY <1>2 DEF Outlived
<1>6. CompanyTypes'
  BY <1>3, <1>5, Bounds DEF CompanyTypes, CompanyInv, OfficeTypeOK, Dialog, CompanyTypeOK, CompanyShape, Form, Maybe, Owner
<1>7. QED
  BY <1>3, <1>4, <1>6 DEF CompanyInv, CompanyTypes, EditedOnPage, LoadedMatrixIsOwn, CreatedIsUsable

LEMMA OpenEditKeeps ==
  ASSUME CompanyInv, NEW c \in Company, OpenEdit(c)
  PROVE  CompanyInv'
<1> USE DEF OpenEdit, tableVars, DialogOpened
<1>1. Place' = Place /\ Place = "pages"
  BY DEF Place
<1>2. form \in Form /\ crossed \in BOOLEAN /\ cached[c] \in Owner \cup {None}
  BY DEF CompanyInv, CompanyShape, CompanyTypeOK, Owner
<1>3. /\ form' \in Form /\ form'.no = form.no + 1 /\ form'.mount = form.mount /\ form'.created = None
      /\ form'.company = c
      /\ cached[c] # None => form'.matrix = cached[c]
  <2>1. PICK seen \in Owner \cup {None} : form' = Reopened(c, seen) /\ (cached[c] # None => seen = cached[c])
    BY <1>2 DEF Form
  <2>2. c # None /\ c \in Maybe
    BY Bounds DEF Maybe
  <2>3. QED
    BY <1>2, <2>1, <2>2, ReopenedIsForm
<1>4. OpeningInv'
  BY <1>1, <1>3, Reopens
<1>5. (crossed \/ Outlived) \in BOOLEAN
  BY <1>2 DEF Outlived
<1>6. CompanyTypes'
  BY <1>3, <1>5, Bounds DEF CompanyTypes, CompanyInv, OfficeTypeOK, Dialog, CompanyTypeOK, CompanyShape, Form, Maybe, Owner
<1>7. QED
  BY <1>1, <1>3, <1>4, <1>6 DEF CompanyInv, CompanyTypes, EditedOnPage, LoadedMatrixIsOwn, CreatedIsUsable

LEMMA DismissKeeps == CompanyInv /\ Dismiss => CompanyInv'
<1> SUFFICES ASSUME CompanyInv, Dismiss PROVE CompanyInv'
  OBVIOUS
<1> USE DEF Dismiss, CloseForm, tableVars, cacheVars, historyVars, DialogClosed
<1>1. Place' = Place /\ born \in Nat
  BY DEF Place, CompanyInv, CompanyTypeOK
<1>2. OpeningInv'
  BY <1>1, SameForm
<1>3. EditedOnPage'
  BY <1>1 DEF EditedOnPage, CompanyInv
<1>4. LoadedMatrixIsOwn'
  BY <1>3, SameMatrix
<1>5. CompanyTypes'
  BY DEF CompanyTypes, CompanyInv, OfficeTypeOK, Dialog, CompanyTypeOK, CompanyShape
<1>6. QED
  BY <1>2, <1>3, <1>4, <1>5 DEF CompanyInv, CompanyTypes, CreatedIsUsable

\* What a form submits, it submits in its last opening.
LEMMA SubIsSubmission ==
  ASSUME CompanyInv, NEW k \in {"post", "put", "edit", "delete"}, NEW c \in Maybe, NEW m \in Owner
  PROVE  /\ Sub(k, c, m) \in Submission
         /\ Sub(k, c, m).kind = k /\ Sub(k, c, m).company = c /\ Sub(k, c, m).place = Place
         /\ Sub(k, c, m).no = form.no /\ Sub(k, c, m).mount = form.mount
<1>1. form.no \in Nat /\ form.mount \in Nat /\ Place \in Places
  BY PlaceIsOne DEF CompanyInv, CompanyShape, Form, Place
<1>2. QED
  BY <1>1 DEF Sub, Submission

\* A creation is submitted only in an opening that waits for none and has created nothing.
LEMMA Submits ==
  ASSUME CompanyInv, NEW s \in Submission, subs' = subs \cup {s},
         s.kind # "delete", s.no = form.no, s.mount = form.mount, s.place = Place,
         s.kind = "post" => /\ form.created = None
                            /\ ~(pinned # None /\ Place = "welcome")
                            /\ \A t \in Waiting : t.mount # form.mount,
         UNCHANGED <<form, madeBy, pinned, born, crossed>>, Place' = Place
  PROVE  OpeningInv'
<1>1. /\ form.no \in Nat /\ form.mount \in Nat
      /\ \A t \in subs : t.no \in Nat /\ t.mount \in Nat
  BY DEF CompanyInv, CompanyShape, Form, Submission
<1>2. OpeningsInOrder'
  BY <1>1 DEF CompanyInv, OpeningInv, OpeningsInOrder
<1>3. MadeEarlier' /\ OneCompanyPerOpening' /\ CreatedHere' /\ MadeIsKnown'
  BY DEF CompanyInv, OpeningInv, MadeEarlier, OneCompanyPerOpening, CreatedHere, MadeIsKnown
<1>4. OnePost'
  <2>1. s.kind = "post" => \A c \in Company : madeBy[c] # s.no
    BY DEF CompanyInv, OpeningInv, MadeIsKnown
  <2>2. ASSUME NEW t \in subs, t.kind = "post", s.kind = "post", t.no = s.no
        PROVE  FALSE
    <3>1. t.mount = form.mount
      BY <1>1, <2>2 DEF CompanyInv, OpeningInv, OpeningsInOrder
    <3>2. QED
      BY <2>2, <3>1 DEF Waiting
  <2>3. QED
    BY <2>1, <2>2 DEF CompanyInv, OpeningInv, OnePost
<1>5. Waiting' = Waiting \cup {s}
  BY DEF Waiting
<1>6. AwaitedHere' /\ WelcomeIsForm' /\ WelcomeStays'
  BY <1>5 DEF CompanyInv, OpeningInv, AwaitedHere, WelcomeIsForm, WelcomeStays
<1>7. QED
  BY <1>2, <1>3, <1>4, <1>6 DEF OpeningInv

LEMMA SubmitFormKeeps == CompanyInv /\ SubmitForm => CompanyInv'
<1> SUFFICES ASSUME CompanyInv, SubmitForm PROVE CompanyInv'
  OBVIOUS
<1> USE DEF SubmitForm, officeVars, tableVars, cacheVars, historyVars
<1>1. Place' = Place /\ (FormOpen' <=> FormOpen) /\ Place # "welcome"
  BY DEF Place, FormOpen, Shows, HomeOf
<1>2. /\ form \in Form /\ form.company \in Maybe /\ form.created \in Maybe /\ form.matrix \in Owner
      /\ Nobodys \in Owner /\ 0 \in Owner /\ None \in Maybe
  BY Bounds DEF CompanyInv, CompanyShape, Form, Maybe
<1>3. PICK s \in Submission :
        /\ subs' = subs \cup {s}
        /\ s.kind \in {"post", "put", "edit"} /\ s.no = form.no /\ s.mount = form.mount /\ s.place = Place
        /\ s.kind # "post" => s.company \in Company
        /\ s.kind = "post" => form.created = None
  <2>1. CASE form.company # None
    <3> DEFINE m == IF form.seen = None THEN Nobodys ELSE form.matrix
    <3>1. m \in Owner /\ form.company \in Company
      BY <1>2, <2>1 DEF Maybe
    <3>2. subs' = subs \cup {Sub("edit", form.company, m)}
      BY <2>1
    <3> HIDE DEF m
    <3>3. QED
      BY <1>2, <3>1, <3>2, SubIsSubmission
  <2>2. CASE form.company = None /\ form.created # None
    <3>1. subs' = subs \cup {Sub("put", form.created, 0)} /\ form.created \in Company
      BY <1>2, <2>2 DEF Maybe
    <3>2. QED
      BY <1>2, <3>1, SubIsSubmission
  <2>3. CASE form.company = None /\ form.created = None
    <3>1. subs' = subs \cup {Sub("post", None, 0)}
      BY <2>3
    <3>2. QED
      BY <1>2, <2>3, <3>1, SubIsSubmission
  <2>4. QED
    BY <2>1, <2>2, <2>3
<1>4. OpeningInv'
  BY <1>1, <1>3, Submits
<1>5. CompanyTypes'
  BY <1>3 DEF CompanyTypes, CompanyInv, OfficeTypeOK, CompanyTypeOK, CompanyShape, Submission
<1>6. QED
  BY <1>1, <1>4, <1>5 DEF CompanyInv, CompanyTypes, EditedOnPage, LoadedMatrixIsOwn, CreatedIsUsable

LEMMA SubmitWelcomeKeeps == CompanyInv /\ SubmitWelcome => CompanyInv'
<1> SUFFICES ASSUME CompanyInv, SubmitWelcome PROVE CompanyInv'
  OBVIOUS
<1> USE DEF SubmitWelcome, tableVars, cacheVars, historyVars
<1>1. Place' = Place /\ (FormOpen' <=> FormOpen)
  BY DEF Place, FormOpen, Shows, HomeOf
<1>2. pinned \in Maybe /\ 0 \in Owner /\ None \in Maybe
  BY Bounds DEF CompanyInv, CompanyTypeOK, Maybe
<1>3. PICK s \in Submission :
        /\ subs' = subs \cup {s}
        /\ s.kind \in {"post", "put"} /\ s.no = form.no /\ s.mount = form.mount /\ s.place = Place
        /\ s.kind # "post" => s.company \in Company
        /\ s.kind = "post" => pinned = None
  <2>1. CASE pinned = None
    BY <1>2, <2>1, SubIsSubmission
  <2>2. CASE pinned # None
    <3>1. subs' = subs \cup {Sub("put", pinned, 0)} /\ pinned \in Company
      BY <1>2, <2>2 DEF Maybe
    <3>2. QED
      BY <1>2, <3>1, SubIsSubmission
  <2>3. QED
    BY <2>1, <2>2
<1>4. s.kind = "post" => form.created = None /\ \A t \in Waiting : t.mount # form.mount
  BY <1>3 DEF CompanyInv, OpeningInv, WelcomeIsForm
<1>5. OpeningInv'
  BY <1>1, <1>3, <1>4, Submits
<1>6. CompanyTypes'
  BY <1>3 DEF CompanyTypes, CompanyInv, OfficeTypeOK, CompanyTypeOK, CompanyShape, Submission
<1>7. QED
  BY <1>1, <1>5, <1>6 DEF CompanyInv, CompanyTypes, EditedOnPage, LoadedMatrixIsOwn, CreatedIsUsable

LEMMA PostedKeeps ==
  ASSUME CompanyInv, NEW s \in subs, Posted(s)
  PROVE  CompanyInv'
<1> DEFINE c == born + 1
<1> DEFINE t == [s EXCEPT !.kind = "put", !.company = c]
<1>1. /\ s.kind = "post" /\ born < MaxCompany /\ born' = c /\ exists' = exists \cup {c}
      /\ madeBy' = [madeBy EXCEPT ![c] = s.no] /\ subs' = (subs \ {s}) \cup {t}
      /\ pinned' = (IF s.place = "welcome" THEN c ELSE pinned)
      /\ form' = (IF s.place # "welcome" /\ s.mount = form.mount THEN [form EXCEPT !.created = c] ELSE form)
      /\ UNCHANGED <<active, stored, page, dialog, left, rows, staffed, list, cached, loading, picking, pending,
                     chosen, buried, refused, crossed>>
  BY DEF Posted, officeVars
<1>2. /\ born \in Nat /\ c \in Nat /\ c \in Company /\ c # None /\ c \in Maybe
      /\ form \in Form /\ form.no \in Nat /\ form.mount \in Nat /\ form.created \in Maybe
      /\ s \in Submission /\ s.no \in Nat /\ s.mount \in Nat
      /\ \A r \in subs : r.no \in Nat /\ r.mount \in Nat
      /\ madeBy \in [Company -> Nat \cup {None}]
  <2>1. born \in Nat /\ c \in Company
    BY <1>1, Bounds DEF CompanyInv, CompanyTypeOK, Company
  <2>2. c \in Nat /\ c # None /\ c \in Maybe
    BY <2>1, Bounds DEF Maybe
  <2>3. form \in Form /\ s \in Submission /\ madeBy \in [Company -> Nat \cup {None}]
    BY DEF CompanyInv, CompanyShape
  <2>4. \A r \in subs : r.no \in Nat /\ r.mount \in Nat
    BY DEF CompanyInv, CompanyShape, Submission
  <2>5. QED
    BY <2>1, <2>2, <2>3, <2>4 DEF Form
<1>3. t \in Submission /\ t.kind = "put" /\ t.company = c /\ t.no = s.no /\ t.mount = s.mount /\ t.place = s.place
  BY <1>2 DEF Submission
<1>4. /\ form' \in Form /\ form'.no = form.no /\ form'.mount = form.mount
      /\ form'.company = form.company /\ form'.matrix = form.matrix
      /\ s.place # "welcome" /\ s.mount = form.mount => form'.created = c
      /\ ~(s.place # "welcome" /\ s.mount = form.mount) => form'.created = form.created
  BY <1>1, <1>2 DEF Form
<1> HIDE DEF t, c
<1>5. /\ Place' = Place \/ (Place = "picker" /\ Place' = "welcome")
      /\ pinned' = pinned => Place' = Place
      /\ pinned # None => pinned' # None
  BY <1>1, <1>2, PinnedPlace DEF Place
<1>6. Waiting' = (Waiting \ {s}) \cup {t} /\ s \in Waiting
  BY <1>1, <1>3 DEF Waiting
<1>7. madeBy[c] = None /\ madeBy'[c] = s.no /\ \A d \in Company : d # c => madeBy'[d] = madeBy[d]
  BY <1>1, <1>2 DEF CompanyInv, OpeningInv, MadeEarlier, c
<1>8. OpeningsInOrder' /\ MadeEarlier'
  <2>1. OpeningsInOrder'
    BY <1>1, <1>3, <1>4 DEF CompanyInv, OpeningInv, OpeningsInOrder
  <2>2. \A d \in Company : d # c /\ madeBy[d] # None => d <= c
    BY <1>2, Bounds DEF CompanyInv, OpeningInv, MadeEarlier, c
  <2>3. MadeEarlier'
    BY <1>1, <1>2, <1>4, <1>7, <2>2 DEF CompanyInv, OpeningInv, OpeningsInOrder, MadeEarlier
  <2>4. QED
    BY <2>1, <2>3
<1>9. OnePost' /\ OneCompanyPerOpening'
  BY <1>1, <1>2, <1>3, <1>7 DEF CompanyInv, OpeningInv, OnePost, OneCompanyPerOpening
<1>10. CreatedHere'
  <2>1. CASE s.place # "welcome" /\ s.mount = form.mount
    BY <1>1, <1>2, <1>4, <1>6, <1>7, <2>1 DEF CompanyInv, OpeningInv, AwaitedHere, CreatedHere
  <2>2. CASE ~(s.place # "welcome" /\ s.mount = form.mount)
    <3>1. form.created # None => form.created \in Company /\ form.created \in Nat /\ form.created <= born
      BY <1>2, Bounds DEF CompanyInv, OpeningInv, CreatedHere, Maybe
    <3>2. form.created # None => form.created # c /\ form.created <= c
      BY <1>2, <3>1 DEF c
    <3>3. QED
      BY <1>1, <1>4, <1>7, <2>2, <3>1, <3>2 DEF CompanyInv, OpeningInv, CreatedHere
  <2>3. QED
    BY <2>1, <2>2
<1>11. AwaitedHere'
  BY <1>1, <1>3, <1>4, <1>6 DEF CompanyInv, OpeningInv, AwaitedHere
<1>12. WelcomeIsForm' /\ WelcomeStays'
  <2>1. WelcomeIsForm'
    BY <1>1, <1>2, <1>3, <1>4, <1>5, <1>6 DEF CompanyInv, OpeningInv, WelcomeIsForm
  <2>2. WelcomeStays'
    BY <1>3, <1>4, <1>5, <1>6 DEF CompanyInv, OpeningInv, WelcomeStays
  <2>3. QED
    BY <2>1, <2>2
<1>13. MadeIsKnown'
  <2>1. ASSUME s.no = form.no
        PROVE  form'.created # None \/ (pinned' # None /\ Place' = "welcome")
    <3>1. s.mount = form.mount
      BY <1>2, <2>1 DEF CompanyInv, OpeningInv, OpeningsInOrder
    <3>2. CASE s.place = "welcome"
      BY <1>1, <1>2, <1>5, <1>6, <3>1, <3>2 DEF CompanyInv, OpeningInv, WelcomeStays
    <3>3. CASE s.place # "welcome"
      BY <1>2, <1>4, <3>1, <3>3
    <3>4. QED
      BY <3>2, <3>3
  <2>2. QED
    BY <1>2, <1>4, <1>5, <1>7, <2>1 DEF CompanyInv, OpeningInv, MadeIsKnown
<1>14. EditedOnPage'
  BY <1>1, <1>4, <1>5 DEF CompanyInv, EditedOnPage
<1>15. LoadedMatrixIsOwn'
  BY <1>1, <1>4, <1>14, SameMatrix
<1>16. CompanyTypes'
  <2>1. exists' \subseteq 1..born' /\ born' \in 0..MaxCompany
    <3>1. exists \subseteq 1..born /\ born' = c
      BY <1>1 DEF CompanyInv, CompanyTypeOK
    <3>2. 1..born \subseteq 1..c /\ c \in 1..c /\ c \in 0..MaxCompany
      BY <1>1, <1>2, Bounds DEF c
    <3>3. QED
      BY <1>1, <3>1, <3>2
  <2>2. CompanyTypeOK'
    BY <1>1, <1>2, <1>3, <1>4, <2>1 DEF CompanyInv, CompanyTypeOK, Form, Maybe, Owner
  <2>3. CompanyShape'
    BY <1>1, <1>2, <1>3, <1>4, <1>7 DEF CompanyInv, CompanyShape
  <2>4. QED
    BY <1>1, <2>2, <2>3 DEF CompanyInv, OfficeTypeOK, CompanyTypes
<1>17. CreatedIsUsable'
  BY <1>1 DEF CompanyInv, CreatedIsUsable
<1>18. QED
  BY <1>8, <1>9, <1>10, <1>11, <1>12, <1>13, <1>14, <1>15, <1>16, <1>17 DEF CompanyInv, CompanyTypes, OpeningInv

\* Requirements that are saved are somebody's.
LEMMA EnteredIsSaved ==
  ASSUME CompanyInv, NEW s \in subs, s.kind # "post"
  PROVE  /\ s.company \in Company /\ Entered(s) \in Owner \ {0}
         /\ [rows EXCEPT ![s.company] = Entered(s)] \in [Company -> Owner]
         /\ \A c \in Company : rows[c] # 0 => [rows EXCEPT ![s.company] = Entered(s)][c] # 0
         /\ [rows EXCEPT ![s.company] = Entered(s)][s.company] # 0
<1>1. s.company \in Company /\ s \in Submission /\ rows \in [Company -> Owner]
  BY DEF CompanyInv, CompanyShape, CompanyTypeOK, Owner
<1>2. s.matrix \in Owner /\ s.company \in Owner \ {0}
  BY <1>1, Bounds DEF Submission
<1>3. Entered(s) \in Owner \ {0}
  BY <1>2 DEF Entered
<1>4. QED
  BY <1>1, <1>3

LEMMA PutKeeps ==
  ASSUME CompanyInv, NEW s \in subs, Put(s)
  PROVE  CompanyInv'
<1> USE DEF Put, SavedCreation, Selected, DialogClosed
<1>1. /\ OpeningInv' /\ EditedOnPage' /\ form' \in Form
      /\ \/ form' = form /\ Place' = Place /\ page' = page
         \/ form'.company = None
  BY KeepsForm
<1>2. s.kind = "put" /\ subs' \subseteq subs /\ dialog' \in {dialog, "none"}
  BY DEF CompanyInv
<1>3. /\ cached' \in [Company -> Owner \cup {None}] /\ loading' \subseteq Company
      /\ FormOpen /\ form.company # None => cached'[form.company] = cached[form.company]
  BY InvalidateKeeps
<1>4. LoadedMatrixIsOwn'
  <2>1. CASE form' = form
    BY <1>1, <1>2, <1>3, <2>1, SameMatrix
  <2>2. CASE form'.company = None
    BY <2>2 DEF LoadedMatrixIsOwn
  <2>3. QED
    BY <1>1, <2>1, <2>2
<1>5. /\ s.company \in Company /\ rows' \in [Company -> Owner] /\ chosen' \subseteq Company
      /\ CreatedIsUsable'
      /\ {active', stored'} \subseteq Company \cup {None}
  <2>1. s.company \in Company
    BY <1>2 DEF CompanyInv, CompanyShape
  <2>2. CASE rows' = [rows EXCEPT ![s.company] = Entered(s)] /\ chosen' = chosen \cup {s.company} /\ active' = s.company /\ stored' = s.company
    BY <1>2, <2>1, <2>2, EnteredIsSaved DEF CompanyInv, CompanyShape, CreatedIsUsable
  <2>3. CASE UNCHANGED <<active, stored, rows, chosen>>
    BY <2>1, <2>3 DEF CompanyInv, CompanyShape, CompanyTypeOK, OfficeTypeOK, CreatedIsUsable, Owner
  <2>4. QED
    BY <2>2, <2>3
<1>6. CompanyTypes'
  <2>1. pending' \in Company \cup {None}
    BY DEF KeepsPending, CompanyInv, CompanyTypeOK
  <2>2. OfficeTypeOK' /\ CompanyShape'
    BY <1>1, <1>2, <1>5 DEF CompanyInv, OfficeTypeOK, Dialog, CompanyShape
  <2>3. CompanyTypeOK'
    BY <1>1, <1>2, <1>3, <1>5, <2>1 DEF CompanyInv, CompanyTypeOK, Form, Maybe, Owner
  <2>4. QED
    BY <2>2, <2>3 DEF CompanyTypes
<1>7. QED
  BY <1>1, <1>4, <1>5, <1>6 DEF CompanyInv, CompanyTypes

LEMMA EditedKeeps ==
  ASSUME CompanyInv, NEW s \in subs, Edited(s)
  PROVE  CompanyInv'
<1> USE DEF Edited, historyVars, DialogClosed
<1>1. Place' = Place /\ born \in Nat /\ s.kind = "edit" /\ subs' \subseteq subs /\ dialog' \in {dialog, "none"}
  BY DEF Place, CompanyInv, CompanyTypeOK
<1>2. OpeningInv'
  BY <1>1, SameForm
<1>3. EditedOnPage'
  BY <1>1 DEF EditedOnPage, CompanyInv
<1>4. /\ cached' \in [Company -> Owner \cup {None}] /\ loading' \subseteq Company
      /\ FormOpen /\ form.company # None => cached'[form.company] = cached[form.company]
  BY InvalidateKeeps
<1>5. LoadedMatrixIsOwn'
  BY <1>1, <1>3, <1>4, SameMatrix
<1>6. rows' \in [Company -> Owner] /\ CreatedIsUsable'
  <2>1. CASE rows' = [rows EXCEPT ![s.company] = Entered(s)]
    BY <1>1, <2>1, EnteredIsSaved DEF CompanyInv, CompanyShape, CreatedIsUsable
  <2>2. CASE rows' = rows
    BY <2>2 DEF CompanyInv, CompanyTypeOK, CreatedIsUsable, Owner
  <2>3. QED
    BY <2>1, <2>2
<1>7. CompanyTypes'
  BY <1>1, <1>4, <1>6 DEF CompanyTypes, CompanyInv, OfficeTypeOK, Dialog, CompanyTypeOK, CompanyShape, Owner
<1>8. QED
  BY <1>2, <1>3, <1>5, <1>6, <1>7 DEF CompanyInv, CompanyTypes

\* Answers that change neither the form nor what it is drawn from.
LEMMA AnswersKeep ==
  ASSUME CompanyInv, NEW s \in subs, NotPosted(s) \/ DeleteRefused(s) \/ DeleteLost(s)
  PROVE  CompanyInv'
<1> USE DEF NotPosted, DeleteRefused, DeleteLost, officeVars, tableVars, historyVars, DialogClosed, DialogOpened
<1>1. Place' = Place /\ born \in Nat /\ subs' \subseteq subs /\ dialog' \in {dialog, "none", "deleteBlocked"}
  BY DEF Place, CompanyInv, CompanyTypeOK
<1>2. OpeningInv'
  BY <1>1, SameForm
<1>3. EditedOnPage'
  BY <1>1 DEF EditedOnPage, CompanyInv
<1>4. LoadedMatrixIsOwn'
  BY <1>1, <1>3, SameMatrix
<1>5. CompanyTypes'
  BY <1>1 DEF CompanyTypes, CompanyInv, OfficeTypeOK, Dialog, CompanyTypeOK, CompanyShape
<1>6. QED
  BY <1>2, <1>3, <1>4, <1>5 DEF CompanyInv, CompanyTypes, CreatedIsUsable

LEMMA QuestionsKeep ==
  ASSUME CompanyInv, CancelDelete \/ \E c \in Company : RequestDelete(c)
  PROVE  CompanyInv'
<1> USE DEF CancelDelete, RequestDelete, tableVars, cacheVars, historyVars, DialogClosed, DialogOpened
<1>1. /\ Place' = Place /\ born \in Nat /\ pending' \in Company \cup {None} /\ subs' = subs /\ form' = form
      /\ dialog' \in {"none", "deleteConfirm", "deleteBlocked"} /\ page' = page /\ active' = active /\ stored' = stored
      /\ UNCHANGED <<exists, born, rows, staffed, list, listing, cached, loading, picking, pinned,
                     madeBy, chosen, crossed>>
  BY DEF Place, CompanyInv, CompanyTypeOK
<1>2. OpeningInv'
  BY <1>1, SameForm
<1>3. EditedOnPage'
  BY <1>1 DEF EditedOnPage, CompanyInv
<1>4. LoadedMatrixIsOwn'
  BY <1>1, <1>3, SameMatrix
<1>5. CompanyTypes'
  BY <1>1 DEF CompanyTypes, CompanyInv, OfficeTypeOK, Dialog, CompanyTypeOK, CompanyShape
<1>6. QED
  BY <1>1, <1>2, <1>3, <1>4, <1>5 DEF CompanyInv, CompanyTypes, CreatedIsUsable

LEMMA ConfirmDeleteKeeps == CompanyInv /\ ConfirmDelete => CompanyInv'
<1> SUFFICES ASSUME CompanyInv, ConfirmDelete PROVE CompanyInv'
  OBVIOUS
<1> USE DEF ConfirmDelete, officeVars, tableVars, cacheVars, historyVars
<1>1. Place' = Place /\ (FormOpen' <=> FormOpen)
  BY DEF Place, FormOpen, Shows, HomeOf
<1>2. pending \in Company /\ 0 \in Owner /\ active \in Maybe /\ pending \in Maybe
  BY Bounds DEF CompanyInv, CompanyTypeOK, OfficeTypeOK, Maybe
<1>3. PICK d \in Submission :
        /\ subs' = subs \cup {d}
        /\ d.kind = "delete" /\ d.no = form.no /\ d.mount = form.mount /\ d.company = pending
  <2> DEFINE s == Sub("delete", pending, 0)
  <2>1. s \in Submission /\ s.kind = "delete" /\ s.no = form.no /\ s.mount = form.mount /\ s.company = pending
    BY <1>2, SubIsSubmission
  <2>2. subs' = subs \cup {[s EXCEPT !.place = active]}
    OBVIOUS
  <2> HIDE DEF s
  <2>3. active \in Places \cup Maybe
    BY <1>2
  <2>4. [s EXCEPT !.place = active] \in Submission
    BY <2>1, <2>3 DEF Submission
  <2>5. /\ [s EXCEPT !.place = active].kind = s.kind /\ [s EXCEPT !.place = active].no = s.no
        /\ [s EXCEPT !.place = active].mount = s.mount /\ [s EXCEPT !.place = active].company = s.company
    BY <2>1 DEF Submission
  <2>6. QED
    BY <2>1, <2>2, <2>4, <2>5
<1>4. Waiting' = Waiting
  BY <1>3 DEF Waiting
<1>5. OpeningsInOrder'
  <2>1. form.no \in Nat /\ form.mount \in Nat /\ form.mount <= form.no
    BY DEF CompanyInv, CompanyShape, Form, OpeningInv, OpeningsInOrder
  <2>2. QED
    BY <1>3, <2>1 DEF CompanyInv, OpeningInv, OpeningsInOrder
<1>6. /\ MadeEarlier' /\ OnePost' /\ OneCompanyPerOpening' /\ CreatedHere' /\ MadeIsKnown'
      /\ AwaitedHere' /\ WelcomeIsForm' /\ WelcomeStays'
  BY <1>1, <1>3, <1>4 DEF CompanyInv, OpeningInv, MadeEarlier, OnePost, OneCompanyPerOpening, CreatedHere, MadeIsKnown,
     AwaitedHere, WelcomeIsForm, WelcomeStays
<1>7. CompanyTypes'
  BY <1>2, <1>3 DEF CompanyTypes, CompanyInv, OfficeTypeOK, CompanyTypeOK, CompanyShape, Submission
<1>8. QED
  BY <1>1, <1>5, <1>6, <1>7 DEF CompanyInv, CompanyTypes, OpeningInv, EditedOnPage, LoadedMatrixIsOwn, CreatedIsUsable

LEMMA DeletedKeeps ==
  ASSUME CompanyInv, NEW s \in subs, Deleted(s)
  PROVE  CompanyInv'
<1> USE DEF Deleted, Selected, DialogClosed
<1>1. /\ OpeningInv' /\ EditedOnPage' /\ form' \in Form
      /\ \/ form' = form /\ Place' = Place /\ page' = page
         \/ form'.company = None
  BY KeepsForm
<1>2. /\ subs' \subseteq subs /\ dialog' = "none" /\ exists' \subseteq exists /\ pending' \in Company \cup {None}
      /\ {active', stored'} \subseteq Company \cup {None}
  BY DEF CompanyInv, CompanyTypeOK, OfficeTypeOK
<1>3. LoadedMatrixIsOwn'
  BY <1>1, <1>2, SameMatrix DEF LoadedMatrixIsOwn
<1>4. CompanyTypes'
  BY <1>1, <1>2, Bounds DEF CompanyTypes, CompanyInv, OfficeTypeOK, Dialog, CompanyTypeOK, CompanyShape, Form, Maybe, Owner
<1>5. QED
  BY <1>1, <1>3, <1>4 DEF CompanyInv, CompanyTypes, CreatedIsUsable

LEMMA ElsewhereKeeps == CompanyInv /\ Elsewhere => CompanyInv'
<1> SUFFICES ASSUME CompanyInv, Elsewhere PROVE CompanyInv'
  OBVIOUS
<1> USE DEF Elsewhere, cacheVars, historyVars
<1>1. Place' = Place /\ (FormOpen' <=> FormOpen)
  BY DEF Place, FormOpen, Shows, HomeOf
<1>2. born \in Nat /\ exists \subseteq 1..born /\ exists \subseteq Company /\ stored \in Company \cup {None}
  BY Bounds DEF CompanyInv, CompanyTypeOK, OfficeTypeOK, Company
<1>3. /\ born' \in 0..MaxCompany /\ born <= born' /\ exists' \subseteq 1..born'
      /\ stored' \in Company \cup {None}
  <2>1. CASE born' = born /\ exists' \subseteq exists /\ stored' \in Company \cup {None}
    BY <1>2, <2>1 DEF CompanyInv, CompanyTypeOK
  <2>2. CASE born < MaxCompany /\ born' = born + 1 /\ exists' = exists \cup {born'} /\ stored' = stored
    <3>1. 1..born \subseteq 1..(born + 1) /\ born + 1 \in 1..(born + 1) /\ born + 1 \in 0..MaxCompany
      BY <1>2, <2>2, Bounds
    <3>2. QED
      BY <1>2, <2>2, <3>1
  <2>3. QED
    BY <1>2, <2>1, <2>2
<1>4. OpeningInv'
  BY <1>1, <1>3, SameForm
<1>5. CompanyTypes'
  BY <1>2, <1>3 DEF CompanyTypes, CompanyInv, OfficeTypeOK, CompanyTypeOK, CompanyShape
<1>6. QED
  BY <1>1, <1>4, <1>5 DEF CompanyInv, CompanyTypes, EditedOnPage, LoadedMatrixIsOwn, CreatedIsUsable

-----------------------------------------------------------------------------
(* The component *)

\* Every step of the gate and the page keeps the invariant.
LEMMA CompanyKeeps == CompanyInv /\ (CompanyNext \/ Reload) => CompanyInv'
<1> SUFFICES ASSUME CompanyInv, CompanyNext \/ Reload PROVE CompanyInv'
  OBVIOUS
<1>1. CASE Reload \/ ListFetched \/ OpenCreate \/ Dismiss \/ SubmitForm \/ SubmitWelcome \/ ConfirmDelete \/ CancelDelete \/ Elsewhere
  BY <1>1, ReloadKeeps, ListFetchedKeeps, OpenCreateKeeps, DismissKeeps, SubmitFormKeeps, SubmitWelcomeKeeps,
     ConfirmDeleteKeeps, QuestionsKeep, ElsewhereKeeps
<1>2. CASE \E c \in Company : Choose(c) \/ RowsFetched(c) \/ OpenEdit(c) \/ RequestDelete(c)
  BY <1>2, ChooseKeeps, RowsFetchedKeeps, OpenEditKeeps, QuestionsKeep
<1>3. CASE \E p \in Page : Navigate(p)
  BY <1>3, NavigateKeeps
<1>4. CASE \E s \in subs : Posted(s) \/ NotPosted(s) \/ Put(s) \/ Edited(s) \/ Deleted(s) \/ DeleteRefused(s) \/ DeleteLost(s)
  BY <1>4, PostedKeeps, AnswersKeep, PutKeeps, EditedKeeps, DeletedKeeps
<1>5. QED
  BY <1>1, <1>2, <1>3, <1>4 DEF CompanyNext

\* A step of another component reaches this one through the dialog slot alone.
LEMMA CompanyUntouched ==
  ASSUME CompanyInv, UNCHANGED <<companyVars, active, stored, page>>,
         dialog' \in Dialog, dialog' = "companyForm" => dialog = "companyForm"
  PROVE  CompanyInv'
<1> USE DEF companyVars, tableVars, cacheVars, historyVars
<1>1. Place' = Place /\ born \in Nat
  BY DEF Place, CompanyInv, CompanyTypeOK
<1>2. OpeningInv'
  BY <1>1, SameForm
<1>3. EditedOnPage'
  BY <1>1 DEF EditedOnPage, CompanyInv
<1>4. LoadedMatrixIsOwn'
  BY <1>3, SameMatrix
<1>5. CompanyTypes'
  BY DEF CompanyTypes, CompanyInv, OfficeTypeOK, CompanyTypeOK, CompanyShape
<1>6. QED
  BY <1>2, <1>3, <1>4, <1>5 DEF CompanyInv, CompanyTypes, CreatedIsUsable

\* A session starts in a state of the invariant.
LEMMA CompanyStarts ==
  ASSUME OfficeInit, CompanyInit, left.start \in Page, left.stored \subseteq Company \cup {None},
         left.companies \in 0..MaxCompany
  PROVE  CompanyInv
<1> USE DEF OfficeInit, CompanyInit
<1>1. form \in Form /\ form.no = 0 /\ form.mount = 0 /\ form.created = None /\ form.company = None
  BY FreshIsForm
<1>2. OfficeTypeOK
  BY DEF OfficeTypeOK, Dialog
<1>3. rows \in [Company -> Owner]
  BY Bounds
<1>4. CompanyTypeOK
  BY <1>1, <1>3, Bounds DEF CompanyTypeOK, Form, Maybe, Owner
<1>5. CompanyShape
  BY <1>1 DEF CompanyShape
<1>6. Place = "loading"
  BY DEF Place, PlaceOf
<1>7. OpeningInv
  BY <1>1, <1>6, Bounds DEF OpeningInv, OpeningsInOrder, MadeEarlier, OnePost, OneCompanyPerOpening, CreatedHere,
     AwaitedHere, WelcomeIsForm, WelcomeStays, MadeIsKnown, Waiting
<1>8. QED
  BY <1>1, <1>2, <1>4, <1>5, <1>7 DEF CompanyInv, EditedOnPage, LoadedMatrixIsOwn, CreatedIsUsable
=============================================================================
