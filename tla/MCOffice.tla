------------------------------- MODULE MCOffice -------------------------------
(* An instance of Office that TLC checks.  A session is one planner, or one   *)
(* worker, with a start and a number of clicks of each kind; each covers one   *)
(* page in depth.                                                              *)
EXTENDS Office

CONSTANTS m1, m2, w1, w2, w3

Nothing ==
  [start |-> "companies", stored |-> {1}, companies |-> 2, staffed |-> {{}}, rostered |-> {{}},
   good |-> {TRUE}, published |-> {{}},
   employer |-> {[w \in {w1, w2, w3} |-> IF w = w3 THEN 2 ELSE 1]},
   table |-> {{}},
   create |-> 0, edit |-> 0, delete |-> 0, switch |-> 0, navigate |-> 0, reload |-> 0, elsewhere |-> 0,
   form |-> 0, submit |-> 0, remove |-> 0, share |-> 0, rotate |-> 0, meanwhile |-> 0,
   rows |-> 0, saves |-> 0, puts |-> 0, move |-> 0, month |-> 0, planner |-> 0]

Directory == [Nothing EXCEPT !.stored = {1, None}, !.staffed = {{}, {1}}]
FirstRun == [Nothing EXCEPT !.stored = {None}, !.companies = 0]
CompanySessions ==
  {[FirstRun EXCEPT !.create = 2, !.navigate = 1],
   [Directory EXCEPT !.create = 1, !.edit = 1, !.switch = 1],
   [Directory EXCEPT !.create = 1, !.reload = 1, !.delete = 1],
   [Nothing EXCEPT !.edit = 2],
   [Directory EXCEPT !.create = 2],
   [Nothing EXCEPT !.create = 1, !.delete = 1, !.switch = 1],
   [FirstRun EXCEPT !.create = 1, !.delete = 1, !.elsewhere = 1],
   [Directory EXCEPT !.create = 1, !.delete = 1, !.elsewhere = 1],
   [Directory EXCEPT !.create = 2, !.delete = 1]}

Staff == [Nothing EXCEPT !.start = "workers", !.rostered = {{}, {1}}]
WorkerSessions ==
  {[Staff EXCEPT !.form = 1, !.submit = 3],
   [Staff EXCEPT !.form = 2, !.submit = 1, !.remove = 1],
   [Staff EXCEPT !.form = 1, !.submit = 1, !.meanwhile = 1],
   [Staff EXCEPT !.share = 2, !.rotate = 1],
   [Staff EXCEPT !.form = 1, !.submit = 1, !.share = 1, !.rotate = 1],
   [Staff EXCEPT !.remove = 1, !.share = 1, !.rotate = 1],
   [Staff EXCEPT !.share = 1, !.rotate = 1, !.meanwhile = 1],
   [Staff EXCEPT !.share = 1, !.rotate = 1, !.navigate = 2],
   [Staff EXCEPT !.form = 1, !.submit = 1, !.navigate = 2],
   [Staff EXCEPT !.form = 1, !.submit = 1, !.reload = 1]}

Row1(w, m) == [worker |-> w, month |-> m, value |-> 0, by |-> 0]
Grid == [Nothing EXCEPT !.start = "roster", !.table = {{Row1(w1, m1), Row1(w3, m1)}, {Row1(w2, m2)}}]
GridSessions ==
  {[Grid EXCEPT !.rows = 1, !.saves = 1, !.month = 2],
   [Grid EXCEPT !.rows = 1, !.saves = 1, !.switch = 2],
   [Grid EXCEPT !.rows = 1, !.saves = 2],
   [Grid EXCEPT !.rows = 1, !.saves = 1, !.reload = 1],
   [Grid EXCEPT !.saves = 1, !.puts = 1],
   [Grid EXCEPT !.rows = 1, !.saves = 1, !.move = 1]}

Visit == [Nothing EXCEPT !.start = "schedule", !.good = {TRUE, FALSE}, !.published = {{}, {m1}, {m1, m2}}]
ViewSessions == {[Visit EXCEPT !.month = 3, !.planner = 1]}

Sessions == CompanySessions \cup WorkerSessions \cup GridSessions \cup ViewSessions
=============================================================================
