------------------------------ MODULE MCExchange ------------------------------
(* Exchange, in one session for each of its parts. *)
EXTENDS Exchange

CONSTANTS f1, f2, m1, m2, m3, guard, screener, blank, letters

MCFirm == {f1, f2}
MCMonth == {m1, m2, m3}
MCDayCount == (m1 :> 2) @@ (m2 :> 2) @@ (m3 :> 1)
MCRole == {guard, screener}
MCChar == {"=", "'", "t", "a", "b"}
MCGarbage == {blank, letters}
MCRawCell == {<<>>, <<"B">>, <<"B", "A">>}
MCFault == {"role", "hours", "ragged"}
MCCrew == {200, 201, 1000, 5000, 5001, 10000, 10001}
MCDelay == {1, 6, 600}
MCText == {blank, letters, -1, 0, 2, 7}

Person1(c, name, r, terms) == [firm |-> c, name |-> name, role |-> r, terms |-> terms]
Hours(lo, hi) == [min |-> lo, max |-> hi]

Free == [m \in MCMonth |-> [d \in 1 .. MCDayCount[m] |-> <<>>]]
Rows(days) == [Free EXCEPT ![m1] = days]
Nothing == [c \in MCFirm |-> [cell \in Cell |-> 0]]

\* Names with a formula's trigger, a quote, and both; a worker without terms, one of the
\* other firm, one who is not there yet.
FilePeople ==
  {<<Person1(f1, <<"=">>, guard, Hours(8, 16)), Person1(f1, <<"'", "t">>, guard, Hours(0, 8)), None>>,
   <<Person1(f1, <<"'", "=">>, guard, Hours(8, 16)), Person1(f2, <<"a">>, guard, Hours(0, 8)),
     Person1(f1, <<"b">>, guard, None)>>}
GridPeople == {<<Person1(f1, <<"a">>, guard, None), Person1(f2, <<"b">>, guard, None), None>>}

\* One who owes hours beside one who owes none, also under a contract of no hours.
CrewPeople ==
  {<<Person1(f1, <<"a">>, r, terms), Person1(f1, <<"b">>, guard, Hours(0, 16)), None>> :
     r \in MCRole, terms \in {Hours(8, 16), Hours(0, 0)}}

None0 == [export |-> 0, file |-> 0, upload |-> 0, open |-> 0, toggle |-> 0, save |-> 0, build |-> 0,
          form |-> 0, cell |-> 0, start |-> 0, solve |-> 0, people |-> GridPeople, table |-> {},
          needs |-> Nothing]

Tables == {<<Rows(a), Rows(b), Free>> : a \in {<< <<>>, <<"A", "C">> >>, << <<"B">>, <<"A", "B", "C">> >>},
                                        b \in {<< <<>>, <<>> >>}}

FileSession == [None0 EXCEPT !.export = 1, !.file = 2, !.upload = 1, !.people = FilePeople, !.table = {<<Rows(<< <<>>, <<"A", "C">> >>), Free, Free>>}]
GridSession == [None0 EXCEPT !.open = 1, !.toggle = 3, !.save = 1, !.table = Tables]
NeedsOne == [Nothing EXCEPT ![f1] = [cell \in Cell |-> IF cell = <<guard, "A">> THEN 2 ELSE IF cell = <<guard, "C">> THEN 1 ELSE 0]]
\* Both may work the first month's days but for shift B, where nobody is wanted, nobody
\* the second's, and one of them the third's day only in part.
Idle == [Free EXCEPT ![m1] = << <<"B">>, <<"B">> >>, ![m2] = << <<"A", "B", "C">>, <<"A", "B", "C">> >>]
SolverSession ==
  [None0 EXCEPT !.build = 1, !.people = CrewPeople, !.needs = NeedsOne,
     !.table = {<<[Idle EXCEPT ![m3] = <<cell>>], Idle, Idle>> : cell \in {<<>>, <<"A">>, <<"A", "B", "C">>}}]
\* An hour that one owes against a place that the other could have all to himself.
TiePeople == {<<Person1(f1, <<"a">>, guard, Hours(9, 16)), Person1(f1, <<"b">>, guard, Hours(0, 16)), None>>}
TieSession ==
  [SolverSession EXCEPT !.people = TiePeople,
     !.needs = [Nothing EXCEPT ![f1] = [cell \in Cell |-> IF cell \in {<<guard, "A">>, <<guard, "C">>} THEN 1 ELSE 0]]]
\* A matrix with a row of one, a row of none and cells without a row, of which one role has
\* all; on one day, contracts that want more than the places there are.
NeedsPart == [Nothing EXCEPT ![f1] = (<<guard, "A">> :> 1) @@ (<<guard, "C">> :> 0)]
PartPeople ==
  {<<Person1(f1, <<"a">>, guard, Hours(16, 16)), Person1(f1, <<"b">>, r, Hours(lo, 24)), None>> :
     r \in MCRole, lo \in {0, 12}}
PartIdle == [Idle EXCEPT ![m1] = << <<"C">>, <<"A", "B", "C">> >>]
PartSession ==
  [SolverSession EXCEPT !.people = PartPeople, !.needs = NeedsPart,
     !.table = {<<[PartIdle EXCEPT ![m3] = <<cell>>], PartIdle, PartIdle>> : cell \in {<<>>, <<"B">>}}]
FormSession == [None0 EXCEPT !.form = 1, !.cell = 2, !.needs = NeedsPart, !.table = {<<Free, Free, Free>>}]
ProcessSession == [None0 EXCEPT !.start = 1, !.solve = 1, !.table = {<<Free, Free, Free>>}]

Sessions == {FileSession, GridSession, SolverSession, TieSession, PartSession, FormSession, ProcessSession}
=============================================================================
