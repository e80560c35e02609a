----------------------------- MODULE ExchangeProofs -----------------------------
(***************************************************************************)
(* That a file, the grid's draft, the headcount form, the solver's problem *)
(* and its clocks lose nothing on the way is proved here for every number  *)
(* of companies, workers, months, rows, cells and seconds.                 *)
(*                                                                         *)
(* Each part has an invariant over its own state and the tables; a part's  *)
(* step reaches another one only through the tables, and where a draft is  *)
(* saved nobody is imported.  An import's invariant is a loop invariant:   *)
(* what ImportIsFile says of all rows, said of the rows so far.            *)
(*                                                                         *)
(* An optimal roster is compared with all others.  Sums are taken apart by *)
(* the smallest subset for which a claim about them fails; that coverage   *)
(* comes first is an exchange of shifts between two rosters.               *)
(***************************************************************************)
EXTENDS Exchange, SequenceTheorems, FiniteSetTheorems, WellFoundedInduction, TLAPS

-----------------------------------------------------------------------------
(* The session's counters *)

LeftOK == Kind \subseteq DOMAIN left /\ \A k \in Kind : left[k] \in Nat

LEMMA UsesOne ==
  ASSUME LeftOK, NEW kind \in Kind, Uses(kind)
  PROVE  /\ LeftOK' /\ left[kind] > 0 /\ left'[kind] = left[kind] - 1
         /\ \A k \in Kind \ {kind} : left'[k] = left[k]
<1>1. left' = [left EXCEPT ![kind] = @ - 1] /\ left[kind] > 0 /\ left[kind] \in Nat
  BY DEF Uses, LeftOK
<1>2. left[kind] - 1 \in Nat
  BY <1>1
<1>3. DOMAIN left' = DOMAIN left /\ \A k \in DOMAIN left : left'[k] = IF k = kind THEN left[k] - 1 ELSE left[k]
  BY <1>1
<1> QED BY <1>1, <1>2, <1>3 DEF LeftOK

-----------------------------------------------------------------------------
(* The solver's process *)

\* The two copies of the table agree for every size of company (timeBudget.ts and solve_roster.py).
LEMMA BudgetsAgree ==
  ASSUME NEW n \in Nat
  PROVE  NodeBudget(n) = PythonBudget(n) /\ PythonBudget(n) \in {30, 600, 1200, 1800}
<1> DEFINE fits == {i \in DOMAIN NodeBands : n <= NodeBands[i][1]}
<1>1. /\ DOMAIN NodeBands = {1, 2, 3, 4}
      /\ NodeBands[1] = <<200, 30>> /\ NodeBands[2] = <<1000, 600>>
      /\ NodeBands[3] = <<5000, 600>> /\ NodeBands[4] = <<10000, 1200>>
  BY DEF NodeBands
<1>2. ASSUME NEW k \in fits, \A i \in fits : k <= i PROVE NodeBudget(n) = NodeBands[k][2]
  <2>1. fits \subseteq {1, 2, 3, 4}
    BY <1>1
  <2>2. Min(fits) \in fits /\ \A i \in fits : Min(fits) <= i
    <3> HIDE DEF fits
    <3> QED BY <1>2, Zenon DEF Min
  <2>3. Min(fits) = k
    <3>1. k \in {1, 2, 3, 4} /\ Min(fits) \in {1, 2, 3, 4}
      BY <1>2, <2>1, <2>2, Zenon
    <3>2. k <= Min(fits) /\ Min(fits) <= k
      BY <1>2, <2>2, Zenon
    <3> HIDE DEF fits
    <3> QED BY <3>1, <3>2
  <2> QED BY <1>2, <2>3 DEF NodeBudget
<1>3. CASE n <= 200
  <2>1. 1 \in fits /\ \A i \in fits : 1 <= i
    BY <1>1, <1>3
  <2> QED BY <1>1, <1>2, <1>3, <2>1 DEF PythonBudget
<1>4. CASE n > 200 /\ n <= 1000
  <2>1. 2 \in fits /\ \A i \in fits : 2 <= i
    BY <1>1, <1>4
  <2> QED BY <1>1, <1>2, <1>4, <2>1 DEF PythonBudget
<1>5. CASE n > 1000 /\ n <= 5000
  <2>1. 3 \in fits /\ \A i \in fits : 3 <= i
    BY <1>1, <1>5
  <2> QED BY <1>1, <1>2, <1>5, <2>1 DEF PythonBudget
<1>6. CASE n > 5000 /\ n <= 10000
  <2>1. 4 \in fits /\ \A i \in fits : 4 <= i
    BY <1>1, <1>6
  <2> QED BY <1>1, <1>2, <1>6, <2>1 DEF PythonBudget
<1>7. CASE n > 10000
  <2>1. fits = {}
    BY <1>1, <1>7
  <2> QED BY <1>7, <2>1 DEF NodeBudget, PythonBudget
<1> QED BY <1>3, <1>4, <1>5, <1>6, <1>7

Phase == {"spawned", "searching", "printing", "stalled", "exited", "done"}
SolveRow == [crew : Crew, limit : Nat, expiry : {JobExpiry}, at : Phase,
             search : Nat, inside : Nat, outside : Nat]

\* The clocks of a run: the timer is set from its crew, the search starts at zero and
\* stays within the budget of the same crew.
Clocks ==
  /\ solve \in SolveRow
  /\ solve.limit = PythonBudget(solve.crew) + Headroom
  /\ solve.search <= PythonBudget(solve.crew)
  /\ solve.at \in {"spawned", "searching"} => solve.search = 0

ProcessInv ==
  /\ LeftOK /\ ProcessTypeOK
  /\ left.start = 0 /\ left.solve > 0 => queue = JobExpiry
  /\ solve # None => Clocks
  /\ KilledOnlyOverHeadroom

\* Where the rest of the session leaves the process's invariant alone.
LEMMA ProcessQuiet ==
  ASSUME ProcessInv, UNCHANGED processVars, LeftOK', left'.start = left.start, left'.solve = left.solve
  PROVE  ProcessInv'
BY DEF ProcessInv, ProcessTypeOK, Clocks, processVars, Elapsed, KilledOnlyOverHeadroom

LEMMA ProcessStarts == Init => ProcessInv
<1> SUFFICES ASSUME Init PROVE ProcessInv
  OBVIOUS
<1>1. LeftOK /\ left.start \in Nat /\ left.solve \in Nat /\ (left.solve > 0 => left.start > 0)
  <2>1. left \in Session
    BY DEF Init, TableInit
  <2>2. Kind \subseteq DOMAIN left /\ (\A k \in Kind : left[k] \in Nat)
    BY <2>1, SessionAssumption
  <2> QED BY <2>1, <2>2, ProcessAssumption DEF LeftOK, Kind
<1>2. queue \in {None, DefaultExpiry} /\ solve = None /\ settled = "no"
  BY DEF Init, ProcessInit
<1> QED BY <1>1, <1>2 DEF ProcessInv, ProcessTypeOK, KilledOnlyOverHeadroom

\* A phase of d seconds, inside the search or outside of it.
LEMMA SpendsInv ==
  ASSUME ProcessInv, solve # None,
         NEW part \in {"search", "inside"}, NEW d \in Nat, NEW next \in {"searching", "printing", "exited"},
         NEW how \in {"no", "solved", "rejected"}, Spends(part, d, next, how),
         solve.at \in {"spawned", "searching", "printing"},
         next = "searching" => solve.at = "spawned" /\ part = "inside",
         part = "search" => solve.search = 0 /\ d <= PythonBudget(solve.crew)
  PROVE  ProcessInv'
<1> DEFINE late == Elapsed + d >= solve.limit
           at == IF late THEN "exited" ELSE next
<1>1. Clocks /\ solve \in SolveRow /\ solve.crew \in Nat
  BY ProcessAssumption DEF ProcessInv, Clocks, SolveRow
<1>2. PythonBudget(solve.crew) \in {30, 600, 1200, 1800} /\ Headroom = 5
  BY <1>1, BudgetsAgree DEF Headroom
<1>3. /\ solve' = [[solve EXCEPT ![part] = @ + d] EXCEPT !.at = at]
      /\ settled' = IF late THEN "killed" ELSE how
      /\ UNCHANGED <<queue, left>>
  BY DEF Spends
<1>4. /\ solve.search \in Nat /\ solve.inside \in Nat /\ solve.outside \in Nat /\ solve.limit \in Nat
      /\ at \in Phase
  BY <1>1 DEF SolveRow, Phase
<1> HIDE DEF at
<1>5. /\ solve' \in SolveRow
      /\ solve'.crew = solve.crew /\ solve'.limit = solve.limit /\ solve'.at = at
      /\ solve'.outside = solve.outside
      /\ solve'.search = IF part = "search" THEN solve.search + d ELSE solve.search
      /\ solve'.inside = IF part = "inside" THEN solve.inside + d ELSE solve.inside
      /\ solve'.expiry = solve.expiry
  <2>1. CASE part = "search"
    <3>1. solve' = [solve EXCEPT !.search = solve.search + d, !.at = at]
      BY <1>1, <1>3, <2>1 DEF SolveRow
    <3>2. solve.search + d \in Nat
      BY <1>4
    <3> QED BY <1>1, <1>4, <2>1, <3>1, <3>2 DEF SolveRow
  <2>2. CASE part = "inside"
    <3>1. solve' = [solve EXCEPT !.inside = solve.inside + d, !.at = at]
      BY <1>1, <1>3, <2>2 DEF SolveRow
    <3>2. solve.inside + d \in Nat
      BY <1>4
    <3> QED BY <1>1, <1>4, <2>2, <3>1, <3>2 DEF SolveRow
  <2> QED BY <2>1, <2>2
<1>6. Clocks'
  <2>1. solve'.search <= PythonBudget(solve'.crew)
    BY <1>1, <1>2, <1>4, <1>5 DEF Clocks
  <2>2. solve'.at \in {"spawned", "searching"} => solve'.search = 0
    BY <1>1, <1>5 DEF Clocks, at
  <2>3. solve'.limit = PythonBudget(solve'.crew) + Headroom
    BY <1>1, <1>5 DEF Clocks
  <2> QED BY <1>5, <2>1, <2>2, <2>3 DEF Clocks
\* Had the search been within its budget, only the headroom can have been spent.
<1>7. late => solve'.inside >= Headroom
  <2>1. solve.search <= PythonBudget(solve.crew)
    BY <1>1 DEF Clocks
  <2>2. late => solve.search + solve.inside + d >= PythonBudget(solve.crew) + Headroom
    BY <1>1, <1>4 DEF Clocks, Elapsed
  <2> QED BY <1>2, <1>4, <1>5, <2>1, <2>2
<1>8. ProcessTypeOK'
  <2>1. solve'.crew \in Crew /\ solve'.search + solve'.inside + solve'.outside \in Nat
    BY <1>5 DEF SolveRow
  <2> QED BY <1>3, <2>1 DEF ProcessInv, ProcessTypeOK, Elapsed
<1> QED BY <1>3, <1>6, <1>7, <1>8 DEF ProcessInv, LeftOK, KilledOnlyOverHeadroom

LEMMA ProcessSteps ==
  ASSUME ProcessInv, ProcessNext
  PROVE  ProcessInv'
<1>1. LeftOK /\ ProcessTypeOK /\ (solve # None => Clocks /\ solve \in SolveRow /\ solve.crew \in Nat)
  BY ProcessAssumption DEF ProcessInv, Clocks, SolveRow
<1>2. CASE EnsureQueues
  <2>1. queue' = JobExpiry /\ UNCHANGED <<solve, settled>> /\ Uses("start") /\ "start" \in Kind
    BY <1>2 DEF EnsureQueues, Kind
  <2>2. LeftOK'
    BY <1>1, <2>1, UsesOne
  <2> QED BY <2>1, <2>2 DEF ProcessInv, ProcessTypeOK, Clocks, Elapsed, KilledOnlyOverHeadroom
<1>3. ASSUME NEW n \in Crew, NEW d \in Delay, StartJob(n, d) PROVE ProcessInv'
  <2>1. /\ Uses("solve") /\ settled' = "no" /\ UNCHANGED queue /\ left.start = 0
        /\ solve' = [crew |-> n, limit |-> NodeTimeout(n), expiry |-> queue, at |-> "spawned",
                     search |-> 0, inside |-> 0, outside |-> d]
    BY <1>3 DEF StartJob
  <2>2. LeftOK' /\ left.solve > 0 /\ left'.start = left.start
    BY <1>1, <2>1, UsesOne DEF Kind
  <2>3. queue = JobExpiry
    BY <2>1, <2>2 DEF ProcessInv
  <2>4. n \in Nat /\ d \in Nat /\ NodeTimeout(n) = PythonBudget(n) + Headroom /\ NodeTimeout(n) \in Nat
        /\ 0 <= PythonBudget(n)
    BY ProcessAssumption, BudgetsAgree DEF NodeTimeout, Headroom
  <2>5. Clocks'
    BY <2>1, <2>3, <2>4 DEF Clocks, SolveRow, Phase
  <2>6. ProcessTypeOK'
    BY <1>1, <2>1, <2>4 DEF ProcessTypeOK, Elapsed
  <2> QED BY <2>1, <2>2, <2>3, <2>5, <2>6 DEF ProcessInv, KilledOnlyOverHeadroom
\* An end of the process that is not the timer's.
<1>4. ASSUME solve # None, NEW how \in {"rejected", "hung", "crashed"}, Settle(how),
             UNCHANGED <<queue, left>>
      PROVE  ProcessInv'
  <2>1. solve' = [solve EXCEPT !.at = "exited"] /\ settled' = how
    BY <1>4 DEF Settle
  <2>2. Clocks'
    BY <1>1, <1>4, <2>1 DEF Clocks, SolveRow, Phase
  <2>3. ProcessTypeOK'
    BY <1>1, <1>4, <2>1, <2>2 DEF ProcessTypeOK, Clocks, SolveRow, Elapsed
  <2> QED BY <1>4, <2>1, <2>2, <2>3 DEF ProcessInv, LeftOK, KilledOnlyOverHeadroom
<1>5. CASE SpawnFails \/ DiesUnread \/ Dies \/ Timer
  BY <1>4, <1>5 DEF SpawnFails, DiesUnread, Dies, Timer, Running
<1>6. CASE Stalls
  <2>1. solve # None /\ solve' = [solve EXCEPT !.at = "stalled"] /\ UNCHANGED <<queue, settled, left>>
    BY <1>6 DEF Stalls, Running
  <2>2. Clocks'
    BY <1>1, <2>1 DEF Clocks, SolveRow, Phase
  <2>3. ProcessTypeOK' /\ KilledOnlyOverHeadroom'
    BY <1>1, <2>1, <2>2 DEF ProcessInv, ProcessTypeOK, Clocks, SolveRow, Elapsed, KilledOnlyOverHeadroom
  <2> QED BY <2>1, <2>2, <2>3 DEF ProcessInv, LeftOK
<1>7. ASSUME NEW d \in Delay, EndJob(d) PROVE ProcessInv'
  <2>1. /\ solve # None /\ solve' = [solve EXCEPT !.at = "done", !.outside = @ + d]
        /\ UNCHANGED <<queue, settled, left>> /\ d \in Nat
    BY <1>7, ProcessAssumption DEF EndJob
  <2>2. solve.outside + d \in Nat
    BY <1>1, <2>1 DEF SolveRow
  <2>3. Clocks'
    BY <1>1, <2>1, <2>2 DEF Clocks, SolveRow, Phase
  <2>4. ProcessTypeOK' /\ KilledOnlyOverHeadroom'
    BY <1>1, <2>1, <2>3 DEF ProcessInv, ProcessTypeOK, Clocks, SolveRow, Elapsed, KilledOnlyOverHeadroom
  <2> QED BY <2>1, <2>3, <2>4 DEF ProcessInv, LeftOK
<1>8. ASSUME NEW d \in Delay, Build(d) PROVE ProcessInv'
  BY <1>8, SpendsInv, ProcessAssumption DEF Build
<1>9. ASSUME NEW d \in Delay, NEW good \in BOOLEAN, WriteOut(d, good) PROVE ProcessInv'
  BY <1>9, SpendsInv, ProcessAssumption DEF WriteOut
<1>10. ASSUME solve # None, NEW found \in BOOLEAN, NEW d \in {1, PythonBudget(solve.crew)}, Search(d, found)
       PROVE  ProcessInv'
  <2>1. d \in Nat /\ d <= PythonBudget(solve.crew) /\ solve.search = 0
    BY <1>1, <1>10, BudgetsAgree DEF Search, Clocks
  <2> QED BY <1>10, <2>1, SpendsInv DEF Search
<1> QED BY <1>2, <1>3, <1>5, <1>6, <1>7, <1>8, <1>9, <1>10 DEF ProcessNext, ProcessStep
-----------------------------------------------------------------------------
(* The tables *)

LEMMA ShortSequences ==
  ASSUME NEW S, NEW x \in S, NEW y \in S, NEW z \in S
  PROVE  <<x>> \o <<y>> = <<x, y>> /\ <<x, y>> \o <<z>> = <<x, y, z>>
<1> DEFINE two == <<x>> \o <<y>>
           three == <<x, y>> \o <<z>>
<1>1. <<x>> \in Seq(S) /\ <<y>> \in Seq(S) /\ <<z>> \in Seq(S) /\ <<x, y>> \in Seq(S) /\ <<x, y, z>> \in Seq(S)
  OBVIOUS
<1>2. two \in Seq(S) /\ Len(two) = 2 /\ two[1] = x /\ two[2] = y
  <2>1. two \in Seq(S) /\ Len(two) = 2
    BY <1>1, ConcatProperties
  <2> QED BY <1>1, <2>1, ConcatProperties
<1>3. three \in Seq(S) /\ Len(three) = 3 /\ three[1] = x /\ three[2] = y /\ three[3] = z
  <2>1. three \in Seq(S) /\ Len(three) = 3
    BY <1>1, ConcatProperties
  <2> QED BY <1>1, <2>1, ConcatProperties
<1> HIDE DEF two, three
<1>4. two = <<x, y>>
  BY <1>1, <1>2, SeqEqual
<1>5. three = <<x, y, z>>
  BY <1>1, <1>3, SeqEqual
<1> QED BY <1>4, <1>5 DEF two, three

\* Letters put in order are a row's cell.
LEMMA CanonicalCell ==
  ASSUME NEW S \in SUBSET Shift
  PROVE  /\ Canonical(S) \in DayCell
         /\ Letters(Canonical(S)) = S
         /\ Canonical(S) = <<>> <=> S = {}
<1> DEFINE a == ShiftTypes[1]
           b == ShiftTypes[2]
           c == ShiftTypes[3]
<1>1. Shift = {a, b, c} /\ a # b /\ b # c /\ a # c
  BY DEF ShiftTypes, Shift
<1>2. Before(a, b) /\ Before(a, c) /\ Before(b, c)
  <2>1. 1 \in 1 .. 3 /\ 2 \in 1 .. 3 /\ 3 \in 1 .. 3 /\ 1 < 2 /\ 2 < 3 /\ 1 < 3
    OBVIOUS
  <2> QED BY <2>1 DEF Before
<1> HIDE DEF a, b, c
<1>3. \A x \in Shift : <<x>> \in DayCell /\ Letters(<<x>>) = {x}
  BY DEF DayCell, SubsetSchema, Letters
<1>4. ASSUME NEW x \in Shift, NEW y \in Shift, Before(x, y)
      PROVE  <<x, y>> \in DayCell /\ Letters(<<x, y>>) = {x, y} /\ <<x, y>> # <<>>
  <2>1. <<x, y>> \in Seq(Shift) /\ Len(<<x, y>>) = 2 /\ Letters(<<x, y>>) = {x, y} /\ <<x, y>> # <<>>
    BY DEF Letters
  <2>2. \A i \in 2 .. 2 : Before(<<x, y>>[i - 1], <<x, y>>[i])
    BY <1>4
  <2> QED BY <2>1, <2>2 DEF DayCell, SubsetSchema
<1>5. <<a, b, c>> \in DayCell /\ Letters(<<a, b, c>>) = {a, b, c} /\ <<a, b, c>> # <<>>
  <2>1. /\ <<a, b, c>> \in Seq(Shift) /\ Len(<<a, b, c>>) = 3
        /\ Letters(<<a, b, c>>) = {a, b, c} /\ <<a, b, c>> # <<>>
    BY <1>1 DEF Letters
  <2>2. \A i \in 2 .. 3 : Before(<<a, b, c>>[i - 1], <<a, b, c>>[i])
    BY <1>2
  <2> QED BY <1>1, <2>1, <2>2 DEF DayCell, SubsetSchema
<1>6. <<>> \in DayCell /\ Letters(<<>>) = {}
  BY DEF DayCell, Letters
<1>7. Canonical(S) = (IF a \in S THEN <<a>> ELSE <<>>) \o (IF b \in S THEN <<b>> ELSE <<>>)
                       \o (IF c \in S THEN <<c>> ELSE <<>>)
  BY DEF Canonical, a, b, c
<1>8. CASE S = {}
  <2>1. Canonical(S) = <<>>
    BY <1>7, <1>8
  <2> QED BY <1>6, <1>8, <2>1
<1> DEFINE first == IF a \in S THEN <<a>> ELSE <<>>
           second == IF b \in S THEN <<b>> ELSE <<>>
           third == IF c \in S THEN <<c>> ELSE <<>>
\* What is empty does not count.
<1>9. \A t \in Seq(Shift) : t \o <<>> = t /\ <<>> \o t = t
  BY ConcatEmptySeq
<1>10. <<a>> \in Seq(Shift) /\ <<b>> \in Seq(Shift) /\ <<c>> \in Seq(Shift) /\ <<>> \in Seq(Shift)
  BY <1>1
<1>11. /\ <<a>> \o <<b>> = <<a, b>> /\ <<a>> \o <<c>> = <<a, c>>
       /\ <<b>> \o <<c>> = <<b, c>> /\ <<a, b>> \o <<c>> = <<a, b, c>>
  <2>1. \A x, y, z \in Shift : <<x>> \o <<y>> = <<x, y>> /\ <<x, y>> \o <<z>> = <<x, y, z>>
    BY ShortSequences
  <2> QED BY <1>1, <2>1
<1>12. Canonical(S) = first \o second \o third
  BY <1>7
<1>13. /\ a \in S => first = <<a>>
       /\ a \notin S => first = <<>>
       /\ b \in S => second = <<b>>
       /\ b \notin S => second = <<>>
       /\ c \in S => third = <<c>>
       /\ c \notin S => third = <<>>
  OBVIOUS
<1> HIDE DEF first, second, third
<1>14. CASE S = {a} \/ S = {b} \/ S = {c}
  <2>1. CASE S = {a}
    <3>1. first = <<a>> /\ second = <<>> /\ third = <<>>
      BY <1>1, <1>13, <2>1
    <3>2. Canonical(S) = <<a>>
      BY <1>9, <1>10, <1>12, <3>1
    <3> QED BY <1>1, <1>3, <2>1, <3>2
  <2>2. CASE S = {b}
    <3>1. first = <<>> /\ second = <<b>> /\ third = <<>>
      BY <1>1, <1>13, <2>2
    <3>2. Canonical(S) = <<b>>
      BY <1>9, <1>10, <1>12, <3>1
    <3> QED BY <1>1, <1>3, <2>2, <3>2
  <2>3. CASE S = {c}
    <3>1. first = <<>> /\ second = <<>> /\ third = <<c>>
      BY <1>1, <1>13, <2>3
    <3>2. Canonical(S) = <<c>>
      BY <1>9, <1>10, <1>12, <3>1
    <3> QED BY <1>1, <1>3, <2>3, <3>2
  <2> QED BY <1>14, <2>1, <2>2, <2>3
<1>15. CASE S = {a, b}
  <2>1. first = <<a>> /\ second = <<b>> /\ third = <<>>
    BY <1>1, <1>13, <1>15
  <2>2. Canonical(S) = <<a, b>> /\ <<a, b>> \in Seq(Shift)
    <3>1. <<a, b>> \in Seq(Shift)
      BY <1>1
    <3> QED BY <1>9, <1>11, <1>12, <2>1, <3>1
  <2>3. <<a, b>> \in DayCell /\ Letters(<<a, b>>) = {a, b} /\ <<a, b>> # <<>>
    BY <1>1, <1>2, <1>4
  <2> QED BY <1>15, <2>2, <2>3
<1>16. CASE S = {a, c}
  <2>1. first = <<a>> /\ second = <<>> /\ third = <<c>>
    BY <1>1, <1>13, <1>16
  <2>2. Canonical(S) = <<a, c>>
    BY <1>9, <1>10, <1>11, <1>12, <2>1
  <2>3. <<a, c>> \in DayCell /\ Letters(<<a, c>>) = {a, c} /\ <<a, c>> # <<>>
    BY <1>1, <1>2, <1>4
  <2> QED BY <1>16, <2>2, <2>3
<1>17. CASE S = {b, c}
  <2>1. first = <<>> /\ second = <<b>> /\ third = <<c>>
    BY <1>1, <1>13, <1>17
  <2>2. Canonical(S) = <<b, c>>
    BY <1>9, <1>10, <1>11, <1>12, <2>1
  <2>3. <<b, c>> \in DayCell /\ Letters(<<b, c>>) = {b, c} /\ <<b, c>> # <<>>
    BY <1>1, <1>2, <1>4
  <2> QED BY <1>17, <2>2, <2>3
<1>18. CASE S = {a, b, c}
  <2>1. first = <<a>> /\ second = <<b>> /\ third = <<c>>
    BY <1>1, <1>13, <1>18
  <2>2. Canonical(S) = <<a, b, c>>
    BY <1>11, <1>12, <2>1
  <2> QED BY <1>5, <1>18, <2>2
<1>19. S \in {{}, {a}, {b}, {c}, {a, b}, {a, c}, {b, c}, {a, b, c}}
  BY <1>1
<1> QED BY <1>1, <1>3, <1>8, <1>14, <1>15, <1>16, <1>17, <1>18, <1>19
-----------------------------------------------------------------------------
(* The grid's draft *)

\* A worker's dates and cells, and a draft: no cell and no row of it is empty.
RowOK(row, m) == DOMAIN row \subseteq Days(m) /\ row \in [DOMAIN row -> DayCell \ {<<>>}]
DraftOK(draft, m) ==
  /\ DOMAIN draft \subseteq Member
  /\ draft = [w \in DOMAIN draft |-> draft[w]]
  /\ \A w \in DOMAIN draft : RowOK(draft[w], m) /\ DOMAIN draft[w] # {}

Marks(m) == Member \X Days(m) \X Shift

\* What the draft excludes is what is marked, for whoever is on the sheet.
DraftInv ==
  sheet # None =>
    /\ sheet.firm \in Firm /\ sheet.month \in Month
    /\ sheet = [firm |-> sheet.firm, month |-> sheet.month, draft |-> sheet.draft, marks |-> sheet.marks]
    /\ DraftOK(sheet.draft, sheet.month) /\ sheet.marks \subseteq Marks(sheet.month)
    /\ \A w \in Member, d \in Days(sheet.month) :
         Letters(CellShifts(sheet.draft, w, d)) = {s \in Shift : <<w, d, s>> \in sheet.marks}

LEMMA LookedUp ==
  ASSUME NEW m, NEW draft, DraftOK(draft, m), NEW w
  PROVE  /\ RowOK(RowIn(draft, w), m)
         /\ \A d : CellShifts(draft, w, d) \in DayCell
<1>1. RowOK(RowIn(draft, w), m)
  <2>1. CASE w \in DOMAIN draft
    BY <2>1 DEF RowIn, DraftOK
  <2>2. CASE w \notin DOMAIN draft
    <3>1. DOMAIN NoCells = {}
      BY DEF NoCells
    <3>2. NoCells \in [{} -> DayCell \ {<<>>}]
      BY DEF NoCells
    <3> QED BY <2>2, <3>1, <3>2 DEF RowIn, RowOK
  <2> QED BY <2>1, <2>2
<1>2. ASSUME NEW d PROVE CellShifts(draft, w, d) \in DayCell
  <2>1. <<>> \in DayCell
    BY DEF DayCell
  <2> QED BY <1>1, <2>1 DEF CellShifts, RowOK
<1> QED BY <1>1, <1>2

LEMMA WithRowKeeps ==
  ASSUME NEW m, NEW draft, DraftOK(draft, m), NEW w \in Member, NEW row, RowOK(row, m)
  PROVE  /\ DraftOK(WithRow(draft, w, row), m)
         /\ DOMAIN WithRow(draft, w, row) \subseteq DOMAIN draft \cup {w}
         /\ \A v, d : CellShifts(WithRow(draft, w, row), v, d) =
                        IF v = w THEN (IF d \in DOMAIN row THEN row[d] ELSE <<>>) ELSE CellShifts(draft, v, d)
<1> DEFINE new == WithRow(draft, w, row)
<1>1. CASE DOMAIN row = {}
  <2>1. new = [v \in DOMAIN draft \ {w} |-> draft[v]]
    BY <1>1 DEF WithRow, Restrict
  <2> HIDE DEF new
  <2>2. DraftOK(new, m) /\ DOMAIN new \subseteq DOMAIN draft \cup {w}
    BY <2>1 DEF DraftOK
  <2>3. DOMAIN NoCells = {}
    BY DEF NoCells
  <2>4. ASSUME NEW v, NEW d
        PROVE  CellShifts(new, v, d) = IF v = w THEN <<>> ELSE CellShifts(draft, v, d)
    <3>1. RowIn(new, v) = IF v = w THEN NoCells ELSE RowIn(draft, v)
      BY <2>1 DEF RowIn
    <3> QED BY <2>3, <3>1 DEF CellShifts
  <2> QED BY <1>1, <2>2, <2>4 DEF new
<1>2. CASE DOMAIN row # {}
  <2>1. new = [v \in DOMAIN draft \cup {w} |-> IF v = w THEN row ELSE draft[v]]
    BY <1>2 DEF WithRow
  <2> HIDE DEF new
  <2>2. DOMAIN new = DOMAIN draft \cup {w} /\ \A v \in DOMAIN new : new[v] = IF v = w THEN row ELSE draft[v]
    BY <2>1
  <2>3. DraftOK(new, m)
    <3>1. new = [v \in DOMAIN new |-> new[v]]
      BY <2>1
    <3> QED BY <1>2, <2>2, <3>1 DEF DraftOK
  <2>4. ASSUME NEW v, NEW d
        PROVE  CellShifts(new, v, d) =
                 IF v = w THEN (IF d \in DOMAIN row THEN row[d] ELSE <<>>) ELSE CellShifts(draft, v, d)
    <3>1. RowIn(new, v) = IF v = w THEN row ELSE RowIn(draft, v)
      BY <2>2 DEF RowIn
    <3> QED BY <3>1 DEF CellShifts
  <2> QED BY <2>2, <2>3, <2>4 DEF new
<1> QED BY <1>1, <1>2

\* What DraftIsPayload says besides the marks: such a draft is its own payload, and one
\* that the server's schema takes.
LEMMA DraftPays ==
  ASSUME NEW m, NEW draft, DraftOK(draft, m)
  PROVE  Payload(draft) = draft /\ PayloadSchema(draft, m)
<1> DEFINE dates(w) == {d \in DOMAIN draft[w] : draft[w][d] # <<>>}
<1>1. ASSUME NEW w \in DOMAIN draft
      PROVE  dates(w) = DOMAIN draft[w] /\ dates(w) # {} /\ Restrict(draft[w], dates(w)) = draft[w]
  <2>1. RowOK(draft[w], m) /\ DOMAIN draft[w] # {}
    BY DEF DraftOK
  <2>2. dates(w) = DOMAIN draft[w]
    BY <2>1 DEF RowOK
  <2>3. draft[w] = [d \in DOMAIN draft[w] |-> draft[w][d]]
    BY <2>1 DEF RowOK
  <2> QED BY <2>1, <2>2, <2>3 DEF Restrict
<1>2. Payload(draft) = [w \in {v \in DOMAIN draft : dates(v) # {}} |-> Restrict(draft[w], dates(w))]
  BY DEF Payload
<1> HIDE DEF dates
<1>3. {v \in DOMAIN draft : dates(v) # {}} = DOMAIN draft
  BY <1>1
<1>4. Payload(draft) = [w \in DOMAIN draft |-> draft[w]]
  BY <1>1, <1>2, <1>3
<1>5. PayloadSchema(draft, m)
  <2> SUFFICES ASSUME NEW w \in DOMAIN draft, NEW d \in DOMAIN draft[w]
               PROVE  d \in Days(m) /\ SubsetSchema(draft[w][d])
    BY DEF PayloadSchema
  <2>1. RowOK(draft[w], m)
    BY DEF DraftOK
  <2>2. draft[w][d] \in DayCell /\ draft[w][d] # <<>>
    BY <2>1 DEF RowOK
  <2> QED BY <2>1, <2>2 DEF RowOK, DayCell
<1> QED BY <1>4, <1>5 DEF DraftOK

LEMMA DraftIs == DraftInv /\ (sheet # None => Staff(sheet.firm) \subseteq Member) => DraftIsPayload
<1> SUFFICES ASSUME DraftInv, sheet # None, Staff(sheet.firm) \subseteq Member PROVE DraftIsPayload
  BY DEF DraftIsPayload
<1>1. DraftOK(sheet.draft, sheet.month)
  BY DEF DraftInv
<1>2. Payload(sheet.draft) = sheet.draft /\ PayloadSchema(sheet.draft, sheet.month)
  BY <1>1, DraftPays
<1>3. \A w \in DOMAIN sheet.draft : DOMAIN sheet.draft[w] # {}
  BY <1>1 DEF DraftOK
<1>4. \A w \in Staff(sheet.firm), d \in Days(sheet.month) :
        Letters(CellShifts(sheet.draft, w, d)) = {s \in Shift : <<w, d, s>> \in sheet.marks}
  BY DEF DraftInv
<1> QED BY <1>2, <1>3, <1>4 DEF DraftIsPayload

LEMMA DraftStarts == Init => DraftInv
BY DEF Init, DraftInit, DraftInv

LEMMA DraftQuiet == DraftInv /\ UNCHANGED sheet => DraftInv'
BY DEF DraftInv

\* Opening the sheet reads off the rows.
LEMMA OpenDraft ==
  ASSUME TableTypeOK, NEW c \in Firm, NEW m \in Month, OpenSheet(c, m)
  PROVE  DraftInv' /\ DOMAIN sheet'.draft \subseteq Staff(c)
<1> DEFINE dates(w) == {d \in Days(m) : table[w][m][d] # <<>>}
           draft == FromMonth(c, m)
           marks == {x \in Staff(c) \X Days(m) \X Shift : x[3] \in Letters(table[x[1]][m][x[2]])}
<1>1. sheet' = [firm |-> c, month |-> m, draft |-> draft, marks |-> marks]
  BY DEF OpenSheet
<1>2. draft = [w \in {v \in Staff(c) : dates(v) # {}} |-> [d \in dates(w) |-> table[w][m][d]]]
  BY DEF FromMonth
<1>3. \A w \in Member : table[w][m] \in [Days(m) -> DayCell]
  BY DEF TableTypeOK, Timetable, MonthRows
<1>4. Staff(c) \subseteq Member
  BY DEF Staff
<1>5. \A w \in DOMAIN draft : w \in Staff(c) /\ dates(w) # {} /\ draft[w] = [d \in dates(w) |-> table[w][m][d]]
  BY <1>2
<1>6. DraftOK(draft, m)
  <2>1. DOMAIN draft \subseteq Member /\ draft = [w \in DOMAIN draft |-> draft[w]]
    BY <1>2, <1>4
  <2>2. ASSUME NEW w \in DOMAIN draft PROVE RowOK(draft[w], m) /\ DOMAIN draft[w] # {}
    <3>1. draft[w] = [d \in dates(w) |-> table[w][m][d]] /\ dates(w) # {} /\ w \in Member
      BY <1>4, <1>5
    <3>2. \A d \in dates(w) : d \in Days(m) /\ table[w][m][d] \in DayCell \ {<<>>}
      BY <1>3, <3>1
    <3> HIDE DEF dates, draft
    <3> QED BY <3>1, <3>2 DEF RowOK
  <2> HIDE DEF draft
  <2> QED BY <2>1, <2>2 DEF DraftOK
<1>7. ASSUME NEW w \in Member, NEW d \in Days(m)
      PROVE  Letters(CellShifts(draft, w, d)) = {s \in Shift : <<w, d, s>> \in marks}
  <2>1. Letters(<<>>) = {} /\ DOMAIN NoCells = {}
    BY DEF Letters, NoCells
  <2>2. CellShifts(draft, w, d) = IF w \in Staff(c) THEN table[w][m][d] ELSE <<>>
    <3>1. CASE w \in DOMAIN draft
      <4>1. draft[w] = [e \in dates(w) |-> table[w][m][e]] /\ w \in Staff(c)
        BY <1>5, <3>1
      <4> HIDE DEF draft
      <4> QED BY <3>1, <4>1 DEF CellShifts, RowIn
    <3>2. CASE w \notin DOMAIN draft
      <4>1. w \in Staff(c) => dates(w) = {}
        BY <1>2, <3>2
      <4>2. w \in Staff(c) => table[w][m][d] = <<>>
        BY <4>1
      <4> HIDE DEF draft
      <4> QED BY <2>1, <3>2, <4>2 DEF CellShifts, RowIn
    <3> QED BY <3>1, <3>2
  <2>3. \A s \in Shift : <<w, d, s>> \in marks <=> w \in Staff(c) /\ s \in Letters(table[w][m][d])
    OBVIOUS
  <2>4. Letters(table[w][m][d]) \subseteq Shift
    <3>1. table[w][m][d] \in Seq(Shift)
      BY <1>3 DEF DayCell
    <3> QED BY <3>1 DEF Letters
  <2> HIDE DEF draft, marks
  <2> QED BY <2>1, <2>2, <2>3, <2>4
<1>8. marks \subseteq Marks(m)
  BY <1>4 DEF Marks
<1> HIDE DEF draft, marks
<1>9. DraftInv'
  BY <1>1, <1>6, <1>7, <1>8 DEF DraftInv
<1> QED BY <1>1, <1>2, <1>9 DEF draft

\* A worker's row replaced, and the marks of the row with it.
Replaces(w, row, marks) ==
  /\ sheet # None /\ RowOK(row, sheet.month) /\ marks \subseteq Marks(sheet.month)
  /\ sheet' = [sheet EXCEPT !.draft = WithRow(sheet.draft, w, row), !.marks = marks]
  /\ \A d \in Days(sheet.month) :
       Letters(IF d \in DOMAIN row THEN row[d] ELSE <<>>) = {s \in Shift : <<w, d, s>> \in marks}
  /\ \A v \in Member \ {w}, d \in Days(sheet.month), s \in Shift :
       <<v, d, s>> \in marks <=> <<v, d, s>> \in sheet.marks

LEMMA ReplacedDraft ==
  ASSUME DraftInv, NEW w \in Member, NEW row, NEW marks, Replaces(w, row, marks)
  PROVE  DraftInv' /\ sheet'.firm = sheet.firm /\ DOMAIN sheet'.draft \subseteq DOMAIN sheet.draft \cup {w}
<1> DEFINE new == WithRow(sheet.draft, w, row)
<1>1. /\ sheet = [firm |-> sheet.firm, month |-> sheet.month, draft |-> sheet.draft, marks |-> sheet.marks]
      /\ sheet.firm \in Firm /\ sheet.month \in Month /\ DraftOK(sheet.draft, sheet.month)
      /\ RowOK(row, sheet.month) /\ marks \subseteq Marks(sheet.month)
  BY DEF DraftInv, Replaces
<1>2. /\ DraftOK(new, sheet.month) /\ DOMAIN new \subseteq DOMAIN sheet.draft \cup {w}
      /\ \A v, d : CellShifts(new, v, d) =
                     IF v = w THEN (IF d \in DOMAIN row THEN row[d] ELSE <<>>) ELSE CellShifts(sheet.draft, v, d)
  BY <1>1, WithRowKeeps
<1> HIDE DEF new
<1>3. sheet' = [firm |-> sheet.firm, month |-> sheet.month, draft |-> new, marks |-> marks]
  BY <1>1 DEF new, Replaces
<1>4. ASSUME NEW v \in Member, NEW d \in Days(sheet.month)
      PROVE  Letters(CellShifts(new, v, d)) = {s \in Shift : <<v, d, s>> \in marks}
  <2>1. CASE v = w
    BY <1>2, <2>1 DEF Replaces
  <2>2. CASE v # w
    <3>1. Letters(CellShifts(sheet.draft, v, d)) = {s \in Shift : <<v, d, s>> \in sheet.marks}
      BY DEF DraftInv, Replaces
    <3>2. \A s \in Shift : <<v, d, s>> \in marks <=> <<v, d, s>> \in sheet.marks
      BY <2>2 DEF Replaces
    <3> QED BY <1>2, <2>2, <3>1, <3>2
  <2> QED BY <2>1, <2>2
<1>5. /\ sheet'.firm = sheet.firm /\ sheet'.month = sheet.month
      /\ sheet'.draft = new /\ sheet'.marks = marks
  BY <1>3
<1>6. sheet' = [firm |-> sheet'.firm, month |-> sheet'.month, draft |-> sheet'.draft, marks |-> sheet'.marks]
  BY <1>3, <1>5
<1>7. DraftInv'
  <2>1. DraftOK(sheet'.draft, sheet'.month) /\ sheet'.marks \subseteq Marks(sheet'.month)
    BY <1>1, <1>2, <1>5
  <2>2. \A v \in Member, d \in Days(sheet'.month) :
          Letters(CellShifts(sheet'.draft, v, d)) = {s \in Shift : <<v, d, s>> \in sheet'.marks}
    BY <1>4, <1>5
  <2> QED BY <1>1, <1>5, <1>6, <2>1, <2>2 DEF DraftInv
<1> QED BY <1>2, <1>5, <1>7

LEMMA ToggledDraft ==
  ASSUME DraftInv, NEW w \in Member, NEW d, NEW s \in Shift, ToggleCell(w, d, s)
  PROVE  DraftInv' /\ sheet'.firm = sheet.firm /\ DOMAIN sheet'.draft \subseteq DOMAIN sheet.draft \cup {w}
<1> DEFINE old == CellShifts(sheet.draft, w, d)
           cell == Toggled(old, s)
           row == RowIn(sheet.draft, w)
           next == IF cell = <<>> THEN Restrict(row, DOMAIN row \ {d})
                   ELSE [e \in DOMAIN row \cup {d} |-> IF e = d THEN cell ELSE row[e]]
           marks == IF <<w, d, s>> \in sheet.marks THEN sheet.marks \ {<<w, d, s>>}
                    ELSE sheet.marks \cup {<<w, d, s>>}
<1>1. /\ sheet # None /\ d \in Days(sheet.month)
      /\ sheet' = [sheet EXCEPT !.draft = WithRow(@, w, next), !.marks = marks]
  BY DEF ToggleCell
<1>2. /\ DraftOK(sheet.draft, sheet.month) /\ sheet.marks \subseteq Marks(sheet.month)
      /\ \A v \in Member, e \in Days(sheet.month) :
           Letters(CellShifts(sheet.draft, v, e)) = {t \in Shift : <<v, e, t>> \in sheet.marks}
  BY <1>1 DEF DraftInv
<1>3. RowOK(row, sheet.month) /\ old \in DayCell
  BY <1>2, LookedUp
<1>4. Letters(old) = {t \in Shift : <<w, d, t>> \in sheet.marks}
  BY <1>1, <1>2
<1>5. /\ cell \in DayCell
      /\ Letters(cell) = IF s \in Letters(old) THEN Letters(old) \ {s} ELSE Letters(old) \cup {s}
  <2>1. (IF s \in Letters(old) THEN Letters(old) \ {s} ELSE Letters(old) \cup {s}) \in SUBSET Shift
    BY <1>4
  <2> HIDE DEF old
  <2> QED BY <2>1, CanonicalCell DEF Toggled
<1> HIDE DEF cell, old
<1>6. RowOK(next, sheet.month) /\ \A e : (IF e \in DOMAIN next THEN next[e] ELSE <<>>) =
                                           IF e = d THEN cell ELSE IF e \in DOMAIN row THEN row[e] ELSE <<>>
  <2>1. CASE cell = <<>>
    <3>1. next = [e \in DOMAIN row \ {d} |-> row[e]]
      BY <2>1 DEF Restrict
    <3> HIDE DEF next, row
    <3> QED BY <1>3, <2>1, <3>1 DEF RowOK
  <2>2. CASE cell # <<>>
    <3>1. next = [e \in DOMAIN row \cup {d} |-> IF e = d THEN cell ELSE row[e]]
      BY <2>2
    <3> HIDE DEF next, row
    <3> QED BY <1>1, <1>3, <1>5, <2>2, <3>1 DEF RowOK
  <2> QED BY <2>1, <2>2
<1>7. \A e : CellShifts(sheet.draft, w, e) = IF e \in DOMAIN row THEN row[e] ELSE <<>>
  BY DEF CellShifts
<1> HIDE DEF next, row
<1>8. ASSUME NEW e \in Days(sheet.month)
      PROVE  Letters(IF e \in DOMAIN next THEN next[e] ELSE <<>>) = {t \in Shift : <<w, e, t>> \in marks}
  <2>1. CASE e = d
    <3>1. Letters(cell) = {t \in Shift : <<w, d, t>> \in marks}
      BY <1>4, <1>5
    <3> QED BY <1>6, <2>1, <3>1
  <2>2. CASE e # d
    <3>1. \A t \in Shift : <<w, e, t>> \in marks <=> <<w, e, t>> \in sheet.marks
      BY <2>2
    <3>2. Letters(CellShifts(sheet.draft, w, e)) = {t \in Shift : <<w, e, t>> \in sheet.marks}
      BY <1>2
    <3> HIDE DEF marks
    <3> QED BY <1>6, <1>7, <2>2, <3>1, <3>2
  <2> QED BY <2>1, <2>2
<1>9. marks \in SUBSET Marks(sheet.month)
  BY <1>1, <1>2 DEF Marks
<1>10. \A v \in Member \ {w}, e \in Days(sheet.month), t \in Shift :
         <<v, e, t>> \in marks <=> <<v, e, t>> \in sheet.marks
  OBVIOUS
<1> HIDE DEF marks
<1>11. Replaces(w, next, marks)
  BY <1>1, <1>6, <1>8, <1>9, <1>10 DEF Replaces
<1> QED BY <1>11, ReplacedDraft

LEMMA MarkedDraft ==
  ASSUME DraftInv, NEW w \in Member, MarkRow(w)
  PROVE  DraftInv' /\ sheet'.firm = sheet.firm /\ DOMAIN sheet'.draft \subseteq DOMAIN sheet.draft \cup {w}
<1> DEFINE full == [d \in Days(sheet.month) |-> Canonical(Shift)]
           all == {w} \X Days(sheet.month) \X Shift
<1>1. /\ sheet # None
      /\ \/ sheet' = [sheet EXCEPT !.draft = WithRow(@, w, full), !.marks = sheet.marks \cup all]
         \/ sheet' = [sheet EXCEPT !.draft = WithRow(@, w, NoCells), !.marks = sheet.marks \ all]
  BY DEF MarkRow
<1>2. sheet.marks \subseteq Marks(sheet.month)
  BY <1>1 DEF DraftInv
<1>3. CASE sheet' = [sheet EXCEPT !.draft = WithRow(@, w, full), !.marks = sheet.marks \cup all]
  <2>1. Canonical(Shift) \in DayCell /\ Letters(Canonical(Shift)) = Shift /\ Canonical(Shift) # <<>>
    <3>1. Shift # {}
      BY DEF Shift
    <3> QED BY <3>1, CanonicalCell
  <2>2. RowOK(full, sheet.month)
    BY <2>1 DEF RowOK
  <2>3. \A d \in Days(sheet.month) :
          Letters(IF d \in DOMAIN full THEN full[d] ELSE <<>>) = {s \in Shift : <<w, d, s>> \in sheet.marks \cup all}
    BY <2>1
  <2>4. sheet.marks \cup all \in SUBSET Marks(sheet.month)
    BY <1>2 DEF Marks
  <2>5. \A v \in Member \ {w}, d \in Days(sheet.month), s \in Shift :
          <<v, d, s>> \in sheet.marks \cup all <=> <<v, d, s>> \in sheet.marks
    OBVIOUS
  <2> HIDE DEF full, all
  <2>6. Replaces(w, full, sheet.marks \cup all)
    BY <1>1, <1>3, <2>2, <2>3, <2>4, <2>5 DEF Replaces
  <2> QED BY <2>6, ReplacedDraft
<1>4. CASE sheet' = [sheet EXCEPT !.draft = WithRow(@, w, NoCells), !.marks = sheet.marks \ all]
  <2>1. DOMAIN NoCells = {} /\ NoCells \in [{} -> DayCell \ {<<>>}] /\ Letters(<<>>) = {}
    BY DEF NoCells, Letters
  <2>2. RowOK(NoCells, sheet.month)
    BY <2>1 DEF RowOK
  <2>3. \A d \in Days(sheet.month) :
          Letters(IF d \in DOMAIN NoCells THEN NoCells[d] ELSE <<>>) = {s \in Shift : <<w, d, s>> \in sheet.marks \ all}
    BY <2>1
  <2>4. sheet.marks \ all \in SUBSET Marks(sheet.month)
    BY <1>2 DEF Marks
  <2>5. \A v \in Member \ {w}, d \in Days(sheet.month), s \in Shift :
          <<v, d, s>> \in sheet.marks \ all <=> <<v, d, s>> \in sheet.marks
    OBVIOUS
  <2> HIDE DEF all
  <2>6. Replaces(w, NoCells, sheet.marks \ all)
    BY <1>1, <1>4, <2>2, <2>3, <2>4, <2>5 DEF Replaces
  <2> QED BY <2>6, ReplacedDraft
<1> QED BY <1>1, <1>3, <1>4

LEMMA DraftSteps ==
  ASSUME TableTypeOK, DraftInv, DraftNext
  PROVE  DraftInv'
<1>1. ASSUME NEW c \in Firm, NEW m \in Month, OpenSheet(c, m) PROVE DraftInv'
  BY <1>1, OpenDraft
<1>2. ASSUME NEW w \in Member, MarkRow(w) PROVE DraftInv'
  BY <1>2, MarkedDraft
<1>3. ASSUME NEW w \in Member, NEW d \in 1 .. 31, NEW s \in Shift, ToggleCell(w, d, s) PROVE DraftInv'
  BY <1>3, ToggledDraft
<1>4. CASE SaveSheet
  BY <1>4, DraftQuiet DEF SaveSheet
<1> QED BY <1>1, <1>2, <1>3, <1>4 DEF DraftNext
-----------------------------------------------------------------------------
(* What a part of the session spends *)

Spend(kinds) == left' = left \/ \E kind \in kinds : Uses(kind)

LEMMA SpendLeft ==
  ASSUME LeftOK, NEW kinds \in SUBSET Kind, Spend(kinds)
  PROVE  /\ LeftOK'
         /\ \A k \in Kind \ kinds : left'[k] = left[k]
         /\ \A k \in Kind : left[k] \in Nat /\ left'[k] \in Nat /\ left'[k] <= left[k]
<1>1. CASE left' = left
  BY <1>1 DEF LeftOK
<1>2. ASSUME NEW kind \in kinds, Uses(kind)
      PROVE  /\ LeftOK'
             /\ \A k \in Kind \ kinds : left'[k] = left[k]
             /\ \A k \in Kind : left[k] \in Nat /\ left'[k] \in Nat /\ left'[k] <= left[k]
  <2>1. LeftOK' /\ left[kind] > 0 /\ left'[kind] = left[kind] - 1 /\ \A k \in Kind \ {kind} : left'[k] = left[k]
    BY <1>2, UsesOne
  <2>2. \A k \in Kind : left[k] \in Nat /\ left'[k] \in Nat
    BY <2>1 DEF LeftOK
  <2> QED BY <2>1, <2>2
<1> QED BY <1>1, <1>2 DEF Spend

LEMMA PartsSpend ==
  /\ FileNext => Spend({"export", "file", "upload"})
  /\ DraftNext => Spend({"open", "toggle", "save"})
  /\ DraftNext /\ ~SaveSheet => Spend({"open", "toggle"})
  /\ ProblemNext => Spend({"build"})
  /\ FormNext => Spend({"form", "cell"})
  /\ ProcessNext => Spend({"start", "solve"})
<1>1. FileNext => Spend({"export", "file", "upload"})
  BY DEF FileNext, Spend, ImportRow, Finish, Export, Upload, EditFile
<1>2. ASSUME DraftNext PROVE (SaveSheet /\ Spend({"save"})) \/ Spend({"open", "toggle"})
  BY <1>2 DEF DraftNext, Spend, OpenSheet, MarkRow, ToggleCell, SaveSheet
<1>3. ProblemNext => Spend({"build"})
  BY DEF ProblemNext, Spend, Solve, BuildProblem
<1>4. FormNext => Spend({"form", "cell"})
  BY DEF FormNext, Spend, Submit, CloseForm, OpenForm, SetCell
<1>5. ASSUME ProcessNext PROVE Spend({"start", "solve"})
  BY <1>5 DEF ProcessNext, ProcessStep, Spend, EnsureQueues, Stalls, StartJob, SpawnFails, DiesUnread,
              Dies, Timer, Build, WriteOut, EndJob, Search, Spends
<1>6. Spend({"save"}) \/ Spend({"open", "toggle"}) => Spend({"open", "toggle", "save"})
  BY DEF Spend
<1> QED BY <1>1, <1>2, <1>3, <1>4, <1>5, <1>6

-----------------------------------------------------------------------------
(* The solver's problem *)

\* What is asked is finite and in whole hours and places, and what is answered solves it.
Asked ==
  problem # None =>
    /\ DOMAIN problem.crew \subseteq Member
    /\ \A w \in DOMAIN problem.crew :
         problem.crew[w].min \in Nat /\ problem.crew[w].max \in Nat /\ problem.crew[w].role \in Role
    /\ \E m \in Month : problem.days = Days(m)
    /\ DOMAIN problem.matrix \subseteq Cell /\ problem.matrix \in [DOMAIN problem.matrix -> Nat]
    /\ problem.requirements = [slot \in problem.days \X DOMAIN problem.matrix |-> problem.matrix[slot[2]]]
Answered ==
  answer # None =>
    /\ problem # None /\ answer.sol \in Solutions(problem)
    /\ answer.alerts = Alerts(problem, answer.sol)
    /\ answer.status = "optimal" =>
         Cost(problem, answer.sol) = Min({Cost(problem, sol) : sol \in Solutions(problem)})

ProblemInv == ProblemTypeOK /\ ExcludedIsExcluded /\ Asked /\ Answered

LEMMA ProblemStarts == Init => ProblemInv
BY DEF Init, ProblemInit, ProblemInv, ProblemTypeOK, ExcludedIsExcluded, Asked, Answered

LEMMA ProblemQuiet == ProblemInv /\ UNCHANGED <<problem, answer>> => ProblemInv'
BY DEF ProblemInv, ProblemTypeOK, ExcludedIsExcluded, Asked, Answered

LEMMA ProblemSteps ==
  ASSUME TableTypeOK, ProblemInv, ProblemNext
  PROVE  ProblemInv'
<1>1. ASSUME NEW c \in Firm, NEW m \in Month, BuildProblem(c, m) PROVE ProblemInv'
  <2> DEFINE crew == {w \in Staff(c) : people[w].terms # None}
  <2>1. /\ problem'.days = Days(m) /\ problem'.table = [w \in crew |-> table[w][m]]
        /\ DOMAIN problem'.crew = crew
        /\ \A w \in crew : problem'.crew[w].availability = AvailabilityOf(w, m)
        /\ answer' = None
    BY <1>1 DEF BuildProblem
  <2> HIDE DEF crew
  <2>2. ASSUME NEW w \in crew, NEW d \in Days(m)
        PROVE  Assignable(problem', w, d) =
                 LET row == problem'.table[w][d] IN IF row = <<>> THEN Shift ELSE ComputeAvailable(row)
    <3>1. AvailabilityOf(w, m) = [e \in {f \in Days(m) : table[w][m][f] # <<>>} |-> ComputeAvailable(table[w][m][e])]
      BY DEF AvailabilityOf
    <3> QED BY <2>1, <3>1 DEF Assignable
  <2>3. ExcludedIsExcluded'
    <3>1. \A v \in (DOMAIN problem'.crew) \X problem'.days \X Shift :
            v[1] \in crew /\ v[2] \in Days(m)
      BY <2>1
    <3> QED BY <2>1, <2>2, <3>1 DEF ExcludedIsExcluded, SolverVars
  <2>4. Asked'
    <3>1. \A w \in crew : /\ people[w] \in PersonRow /\ people[w].terms \in Terms /\ w \in Member
                          /\ problem'.crew[w].min = people[w].terms.min
                          /\ problem'.crew[w].max = people[w].terms.max
                          /\ problem'.crew[w].role = people[w].role
      BY <1>1 DEF BuildProblem, crew, Staff, TableTypeOK, PersonRow
    <3>2. /\ problem'.matrix = needs[c]
          /\ problem'.requirements = [slot \in Days(m) \X DOMAIN needs[c] |-> needs[c][slot[2]]]
      BY <1>1 DEF BuildProblem, RequirementsOf
    <3>3. DOMAIN needs[c] \subseteq Cell /\ needs[c] \in [DOMAIN needs[c] -> Nat]
      BY DEF TableTypeOK, Matrices
    <3>4. \A w \in crew : people[w].role \in Role
      BY <3>1 DEF PersonRow
    <3> QED BY <2>1, <3>1, <3>2, <3>3, <3>4 DEF Asked, Terms
  <2> QED BY <2>1, <2>3, <2>4 DEF ProblemInv, ProblemTypeOK, Answered
<1>2. CASE Solve
  <2>1. PICK sol \in Solutions(problem) :
          /\ answer'.sol = sol /\ answer'.alerts = Alerts(problem, sol)
          /\ answer'.status \in {"optimal", "feasible"}
          /\ answer'.status = "optimal" =>
               Cost(problem, sol) = Min({Cost(problem, other) : other \in Solutions(problem)})
    BY <1>2 DEF Solve
  <2>2. sol.slots \in SUBSET SolverVars(problem)
    BY DEF Solutions
  <2>4. problem # None /\ problem' = problem
    BY <1>2 DEF Solve
  <2>5. ProblemTypeOK'
    BY <2>1, <2>2, <2>4 DEF ProblemTypeOK
  <2>6. ExcludedIsExcluded' /\ Asked' /\ Answered'
    BY <2>1, <2>4 DEF ProblemInv, ExcludedIsExcluded, Asked, Answered
  <2> QED BY <2>5, <2>6 DEF ProblemInv
<1> QED BY <1>1, <1>2 DEF ProblemNext

-----------------------------------------------------------------------------
(* The headcount form *)

LEMMA ShiftFinite == IsFiniteSet(Shift)
<1>1. IsFiniteSet({} \cup {"A"})
  BY FS_EmptySet, FS_AddElement
<1>2. IsFiniteSet(({} \cup {"A"}) \cup {"B"})
  BY <1>1, FS_AddElement
<1>3. IsFiniteSet((({} \cup {"A"}) \cup {"B"}) \cup {"C"})
  BY <1>2, FS_AddElement
<1>4. Shift = (({} \cup {"A"}) \cup {"B"}) \cup {"C"}
  BY DEF Shift, ShiftTypes
<1> QED BY <1>3, <1>4

\* Workers, days and shifts: triples are an image of nested pairs.
LEMMA FiniteTriples ==
  ASSUME NEW R, NEW S, NEW T, IsFiniteSet(R), IsFiniteSet(S), IsFiniteSet(T)
  PROVE  IsFiniteSet(R \X S \X T)
<1> DEFINE f == [p \in (R \X S) \X T |-> <<p[1][1], p[1][2], p[2]>>]
<1>1. IsFiniteSet((R \X S) \X T)
  BY FS_Product
<1>2. f \in Surjection((R \X S) \X T, R \X S \X T)
  <2>1. f \in [(R \X S) \X T -> R \X S \X T]
    OBVIOUS
  <2>2. ASSUME NEW t \in R \X S \X T PROVE \E p \in (R \X S) \X T : f[p] = t
    <3>1. << <<t[1], t[2]>>, t[3]>> \in (R \X S) \X T /\ f[<< <<t[1], t[2]>>, t[3]>>] = t
      OBVIOUS
    <3> QED BY <3>1
  <2> QED BY <2>1, <2>2 DEF Surjection
<1> QED BY <1>1, <1>2, FS_Surjection

\* The cells in order, each once, and none left out.
LEMMA CellsOnce ==
  /\ CELLS \in [1 .. Cardinality(Cell) -> Cell]
  /\ \A i, j \in DOMAIN CELLS : CELLS[i] = CELLS[j] => i = j
  /\ \A cell \in Cell : \E i \in DOMAIN CELLS : CELLS[i] = cell
<1>1. IsFiniteSet(Cell)
  BY ShiftFinite, FormAssumption, FS_Product DEF Cell
<1>2. \E f \in [1 .. Cardinality(Cell) -> Cell] : IsInjective(f)
  <2>1. ExistsBijection(1 .. Cardinality(Cell), Cell)
    BY <1>1, FS_Bijection, FS_CardinalityType
  <2> QED BY <2>1 DEF ExistsBijection, Bijection, Injection, IsInjective
<1>3. CELLS \in [1 .. Cardinality(Cell) -> Cell] /\ IsInjective(CELLS)
  BY <1>2 DEF CELLS, SetToSeq
<1>4. \A cell \in Cell : \E i \in DOMAIN CELLS : CELLS[i] = cell
  <2> DEFINE numbers == 1 .. Cardinality(Cell)
  <2>1. Cardinality(numbers) = Cardinality(Cell)
    BY <1>1, FS_CardinalityType, FS_Interval
  <2>2. CELLS \in Injection(numbers, Cell)
    BY <1>3 DEF Injection, IsInjective
  <2> HIDE DEF numbers
  <2>3. CELLS \in Surjection(numbers, Cell)
    BY <1>1, <2>1, <2>2, FS_Injection
  <2> QED BY <2>3 DEF Surjection
<1> QED BY <1>3, <1>4 DEF IsInjective

LEMMA BuiltMatrix ==
  ASSUME NEW rows, NEW V, 0 \in V, \A cell \in DOMAIN rows : rows[cell] \in V
  PROVE  BuildMatrixState(rows) \in [Cell -> V]
BY DEF BuildMatrixState

NeedsOK == Matrices(needs, 0 .. DbMax)

FormRow == [firm : Firm, matrix : [Cell -> Text \cup 0 .. DbMax],
            tried : [Cell -> Text \cup 0 .. DbMax] \cup {None}, wrong : SUBSET Cell]

\* What is stored fits its column, and so does what a form opens with.
FormInv ==
  /\ NeedsOK
  /\ form = None \/ form \in FormRow
  /\ saved \in {"no", "invalid", "stored", "failed"}
  /\ form # None => saved # "stored"
  /\ RefusedIsTooLarge

\* What is sent and stored is what was entered, in all cells.
LEMMA StoredMatrix ==
  ASSUME NEW V, NEW matrix \in [Cell -> V], NEW c
  PROVE  Stored(RowsOf(matrix), c) = matrix
<1> DEFINE rows == RowsOf(matrix)
<1>1. DOMAIN rows = DOMAIN CELLS /\ \A i \in DOMAIN CELLS : rows[i].cell = CELLS[i] /\ rows[i].count = matrix[CELLS[i]]
  BY DEF RowsOf
<1> HIDE DEF rows
<1>2. ASSUME NEW cell \in Cell PROVE cell \in CellsOf(rows) /\ CountOf(rows, cell) = matrix[cell]
  <2> DEFINE at == CHOOSE i \in DOMAIN rows : rows[i].cell = cell
  <2>1. \E i \in DOMAIN rows : rows[i].cell = cell
    BY <1>1, CellsOnce
  <2>2. at \in DOMAIN rows /\ rows[at].cell = cell
    BY <2>1
  <2>3. CountOf(rows, cell) = rows[at].count /\ cell \in CellsOf(rows)
    BY <2>1 DEF CountOf, CellsOf
  <2> QED BY <1>1, <2>2, <2>3
<1>3. CellsOf(rows) = Cell
  <2>1. CellsOf(rows) \subseteq Cell
    BY <1>1, CellsOnce DEF CellsOf
  <2> QED BY <1>2, <2>1
<1>4. Stored(rows, c) = [cell \in Cell |-> CountOf(rows, cell)]
  BY <1>3 DEF Stored
<1> QED BY <1>2, <1>4 DEF rows

LEMMA FormStarts == Init => FormInv
<1> SUFFICES ASSUME Init PROVE FormInv
  OBVIOUS
<1>1. left \in Session /\ needs = left.needs
  BY DEF Init, TableInit
<1>2. NeedsOK
  BY <1>1, FormAssumption DEF NeedsOK
<1> QED BY <1>2 DEF Init, FormInit, FormInv, RefusedIsTooLarge

LEMMA FormQuiet == FormInv /\ UNCHANGED <<formVars, needs>> => FormInv'
BY DEF FormInv, formVars, NeedsOK, RefusedIsTooLarge, IsWhole

LEMMA FormSteps ==
  ASSUME FormInv, FormNext
  PROVE  FormInv'
<1>0. DbMax \in Nat /\ 0 \in 0 .. DbMax
  BY FormAssumption
<1>1. ASSUME NEW c \in Firm, OpenForm(c) PROVE FormInv'
  <2>1. form' = [firm |-> c, matrix |-> BuildMatrixState(needs[c]), tried |-> None, wrong |-> {}]
    BY <1>1 DEF OpenForm
  <2>2. \A cell \in DOMAIN needs[c] : needs[c][cell] \in 0 .. DbMax
    BY DEF FormInv, NeedsOK, Matrices
  <2>3. BuildMatrixState(needs[c]) \in [Cell -> 0 .. DbMax]
    BY <1>0, <2>2, BuiltMatrix
  <2>4. form' \in FormRow
    BY <2>1, <2>3 DEF FormRow
  <2>5. saved' = "no" /\ needs' = needs
    BY <1>1 DEF OpenForm, tableVars
  <2> QED BY <2>4, <2>5 DEF FormInv, NeedsOK, RefusedIsTooLarge
<1>2. ASSUME NEW cell \in Cell, NEW text \in Text, SetCell(cell, text) PROVE FormInv'
  <2>1. /\ form \in FormRow /\ form' = [form EXCEPT !.matrix = [form.matrix EXCEPT ![cell] = text]]
        /\ UNCHANGED <<saved, needs>> /\ form # None
    BY <1>2 DEF SetCell, FormInv, tableVars
  <2>2. [form.matrix EXCEPT ![cell] = text] \in [Cell -> Text \cup 0 .. DbMax]
    BY <2>1 DEF FormRow
  <2>3. form' \in FormRow /\ form'.tried = form.tried
    BY <2>1, <2>2 DEF FormRow
  <2> QED BY <2>1, <2>3 DEF FormInv, NeedsOK, RefusedIsTooLarge, IsWhole
<1>3. CASE CloseForm
  BY <1>3 DEF CloseForm, FormInv, NeedsOK, RefusedIsTooLarge, tableVars
<1>4. CASE Submit
  <2> DEFINE wrong == CellErrors(form.matrix)
             rows == RowsOf(form.matrix)
  <2>1. form # None /\ form \in FormRow
    BY <1>4 DEF Submit, FormInv
  <2>2. form.matrix \in [Cell -> Text \cup 0 .. DbMax] /\ wrong \subseteq Cell
    BY <2>1 DEF FormRow, CellErrors
  <2>3. CASE /\ wrong # {} /\ saved' = "invalid" /\ needs' = needs
             /\ form' = [form EXCEPT !.wrong = wrong, !.tried = form.matrix]
    <3>1. form' \in FormRow
      BY <2>1, <2>2, <2>3 DEF FormRow
    <3> QED BY <2>3, <3>1 DEF FormInv, NeedsOK, RefusedIsTooLarge
  <2>4. ASSUME wrong = {}
        PROVE  \A cell \in Cell : IsWhole(form.matrix[cell]) /\ form.matrix[cell] \in Nat
    <3> SUFFICES ASSUME NEW cell \in Cell PROVE IsWhole(form.matrix[cell]) /\ form.matrix[cell] \in Nat
      OBVIOUS
    <3>1. IsWhole(form.matrix[cell]) /\ ~(form.matrix[cell] < 0)
      BY <2>4 DEF CellErrors
    <3>2. form.matrix[cell] \in Int
      BY <2>2, <3>1, FormAssumption DEF IsWhole
    <3> QED BY <3>1, <3>2
  <2>5. /\ DOMAIN rows = DOMAIN CELLS
        /\ \A i \in DOMAIN CELLS : /\ CELLS[i] \in Cell /\ rows[i].cell = CELLS[i]
                                   /\ rows[i].count = form.matrix[CELLS[i]]
    BY CellsOnce DEF RowsOf
  <2> HIDE DEF wrong, rows
  <2>6. CASE /\ wrong = {} /\ saved' = "stored" /\ form' = None
             /\ needs' = [needs EXCEPT ![form.firm] = Stored(rows, form.firm)]
             /\ \A i \in DOMAIN rows : rows[i].count <= DbMax
    <3>1. \A cell \in Cell : form.matrix[cell] \in 0 .. DbMax
      <4> TAKE cell \in Cell
      <4>1. PICK i \in DOMAIN CELLS : CELLS[i] = cell
        BY CellsOnce
      <4> QED BY <1>0, <2>4, <2>5, <2>6, <4>1
    <3>2. Stored(rows, form.firm) = form.matrix
      BY <2>2, StoredMatrix DEF rows
    <3>3. form.matrix \in [Cell -> 0 .. DbMax] /\ form.firm \in Firm
      BY <2>1, <2>2, <3>1 DEF FormRow
    <3>4. NeedsOK'
      <4>1. needs = [c \in Firm |-> needs[c]]
        BY DEF FormInv, NeedsOK, Matrices
      <4>2. needs' = [c \in Firm |-> IF c = form.firm THEN form.matrix ELSE needs[c]]
        BY <2>6, <3>2, <3>3, <4>1
      <4> QED BY <3>3, <4>2 DEF FormInv, NeedsOK, Matrices
    <3> QED BY <2>6, <3>4 DEF FormInv, RefusedIsTooLarge
  <2>7. CASE /\ wrong = {} /\ saved' = "failed" /\ needs' = needs
             /\ form' = [form EXCEPT !.wrong = {}, !.tried = form.matrix]
             /\ ~(RowsSchema(rows) /\ \A i \in DOMAIN rows : rows[i].count <= DbMax)
    <3>1. form' \in FormRow /\ form'.tried = form.matrix
      BY <2>1, <2>2, <2>7 DEF FormRow
    <3>2. RowsSchema(rows)
      BY <2>4, <2>5, <2>7, CellsOnce DEF RowsSchema
    <3>3. PICK i \in DOMAIN rows : ~(rows[i].count <= DbMax)
      BY <2>7, <3>2
    <3>4. CELLS[i] \in Cell /\ IsWhole(form'.tried[CELLS[i]]) /\ form'.tried[CELLS[i]] > DbMax
      BY <1>0, <2>4, <2>5, <2>7, <3>1, <3>3
    <3>5. RefusedIsTooLarge'
      BY <3>4 DEF RefusedIsTooLarge, IsWhole
    <3> QED BY <2>7, <3>1, <3>5 DEF FormInv, NeedsOK
  <2> QED BY <1>4, <2>3, <2>6, <2>7 DEF Submit, wrong, rows
<1> QED BY <1>1, <1>2, <1>3, <1>4 DEF FormNext
-----------------------------------------------------------------------------
(* The file and its import *)

Roster == [Member -> PersonRow \cup {None}]
FileRow == [id : Member, name : Seq(Char), role : Role, terms : Terms, fault : Fault \cup {"none"},
            cells : Seq(DayCell \cup RawCell)]
Copy == [firm : Firm, month : Month, people : Roster, table : Timetable]
RunRow == [firm : Firm, month : Month, rows : Seq(FileRow), next : Nat, origin : Copy \cup {None},
           people : Roster, table : Timetable]
ReportRow == [row : Nat, field : {"role", "cells", "hours", "national_id"}]

\* Rows of n day columns; rows as they were exported.
Wide(rows, n) == \A i \in DOMAIN rows : Len(rows[i].cells) = n
IsCopy(rows, o) ==
  \A i \in DOMAIN rows :
    LET w == rows[i].id
    IN /\ o.people[w] # None /\ o.people[w].firm = o.firm
       /\ rows[i].name = GuardCell(o.people[w].name)
       /\ rows[i].role = o.people[w].role /\ rows[i].terms = o.people[w].terms
       /\ rows[i].fault = "none"
       /\ rows[i].cells = o.table[w][o.month]

\* How far an import is: every worker as the last good row so far says.
Says(w, n) == {i \in 1 .. n : run.rows[i].id = w /\ Good(i)}
Filled(w, cells) == [run.table[w] EXCEPT ![run.month] = cells]
AsSaid(w, n) ==
  IF Says(w, n) = {} THEN people[w] = run.people[w] /\ table[w] = run.table[w]
  ELSE \E i \in Says(w, n) :
         /\ \A j \in Says(w, n) : j <= i
         /\ people[w] = Person(run.rows[i])
         /\ table[w] = Filled(w, run.rows[i].cells)
Progress ==
  /\ {e.row : e \in report} = {i \in 1 .. run.next - 1 : ~Good(i)}
  /\ \A w \in Member : AsSaid(w, run.next - 1)

RunInv ==
  /\ run \in RunRow /\ Wide(run.rows, DayCount[run.month])
  /\ run.next \in 1 .. Len(run.rows) + 1
  /\ run.origin # None => IsCopy(run.rows, run.origin)
  /\ Progress

FileInv ==
  /\ file = None \/ (file \in [days : Nat, rows : Seq(FileRow)] /\ Wide(file.rows, file.days))
  /\ origin = None \/ (origin \in Copy /\ IsCopy(file.rows, origin))
  /\ run = None \/ RunInv
  /\ report \subseteq ReportRow

LEMMA GuardKeeps ==
  ASSUME NEW text \in Seq(Char)
  PROVE  GuardCell(text) \in Seq(Char) /\ UnguardCell(text) \in Seq(Char)
<1>1. <<"'">> \in Seq(Char)
  BY FileAssumption
<1>2. <<"'">> \o text \in Seq(Char)
  BY <1>1, ConcatProperties
<1>3. text # <<>> => Tail(text) \in Seq(Char)
  BY HeadTailProperties
<1>4. Len(text) > 1 => text # <<>>
  BY EmptySeq
<1> QED BY <1>2, <1>3, <1>4 DEF GuardCell, UnguardCell

\* What is guarded on the way out is unguarded on the way in, unless it was written with
\* a quote before a trigger.
LEMMA GuardUndone ==
  ASSUME NEW text \in Seq(Char), ~QuotedTrigger(text)
  PROVE  UnguardCell(GuardCell(text)) = text
<1>1. CASE text # <<>> /\ text[1] \in Trigger
  <2> DEFINE q == <<"'">>
             g == q \o text
  <2>1. q \in Seq(Char) /\ Len(q) = 1 /\ q[1] = "'"
    BY FileAssumption
  <2> HIDE DEF q
  <2>2. Len(text) \in Nat \ {0}
    BY <1>1, EmptySeq
  <2>3. g \in Seq(Char) /\ Len(g) = 1 + Len(text)
    BY <2>1, ConcatProperties
  <2>4. \A i \in 1 .. 1 + Len(text) : g[i] = IF i <= 1 THEN q[i] ELSE text[i - 1]
    <3>1. \A i \in 1 .. Len(q) + Len(text) : g[i] = IF i <= Len(q) THEN q[i] ELSE text[i - Len(q)]
      BY <2>1, ConcatProperties
    <3> HIDE DEF g
    <3> QED BY <2>1, <2>2, <3>1
  <2>5. g[1] = "'" /\ g[2] = text[1] /\ Len(g) > 1
    BY <2>1, <2>2, <2>3, <2>4
  <2> HIDE DEF g
  <2>6. Tail(g) = text
    <3>1. g # <<>>
      BY <2>5
    <3>2. Tail(g) \in Seq(Char) /\ Len(Tail(g)) = Len(text) /\ \A i \in 1 .. Len(Tail(g)) : Tail(g)[i] = g[i + 1]
      BY <2>2, <2>3, <3>1, HeadTailProperties
    <3>3. \A i \in 1 .. Len(Tail(g)) : Tail(g)[i] = text[i]
      BY <2>2, <2>4, <3>2
    <3> QED BY <3>2, <3>3, SeqEqual
  <2>7. GuardCell(text) = g
    BY <1>1 DEF GuardCell, g, q
  <2> QED BY <1>1, <2>5, <2>6, <2>7 DEF UnguardCell
<1>2. CASE ~(text # <<>> /\ text[1] \in Trigger)
  BY <1>2 DEF GuardCell, UnguardCell, QuotedTrigger
<1> QED BY <1>1, <1>2

\* Cells that the import takes are the table's, and those of the table are taken.
LEMMA LegalCell ==
  ASSUME NEW raw \in DayCell \cup RawCell
  PROVE  CellLegal(raw) <=> raw \in DayCell
<1>1. ASSUME raw \in DayCell PROVE CellLegal(raw)
  BY <1>1 DEF CellLegal, DayCell
<1>2. ASSUME raw \in RawCell, raw # <<>>, SubsetSchema(raw) PROVE raw \in DayCell
  <2>1. raw \in Seq(Letters(raw)) /\ Letters(raw) \subseteq Shift
    BY <1>2, FileAssumption DEF SubsetSchema
  <2>2. raw \in Seq(Shift)
    BY <2>1, SeqMonotonic
  <2> QED BY <1>2, <2>2 DEF DayCell
<1>3. <<>> \in DayCell
  BY DEF DayCell
<1> QED BY <1>1, <1>2, <1>3 DEF CellLegal

LEMMA FileStarts == Init => FileInv
BY DEF Init, FileInit, FileInv

LEMMA FileMeans == TableTypeOK /\ FileInv => FileTypeOK /\ FileIsKept
<1> SUFFICES ASSUME TableTypeOK, FileInv PROVE FileTypeOK /\ FileIsKept
  OBVIOUS
<1>1. FileTypeOK
  <2>1. file = None \/ \A i \in DOMAIN file.rows : Len(file.rows[i].cells) = file.days
    BY DEF FileInv, Wide
  <2>2. origin = None \/ origin.month \in Month
    BY DEF FileInv, Copy
  <2>3. run = None \/ run.next \in 1 .. Len(run.rows) + 1
    BY DEF FileInv, RunInv
  <2>4. \A e \in report : e.field \in {"role", "cells", "hours", "national_id"}
    BY DEF FileInv, ReportRow
  <2> QED BY <2>1, <2>2, <2>3, <2>4 DEF FileTypeOK
<1>2. ASSUME Imported
      PROVE  /\ RunInv /\ run # None
             /\ run.rows \in Seq(FileRow) /\ DOMAIN run.rows = 1 .. Len(run.rows) /\ Len(run.rows) \in Nat
             /\ run.next - 1 = Len(run.rows)
             /\ \A i \in DOMAIN run.rows : run.rows[i] \in FileRow
             /\ run.people \in Roster /\ run.table \in Timetable /\ run.firm \in Firm /\ run.month \in Month
  <2>1. RunInv /\ run # None
    BY <1>2 DEF Imported, FileInv
  <2>2. run.rows \in Seq(FileRow) /\ run.next \in Nat
    BY <2>1 DEF RunInv, RunRow
  <2>3. DOMAIN run.rows = 1 .. Len(run.rows) /\ Len(run.rows) \in Nat
    BY <2>2, LenProperties
  <2>4. run.next \in 1 .. Len(run.rows) + 1 /\ run.next > Len(run.rows)
    BY <1>2, <2>1 DEF RunInv, Imported
  <2>5. run.people \in Roster /\ run.table \in Timetable /\ run.firm \in Firm /\ run.month \in Month
    BY <2>1 DEF RunInv, RunRow
  <2>6. \A i \in DOMAIN run.rows : run.rows[i] \in FileRow
    BY <2>2, <2>3, ElementOfSeq
  <2> QED BY <2>1, <2>2, <2>3, <2>4, <2>5, <2>6
<1>3. ImportIsFile
  <2> SUFFICES ASSUME Imported
               PROVE  /\ {e.row : e \in report} = {i \in DOMAIN run.rows : ~Good(i)}
                      /\ \A w \in Member :
                           LET says == {i \in DOMAIN run.rows : run.rows[i].id = w /\ Good(i)}
                           IN IF says = {} THEN people[w] = run.people[w] /\ table[w] = run.table[w]
                              ELSE \E i \in says :
                                     /\ \A j \in says : j <= i
                                     /\ people[w].terms = run.rows[i].terms /\ people[w].firm = run.firm
                                     /\ table[w] = [run.table[w] EXCEPT ![run.month] = run.rows[i].cells]
    BY DEF ImportIsFile
  <2>1. Progress /\ DOMAIN run.rows = 1 .. run.next - 1
    BY <1>2 DEF RunInv
  <2>2. {e.row : e \in report} = {i \in DOMAIN run.rows : ~Good(i)}
    BY <2>1 DEF Progress
  <2>3. ASSUME NEW w \in Member
        PROVE  LET says == {i \in DOMAIN run.rows : run.rows[i].id = w /\ Good(i)}
               IN IF says = {} THEN people[w] = run.people[w] /\ table[w] = run.table[w]
                  ELSE \E i \in says :
                         /\ \A j \in says : j <= i
                         /\ people[w].terms = run.rows[i].terms /\ people[w].firm = run.firm
                         /\ table[w] = [run.table[w] EXCEPT ![run.month] = run.rows[i].cells]
    <3>1. AsSaid(w, run.next - 1) /\ Says(w, run.next - 1) = {i \in DOMAIN run.rows : run.rows[i].id = w /\ Good(i)}
      BY <2>1 DEF Progress, Says
    <3>2. \A i : Person(run.rows[i]).terms = run.rows[i].terms /\ Person(run.rows[i]).firm = run.firm
      BY DEF Person
    <3> QED BY <3>1, <3>2 DEF AsSaid, Filled
  <2> QED BY <2>2, <2>3
<1>4. RoundTripUnlessQuoted
  <2> SUFFICES ASSUME Imported, run.origin # None, run.origin.firm = run.firm, run.origin.month = run.month,
                      run.origin.people = run.people, run.origin.table = run.table
               PROVE  /\ report = {} /\ table = run.table
                      /\ \A w \in Member : people[w] # run.people[w] => QuotedTrigger(run.people[w].name)
    BY DEF RoundTripUnlessQuoted
  <2>1. Progress /\ DOMAIN run.rows = 1 .. run.next - 1 /\ IsCopy(run.rows, run.origin)
    BY <1>2 DEF RunInv
  <2>2. \A w \in Member : /\ run.table[w] \in [Month -> Seq(DayCell)]
                          /\ run.table[w][run.month] \in [Days(run.month) -> DayCell]
    BY <1>2 DEF Timetable, MonthRows
  <2>3. ASSUME NEW i \in DOMAIN run.rows, NEW w, w = run.rows[i].id
        PROVE  /\ w \in Member /\ run.people[w] # None /\ run.people[w].firm = run.firm
               /\ run.rows[i].name = GuardCell(run.people[w].name)
               /\ run.rows[i].role = run.people[w].role /\ run.rows[i].terms = run.people[w].terms
               /\ run.rows[i].fault = "none"
               /\ run.rows[i].cells = run.table[w][run.month]
    <3>1. w \in Member
      BY <1>2, <2>3 DEF FileRow
    <3> QED BY <2>1, <2>3, <3>1 DEF IsCopy
  <2>4. \A i \in DOMAIN run.rows : Good(i)
    <3> SUFFICES ASSUME NEW i \in DOMAIN run.rows PROVE Good(i)
      OBVIOUS
    <3> DEFINE row == run.rows[i]
    <3>1. /\ row.id \in Member /\ run.people[row.id].firm = run.firm /\ row.fault = "none"
          /\ row.cells = run.table[row.id][run.month]
      BY <2>3
    <3>2. \A d \in DOMAIN row.cells : CellLegal(row.cells[d])
      BY <2>2, <3>1, LegalCell
    <3>3. ~UnreadableField(row) /\ row.fault # "hours"
      BY <3>1 DEF UnreadableField
    <3> QED BY <3>1, <3>2, <3>3 DEF Good, RowError
  <2>5. report = {}
    <3>1. {e.row : e \in report} = {}
      BY <2>1, <2>4 DEF Progress
    <3> QED BY <3>1
  <2>6. ASSUME NEW w \in Member
        PROVE  table[w] = run.table[w] /\ (people[w] # run.people[w] => QuotedTrigger(run.people[w].name))
    <3>1. AsSaid(w, run.next - 1)
      BY <2>1 DEF Progress
    <3>2. ASSUME NEW i \in Says(w, run.next - 1), people[w] = Person(run.rows[i]),
                 table[w] = Filled(w, run.rows[i].cells)
          PROVE  table[w] = run.table[w] /\ (people[w] # run.people[w] => QuotedTrigger(run.people[w].name))
      <4>1. i \in DOMAIN run.rows /\ run.rows[i].id = w
        BY <2>1 DEF Says
      <4>2. table[w] = run.table[w]
        <5>1. run.rows[i].cells = run.table[w][run.month]
          BY <2>3, <4>1
        <5>2. run.table[w] \in [Month -> Seq(DayCell)] /\ run.month \in Month
          BY <1>2, <2>2
        <5>3. [run.table[w] EXCEPT ![run.month] = run.table[w][run.month]] = run.table[w]
          BY <5>2
        <5> QED BY <3>2, <5>1, <5>3 DEF Filled
      <4>3. run.people[w] \in PersonRow
        BY <1>2, <2>3, <4>1 DEF Roster
      <4>4. ASSUME ~QuotedTrigger(run.people[w].name) PROVE people[w] = run.people[w]
        <5>1. UnguardCell(run.rows[i].name) = run.people[w].name
          BY <2>3, <4>1, <4>3, <4>4, GuardUndone DEF PersonRow
        <5>2. people[w] = [firm |-> run.people[w].firm, name |-> run.people[w].name,
                           role |-> run.people[w].role, terms |-> run.people[w].terms]
          BY <2>3, <3>2, <4>1, <5>1 DEF Person
        <5> QED BY <4>3, <5>2 DEF PersonRow
      <4> QED BY <4>2, <4>4
    <3> QED BY <3>1, <3>2 DEF AsSaid
  <2>7. table = run.table
    <3>1. table \in Timetable
      BY DEF TableTypeOK
    <3> QED BY <1>2, <2>6, <3>1 DEF Timetable
  <2> QED BY <2>5, <2>6, <2>7
<1> QED BY <1>1, <1>3, <1>4 DEF FileIsKept

LEMMA RunQuiet ==
  ASSUME RunInv, UNCHANGED <<run, report, people, table>>
  PROVE  RunInv'
<1>1. \A i : Good(i)' <=> Good(i)
  BY DEF Good
<1>2. \A w : /\ Says(w, run.next - 1)' = Says(w, run.next - 1)
             /\ AsSaid(w, run.next - 1)' <=> AsSaid(w, run.next - 1)
  BY <1>1 DEF Says, AsSaid, Filled, Person
<1>3. Progress'
  BY <1>1, <1>2 DEF RunInv, Progress
<1> QED BY <1>3 DEF RunInv

\* The rest of the session leaves a file and its import alone, unless it saves the grid.
LEMMA FileQuiet ==
  ASSUME FileInv, UNCHANGED fileVars, run # None => UNCHANGED <<people, table>>
  PROVE  FileInv'
BY RunQuiet DEF FileInv, fileVars

LEMMA ListedNumber ==
  ASSUME NEW c
  PROVE  Cardinality(Listed(c)) \in Nat /\ Listed(c) \subseteq Member
<1>1. IsFiniteSet(Member)
  BY MonthTableAssumption, FS_Interval DEF Member
<1>2. Listed(c) \subseteq Member
  BY DEF Listed, Staff
<1> QED BY <1>1, <1>2, FS_Subset, FS_CardinalityType

\* A row as it is exported.
LEMMA ExportedRow ==
  ASSUME TableTypeOK, NEW c \in Firm, NEW m \in Month, NEW w \in Listed(c)
  PROVE  /\ RowOf(w, m) \in FileRow /\ RowOf(w, m).id = w
         /\ Len(RowOf(w, m).cells) = DayCount[m]
         /\ people[w] # None /\ people[w].firm = c
         /\ RowOf(w, m).name = GuardCell(people[w].name)
         /\ RowOf(w, m).role = people[w].role /\ RowOf(w, m).terms = people[w].terms
         /\ RowOf(w, m).fault = "none"
         /\ RowOf(w, m).cells = table[w][m]
<1> DEFINE cells == [d \in Days(m) |-> table[w][m][d]]
<1>1. w \in Member /\ people[w] \in PersonRow /\ people[w] # None /\ people[w].firm = c /\ people[w].terms # None
  BY DEF TableTypeOK, Listed, Staff
<1>2. people[w].name \in Seq(Char) /\ people[w].role \in Role /\ people[w].terms \in Terms
  BY <1>1 DEF PersonRow
<1>3. GuardCell(people[w].name) \in Seq(Char)
  BY <1>2, GuardKeeps
<1>4. table[w][m] \in [1 .. DayCount[m] -> DayCell] /\ DayCount[m] \in Nat
  BY <1>1, MonthTableAssumption DEF TableTypeOK, Timetable, MonthRows, Days
<1>5. cells \in Seq(DayCell \cup RawCell) /\ Len(cells) = DayCount[m]
  <2>1. cells \in [1 .. DayCount[m] -> DayCell \cup RawCell]
    BY <1>4 DEF Days
  <2> HIDE DEF cells
  <2> QED BY <1>4, <2>1
<1>6. cells = table[w][m]
  BY <1>4 DEF Days
<1> HIDE DEF cells
<1>7. RowOf(w, m) = [id |-> w, name |-> GuardCell(people[w].name), role |-> people[w].role,
                     terms |-> people[w].terms, fault |-> "none", cells |-> cells]
  BY DEF RowOf, FromWorkerRecord, cells
<1>8. RowOf(w, m) \in FileRow
  BY <1>1, <1>2, <1>3, <1>5, <1>7 DEF FileRow
<1> QED BY <1>1, <1>5, <1>6, <1>7, <1>8

LEMMA ExportInv ==
  ASSUME TableTypeOK, FileInv, NEW c \in Firm, NEW m \in Month, Export(c, m)
  PROVE  FileInv'
<1>1. PICK ids \in [1 .. Cardinality(Listed(c)) -> Listed(c)] :
        file' = [days |-> DayCount[m], rows |-> [i \in DOMAIN ids |-> RowOf(ids[i], m)]]
  BY DEF Export
<1> DEFINE rows == [i \in DOMAIN ids |-> RowOf(ids[i], m)]
           n == Cardinality(Listed(c))
<1>2. n \in Nat /\ DOMAIN rows = 1 .. n /\ \A i \in 1 .. n : rows[i] = RowOf(ids[i], m) /\ ids[i] \in Listed(c)
  BY <1>1, ListedNumber
<1>3. \A i \in 1 .. n : rows[i] \in FileRow
  BY <1>2, ExportedRow
<1>4. rows \in Seq(FileRow)
  <2>1. rows \in [1 .. n -> FileRow]
    BY <1>1, <1>3
  <2> HIDE DEF rows, n
  <2> QED BY <1>2, <2>1
<1>5. origin' = [firm |-> c, month |-> m, people |-> people, table |-> table]
  BY DEF Export
<1> HIDE DEF rows, n
<1>6. Wide(rows, DayCount[m]) /\ IsCopy(rows, origin')
  <2>1. /\ origin'.firm = c /\ origin'.month = m /\ origin'.people = people /\ origin'.table = table
    BY <1>5
  <2>2. ASSUME NEW i \in DOMAIN rows
        PROVE  LET w == rows[i].id
               IN /\ Len(rows[i].cells) = DayCount[m]
                  /\ people[w] # None /\ people[w].firm = c
                  /\ rows[i].name = GuardCell(people[w].name)
                  /\ rows[i].role = people[w].role /\ rows[i].terms = people[w].terms
                  /\ rows[i].fault = "none"
                  /\ rows[i].cells = table[w][m]
    <3>1. ids[i] \in Listed(c) /\ rows[i] = RowOf(ids[i], m)
      BY <1>2
    <3>2. rows[i].id = ids[i]
      BY <3>1, ExportedRow
    <3> QED BY <3>1, <3>2, ExportedRow
  <2> QED BY <2>1, <2>2 DEF Wide, IsCopy
<1>7. origin' \in Copy
  BY <1>5 DEF Copy, TableTypeOK, Roster
<1>8. file' \in [days : Nat, rows : Seq(FileRow)] /\ file'.days = DayCount[m] /\ file'.rows = rows
  BY <1>1, <1>4, MonthTableAssumption DEF rows
<1>9. run' = None \/ RunInv'
  BY RunQuiet DEF FileInv, Export, tableVars
<1>10. report' \subseteq ReportRow
  BY DEF FileInv, Export
<1> QED BY <1>6, <1>7, <1>8, <1>9, <1>10 DEF FileInv

LEMMA EditInv ==
  ASSUME FileInv, NEW i, EditFile(i)
  PROVE  FileInv'
<1>1. /\ file # None /\ i \in DOMAIN file.rows
      /\ file \in [days : Nat, rows : Seq(FileRow)] /\ Wide(file.rows, file.days)
      /\ origin' = None /\ UNCHANGED <<run, report, people, table>>
  BY DEF EditFile, FileInv, tableVars
<1>2. /\ file.rows \in Seq(FileRow) /\ file.days \in Nat
      /\ Len(file.rows) \in Nat /\ DOMAIN file.rows = 1 .. Len(file.rows) /\ i \in 1 .. Len(file.rows)
  BY <1>1, LenProperties
<1>3. /\ \A j \in 1 .. Len(file.rows) : file.rows[j] \in FileRow /\ Len(file.rows[j].cells) = file.days
  BY <1>1, <1>2, ElementOfSeq DEF Wide
<1>4. ASSUME NEW rows, file' = [file EXCEPT !.rows = rows], rows \in Seq(FileRow), Wide(rows, file.days)
      PROVE  FileInv'
  <2>1. file' \in [days : Nat, rows : Seq(FileRow)] /\ file'.days = file.days /\ file'.rows = rows
    BY <1>1, <1>4
  <2>2. run' = None \/ RunInv'
    BY <1>1, RunQuiet DEF FileInv
  <2> QED BY <1>1, <1>4, <2>1, <2>2 DEF FileInv
<1>5. ASSUME NEW row \in FileRow, Len(row.cells) = file.days, file' = [file EXCEPT !.rows = [file.rows EXCEPT ![i] = row]]
      PROVE  FileInv'
  <2> DEFINE rows == [file.rows EXCEPT ![i] = row]
  <2>1. /\ rows \in Seq(FileRow) /\ Len(rows) = Len(file.rows)
        /\ \A j \in 1 .. Len(file.rows) : rows[j] = IF j = i THEN row ELSE file.rows[j]
    BY <1>2, ExceptSeq
  <2> HIDE DEF rows
  <2>2. DOMAIN rows = 1 .. Len(file.rows)
    BY <2>1, LenProperties
  <2>3. Wide(rows, file.days)
    BY <1>3, <1>5, <2>1, <2>2 DEF Wide
  <2>4. file' = [file EXCEPT !.rows = rows]
    BY <1>5 DEF rows
  <2> QED BY <1>4, <2>1, <2>3, <2>4
\* A cell typed over.
<1>6. ASSUME NEW d \in 1 .. file.days, NEW raw \in RawCell, file' = [file EXCEPT !.rows[i].cells[d] = raw]
      PROVE  FileInv'
  <2> DEFINE cells == [file.rows[i].cells EXCEPT ![d] = raw]
             row == [file.rows[i] EXCEPT !.cells = cells]
  <2>1. /\ file.rows[i] \in FileRow /\ file.rows[i].cells \in Seq(DayCell \cup RawCell)
        /\ Len(file.rows[i].cells) = file.days
    BY <1>2, <1>3 DEF FileRow
  <2>2. cells \in Seq(DayCell \cup RawCell) /\ Len(cells) = file.days
    BY <1>6, <2>1, ExceptSeq
  <2> HIDE DEF cells
  <2>3. row \in FileRow /\ row.cells = cells
    BY <2>1, <2>2 DEF FileRow
  <2>4. file' = [file EXCEPT !.rows = [file.rows EXCEPT ![i] = row]]
    BY <1>6 DEF cells
  <2> HIDE DEF row
  <2> QED BY <1>5, <2>2, <2>3, <2>4
\* A field spoiled.
<1>7. ASSUME NEW f \in Fault, file' = [file EXCEPT !.rows[i].fault = f] PROVE FileInv'
  <2> DEFINE row == [file.rows[i] EXCEPT !.fault = f]
  <2>1. file.rows[i] \in FileRow /\ Len(file.rows[i].cells) = file.days
    BY <1>2, <1>3
  <2>2. row \in FileRow /\ row.cells = file.rows[i].cells
    BY <2>1 DEF FileRow
  <2>3. file' = [file EXCEPT !.rows = [file.rows EXCEPT ![i] = row]]
    BY <1>7
  <2> HIDE DEF row
  <2> QED BY <1>5, <2>1, <2>2, <2>3
\* A row repeated.
<1>8. ASSUME NEW w \in Member, file' = [file EXCEPT !.rows = Append(@, [@[i] EXCEPT !.id = w])] PROVE FileInv'
  <2> DEFINE row == [file.rows[i] EXCEPT !.id = w]
             rows == Append(file.rows, row)
  <2>1. file.rows[i] \in FileRow /\ Len(file.rows[i].cells) = file.days
    BY <1>2, <1>3
  <2>2. row \in FileRow /\ row.cells = file.rows[i].cells
    BY <2>1 DEF FileRow
  <2> HIDE DEF row
  <2>3. /\ rows \in Seq(FileRow) /\ Len(rows) = Len(file.rows) + 1
        /\ \A j \in 1 .. Len(file.rows) : rows[j] = file.rows[j]
        /\ rows[Len(file.rows) + 1] = row
    BY <1>2, <2>2, AppendProperties
  <2>4. file' = [file EXCEPT !.rows = rows]
    BY <1>8 DEF row
  <2> HIDE DEF rows
  <2>5. DOMAIN rows = 1 .. Len(file.rows) + 1
    BY <2>3, LenProperties
  <2>6. Wide(rows, file.days)
    <3> SUFFICES ASSUME NEW j \in 1 .. Len(file.rows) + 1 PROVE Len(rows[j].cells) = file.days
      BY <2>5 DEF Wide
    <3>1. CASE j \in 1 .. Len(file.rows)
      BY <1>3, <2>3, <3>1
    <3>2. CASE j = Len(file.rows) + 1
      BY <2>1, <2>2, <2>3, <3>2
    <3> QED BY <1>2, <3>1, <3>2
  <2> QED BY <1>4, <2>3, <2>4, <2>6
\* A row dropped.
<1>9. ASSUME file' = [file EXCEPT !.rows = SubSeq(@, 1, i - 1) \o SubSeq(@, i + 1, Len(@))] PROVE FileInv'
  <2> DEFINE before == SubSeq(file.rows, 1, i - 1)
             after == SubSeq(file.rows, i + 1, Len(file.rows))
             rows == before \o after
  <2>1. /\ before \in Seq(FileRow) /\ Len(before) = i - 1
        /\ \A j \in 1 .. i - 1 : before[j] = file.rows[j]
    <3>1. \A j \in 1 .. i - 1 : file.rows[j] \in FileRow
      BY <1>2, <1>3
    <3>2. 1 \in Int /\ i - 1 \in Int
      BY <1>2
    <3>3. /\ before \in Seq(FileRow) /\ Len(before) = IF 1 <= i - 1 THEN (i - 1) - 1 + 1 ELSE 0
          /\ \A j \in 1 .. (i - 1) - 1 + 1 : before[j] = file.rows[1 + j - 1]
      BY <3>1, <3>2, SubSeqProperties
    <3> HIDE DEF before
    <3> QED BY <1>2, <3>3
  <2>2. /\ after \in Seq(FileRow) /\ Len(after) = Len(file.rows) - i
        /\ \A j \in 1 .. Len(file.rows) - i : after[j] = file.rows[i + j]
    <3>1. \A j \in i + 1 .. Len(file.rows) : file.rows[j] \in FileRow
      BY <1>2, <1>3
    <3>2. Len(file.rows) \in Int /\ i + 1 \in Int
      BY <1>2
    <3>3. /\ after \in Seq(FileRow)
          /\ Len(after) = IF i + 1 <= Len(file.rows) THEN Len(file.rows) - (i + 1) + 1 ELSE 0
          /\ \A j \in 1 .. Len(file.rows) - (i + 1) + 1 : after[j] = file.rows[(i + 1) + j - 1]
      BY <3>1, <3>2, SubSeqProperties
    <3> HIDE DEF after
    <3> QED BY <1>2, <3>3
  <2>3. file' = [file EXCEPT !.rows = rows]
    BY <1>9
  <2> HIDE DEF before, after
  <2>4. /\ rows \in Seq(FileRow) /\ Len(rows) = Len(before) + Len(after)
        /\ \A j \in 1 .. Len(before) + Len(after) :
             rows[j] = IF j <= Len(before) THEN before[j] ELSE after[j - Len(before)]
    BY <2>1, <2>2, ConcatProperties
  <2> HIDE DEF rows
  <2>5. DOMAIN rows = 1 .. Len(before) + Len(after)
    BY <2>4, LenProperties
  <2>6. Wide(rows, file.days)
    <3> SUFFICES ASSUME NEW j \in 1 .. Len(before) + Len(after) PROVE Len(rows[j].cells) = file.days
      BY <2>5 DEF Wide
    <3>1. CASE j <= i - 1
      <4>1. j \in 1 .. i - 1 /\ j \in 1 .. Len(file.rows) /\ rows[j] = before[j]
        BY <1>2, <2>1, <2>2, <2>4, <3>1
      <4> QED BY <1>3, <2>1, <4>1
    <3>2. CASE j > i - 1
      <4>1. j - (i - 1) \in 1 .. Len(file.rows) - i /\ rows[j] = after[j - (i - 1)]
        <5>1. Len(before) = i - 1 /\ Len(after) = Len(file.rows) - i /\ i - 1 \in Int
          BY <1>2, <2>1, <2>2
        <5>2. rows[j] = after[j - Len(before)]
          BY <2>4, <3>2, <5>1
        <5> QED BY <1>2, <3>2, <5>1, <5>2
      <4>2. PICK k \in 1 .. Len(file.rows) - i : rows[j] = after[k]
        BY <4>1
      <4>3. rows[j] = file.rows[i + k] /\ i + k \in 1 .. Len(file.rows)
        BY <1>2, <2>2, <4>2
      <4> QED BY <1>3, <4>3
    <3> QED BY <1>2, <3>1, <3>2
  <2> QED BY <1>4, <2>3, <2>4, <2>6
<1> QED BY <1>6, <1>7, <1>8, <1>9 DEF EditFile

LEMMA UploadInv ==
  ASSUME TableTypeOK, FileInv, NEW c \in Firm, NEW m \in Month, Upload(c, m)
  PROVE  FileInv'
<1>1. /\ file # None /\ file \in [days : Nat, rows : Seq(FileRow)] /\ Wide(file.rows, file.days)
      /\ origin = None \/ (origin \in Copy /\ IsCopy(file.rows, origin))
      /\ report' = {} /\ UNCHANGED <<people, table, file, origin>>
  BY DEF Upload, FileInv, tableVars
<1>2. ASSUME Framed(file, m) PROVE RunInv'
  <2>1. run' = [firm |-> c, month |-> m, rows |-> file.rows, next |-> 1, origin |-> origin,
                people |-> people, table |-> table]
    BY <1>2 DEF Upload
  <2>2. file.rows \in Seq(FileRow) /\ Wide(file.rows, DayCount[m]) /\ Len(file.rows) \in Nat
    BY <1>1, <1>2, LenProperties DEF Framed
  <2>3. run' \in RunRow
    <3>1. people \in Roster /\ table \in Timetable /\ origin \in Copy \cup {None}
      BY <1>1 DEF TableTypeOK, Roster
    <3> QED BY <2>1, <2>2, <3>1 DEF RunRow
  <2>4. /\ run'.rows = file.rows /\ run'.month = m /\ run'.next = 1 /\ run'.origin = origin
        /\ run'.people = people /\ run'.table = table
    BY <2>1
  <2>5. Progress'
    <3>1. 1 .. run'.next - 1 = {}
      BY <2>4
    <3>2. \A w : Says(w, run.next - 1)' = {}
      BY <3>1 DEF Says
    <3>3. \A w : AsSaid(w, run.next - 1)'
      BY <1>1, <2>4, <3>2 DEF AsSaid
    <3> QED BY <1>1, <3>1, <3>3 DEF Progress
  <2> QED BY <1>1, <2>2, <2>3, <2>4, <2>5 DEF RunInv
<1>3. run' = None \/ Framed(file, m)
  BY DEF Upload
<1> QED BY <1>1, <1>2, <1>3 DEF FileInv

\* Whose row it is has not changed hands since the upload, other than to the file's company.
LEMMA GoodNow ==
  ASSUME RunInv, run.next <= Len(run.rows)
  PROVE  RowError(run.rows[run.next], run.firm, people) = "none" <=> Good(run.next)
<1> DEFINE row == run.rows[run.next]
           w == row.id
<1>1. row \in FileRow /\ w \in Member
  <2>1. run.rows \in Seq(FileRow) /\ run.next \in 1 .. Len(run.rows)
    BY DEF RunInv, RunRow
  <2>2. row \in FileRow
    BY <2>1, ElementOfSeq
  <2> QED BY <2>2 DEF FileRow
<1>2. AsSaid(w, run.next - 1)
  BY <1>1 DEF RunInv, Progress
<1>3. people[w] = run.people[w] \/ (people[w].firm = run.firm /\ run.people[w].firm = run.firm)
      \/ (people[w].firm = run.firm /\ run.people[w] = None)
  <2>1. ASSUME NEW i \in Says(w, run.next - 1), people[w] = Person(run.rows[i])
        PROVE  people[w].firm = run.firm /\ (run.people[w].firm = run.firm \/ run.people[w] = None)
    <3>1. Good(i) /\ run.rows[i].id = w
      BY DEF Says
    <3>2. ~(run.people[w] # None /\ run.people[w].firm # run.firm)
      BY <3>1 DEF Good, RowError
    <3> QED BY <2>1, <3>2 DEF Person
  <2> QED BY <1>2, <2>1 DEF AsSaid
<1>4. (people[w] # None /\ people[w].firm # run.firm) <=> (run.people[w] # None /\ run.people[w].firm # run.firm)
  BY <1>3
<1> QED BY <1>4 DEF Good, RowError

\* Where an import has applied a row, or noted its error.
LEMMA RowErrors ==
  ASSUME NEW row, NEW c, NEW at, RowError(row, c, at) # "none"
  PROVE  RowError(row, c, at) \in {"role", "cells", "hours", "national_id"}
BY DEF RowError

LEMMA GoodRow ==
  ASSUME NEW row \in FileRow, NEW c, NEW at, RowError(row, c, at) = "none"
  PROVE  row.cells \in Seq(DayCell)
<1>1. \A d \in DOMAIN row.cells : CellLegal(row.cells[d])
  BY DEF RowError
<1>2. row.cells \in Seq(DayCell \cup RawCell)
  BY DEF FileRow
<1>3. \A d \in 1 .. Len(row.cells) : row.cells[d] \in DayCell
  BY <1>1, <1>2, LegalCell, ElementOfSeq, LenProperties
<1>4. row.cells \in [1 .. Len(row.cells) -> DayCell] /\ Len(row.cells) \in Nat
  BY <1>2, <1>3, LenProperties
<1> QED BY <1>4

LEMMA ImportInv ==
  ASSUME TableTypeOK, FileInv, ImportRow
  PROVE  /\ FileInv'
         /\ people' \in Roster /\ table' \in Timetable /\ needs' = needs
<1> DEFINE n == run.next
           row == run.rows[n]
           w == row.id
           good == RowError(row, run.firm, people) = "none"
<1>1. /\ run # None /\ RunInv /\ n <= Len(run.rows) /\ run' = [run EXCEPT !.next = n + 1]
      /\ UNCHANGED <<file, origin>>
  BY DEF ImportRow, FileInv
<1>2. /\ run \in RunRow /\ n \in Nat /\ n \in 1 .. Len(run.rows) /\ Len(run.rows) \in Nat
      /\ run.rows \in Seq(FileRow) /\ DOMAIN run.rows = 1 .. Len(run.rows)
      /\ Wide(run.rows, DayCount[run.month])
      /\ run.people \in Roster /\ run.table \in Timetable /\ run.month \in Month /\ run.firm \in Firm
  <2>1. run \in RunRow
    BY <1>1 DEF RunInv
  <2>2. run.rows \in Seq(FileRow) /\ n \in Nat
    BY <2>1 DEF RunRow
  <2>3. Len(run.rows) \in Nat /\ DOMAIN run.rows = 1 .. Len(run.rows)
    BY <2>2, LenProperties
  <2>4. n \in 1 .. Len(run.rows)
    BY <1>1, <2>2, <2>3 DEF RunInv
  <2> QED BY <1>1, <2>1, <2>2, <2>3, <2>4 DEF RunInv, RunRow
<1>3. row \in FileRow /\ Len(row.cells) = DayCount[run.month] /\ w \in Member
  <2>1. row \in FileRow
    BY <1>2, ElementOfSeq
  <2> QED BY <1>2, <2>1 DEF FileRow, Wide
<1>4. good <=> Good(n)
  BY <1>1, GoodNow
<1>5. /\ run' \in RunRow /\ run'.next = n + 1 /\ run'.rows = run.rows /\ run'.month = run.month
      /\ run'.firm = run.firm /\ run'.people = run.people /\ run'.table = run.table /\ run'.origin = run.origin
  BY <1>1, <1>2 DEF RunRow
<1>6. /\ \A i : Good(i)' <=> Good(i)
      /\ \A i : Person(run.rows[i])' = Person(run.rows[i])
      /\ \A v, cells : Filled(v, cells)' = Filled(v, cells)
  BY <1>5 DEF Good, Person, Filled
<1> HIDE DEF n, row, w, good
<1>7. 1 .. n = (1 .. n - 1) \cup {n}
  BY <1>2
<1>8. ASSUME NEW v
      PROVE  /\ \A i : i \in Says(v, run.next - 1)' <=> i \in 1 .. n /\ run.rows[i].id = v /\ Good(i)
             /\ \A i : i \in Says(v, n - 1) <=> i \in 1 .. n - 1 /\ run.rows[i].id = v /\ Good(i)
  <2>1. run'.next - 1 = n
    BY <1>2, <1>5
  <2> QED BY <1>5, <1>6, <2>1 DEF Says
<1>9. Progress /\ \A v \in Member : AsSaid(v, n - 1)
  BY <1>1 DEF RunInv, Progress, n
\* A worker whom the row does not name, or not well, is as before.
<1>10. ASSUME NEW v \in Member, v # w \/ ~good, people'[v] = people[v], table'[v] = table[v]
       PROVE  AsSaid(v, run.next - 1)'
  <2>1. Says(v, run.next - 1)' = Says(v, n - 1)
    <3>1. \A i : i \in Says(v, run.next - 1)' <=> i \in Says(v, n - 1)
      BY <1>4, <1>7, <1>8, <1>10 DEF w, row
    <3>2. Says(v, run.next - 1)' \subseteq 1 .. n /\ Says(v, n - 1) \subseteq 1 .. n
      BY <1>7, <1>8
    <3> QED BY <3>1, <3>2
  <2> QED BY <1>5, <1>6, <1>9, <1>10, <2>1 DEF AsSaid
<1>11. CASE good
  <2>1. /\ people' = [people EXCEPT ![w] = Person(row)]
        /\ table' = [table EXCEPT ![w] = [table[w] EXCEPT ![run.month] = row.cells]]
        /\ needs' = needs /\ report' = report
    BY <1>11 DEF ImportRow, Applied, good, w, row, n
  <2>2. row.cells \in Seq(DayCell)
    BY <1>3, <1>11, GoodRow DEF good
  <2>3. Person(row) \in PersonRow
    <3>1. UnguardCell(row.name) \in Seq(Char) /\ row.role \in Role /\ row.terms \in Terms
      BY <1>3, GuardKeeps DEF FileRow
    <3> QED BY <1>2, <3>1 DEF Person, PersonRow
  <2>4. people' \in Roster
    BY <1>3, <2>1, <2>3 DEF TableTypeOK, Roster
  <2>5. /\ table \in [Member -> [Month -> Seq(DayCell)]]
        /\ \A v \in Member, m \in Month : table[v][m] \in MonthRows(m)
    BY DEF TableTypeOK, Timetable
  <2>6. row.cells \in MonthRows(run.month)
    <3>1. row.cells \in [1 .. Len(row.cells) -> DayCell]
      BY <2>2, LenProperties
    <3> QED BY <1>3, <3>1 DEF MonthRows, Days
  <2>7. table' \in Timetable
    <3>1. table' \in [Member -> [Month -> Seq(DayCell)]]
      BY <1>2, <1>3, <2>1, <2>2, <2>5
    <3>2. ASSUME NEW v \in Member, NEW m \in Month PROVE table'[v][m] \in MonthRows(m)
      BY <1>2, <1>3, <2>1, <2>5, <2>6
    <3> QED BY <3>1, <3>2 DEF Timetable
  <2>8. \A v \in Member : v # w => people'[v] = people[v] /\ table'[v] = table[v]
    BY <2>1, <2>5 DEF TableTypeOK
  <2>9. ASSUME NEW v \in Member, v = w, NEW k, k = n PROVE AsSaid(v, run.next - 1)'
    <3>1. \A i : i \in Says(v, run.next - 1)' <=> i \in Says(v, n - 1) \cup {n}
      BY <1>4, <1>7, <1>8, <1>11, <2>9 DEF w, row
    <3>2. k \in Says(v, run.next - 1)' /\ \A j \in Says(v, run.next - 1)' : j <= k
      BY <1>2, <1>8, <2>9, <3>1
    <3>3. people'[v] = Person(run.rows[k])
      BY <1>3, <2>1, <2>9 DEF TableTypeOK, row
    <3>4. table'[v] = Filled(v, run.rows[k].cells)
      <4>1. table'[v] = [table[v] EXCEPT ![run.month] = row.cells]
        BY <1>3, <2>1, <2>5, <2>9
      <4>2. CASE table[v] = run.table[v]
        BY <2>9, <4>1, <4>2 DEF Filled, row
      <4>3. ASSUME NEW old, table[v] = Filled(v, old)
            PROVE  table'[v] = Filled(v, row.cells)
        <5> DEFINE f == run.table[v]
        <5>1. f \in [Month -> Seq(DayCell)]
          BY <1>2 DEF Timetable
        <5> HIDE DEF f
        <5>2. [[f EXCEPT ![run.month] = old] EXCEPT ![run.month] = row.cells] = [f EXCEPT ![run.month] = row.cells]
          BY <1>2, <5>1
        <5>3. table[v] = [f EXCEPT ![run.month] = old]
          BY <4>3 DEF Filled, f
        <5>4. table'[v] = [f EXCEPT ![run.month] = row.cells]
          BY <4>1, <5>2, <5>3
        <5> QED BY <5>4 DEF Filled, f
      <4> QED BY <1>9, <2>9, <4>2, <4>3 DEF AsSaid, row
    <3>5. people'[v] = Person(run.rows[k])' /\ table'[v] = Filled(v, run.rows[k].cells)'
      BY <1>5, <1>6, <3>3, <3>4
    <3>6. Says(v, run.next - 1)' # {}
      BY <3>2
    <3>7. \E i \in Says(v, run.next - 1)' :
            /\ \A j \in Says(v, run.next - 1)' : j <= i
            /\ people'[v] = Person(run.rows[i])'
            /\ table'[v] = Filled(v, run.rows[i].cells)'
      BY <3>2, <3>5
    <3> QED BY <3>6, <3>7 DEF AsSaid
  <2>10. {e.row : e \in report'} = {i \in 1 .. run'.next - 1 : ~Good(i)'}
    <3>1. {e.row : e \in report} = {i \in 1 .. n - 1 : ~Good(i)}
      BY <1>9 DEF Progress, n
    <3>2. run'.next - 1 = n
      BY <1>2, <1>5
    <3> QED BY <1>4, <1>6, <1>7, <1>11, <2>1, <3>1, <3>2
  <2>11. Progress'
    BY <1>10, <2>8, <2>9, <2>10, Zenon DEF Progress
  <2>12. RunInv'
    BY <1>1, <1>2, <1>5, <2>11 DEF RunInv
  <2> QED BY <1>1, <2>1, <2>4, <2>7, <2>12 DEF FileInv
<1>12. CASE ~good
  <2>1. /\ report' = report \cup {[row |-> n, field |-> RowError(row, run.firm, people)]}
        /\ UNCHANGED <<people, needs, table>>
    BY <1>12 DEF ImportRow, good, row, n, tableVars
  <2>2. report' \subseteq ReportRow
    <3>1. RowError(row, run.firm, people) \in {"role", "cells", "hours", "national_id"}
      BY <1>12, RowErrors DEF good
    <3> QED BY <1>2, <2>1, <3>1 DEF FileInv, ReportRow
  <2>3. {e.row : e \in report'} = {i \in 1 .. run'.next - 1 : ~Good(i)'}
    <3>1. {e.row : e \in report} = {i \in 1 .. n - 1 : ~Good(i)}
      BY <1>9 DEF Progress, n
    <3>2. {e.row : e \in report'} = {e.row : e \in report} \cup {n}
      <4> DEFINE entry == [row |-> n, field |-> RowError(row, run.firm, people)]
      <4>1. report' = report \cup {entry} /\ entry.row = n
        BY <2>1
      <4> HIDE DEF entry
      <4> QED BY <4>1
    <3>3. run'.next - 1 = n
      BY <1>2, <1>5
    <3> QED BY <1>4, <1>6, <1>7, <1>12, <3>1, <3>2, <3>3
  <2>4. Progress'
    BY <1>10, <1>12, <2>1, <2>3 DEF Progress
  <2>5. RunInv'
    BY <1>1, <1>2, <1>5, <2>4 DEF RunInv
  <2> QED BY <1>1, <2>1, <2>2, <2>5 DEF FileInv, TableTypeOK, Roster
<1> QED BY <1>11, <1>12

LEMMA FileSteps ==
  ASSUME TableTypeOK, FileInv, FileNext
  PROVE  FileInv' /\ TableTypeOK'
<1>1. CASE ImportRow
  BY <1>1, ImportInv DEF TableTypeOK, Roster
<1>2. CASE Finish
  <2>1. run' = None /\ UNCHANGED <<people, needs, table, file, origin, report>>
    BY <1>2 DEF Finish, tableVars
  <2> QED BY <2>1 DEF FileInv, TableTypeOK
<1>3. ASSUME NEW c \in Firm, NEW m \in Month, Export(c, m) \/ Upload(c, m) PROVE FileInv' /\ TableTypeOK'
  <2>1. FileInv'
    BY <1>3, ExportInv, UploadInv
  <2> QED BY <1>3, <2>1 DEF Export, Upload, TableTypeOK, tableVars
<1>4. ASSUME NEW i, EditFile(i) PROVE FileInv' /\ TableTypeOK'
  <2>1. FileInv'
    BY <1>4, EditInv
  <2> QED BY <1>4, <2>1 DEF EditFile, TableTypeOK, tableVars
<1> QED BY <1>1, <1>2, <1>3, <1>4 DEF FileNext

-----------------------------------------------------------------------------
(* Sums over finite sets *)

\* Of the subsets of a finite set that have a property, one has it last.
LEMMA SmallestSubset ==
  ASSUME NEW S, IsFiniteSet(S), NEW Bad \in SUBSET SUBSET S, Bad # {}
  PROVE  \E s \in Bad : \A t \in Bad : ~(t \subseteq s /\ t # s)
<1>1. Bad \subseteq FiniteSubsetsOf(S)
  BY FS_Subset DEF FiniteSubsetsOf
<1>2. PICK s \in Bad : \A t \in Bad : <<t, s>> \notin StrictSubsetOrdering(S)
  BY <1>1, FS_StrictSubsetOrderingWellFounded, WFMin
<1>3. \A t \in Bad : t \subseteq s /\ t # s => <<t, s>> \in StrictSubsetOrdering(S)
  BY DEF StrictSubsetOrdering
<1>4. \A t \in Bad : ~(t \subseteq s /\ t # s)
  BY <1>2, <1>3
<1> QED BY <1>4

\* A set of naturals has a least one.
LEMMA LeastNumber ==
  ASSUME NEW S \in SUBSET Nat, S # {}
  PROVE  \E n \in S : \A k \in S : n <= k
<1>1. PICK n \in S : \A k \in S : <<k, n>> \notin OpToRel(<, Nat)
  BY NatLessThanWellFounded, WFMin
<1>2. \A k \in S : ~(k < n)
  BY <1>1 DEF OpToRel
<1> QED BY <1>2

\* A sum is what a function that adds one element after another gives for the whole set;
\* MapThenSumSet and FoldSet choose one such.
Pick(s) == CHOOSE x \in s : TRUE
Adds(g, f, S) == g = [s \in SUBSET S |-> IF s = {} THEN 0 ELSE f[Pick(s)] + g[s \ {Pick(s)}]]
SumOf(f, S) == (CHOOSE g : Adds(g, f, S))[S]

LEMMA PickIn == \A s : s # {} => Pick(s) \in s
BY DEF Pick

LEMMA AddsAt ==
  ASSUME NEW S, NEW f, NEW g, Adds(g, f, S), NEW s \in SUBSET S
  PROVE  /\ s = {} => g[s] = 0
         /\ s # {} => g[s] = f[Pick(s)] + g[s \ {Pick(s)}]
BY Zenon DEF Adds

\* Two that add the same agree where both are defined.
LEMMA AddsAlike ==
  ASSUME NEW S, IsFiniteSet(S), NEW T, NEW f, NEW g, NEW h, Adds(g, f, S), Adds(h, f, T),
         NEW s \in SUBSET S, s \subseteq T
  PROVE  g[s] = h[s]
<1> DEFINE Bad == {t \in SUBSET s : g[t] # h[t]}
<1> SUFFICES ASSUME Bad # {} PROVE FALSE
  OBVIOUS
<1>1. IsFiniteSet(s)
  BY FS_Subset
<1>2. PICK t \in Bad : \A u \in Bad : ~(u \subseteq t /\ u # t)
  <2>1. Bad \in SUBSET SUBSET s
    OBVIOUS
  <2> HIDE DEF Bad
  <2> QED BY <1>1, <2>1, SmallestSubset
<1>3. t \in SUBSET s /\ t \in SUBSET S /\ t \in SUBSET T /\ g[t] # h[t]
  OBVIOUS
<1>4. t # {} /\ Pick(t) \in t
  <2>1. t = {} => g[t] = 0 /\ h[t] = 0
    BY <1>3, AddsAt, Zenon
  <2> QED BY <1>3, <2>1, PickIn
<1>5. t \ {Pick(t)} \notin Bad
  BY <1>2, <1>4
<1>6. g[t \ {Pick(t)}] = h[t \ {Pick(t)}]
  BY <1>3, <1>5
<1> QED BY <1>3, <1>4, <1>6, AddsAt

\* Something adds: from what adds the smaller sets.
LEMMA SomethingAdds ==
  ASSUME NEW S, IsFiniteSet(S), NEW f
  PROVE  \E g : Adds(g, f, S)
<1> DEFINE Bad == {u \in SUBSET S : ~ \E g : Adds(g, f, u)}
<1> SUFFICES ASSUME Bad # {} PROVE FALSE
  OBVIOUS
<1>1. PICK u \in Bad : \A t \in Bad : ~(t \subseteq u /\ t # u)
  <2>1. Bad \in SUBSET SUBSET S
    OBVIOUS
  <2> HIDE DEF Bad
  <2> QED BY <2>1, SmallestSubset
<1>2. u \in SUBSET S /\ IsFiniteSet(u)
  BY FS_Subset
<1> DEFINE H(t) == CHOOSE h : Adds(h, f, t)
           G == [s \in SUBSET u |-> IF s = {} THEN 0 ELSE f[Pick(s)] + H(s \ {Pick(s)})[s \ {Pick(s)}]]
<1>3. ASSUME NEW t \in SUBSET u, t # u PROVE Adds(H(t), f, t)
  <2>1. t \notin Bad /\ t \in SUBSET S
    BY <1>1, <1>2, <1>3
  <2>2. \E h : Adds(h, f, t)
    BY <2>1
  <2> HIDE DEF Bad
  <2> QED BY <2>2
<1> HIDE DEF H, Bad
<1>4. ASSUME NEW s \in SUBSET u, s # {}
      PROVE  G[s] = f[Pick(s)] + G[s \ {Pick(s)}]
  <2> DEFINE t == s \ {Pick(s)}
  <2>1. Pick(s) \in s /\ t \in SUBSET u /\ t # u /\ IsFiniteSet(t)
    BY <1>2, <1>4, PickIn, FS_Subset
  <2>2. G[s] = f[Pick(s)] + H(t)[t]
    BY <1>4
  <2>3. G[t] = H(t)[t]
    <3>1. CASE t = {}
      <4>1. H(t)[t] = 0
        BY <1>3, <2>1, <3>1, AddsAt
      <4>2. G[t] = 0
        BY <2>1, <3>1
      <4> QED BY <4>1, <4>2
    <3>2. CASE t # {}
      <4> DEFINE r == t \ {Pick(t)}
      <4>1. Pick(t) \in t /\ r \in SUBSET t /\ r \in SUBSET u /\ r # u
        BY <2>1, <3>2, PickIn
      <4>2. G[t] = f[Pick(t)] + H(r)[r]
        BY <2>1, <3>2
      <4>3. Adds(H(t), f, t) /\ Adds(H(r), f, r)
        BY <1>3, <2>1, <4>1
      <4> HIDE DEF r, t, G
      <4>4. H(t)[t] = f[Pick(t)] + H(t)[r]
        BY <3>2, <4>3, AddsAt DEF r
      <4>5. H(t)[r] = H(r)[r]
        BY <2>1, <4>1, <4>3, AddsAlike
      <4> QED BY <4>2, <4>4, <4>5
    <3> QED BY <3>1, <3>2
  <2> HIDE DEF G
  <2> QED BY <2>2, <2>3
<1>5. Adds(G, f, u)
  <2>1. G = [s \in SUBSET u |-> IF s = {} THEN 0 ELSE f[Pick(s)] + G[s \ {Pick(s)}]]
    <3>1. \A s \in SUBSET u : G[s] = IF s = {} THEN 0 ELSE f[Pick(s)] + G[s \ {Pick(s)}]
      <4>1. G[{}] = 0
        OBVIOUS
      <4> HIDE DEF G
      <4> QED BY <1>4, <4>1
    <3>2. G = [s \in SUBSET u |-> G[s]]
      OBVIOUS
    <3> HIDE DEF G
    <3> QED BY <3>1, <3>2
  <2> HIDE DEF G
  <2> QED BY <2>1 DEF Adds
<1> HIDE DEF G
<1>6. u \notin Bad
  BY <1>5 DEF Bad
<1> QED BY <1>6

\* So a sum is what any of them gives.
LEMMA SumAdds ==
  ASSUME NEW S, IsFiniteSet(S), NEW f
  PROVE  \E g : Adds(g, f, S) /\ SumOf(f, S) = g[S]
BY SomethingAdds DEF SumOf

\* Any order gives the sum: whichever element is taken first, it is it and the rest.
LEMMA AnyFirst ==
  ASSUME NEW S, IsFiniteSet(S), NEW f, \A x \in S : f[x] \in Int, NEW g, Adds(g, f, S), NEW s \in SUBSET S
  PROVE  g[s] \in Int /\ \A x \in s : g[s] = f[x] + g[s \ {x}]
<1>0. \A u \in SUBSET S : u # {} => g[u] = f[Pick(u)] + g[u \ {Pick(u)}]
  BY AddsAt
<1> DEFINE Fine(t) == g[t] \in Int /\ \A x \in t : g[t] = f[x] + g[t \ {x}]
           Bad == {t \in SUBSET S : ~Fine(t)}
<1> SUFFICES ASSUME Bad # {} PROVE FALSE
  OBVIOUS
<1>1. PICK t \in Bad : \A u \in Bad : ~(u \subseteq t /\ u # t)
  <2>1. Bad \in SUBSET SUBSET S
    OBVIOUS
  <2> HIDE DEF Bad
  <2> QED BY <2>1, SmallestSubset
<1>2. t \in SUBSET S /\ \A u \in SUBSET t : u # t => Fine(u)
  BY <1>1
<1> HIDE DEF Bad, Fine
<1>3. t # {}
  <2>1. t = {} => g[t] = 0
    BY <1>2, AddsAt, Zenon
  <2>2. t = {} => Fine(t)
    BY <2>1 DEF Fine
  <2> QED BY <2>2 DEF Bad
<1>4. PICK y \in t : g[t] = f[y] + g[t \ {y}]
  <2>1. g[t] = f[Pick(t)] + g[t \ {Pick(t)}] /\ Pick(t) \in t
    BY <1>0, <1>2, <1>3, PickIn
  <2> QED BY <2>1
<1>5. \A x \in t : f[x] \in Int /\ g[t \ {x}] \in Int
  <2> TAKE x \in t
  <2>1. t \ {x} \in SUBSET t /\ t \ {x} # t
    OBVIOUS
  <2>2. x \in S /\ Fine(t \ {x})
    BY <1>2, <2>1
  <2> QED BY <2>2 DEF Fine
<1>6. ASSUME NEW x \in t, x # y PROVE g[t] = f[x] + g[t \ {x}]
  <2>1. g[t \ {y}] = f[x] + g[(t \ {y}) \ {x}]
    <3>1. t \ {y} \in SUBSET t /\ t \ {y} # t /\ x \in t \ {y}
      BY <1>4, <1>6
    <3> QED BY <1>2, <3>1 DEF Fine
  <2>2. g[t \ {x}] = f[y] + g[(t \ {x}) \ {y}]
    <3>1. t \ {x} \in SUBSET t /\ t \ {x} # t /\ y \in t \ {x}
      BY <1>4, <1>6
    <3> QED BY <1>2, <3>1 DEF Fine
  <2>3. (t \ {y}) \ {x} = (t \ {x}) \ {y}
    OBVIOUS
  <2>4. g[(t \ {x}) \ {y}] \in Int
    <3>1. (t \ {x}) \ {y} \in SUBSET t /\ (t \ {x}) \ {y} # t
      BY <1>4, <1>6
    <3> QED BY <1>2, <3>1 DEF Fine
  <2>5. f[x] \in Int /\ f[y] \in Int
    BY <1>4, <1>5
  <2>6. g[t] = f[y] + (f[x] + g[(t \ {x}) \ {y}]) /\ g[t \ {x}] = f[y] + g[(t \ {x}) \ {y}]
    BY <1>4, <2>1, <2>2, <2>3, Zenon
  <2> QED BY <2>4, <2>5, <2>6
<1>7. Fine(t)
  <2>1. g[t] \in Int
    <3>1. f[y] \in Int /\ g[t \ {y}] \in Int /\ g[t] = f[y] + g[t \ {y}]
      BY <1>4, <1>5, Zenon
    <3> QED BY <3>1
  <2> QED BY <1>4, <1>6, <2>1 DEF Fine
<1> QED BY <1>7 DEF Bad

\* The sum of a set is that of any element and of the others.
LEMMA SumTakes ==
  ASSUME NEW S, IsFiniteSet(S), NEW f, \A x \in S : f[x] \in Int
  PROVE  /\ SumOf(f, S) \in Int
         /\ SumOf(f, {}) = 0
         /\ \A x \in S : SumOf(f, S) = f[x] + SumOf(f, S \ {x})
<1>1. PICK g : Adds(g, f, S) /\ SumOf(f, S) = g[S]
  BY SumAdds
<1>2. SumOf(f, S) \in Int
  BY <1>1, AnyFirst
<1>3. SumOf(f, {}) = 0
  <2>1. PICK h : Adds(h, f, {}) /\ SumOf(f, {}) = h[{}]
    BY SumAdds, FS_EmptySet
  <2> QED BY <2>1, AddsAt
<1>4. ASSUME NEW x \in S PROVE SumOf(f, S) = f[x] + SumOf(f, S \ {x})
  <2> DEFINE T == S \ {x}
  <2>1. IsFiniteSet(T) /\ T \in SUBSET S
    BY FS_Subset
  <2> HIDE DEF T
  <2>2. PICK h : Adds(h, f, T) /\ SumOf(f, T) = h[T]
    BY <2>1, SumAdds
  <2>3. g[T] = h[T]
    BY <1>1, <2>1, <2>2, AddsAlike
  <2>4. g[S] = f[x] + g[T]
    <3>1. S \in SUBSET S
      OBVIOUS
    <3>2. \A y \in S : g[S] = f[y] + g[S \ {y}]
      BY <1>1, <3>1, AnyFirst
    <3> QED BY <3>2 DEF T
  <2> QED BY <1>1, <2>2, <2>3, <2>4 DEF T
<1> QED BY <1>2, <1>3, <1>4

\* A sum grows with what it adds, and strictly where one of them does.
LEMMA SumGrows ==
  ASSUME NEW S, IsFiniteSet(S), NEW f, NEW h, \A x \in S : f[x] \in Int /\ h[x] \in Int /\ f[x] <= h[x]
  PROVE  /\ SumOf(f, S) \in Int /\ SumOf(h, S) \in Int /\ SumOf(f, S) <= SumOf(h, S)
         /\ (\E x \in S : f[x] < h[x]) => SumOf(f, S) < SumOf(h, S)
<1> DEFINE Bad == {t \in SUBSET S : ~(SumOf(f, t) <= SumOf(h, t))}
<1>1. ASSUME NEW t \in SUBSET S
      PROVE  /\ SumOf(f, t) \in Int /\ SumOf(h, t) \in Int
             /\ SumOf(f, {}) = 0 /\ SumOf(h, {}) = 0
             /\ \A x \in t : SumOf(f, t) = f[x] + SumOf(f, t \ {x}) /\ SumOf(h, t) = h[x] + SumOf(h, t \ {x})
  <2>1. IsFiniteSet(t) /\ \A x \in t : f[x] \in Int /\ h[x] \in Int
    BY FS_Subset
  <2> QED BY <2>1, SumTakes
<1>2. Bad = {}
  <2> SUFFICES ASSUME Bad # {} PROVE FALSE
    OBVIOUS
  <2>1. PICK t \in Bad : \A u \in Bad : ~(u \subseteq t /\ u # t)
    <3>1. Bad \in SUBSET SUBSET S
      OBVIOUS
    <3> HIDE DEF Bad
    <3> QED BY <3>1, SmallestSubset
  <2>2. t \in SUBSET S
    OBVIOUS
  <2>3. PICK x : x \in t
    <3>1. t = {} => SumOf(f, t) <= SumOf(h, t)
      BY <1>1
    <3> QED BY <3>1
  <2>4. t \ {x} \notin Bad
    BY <2>1, <2>3
  <2>5. SumOf(f, t \ {x}) <= SumOf(h, t \ {x})
    BY <2>2, <2>4
  <2>6. t \ {x} \in SUBSET S /\ x \in S
    BY <2>2, <2>3
  <2> QED BY <1>1, <2>2, <2>3, <2>5, <2>6
<1>3. \A t \in SUBSET S : SumOf(f, t) <= SumOf(h, t)
  BY <1>2
<1> HIDE DEF Bad
<1>4. ASSUME NEW x \in S, f[x] < h[x] PROVE SumOf(f, S) < SumOf(h, S)
  <2>1. S \in SUBSET S /\ S \ {x} \in SUBSET S
    OBVIOUS
  <2>2. SumOf(f, S \ {x}) \in Int /\ SumOf(h, S \ {x}) \in Int /\ SumOf(f, S \ {x}) <= SumOf(h, S \ {x})
    BY <1>1, <1>3, <2>1
  <2>3. SumOf(f, S) = f[x] + SumOf(f, S \ {x}) /\ SumOf(h, S) = h[x] + SumOf(h, S \ {x})
    BY <1>1, <2>1
  <2> QED BY <1>4, <2>2, <2>3
<1>5. S \in SUBSET S
  OBVIOUS
<1> QED BY <1>1, <1>3, <1>4, <1>5

LEMMA SumNat ==
  ASSUME NEW S, IsFiniteSet(S), NEW f, \A x \in S : f[x] \in Nat
  PROVE  SumOf(f, S) \in Nat
<1> DEFINE Bad == {t \in SUBSET S : SumOf(f, t) \notin Nat}
<1> SUFFICES ASSUME Bad # {} PROVE FALSE
  OBVIOUS
<1>1. PICK t \in Bad : \A u \in Bad : ~(u \subseteq t /\ u # t)
  <2>1. Bad \in SUBSET SUBSET S
    OBVIOUS
  <2> HIDE DEF Bad
  <2> QED BY <2>1, SmallestSubset
<1>2. t \in SUBSET S /\ SumOf(f, t) \notin Nat /\ \A u \in SUBSET t : u # t => SumOf(f, u) \in Nat
  BY <1>1
<1> HIDE DEF Bad
<1>3. SumOf(f, {}) = 0 /\ \A x \in t : SumOf(f, t) = f[x] + SumOf(f, t \ {x})
  <2>1. IsFiniteSet(t) /\ \A x \in t : f[x] \in Int
    BY <1>2, FS_Subset
  <2> QED BY <2>1, SumTakes
<1>4. PICK x : x \in t
  <2>1. t = {} => SumOf(f, t) = 0
    BY <1>3, Zenon
  <2>2. t # {}
    BY <1>2, <2>1
  <2> QED BY <2>2
<1>5. f[x] \in Nat /\ SumOf(f, t \ {x}) \in Nat
  BY <1>2, <1>4
<1> QED BY <1>2, <1>3, <1>4, <1>5

LEMMA SumAlike ==
  ASSUME NEW S, IsFiniteSet(S), NEW f, NEW h, \A x \in S : f[x] \in Int /\ f[x] = h[x]
  PROVE  SumOf(f, S) = SumOf(h, S)
<1>1. SumOf(f, S) <= SumOf(h, S) /\ SumOf(h, S) <= SumOf(f, S)
  BY SumGrows
<1>2. SumOf(f, S) \in Int /\ SumOf(h, S) \in Int
  BY SumTakes
<1> QED BY <1>1, <1>2

OfDay(X, d) == {v \in X : v[2] = d}

\* Two finite sets of triples, of which one has fewer, has fewer on some day.
LEMMA FewerSomeDay ==
  ASSUME NEW D, IsFiniteSet(D), NEW A, IsFiniteSet(A), NEW B, IsFiniteSet(B),
         \A v \in A : v[2] \in D, \A v \in B : v[2] \in D, Cardinality(A) < Cardinality(B)
  PROVE  \E d \in D : Cardinality(OfDay(A, d)) < Cardinality(OfDay(B, d))
<1> DEFINE In(X, E) == {v \in X : v[2] \in E}
           Bad == {E \in SUBSET D : Cardinality(In(A, E)) < Cardinality(In(B, E))}
<1>1. D \in Bad
  <2>1. In(A, D) = A /\ In(B, D) = B
    OBVIOUS
  <2> HIDE DEF In
  <2> QED BY <2>1
<1>2. PICK E \in Bad : \A F \in Bad : ~(F \subseteq E /\ F # E)
  <2>1. Bad \in SUBSET SUBSET D
    OBVIOUS
  <2> HIDE DEF Bad
  <2> QED BY <1>1, <2>1, SmallestSubset
<1>3. E \in SUBSET D /\ Cardinality(In(A, E)) < Cardinality(In(B, E))
  OBVIOUS
<1>4. PICK d : d \in E
  <2>1. E = {} => In(A, E) = In(B, E)
    OBVIOUS
  <2>2. Cardinality(In(A, E)) \in Nat
    BY FS_Subset, FS_CardinalityType
  <2> HIDE DEF In
  <2> QED BY <1>3, <2>1, <2>2
<1>5. ~(Cardinality(In(A, E \ {d})) < Cardinality(In(B, E \ {d})))
  <2>1. E \ {d} \notin Bad /\ E \ {d} \in SUBSET D
    BY <1>2, <1>4
  <2> QED BY <2>1
<1>6. ASSUME NEW X, IsFiniteSet(X)
      PROVE  /\ Cardinality(In(X, E)) = Cardinality(In(X, E \ {d})) + Cardinality(OfDay(X, d))
             /\ Cardinality(In(X, E \ {d})) \in Nat /\ Cardinality(OfDay(X, d)) \in Nat
  <2> DEFINE rest == In(X, E \ {d})
             day == OfDay(X, d)
  <2>1. IsFiniteSet(rest) /\ IsFiniteSet(day)
    BY <1>6, FS_Subset DEF OfDay
  <2>2. rest \cap day = {} /\ In(X, E) = rest \cup day
    BY <1>4 DEF OfDay
  <2> HIDE DEF rest, day, In
  <2>3. Cardinality(rest \cup day) = Cardinality(rest) + Cardinality(day) - Cardinality(rest \cap day)
    BY <2>1, FS_Union
  <2>4. Cardinality(rest) \in Nat /\ Cardinality(day) \in Nat /\ Cardinality(rest \cap day) = 0
    BY <2>1, <2>2, FS_CardinalityType, FS_EmptySet
  <2> QED BY <2>2, <2>3, <2>4 DEF rest, day
<1> HIDE DEF In
<1> DEFINE card(X) == Cardinality(In(X, E))
           rest(X) == Cardinality(In(X, E \ {d}))
           day(X) == Cardinality(OfDay(X, d))
<1>7. day(A) < day(B)
  <2>1. /\ card(A) = rest(A) + day(A) /\ rest(A) \in Nat /\ day(A) \in Nat
        /\ card(B) = rest(B) + day(B) /\ rest(B) \in Nat /\ day(B) \in Nat
    BY <1>6
  <2>2. card(A) < card(B) /\ ~(rest(A) < rest(B))
    BY <1>3, <1>5
  <2> HIDE DEF card, rest, day
  <2> QED BY <2>1, <2>2
<1> QED BY <1>3, <1>4, <1>7 DEF OfDay

-----------------------------------------------------------------------------
(* The objective *)

\* A problem as it is asked: finite, with whole hours and places.
Posed(p) ==
  /\ IsFiniteSet(DOMAIN p.crew) /\ IsFiniteSet(p.days) /\ IsFiniteSet(Cell)
  /\ \A w \in DOMAIN p.crew : p.crew[w].min \in Nat /\ p.crew[w].max \in Nat /\ p.crew[w].role \in Role
  /\ DOMAIN p.requirements \subseteq p.days \X Cell
  /\ p.requirements \in [DOMAIN p.requirements -> Nat]

SlotOf(p, v) == <<v[2], <<p.crew[v[1]].role, v[3]>>>>
DayOf(x, w, d) == {v \in x : v[1] = w /\ v[2] = d}
Gaps(p, x) == [slot \in DOMAIN p.requirements |-> Short(p, x, slot)]
Missing(p, x) == SumOf(Gaps(p, x), DOMAIN p.requirements)

LEMMA PosedProblem == ProblemInv /\ problem # None => Posed(problem)
<1> SUFFICES ASSUME ProblemInv, problem # None PROVE Posed(problem)
  OBVIOUS
<1>1. IsFiniteSet(DOMAIN problem.crew)
  <2>1. IsFiniteSet(Member)
    BY MonthTableAssumption, FS_Interval DEF Member
  <2>2. DOMAIN problem.crew \subseteq Member
    BY DEF ProblemInv, Asked
  <2> QED BY <2>1, <2>2, FS_Subset
<1>2. IsFiniteSet(problem.days)
  <2>1. PICK m \in Month : problem.days = Days(m)
    BY DEF ProblemInv, Asked
  <2>2. DayCount[m] \in Nat
    BY MonthTableAssumption
  <2> QED BY <2>1, <2>2, FS_Interval DEF Days
<1>3. IsFiniteSet(Cell)
  BY ShiftFinite, FormAssumption, FS_Product DEF Cell
<1>4. /\ DOMAIN problem.requirements \subseteq problem.days \X Cell
      /\ problem.requirements \in [DOMAIN problem.requirements -> Nat]
  BY DEF ProblemInv, Asked
<1> QED BY <1>1, <1>2, <1>3, <1>4 DEF ProblemInv, Asked, Posed

LEMMA VarsFinite ==
  ASSUME NEW p, Posed(p)
  PROVE  /\ IsFiniteSet(SolverVars(p))
         /\ \A v \in SolverVars(p) : /\ v[1] \in DOMAIN p.crew /\ v[2] \in p.days /\ v[3] \in Shift
                                     /\ v = <<v[1], v[2], v[3]>>
<1>1. SolverVars(p) \subseteq (DOMAIN p.crew) \X p.days \X Shift
  BY DEF SolverVars
<1>2. IsFiniteSet((DOMAIN p.crew) \X p.days \X Shift)
  BY ShiftFinite, FiniteTriples DEF Posed
<1>3. IsFiniteSet(SolverVars(p))
  BY <1>1, <1>2, FS_Subset
<1> QED BY <1>1, <1>3

\* Who is on a slot is who has the slot.
LEMMA OnSlot ==
  ASSUME NEW p, Posed(p), NEW x \in SUBSET SolverVars(p), NEW slot \in DOMAIN p.requirements
  PROVE  On(p, x, slot) = Cardinality({v \in x : SlotOf(p, v) = slot})
<1>1. slot = <<slot[1], <<slot[2][1], slot[2][2]>>>>
  BY DEF Posed, Cell
<1>2. \A v \in x : (v[2] = slot[1] /\ p.crew[v[1]].role = slot[2][1] /\ v[3] = slot[2][2]) <=> SlotOf(p, v) = slot
  BY <1>1 DEF SlotOf
<1>3. {v \in x : v[2] = slot[1] /\ p.crew[v[1]].role = slot[2][1] /\ v[3] = slot[2][2]} = {v \in x : SlotOf(p, v) = slot}
  BY <1>2
<1> QED BY <1>3 DEF On

LEMMA Numbers ==
  ASSUME NEW p, Posed(p), NEW x \in SUBSET SolverVars(p)
  PROVE  /\ IsFiniteSet(x)
         /\ \A w : WorkedBy(x, w) \in Nat /\ \A d : Cardinality(DayOf(x, w, d)) \in Nat
         /\ \A w : WorkedBy(x, w) = ShiftHours * Cardinality({v \in x : v[1] = w})
                   /\ Cardinality({v \in x : v[1] = w}) \in Nat
         /\ \A slot \in DOMAIN p.requirements : On(p, x, slot) \in Nat /\ Short(p, x, slot) \in Int
                /\ p.requirements[slot] \in Nat /\ Short(p, x, slot) = p.requirements[slot] - On(p, x, slot)
<1>1. IsFiniteSet(x)
  BY VarsFinite, FS_Subset
<1>2. \A w : WorkedBy(x, w) \in Nat /\ (\A d : Cardinality(DayOf(x, w, d)) \in Nat)
             /\ WorkedBy(x, w) = ShiftHours * Cardinality({v \in x : v[1] = w})
             /\ Cardinality({v \in x : v[1] = w}) \in Nat
  <2> TAKE w
  <2>1. IsFiniteSet({v \in x : v[1] = w})
    BY <1>1, FS_Subset
  <2>2. Cardinality({v \in x : v[1] = w}) \in Nat
    BY <2>1, FS_CardinalityType
  <2>3. WorkedBy(x, w) \in Nat
    BY <2>2 DEF WorkedBy, ShiftHours
  <2>4. ASSUME NEW d PROVE Cardinality(DayOf(x, w, d)) \in Nat
    <3>1. IsFiniteSet(DayOf(x, w, d))
      BY <1>1, FS_Subset DEF DayOf
    <3> QED BY <3>1, FS_CardinalityType
  <2> QED BY <2>2, <2>3, <2>4 DEF WorkedBy
<1>3. ASSUME NEW slot \in DOMAIN p.requirements
      PROVE  On(p, x, slot) \in Nat /\ Short(p, x, slot) \in Int /\ p.requirements[slot] \in Nat
             /\ Short(p, x, slot) = p.requirements[slot] - On(p, x, slot)
  <2>1. IsFiniteSet({v \in x : SlotOf(p, v) = slot})
    BY <1>1, FS_Subset
  <2>2. On(p, x, slot) \in Nat
    BY <2>1, OnSlot, FS_CardinalityType
  <2>3. p.requirements[slot] \in Nat
    BY DEF Posed
  <2> QED BY <2>2, <2>3 DEF Short
<1> QED BY <1>1, <1>2, <1>3

LEMMA SlotsFinite == \A p : Posed(p) => IsFiniteSet(DOMAIN p.requirements)
BY FS_Product, FS_Subset DEF Posed

\* The two totals of the objective are sums.
LEMMA ShortTotal ==
  ASSUME NEW p, Posed(p), NEW sol
  PROVE  TotalShort(p, sol) = Missing(p, sol.slots)
<1> DEFINE D == DOMAIN p.requirements
           f == Gaps(p, sol.slots)
           Sums(g) == g = [s \in SUBSET D |-> IF s = {} THEN 0
                            ELSE Short(p, sol.slots, CHOOSE x \in s : TRUE) + g[s \ {CHOOSE x \in s : TRUE}]]
<1>1. TotalShort(p, sol) = (CHOOSE g : Sums(g))[D]
  BY Zenon DEF TotalShort, MapThenSumSet, MapThenFoldSet
<1>2. \A g : Sums(g) <=> Adds(g, f, D)
  <2>1. \A s \in SUBSET D : s # {} => f[Pick(s)] = Short(p, sol.slots, CHOOSE x \in s : TRUE)
    BY PickIn DEF Gaps, Pick
  <2> QED BY <2>1 DEF Adds, Pick
<1>3. PICK g : Adds(g, f, D)
  BY SlotsFinite, SomethingAdds
<1> DEFINE h == CHOOSE k : Sums(k)
<1>4. Sums(h)
  <2>1. Sums(g)
    BY <1>2, <1>3
  <2> HIDE DEF Sums
  <2> QED BY <2>1
<1>5. Adds(h, f, D)
  BY <1>2, <1>4
<1>6. PICK k : Adds(k, f, D) /\ SumOf(f, D) = k[D]
  BY SlotsFinite, SumAdds
<1> HIDE DEF h
<1>7. h[D] = k[D]
  <2>1. IsFiniteSet(D) /\ D \in SUBSET D
    BY SlotsFinite
  <2> HIDE DEF D, f, Sums
  <2> QED BY <1>5, <1>6, <2>1, AddsAlike
<1> QED BY <1>1, <1>6, <1>7 DEF Missing, h

LEMMA DeficitTotal ==
  ASSUME NEW p, NEW sol
  PROVE  TotalDeficit(p, sol) = SumOf(sol.deficit, DOMAIN p.crew)
BY Zenon DEF TotalDeficit, MapThenSumSet, MapThenFoldSet, SumOf, Adds, Pick

\* Nobody is loaded beyond 100 per cent, so loads are at most 100 apart.
LEMMA SpreadBound ==
  ASSUME NEW p, Posed(p), NEW sol, sol.slots \in SUBSET SolverVars(p), Allowed(p, sol.slots)
  PROVE  Spread(p, sol) \in 0 .. 100
<1> DEFINE loads == {Load(p, sol.slots, w) : w \in DOMAIN p.crew}
<1>1. ASSUME NEW w \in DOMAIN p.crew PROVE Load(p, sol.slots, w) \in 0 .. 100
  <2> DEFINE worked == WorkedBy(sol.slots, w)
             max == p.crew[w].max
  <2>1. worked \in Nat /\ max \in Nat /\ worked <= max
    BY Numbers DEF Posed, Allowed
  <2>2. Load(p, sol.slots, w) = IF max > 0 THEN (100 * worked) \div max ELSE 0
    BY DEF Load
  <2> HIDE DEF worked, max
  <2>3. CASE max > 0
    <3> DEFINE q == (100 * worked) \div max
    <3>1. q \in Int /\ q >= 0 /\ q <= 100
      BY <2>1, <2>3
    <3> QED BY <2>2, <2>3, <3>1
  <2> QED BY <2>1, <2>2, <2>3
<1>2. loads \subseteq 0 .. 100
  BY <1>1
<1>3. Spread(p, sol) = IF loads = {} THEN 0 ELSE Max(loads) - Min(loads)
  BY DEF Spread
<1> HIDE DEF loads
<1>4. CASE loads # {}
  <2>1. Min(loads) \in loads /\ \A n \in loads : Min(loads) <= n
    <3>1. \E n \in loads : \A k \in loads : n <= k
      BY <1>2, <1>4, LeastNumber
    <3> QED BY <3>1 DEF Min
  <2>2. Max(loads) \in loads /\ \A n \in loads : Max(loads) >= n
    <3> DEFINE room == {100 - n : n \in loads}
    <3>0. \A n \in loads : n \in Int /\ 100 - n \in Nat
      BY <1>2
    <3>1. room \in SUBSET Nat /\ room # {}
      BY <1>4, <3>0
    <3>2. PICK r \in room : \A k \in room : r <= k
      BY <3>1, LeastNumber
    <3>3. PICK n \in loads : r = 100 - n
      BY <3>2
    <3>4. \A k \in loads : n >= k
      <4>1. \A k \in loads : r <= 100 - k
        BY <3>2
      <4> QED BY <3>0, <3>3, <4>1
    <3> QED BY <3>4 DEF Max
  <2>3. Max(loads) >= Min(loads)
    BY <2>1, <2>2
  <2> QED BY <1>2, <1>3, <1>4, <2>1, <2>2, <2>3
<1> QED BY <1>3, <1>4

LEMMA CostParts ==
  ASSUME NEW p, Posed(p), NEW sol \in Solutions(p)
  PROVE  /\ sol.slots \in SUBSET SolverVars(p) /\ Allowed(p, sol.slots)
         /\ \A w \in DOMAIN p.crew : sol.deficit[w] \in Nat
         /\ \A w \in DOMAIN p.crew : sol.deficit[w] = Deficit(p, sol.slots, w) \/ sol.deficit[w] = p.crew[w].min
         /\ TotalShort(p, sol) = Missing(p, sol.slots) /\ TotalShort(p, sol) \in Nat
         /\ TotalDeficit(p, sol) = SumOf(sol.deficit, DOMAIN p.crew) /\ TotalDeficit(p, sol) \in Nat
         /\ Spread(p, sol) \in 0 .. 100
         /\ Cost(p, sol) = 10000 * TotalShort(p, sol) + 100 * TotalDeficit(p, sol) + Spread(p, sol)
<1>1. /\ sol.slots \in SUBSET SolverVars(p) /\ Allowed(p, sol.slots)
      /\ \A w \in DOMAIN p.crew : sol.deficit[w] = Deficit(p, sol.slots, w) \/ sol.deficit[w] = p.crew[w].min
  BY DEF Solutions
<1>2. ASSUME NEW w \in DOMAIN p.crew PROVE sol.deficit[w] \in Nat
  <2>1. WorkedBy(sol.slots, w) \in Nat /\ p.crew[w].min \in Nat
    BY <1>1, Numbers DEF Posed
  <2> QED BY <1>1, <2>1 DEF Deficit
<1>3. TotalShort(p, sol) = Missing(p, sol.slots) /\ TotalShort(p, sol) \in Nat
  <2>1. \A slot \in DOMAIN p.requirements : Gaps(p, sol.slots)[slot] \in Nat
    <3> TAKE slot \in DOMAIN p.requirements
    <3>1. Short(p, sol.slots, slot) \in Int /\ Short(p, sol.slots, slot) >= 0
      BY <1>1, Numbers DEF Allowed
    <3> QED BY <3>1 DEF Gaps
  <2> QED BY <2>1, ShortTotal, SlotsFinite, SumNat DEF Missing
<1>4. TotalDeficit(p, sol) = SumOf(sol.deficit, DOMAIN p.crew) /\ TotalDeficit(p, sol) \in Nat
  BY <1>2, DeficitTotal, SumNat DEF Posed
<1>5. Spread(p, sol) \in 0 .. 100
  BY <1>1, SpreadBound
<1> QED BY <1>1, <1>2, <1>3, <1>4, <1>5 DEF Cost

\* What is optimal costs no more than any solution.
LEMMA OptimalCostsLeast ==
  ASSUME NEW p, Posed(p), NEW best \in Solutions(p),
         Cost(p, best) = Min({Cost(p, sol) : sol \in Solutions(p)})
  PROVE  \A sol \in Solutions(p) : Cost(p, best) <= Cost(p, sol)
<1> DEFINE costs == {Cost(p, sol) : sol \in Solutions(p)}
<1>1. costs \in SUBSET Nat
  BY CostParts
<1>2. costs # {}
  OBVIOUS
<1>3. \A sol \in Solutions(p) : Cost(p, sol) \in costs
  OBVIOUS
<1> HIDE DEF costs
<1>4. \E n \in costs : \A k \in costs : n <= k
  BY <1>1, <1>2, LeastNumber
<1>5. \A k \in costs : Min(costs) <= k
  BY <1>4 DEF Min
<1> QED BY <1>3, <1>5 DEF costs

LEMMA HoursSecond ==
  ASSUME NEW p, Posed(p), NEW best \in Solutions(p), NEW sol \in Solutions(p), Cost(p, best) <= Cost(p, sol),
         TotalShort(p, sol) = TotalShort(p, best), TotalDeficit(p, best) > TotalDeficit(p, sol)
  PROVE  TotalDeficit(p, best) = TotalDeficit(p, sol) + 1 /\ Spread(p, best) = 0 /\ Spread(p, sol) = 100
<1>1. TotalDeficit(p, best) \in Nat /\ TotalDeficit(p, sol) \in Nat /\ TotalShort(p, sol) \in Nat
      /\ Spread(p, best) \in 0 .. 100 /\ Spread(p, sol) \in 0 .. 100
  BY CostParts
<1>2. 10000 * TotalShort(p, best) + 100 * TotalDeficit(p, best) + Spread(p, best)
        <= 10000 * TotalShort(p, sol) + 100 * TotalDeficit(p, sol) + Spread(p, sol)
  BY CostParts
<1> QED BY <1>1, <1>2

-----------------------------------------------------------------------------
(* Coverage before hours: whoever takes another place loses no hours *)

\* Without one of its shifts a roster is still allowed.
LEMMA OneLess ==
  ASSUME NEW p, Posed(p), NEW z \in SUBSET SolverVars(p), Allowed(p, z), NEW u \in z
  PROVE  /\ z \ {u} \in SUBSET SolverVars(p) /\ Allowed(p, z \ {u})
         /\ \A slot \in DOMAIN p.requirements :
              Short(p, z \ {u}, slot) = IF slot = SlotOf(p, u) THEN Short(p, z, slot) + 1 ELSE Short(p, z, slot)
         /\ \A w : WorkedBy(z \ {u}, w) <= WorkedBy(z, w)
         /\ \A w, d : w # u[1] => WorkedBy(z \ {u}, w) = WorkedBy(z, w) /\ DayOf(z \ {u}, w, d) = DayOf(z, w, d)
<1> DEFINE y == z \ {u}
<1>1. y \in SUBSET SolverVars(p) /\ IsFiniteSet(z)
  BY Numbers
<1>2. ASSUME NEW slot \in DOMAIN p.requirements
      PROVE  Short(p, y, slot) = IF slot = SlotOf(p, u) THEN Short(p, z, slot) + 1 ELSE Short(p, z, slot)
  <2> DEFINE there == {v \in z : SlotOf(p, v) = slot}
  <2>1. IsFiniteSet(there)
    BY <1>1, FS_Subset
  <2>2. {v \in y : SlotOf(p, v) = slot} = there \ {u}
    OBVIOUS
  <2>3. u \in there <=> slot = SlotOf(p, u)
    OBVIOUS
  <2>4. On(p, z, slot) = Cardinality(there) /\ On(p, y, slot) = Cardinality(there \ {u})
    BY <1>1, <2>2, OnSlot
  <2> HIDE DEF there, y
  <2>5. On(p, y, slot) = IF slot = SlotOf(p, u) THEN On(p, z, slot) - 1 ELSE On(p, z, slot)
    BY <2>1, <2>3, <2>4, FS_RemoveElement
  <2>6. /\ On(p, z, slot) \in Nat /\ p.requirements[slot] \in Nat
        /\ Short(p, z, slot) = p.requirements[slot] - On(p, z, slot)
        /\ Short(p, y, slot) = p.requirements[slot] - On(p, y, slot)
    BY <1>1, Numbers
  <2> QED BY <2>5, <2>6
<1>3. ASSUME NEW w PROVE WorkedBy(y, w) <= WorkedBy(z, w)
  <2>1. IsFiniteSet({v \in z : v[1] = w}) /\ {v \in y : v[1] = w} \in SUBSET {v \in z : v[1] = w}
    BY <1>1, FS_Subset
  <2>2. Cardinality({v \in y : v[1] = w}) <= Cardinality({v \in z : v[1] = w})
    BY <2>1, FS_Subset
  <2>3. Cardinality({v \in y : v[1] = w}) \in Nat /\ Cardinality({v \in z : v[1] = w}) \in Nat
    BY <1>1, Numbers
  <2> HIDE DEF y
  <2> QED BY <2>2, <2>3 DEF WorkedBy, ShiftHours
<1>4. ASSUME NEW w, NEW d PROVE Cardinality(DayOf(y, w, d)) <= Cardinality(DayOf(z, w, d))
  <2>1. IsFiniteSet(DayOf(z, w, d)) /\ DayOf(y, w, d) \in SUBSET DayOf(z, w, d)
    BY <1>1, FS_Subset DEF DayOf
  <2> QED BY <2>1, FS_Subset
<1>5. ASSUME NEW w, w # u[1] PROVE WorkedBy(y, w) = WorkedBy(z, w) /\ \A d : DayOf(y, w, d) = DayOf(z, w, d)
  <2>1. {v \in y : v[1] = w} = {v \in z : v[1] = w}
    BY <1>5
  <2>2. \A d : DayOf(y, w, d) = DayOf(z, w, d)
    BY <1>5 DEF DayOf
  <2> QED BY <2>1, <2>2 DEF WorkedBy
<1>6. Allowed(p, y)
  <2>1. \A slot \in DOMAIN p.requirements : Short(p, y, slot) >= 0
    <3> TAKE slot \in DOMAIN p.requirements
    <3>1. Short(p, z, slot) \in Int /\ Short(p, z, slot) >= 0
      BY Numbers DEF Allowed
    <3> QED BY <1>2, <3>1
  <2>2. \A w \in DOMAIN p.crew : WorkedBy(y, w) <= p.crew[w].max
    <3> TAKE w \in DOMAIN p.crew
    <3>1. WorkedBy(y, w) \in Nat /\ WorkedBy(z, w) \in Nat /\ p.crew[w].max \in Nat /\ WorkedBy(z, w) <= p.crew[w].max
      BY <1>1, Numbers DEF Posed, Allowed
    <3> QED BY <1>3, <3>1
  <2>3. \A w \in DOMAIN p.crew, d \in p.days : Cardinality(DayOf(y, w, d)) <= 2
    <3> TAKE w \in DOMAIN p.crew, d \in p.days
    <3> HIDE DEF y
    <3>1. Cardinality(DayOf(y, w, d)) \in Nat /\ Cardinality(DayOf(z, w, d)) \in Nat
      BY <1>1, Numbers
    <3>2. Cardinality(DayOf(z, w, d)) <= 2
      BY DEF Allowed, DayOf
    <3> QED BY <1>4, <3>1, <3>2
  <2> HIDE DEF y
  <2> QED BY <2>1, <2>2, <2>3 DEF Allowed, DayOf
<1> QED BY <1>1, <1>2, <1>3, <1>5, <1>6

\* With another shift it is allowed if the place is open or not bounded, and the worker free.
LEMMA OneMore ==
  ASSUME NEW p, Posed(p), NEW z \in SUBSET SolverVars(p), Allowed(p, z), NEW v \in SolverVars(p), v \notin z,
         SlotOf(p, v) \in DOMAIN p.requirements => Short(p, z, SlotOf(p, v)) > 0,
         WorkedBy(z, v[1]) + ShiftHours <= p.crew[v[1]].max,
         Cardinality(DayOf(z, v[1], v[2])) < 2
  PROVE  /\ z \cup {v} \in SUBSET SolverVars(p) /\ Allowed(p, z \cup {v})
         /\ \A slot \in DOMAIN p.requirements :
              Short(p, z \cup {v}, slot) = IF slot = SlotOf(p, v) THEN Short(p, z, slot) - 1 ELSE Short(p, z, slot)
         /\ \A w : WorkedBy(z \cup {v}, w) = IF w = v[1] THEN WorkedBy(z, w) + ShiftHours ELSE WorkedBy(z, w)
<1> DEFINE y == z \cup {v}
<1>1. y \in SUBSET SolverVars(p) /\ IsFiniteSet(z)
  BY Numbers
<1>2. ASSUME NEW slot \in DOMAIN p.requirements
      PROVE  Short(p, y, slot) = IF slot = SlotOf(p, v) THEN Short(p, z, slot) - 1 ELSE Short(p, z, slot)
  <2> DEFINE there == {u \in z : SlotOf(p, u) = slot}
  <2>1. IsFiniteSet(there) /\ v \notin there
    BY <1>1, FS_Subset
  <2>2. {u \in y : SlotOf(p, u) = slot} = IF slot = SlotOf(p, v) THEN there \cup {v} ELSE there
    OBVIOUS
  <2>3. On(p, z, slot) = Cardinality(there)
        /\ On(p, y, slot) = Cardinality(IF slot = SlotOf(p, v) THEN there \cup {v} ELSE there)
    BY <1>1, <2>2, OnSlot
  <2> HIDE DEF there, y
  <2>4. On(p, y, slot) = IF slot = SlotOf(p, v) THEN On(p, z, slot) + 1 ELSE On(p, z, slot)
    BY <2>1, <2>3, FS_AddElement
  <2>5. /\ On(p, z, slot) \in Nat /\ p.requirements[slot] \in Nat
        /\ Short(p, z, slot) = p.requirements[slot] - On(p, z, slot)
        /\ Short(p, y, slot) = p.requirements[slot] - On(p, y, slot)
    BY <1>1, Numbers
  <2> QED BY <2>4, <2>5
<1>3. ASSUME NEW w PROVE WorkedBy(y, w) = IF w = v[1] THEN WorkedBy(z, w) + ShiftHours ELSE WorkedBy(z, w)
  <2> DEFINE own == {u \in z : u[1] = w}
  <2>1. IsFiniteSet(own) /\ v \notin own
    BY <1>1, FS_Subset
  <2>2. {u \in y : u[1] = w} = IF w = v[1] THEN own \cup {v} ELSE own
    OBVIOUS
  <2>3. Cardinality(own) \in Nat
    BY <2>1, FS_CardinalityType
  <2>4. WorkedBy(z, w) = ShiftHours * Cardinality(own)
        /\ WorkedBy(y, w) = ShiftHours * Cardinality(IF w = v[1] THEN own \cup {v} ELSE own)
    BY <2>2 DEF WorkedBy
  <2> HIDE DEF own, y
  <2>5. Cardinality(own \cup {v}) = Cardinality(own) + 1
    BY <2>1, FS_AddElement
  <2> QED BY <2>3, <2>4, <2>5 DEF ShiftHours
<1>4. ASSUME NEW w, NEW d
      PROVE  Cardinality(DayOf(y, w, d)) = IF w = v[1] /\ d = v[2] THEN Cardinality(DayOf(z, w, d)) + 1 ELSE Cardinality(DayOf(z, w, d))
  <2>1. IsFiniteSet(DayOf(z, w, d)) /\ v \notin DayOf(z, w, d)
    BY <1>1, FS_Subset DEF DayOf
  <2>2. DayOf(y, w, d) = IF w = v[1] /\ d = v[2] THEN DayOf(z, w, d) \cup {v} ELSE DayOf(z, w, d)
    BY DEF DayOf
  <2> HIDE DEF y
  <2> QED BY <2>1, <2>2, FS_AddElement
<1>5. Allowed(p, y)
  <2>1. \A slot \in DOMAIN p.requirements : Short(p, y, slot) >= 0
    <3> TAKE slot \in DOMAIN p.requirements
    <3>1. Short(p, z, slot) \in Int /\ Short(p, z, slot) >= 0
      BY Numbers DEF Allowed
    <3> QED BY <1>2, <3>1
  <2>2. \A w \in DOMAIN p.crew : WorkedBy(y, w) <= p.crew[w].max
    BY <1>3 DEF Allowed
  <2>3. \A w \in DOMAIN p.crew, d \in p.days : Cardinality(DayOf(y, w, d)) <= 2
    <3> TAKE w \in DOMAIN p.crew, d \in p.days
    <3> HIDE DEF y
    <3>1. Cardinality(DayOf(z, w, d)) \in Nat
      BY Numbers
    <3>2. Cardinality(DayOf(z, w, d)) <= 2
      BY DEF Allowed, DayOf
    <3> QED BY <1>4, <3>1, <3>2
  <2> HIDE DEF y
  <2> QED BY <2>1, <2>2, <2>3 DEF Allowed, DayOf
<1> QED BY <1>1, <1>2, <1>3, <1>5

\* Of the rosters that leave fewer open than a cheapest one, one that shares the most with
\* it has nobody work less: otherwise one of its shifts fits in, in an open place, in a cell
\* that nothing bounds, or in a place that a roster without it has given to somebody else.
LEMMA MostShared ==
  ASSUME NEW p, Posed(p), NEW x \in SUBSET SolverVars(p), Allowed(p, x),
         NEW z \in SUBSET SolverVars(p), Allowed(p, z),
         \A y \in SUBSET SolverVars(p) : Allowed(p, y) /\ Missing(p, y) <= Missing(p, z) =>
                                       ~(Cardinality(x \ y) < Cardinality(x \ z)),
         NEW w \in DOMAIN p.crew
  PROVE  WorkedBy(x, w) <= WorkedBy(z, w)
<1> SUFFICES ASSUME ~(WorkedBy(x, w) <= WorkedBy(z, w)) PROVE FALSE
  OBVIOUS
<1>1. IsFiniteSet(x) /\ IsFiniteSet(z)
  BY Numbers
<1>2. WorkedBy(z, w) + ShiftHours <= WorkedBy(x, w)
      /\ Cardinality({v \in z : v[1] = w}) < Cardinality({v \in x : v[1] = w})
  <2> DEFINE inX == Cardinality({v \in x : v[1] = w})
             inZ == Cardinality({v \in z : v[1] = w})
  <2>1. inX \in Nat /\ inZ \in Nat /\ WorkedBy(x, w) = ShiftHours * inX /\ WorkedBy(z, w) = ShiftHours * inZ
    BY Numbers
  <2> HIDE DEF inX, inZ
  <2>2. WorkedBy(z, w) + ShiftHours <= WorkedBy(x, w) /\ inZ < inX
    BY <2>1 DEF ShiftHours
  <2> QED BY <2>2 DEF inX, inZ
<1>3. PICK d \in p.days : Cardinality(DayOf(z, w, d)) < Cardinality(DayOf(x, w, d))
  <2> DEFINE A == {v \in z : v[1] = w}
             B == {v \in x : v[1] = w}
  <2>1. IsFiniteSet(A) /\ IsFiniteSet(B)
    BY <1>1, FS_Subset
  <2>2. (\A v \in A : v[2] \in p.days) /\ (\A v \in B : v[2] \in p.days)
    BY VarsFinite
  <2>3. \A d \in p.days : DayOf(z, w, d) = OfDay(A, d) /\ DayOf(x, w, d) = OfDay(B, d)
    BY DEF DayOf, OfDay
  <2>4. Cardinality(A) < Cardinality(B)
    BY <1>2
  <2> HIDE DEF A, B
  <2>5. IsFiniteSet(p.days)
    BY DEF Posed
  <2>6. \E d \in p.days : Cardinality(OfDay(A, d)) < Cardinality(OfDay(B, d))
    BY <2>1, <2>2, <2>4, <2>5, FewerSomeDay
  <2> QED BY <2>3, <2>6
<1>4. PICK v \in DayOf(x, w, d) : v \notin z
  <2>1. IsFiniteSet(DayOf(z, w, d))
    BY <1>1, FS_Subset DEF DayOf
  <2>2. Cardinality(DayOf(x, w, d)) \in Nat /\ Cardinality(DayOf(z, w, d)) \in Nat
    BY Numbers
  <2>3. DayOf(x, w, d) \in SUBSET DayOf(z, w, d) => Cardinality(DayOf(x, w, d)) <= Cardinality(DayOf(z, w, d))
    BY <2>1, FS_Subset
  <2>4. ~(DayOf(x, w, d) \subseteq DayOf(z, w, d))
    BY <1>3, <2>2, <2>3
  <2> QED BY <2>4 DEF DayOf
<1>5. v \in x /\ v \notin z /\ v \in SolverVars(p) /\ v[1] = w /\ v[2] = d
  BY <1>4, VarsFinite DEF DayOf
<1>6. WorkedBy(z, w) + ShiftHours <= p.crew[w].max /\ Cardinality(DayOf(z, w, d)) < 2
  <2>1. WorkedBy(x, w) <= p.crew[w].max /\ Cardinality(DayOf(x, w, d)) <= 2
    BY DEF Allowed, DayOf
  <2>2. WorkedBy(x, w) \in Nat /\ WorkedBy(z, w) \in Nat /\ p.crew[w].max \in Nat
        /\ Cardinality(DayOf(x, w, d)) \in Nat /\ Cardinality(DayOf(z, w, d)) \in Nat
    BY Numbers DEF Posed
  <2> QED BY <1>2, <1>3, <2>1, <2>2 DEF ShiftHours
\* Nothing that leaves no more open shares v besides.
<1>7. ASSUME NEW y \in SUBSET SolverVars(p), Allowed(p, y), Missing(p, y) <= Missing(p, z), x \ y = (x \ z) \ {v}
      PROVE  FALSE
  <2>1. IsFiniteSet(x \ z) /\ v \in x \ z
    BY <1>1, <1>5, FS_Difference
  <2>2. Cardinality((x \ z) \ {v}) = Cardinality(x \ z) - 1 /\ Cardinality(x \ z) \in Nat
    <3> DEFINE X == x \ z
    <3>1. IsFiniteSet(X) /\ v \in X
      BY <2>1
    <3> HIDE DEF X
    <3>2. Cardinality(X \ {v}) = Cardinality(X) - 1 /\ Cardinality(X) \in Nat
      BY <3>1, FS_RemoveElement, FS_CardinalityType
    <3> QED BY <3>2 DEF X
  <2>3. ~(Cardinality(x \ y) < Cardinality(x \ z))
    BY <1>7
  <2> QED BY <1>7, <2>2, <2>3
<1> DEFINE slot == SlotOf(p, v)
           D == DOMAIN p.requirements
<1>8. IsFiniteSet(D) /\ \A s \in D : Short(p, z, s) \in Int /\ Short(p, z, s) >= 0
  BY SlotsFinite, Numbers DEF Allowed
<1>9. CASE slot \in D => Short(p, z, slot) > 0
  <2> DEFINE y == z \cup {v}
  <2>1. y \in SUBSET SolverVars(p) /\ Allowed(p, y)
        /\ \A s \in D : Short(p, y, s) = IF s = slot THEN Short(p, z, s) - 1 ELSE Short(p, z, s)
    BY <1>5, <1>6, <1>9, OneMore
  <2>2. x \ y = (x \ z) \ {v}
    OBVIOUS
  <2> HIDE DEF y
  <2>3. Missing(p, y) <= Missing(p, z)
    <3>1. \A s \in D : Gaps(p, y)[s] \in Int /\ Gaps(p, z)[s] \in Int /\ Gaps(p, y)[s] <= Gaps(p, z)[s]
      <4> TAKE s \in D
      <4>1. Short(p, z, s) \in Int /\ Short(p, y, s) = IF s = slot THEN Short(p, z, s) - 1 ELSE Short(p, z, s)
        BY <1>8, <2>1
      <4>2. Gaps(p, y)[s] = Short(p, y, s) /\ Gaps(p, z)[s] = Short(p, z, s)
        BY DEF Gaps
      <4> HIDE DEF slot, D
      <4> QED BY <4>1, <4>2
    <3> HIDE DEF D
    <3>2. SumOf(Gaps(p, y), D) <= SumOf(Gaps(p, z), D)
      BY <1>8, <3>1, SumGrows
    <3> QED BY <3>2 DEF Missing, D
  <2> QED BY <1>7, <2>1, <2>2, <2>3
<1>10. CASE slot \in D /\ ~(Short(p, z, slot) > 0)
  <2>1. PICK u \in z : SlotOf(p, u) = slot /\ u \notin x
    <3> DEFINE inZ == {u \in z : SlotOf(p, u) = slot}
               inX == {u \in x : SlotOf(p, u) = slot}
    <3>1. IsFiniteSet(inX) /\ v \in inX /\ v \notin inZ /\ IsFiniteSet(inZ)
      BY <1>1, <1>5, FS_Subset
    <3>2. On(p, z, slot) = Cardinality(inZ) /\ On(p, x, slot) = Cardinality(inX)
      BY <1>10, OnSlot
    <3>3. On(p, x, slot) <= On(p, z, slot) /\ On(p, x, slot) \in Nat
      <4>1. /\ On(p, z, slot) \in Nat /\ Short(p, z, slot) = p.requirements[slot] - On(p, z, slot)
            /\ On(p, x, slot) \in Nat /\ Short(p, x, slot) = p.requirements[slot] - On(p, x, slot)
            /\ p.requirements[slot] \in Nat
        BY <1>10, Numbers
      <4>2. Short(p, z, slot) >= 0 /\ Short(p, x, slot) >= 0
        BY <1>10 DEF Allowed
      <4> HIDE DEF slot
      <4> QED BY <1>10, <4>1, <4>2
    <3>4. ~(inZ \subseteq inX)
      <4> SUFFICES ASSUME inZ \subseteq inX PROVE FALSE
        OBVIOUS
      <4> HIDE DEF inZ, inX, slot
      <4>1. inZ \in SUBSET (inX \ {v}) /\ IsFiniteSet(inX \ {v}) /\ Cardinality(inX \ {v}) = Cardinality(inX) - 1
        BY <3>1, FS_RemoveElement
      <4>2. Cardinality(inZ) <= Cardinality(inX \ {v})
        BY <4>1, FS_Subset
      <4>3. Cardinality(inZ) \in Nat
        BY <3>1, FS_CardinalityType
      <4> QED BY <3>2, <3>3, <4>1, <4>2, <4>3
    <3> QED BY <3>4
  <2>2. u[1] # w
    <3>1. u = <<u[1], u[2], u[3]>> /\ v = <<v[1], v[2], v[3]>>
      BY <1>5, VarsFinite
    <3>2. u[2] = v[2] /\ u[3] = v[3]
      BY <2>1 DEF SlotOf
    <3> QED BY <1>5, <3>1, <3>2
  <2> DEFINE z1 == z \ {u}
             y == z1 \cup {v}
  <2>3. /\ z1 \in SUBSET SolverVars(p) /\ Allowed(p, z1)
        /\ \A s \in D : Short(p, z1, s) = IF s = slot THEN Short(p, z, s) + 1 ELSE Short(p, z, s)
        /\ WorkedBy(z1, w) = WorkedBy(z, w) /\ DayOf(z1, w, d) = DayOf(z, w, d)
    <3>1. /\ z1 \in SUBSET SolverVars(p) /\ Allowed(p, z1)
          /\ \A s \in D : Short(p, z1, s) = IF s = SlotOf(p, u) THEN Short(p, z, s) + 1 ELSE Short(p, z, s)
          /\ \A q, e : q # u[1] => WorkedBy(z1, q) = WorkedBy(z, q) /\ DayOf(z1, q, e) = DayOf(z, q, e)
      BY OneLess
    <3> HIDE DEF z1, slot, D
    <3> QED BY <2>1, <2>2, <3>1
  <2>4. v \notin z1 /\ x \ y = (x \ z) \ {v}
    BY <1>5, <2>1
  <2> HIDE DEF z1
  <2>5. Short(p, z1, slot) > 0
    BY <1>8, <1>10, <2>3
  <2>6. /\ y \in SUBSET SolverVars(p) /\ Allowed(p, y)
        /\ \A s \in D : Short(p, y, s) = IF s = slot THEN Short(p, z1, s) - 1 ELSE Short(p, z1, s)
    BY <1>5, <1>6, <2>3, <2>4, <2>5, OneMore
  <2> HIDE DEF y
  <2>7. \A s \in D : Short(p, y, s) = Short(p, z, s)
    <3> TAKE s \in D
    <3>1. Short(p, z, s) \in Int
      BY <1>8
    <3> HIDE DEF slot, D
    <3> QED BY <2>3, <2>6, <3>1
  <2>8. Missing(p, y) = Missing(p, z)
    BY <2>7 DEF Missing, Gaps
  <2>9. Missing(p, z) \in Int
    <3>1. \A s \in D : Gaps(p, z)[s] \in Int
      BY <1>8 DEF Gaps
    <3> QED BY <1>8, <3>1, SumTakes DEF Missing
  <2> QED BY <1>7, <2>4, <2>6, <2>8, <2>9
<1> QED BY <1>9, <1>10

\* For every problem the solver can be asked, a cheapest solution leaves as few places open
\* as any, although a crew's missing hours may weigh more than a place: one that left
\* fewer open and shared the most with it would owe no more hours. A problem may have cells
\* without a requirement, which every solution may fill (solve_roster.py:171-189, 245-249).
THEOREM PlacesFirst ==
  ASSUME NEW p, Posed(p), NEW best \in Solutions(p), \A sol \in Solutions(p) : Cost(p, best) <= Cost(p, sol)
  PROVE  \A sol \in Solutions(p) : TotalShort(p, best) <= TotalShort(p, sol)
<1> DEFINE x == best.slots
           Z == {z \in SUBSET SolverVars(p) : Allowed(p, z) /\ Missing(p, z) < Missing(p, x)}
<1> SUFFICES ASSUME Z # {} PROVE FALSE
  <2> SUFFICES ASSUME NEW sol \in Solutions(p), ~(TotalShort(p, best) <= TotalShort(p, sol)) PROVE Z # {}
    OBVIOUS
  <2>1. /\ TotalShort(p, best) = Missing(p, x) /\ TotalShort(p, best) \in Nat
        /\ TotalShort(p, sol) = Missing(p, sol.slots) /\ TotalShort(p, sol) \in Nat
        /\ sol.slots \in SUBSET SolverVars(p) /\ Allowed(p, sol.slots)
    BY CostParts
  <2>2. Missing(p, sol.slots) < Missing(p, x)
    BY <2>1
  <2> QED BY <2>1, <2>2
<1>1. x \in SUBSET SolverVars(p) /\ Allowed(p, x) /\ IsFiniteSet(x)
  BY CostParts, Numbers
<1>2. PICK z \in Z : \A y \in Z : Cardinality(x \ z) <= Cardinality(x \ y)
  <2> DEFINE sizes == {Cardinality(x \ y) : y \in Z}
  <2>1. \A y \in Z : Cardinality(x \ y) \in Nat
    BY <1>1, FS_Difference, FS_CardinalityType
  <2>2. sizes \in SUBSET Nat /\ sizes # {}
    <3> HIDE DEF Z, x
    <3> QED BY <2>1
  <2>3. PICK n \in sizes : \A k \in sizes : n <= k
    <3> HIDE DEF sizes
    <3> QED BY <2>2, LeastNumber
  <2> HIDE DEF Z, x
  <2> QED BY <2>3
<1>3. z \in SUBSET SolverVars(p) /\ Allowed(p, z) /\ Missing(p, z) < Missing(p, x)
  OBVIOUS
<1> DEFINE sol == [slots |-> z, deficit |-> [w \in DOMAIN p.crew |-> Deficit(p, z, w)]]
<1>4. sol \in Solutions(p) /\ sol.slots = z /\ \A w \in DOMAIN p.crew : sol.deficit[w] = Deficit(p, z, w)
  BY <1>3 DEF Solutions
<1> HIDE DEF sol
<1>5. /\ TotalShort(p, best) = Missing(p, x) /\ TotalShort(p, sol) = Missing(p, z)
      /\ TotalShort(p, best) \in Nat /\ TotalShort(p, sol) \in Nat
      /\ TotalDeficit(p, best) \in Nat /\ TotalDeficit(p, sol) \in Nat
      /\ Spread(p, best) \in 0 .. 100 /\ Spread(p, sol) \in 0 .. 100
      /\ Cost(p, best) = 10000 * TotalShort(p, best) + 100 * TotalDeficit(p, best) + Spread(p, best)
      /\ Cost(p, sol) = 10000 * TotalShort(p, sol) + 100 * TotalDeficit(p, sol) + Spread(p, sol)
  BY <1>4, CostParts
<1>6. \A w \in DOMAIN p.crew : WorkedBy(x, w) <= WorkedBy(z, w)
  <2>1. \A y \in SUBSET SolverVars(p) : Allowed(p, y) /\ Missing(p, y) <= Missing(p, z) =>
                                      ~(Cardinality(x \ y) < Cardinality(x \ z))
    <3> SUFFICES ASSUME NEW y \in SUBSET SolverVars(p), Allowed(p, y), Missing(p, y) <= Missing(p, z)
                 PROVE  ~(Cardinality(x \ y) < Cardinality(x \ z))
      OBVIOUS
    <3>1. Missing(p, y) \in Int
      <4>1. \A s \in DOMAIN p.requirements : Gaps(p, y)[s] \in Int
        BY Numbers DEF Gaps
      <4> QED BY <4>1, SlotsFinite, SumTakes DEF Missing
    <3>2. y \in Z
      BY <1>3, <1>5, <3>1
    <3>3. Cardinality(x \ y) \in Nat /\ Cardinality(x \ z) \in Nat
      BY <1>1, FS_Difference, FS_CardinalityType
    <3>4. Cardinality(x \ z) <= Cardinality(x \ y)
      BY <1>2, <3>2
    <3> QED BY <3>3, <3>4
  <2> HIDE DEF x, Z
  <2> QED BY <1>1, <1>3, <2>1, MostShared
<1>7. TotalDeficit(p, sol) <= TotalDeficit(p, best)
  <2>1. \A w \in DOMAIN p.crew :
          sol.deficit[w] \in Int /\ best.deficit[w] \in Int /\ sol.deficit[w] <= best.deficit[w]
    <3> TAKE w \in DOMAIN p.crew
    <3>1. /\ WorkedBy(x, w) \in Nat /\ WorkedBy(z, w) \in Nat /\ p.crew[w].min \in Nat
          /\ WorkedBy(x, w) <= WorkedBy(z, w)
      BY <1>1, <1>3, <1>6, Numbers DEF Posed
    <3>2. /\ sol.deficit[w] = Deficit(p, z, w)
          /\ best.deficit[w] = Deficit(p, x, w) \/ best.deficit[w] = p.crew[w].min
      BY <1>4, CostParts
    <3> HIDE DEF x
    <3> QED BY <3>1, <3>2 DEF Deficit
  <2>2. IsFiniteSet(DOMAIN p.crew)
    BY DEF Posed
  <2>3. SumOf(sol.deficit, DOMAIN p.crew) <= SumOf(best.deficit, DOMAIN p.crew)
    BY <2>1, <2>2, SumGrows
  <2> QED BY <2>3, DeficitTotal
<1>8. Cost(p, best) <= Cost(p, sol)
  BY <1>4
<1> HIDE DEF x, Z
<1> QED BY <1>3, <1>5, <1>7, <1>8

\* A cheapest solution's slacks are the hours missing: a looser one would cost more.
LEMMA SlacksAreTight ==
  ASSUME NEW p, Posed(p), NEW best \in Solutions(p), \A sol \in Solutions(p) : Cost(p, best) <= Cost(p, sol),
         NEW w \in DOMAIN p.crew
  PROVE  best.deficit[w] = Deficit(p, best.slots, w)
<1> DEFINE sol == [slots |-> best.slots, deficit |-> [v \in DOMAIN p.crew |-> Deficit(p, best.slots, v)]]
<1>1. sol \in Solutions(p) /\ sol.slots = best.slots
      /\ \A v \in DOMAIN p.crew : sol.deficit[v] = Deficit(p, best.slots, v)
  <2>1. best.slots \in SUBSET SolverVars(p) /\ Allowed(p, best.slots)
    BY CostParts
  <2> QED BY <2>1 DEF Solutions
<1> HIDE DEF sol
<1>2. TotalShort(p, sol) = TotalShort(p, best) /\ Spread(p, sol) = Spread(p, best)
  BY <1>1, ShortTotal DEF Spread
<1>3. \A v \in DOMAIN p.crew :
        sol.deficit[v] \in Int /\ best.deficit[v] \in Int /\ sol.deficit[v] <= best.deficit[v]
  <2> TAKE v \in DOMAIN p.crew
  <2>1. WorkedBy(best.slots, v) \in Nat /\ p.crew[v].min \in Nat
    <3>1. best.slots \in SUBSET SolverVars(p)
      BY CostParts
    <3> QED BY <3>1, Numbers DEF Posed
  <2>2. /\ sol.deficit[v] = Deficit(p, best.slots, v)
        /\ best.deficit[v] = Deficit(p, best.slots, v) \/ best.deficit[v] = p.crew[v].min
    BY <1>1, CostParts
  <2> QED BY <2>1, <2>2 DEF Deficit
<1>4. best.deficit[w] # sol.deficit[w] => TotalDeficit(p, sol) < TotalDeficit(p, best)
  <2>1. IsFiniteSet(DOMAIN p.crew)
    BY DEF Posed
  <2>2. best.deficit[w] # sol.deficit[w] => \E v \in DOMAIN p.crew : sol.deficit[v] < best.deficit[v]
    BY <1>3
  <2>3. (\E v \in DOMAIN p.crew : sol.deficit[v] < best.deficit[v]) =>
          SumOf(sol.deficit, DOMAIN p.crew) < SumOf(best.deficit, DOMAIN p.crew)
    BY <1>3, <2>1, SumGrows
  <2> QED BY <2>2, <2>3, DeficitTotal
<1>5. /\ TotalShort(p, best) \in Nat
      /\ TotalDeficit(p, best) \in Nat /\ TotalDeficit(p, sol) \in Nat /\ Spread(p, best) \in 0 .. 100
      /\ Cost(p, best) = 10000 * TotalShort(p, best) + 100 * TotalDeficit(p, best) + Spread(p, best)
      /\ Cost(p, sol) = 10000 * TotalShort(p, sol) + 100 * TotalDeficit(p, sol) + Spread(p, sol)
  BY <1>1, CostParts
<1>6. Cost(p, best) <= Cost(p, sol)
  BY <1>1
<1>7. ~(TotalDeficit(p, sol) < TotalDeficit(p, best))
  BY <1>2, <1>5, <1>6
<1> QED BY <1>1, <1>4, <1>7

\* In a cheapest solution nobody who owes two hours has a shift left: taking it would save
\* at least 200 and spread the loads by at most 100 more.
LEMMA NoShiftLeft ==
  ASSUME NEW p, Posed(p), NEW best \in Solutions(p), \A sol \in Solutions(p) : Cost(p, best) <= Cost(p, sol),
         NEW v \in SolverVars(p), v \notin best.slots, best.deficit[v[1]] >= 2,
         WorkedBy(best.slots, v[1]) + ShiftHours <= p.crew[v[1]].max,
         Cardinality(DayOf(best.slots, v[1], v[2])) < 2,
         SlotOf(p, v) \in DOMAIN p.requirements => Short(p, best.slots, SlotOf(p, v)) > 0
  PROVE  FALSE
<1> DEFINE x == best.slots
           y == x \cup {v}
           crew == DOMAIN p.crew
           slot == SlotOf(p, v)
           D == DOMAIN p.requirements
           sol == [slots |-> y, deficit |-> [w \in crew |-> Deficit(p, y, w)]]
           mid == [w \in crew |-> IF w = v[1] THEN best.deficit[w] - 1 ELSE best.deficit[w]]
<1>1. x \in SUBSET SolverVars(p) /\ Allowed(p, x) /\ v[1] \in crew /\ IsFiniteSet(crew)
  BY CostParts, VarsFinite DEF Posed
<1>2. /\ y \in SUBSET SolverVars(p) /\ Allowed(p, y)
      /\ \A s \in D : Short(p, y, s) = IF s = slot THEN Short(p, x, s) - 1 ELSE Short(p, x, s)
      /\ \A w : WorkedBy(y, w) = IF w = v[1] THEN WorkedBy(x, w) + ShiftHours ELSE WorkedBy(x, w)
  <2>1. /\ WorkedBy(x, v[1]) + ShiftHours <= p.crew[v[1]].max /\ Cardinality(DayOf(x, v[1], v[2])) < 2
        /\ SlotOf(p, v) \in DOMAIN p.requirements => Short(p, x, SlotOf(p, v)) > 0
        /\ v \notin x
    OBVIOUS
  <2> HIDE DEF x
  <2> QED BY <1>1, <2>1, OneMore
<1> HIDE DEF x, y
<1>3. sol \in Solutions(p) /\ sol.slots = y /\ \A w \in crew : sol.deficit[w] = Deficit(p, y, w)
  BY <1>2 DEF Solutions
<1> HIDE DEF sol
<1>4. Missing(p, y) <= Missing(p, x)
  <2>1. \A s \in D : Gaps(p, y)[s] \in Int /\ Gaps(p, x)[s] \in Int /\ Gaps(p, y)[s] <= Gaps(p, x)[s]
    <3> TAKE s \in D
    <3>1. Short(p, x, s) \in Int /\ Short(p, y, s) = IF s = slot THEN Short(p, x, s) - 1 ELSE Short(p, x, s)
      BY <1>1, <1>2, Numbers
    <3>2. Gaps(p, y)[s] = Short(p, y, s) /\ Gaps(p, x)[s] = Short(p, x, s)
      BY DEF Gaps
    <3> HIDE DEF slot, D
    <3> QED BY <3>1, <3>2
  <2>2. IsFiniteSet(D)
    BY SlotsFinite
  <2> HIDE DEF D
  <2>3. SumOf(Gaps(p, y), D) <= SumOf(Gaps(p, x), D)
    BY <2>1, <2>2, SumGrows
  <2> QED BY <2>3 DEF Missing, D
<1>5. \A w \in crew : /\ sol.deficit[w] \in Nat /\ best.deficit[w] \in Nat
                      /\ sol.deficit[w] <= best.deficit[w]
                      /\ w = v[1] => sol.deficit[w] + 2 <= best.deficit[w]
  <2> TAKE w \in crew
  <2>1. WorkedBy(x, w) \in Nat /\ p.crew[w].min \in Nat
    BY <1>1, Numbers DEF Posed
  <2>2. sol.deficit[w] = Deficit(p, y, w) /\ best.deficit[w] = Deficit(p, x, w)
    BY <1>3, SlacksAreTight DEF x
  <2>3. w = v[1] => best.deficit[w] >= 2
    OBVIOUS
  <2> QED BY <1>2, <2>1, <2>2, <2>3 DEF Deficit, ShiftHours
<1>6. TotalDeficit(p, sol) + 2 <= TotalDeficit(p, best)
  <2>1. \A w \in crew : mid[w] \in Int /\ sol.deficit[w] <= mid[w] /\ mid[w] <= best.deficit[w]
                         /\ sol.deficit[w] \in Int /\ best.deficit[w] \in Int
    BY <1>5
  <2>2. sol.deficit[v[1]] < mid[v[1]] /\ mid[v[1]] < best.deficit[v[1]]
    BY <1>1, <1>5
  <2> HIDE DEF mid, crew
  <2>3. SumOf(sol.deficit, crew) < SumOf(mid, crew)
    BY <1>1, <2>1, <2>2, SumGrows
  <2>4. SumOf(mid, crew) < SumOf(best.deficit, crew)
    BY <1>1, <2>1, <2>2, SumGrows
  <2>5. SumOf(sol.deficit, crew) \in Int /\ SumOf(mid, crew) \in Int /\ SumOf(best.deficit, crew) \in Int
    BY <1>1, <2>1, SumTakes
  <2> QED BY <2>3, <2>4, <2>5, DeficitTotal DEF crew
<1>7. /\ TotalShort(p, best) = Missing(p, x) /\ TotalShort(p, sol) = Missing(p, y)
      /\ TotalShort(p, best) \in Nat /\ TotalShort(p, sol) \in Nat
      /\ TotalDeficit(p, best) \in Nat /\ TotalDeficit(p, sol) \in Nat
      /\ Spread(p, best) \in 0 .. 100 /\ Spread(p, sol) \in 0 .. 100
      /\ Cost(p, best) = 10000 * TotalShort(p, best) + 100 * TotalDeficit(p, best) + Spread(p, best)
      /\ Cost(p, sol) = 10000 * TotalShort(p, sol) + 100 * TotalDeficit(p, sol) + Spread(p, sol)
  BY <1>3, CostParts DEF x
<1>8. Cost(p, best) <= Cost(p, sol)
  BY <1>3
<1> QED BY <1>4, <1>6, <1>7, <1>8

-----------------------------------------------------------------------------
(* The totals of the headcount form *)

InShift(N, s) == [cell \in Cell |-> IF cell[2] = s /\ IsWhole(N[cell]) THEN N[cell] ELSE 0]
OfShift(N, s) == [r \in Role |-> N[<<r, s>>]]

\* The total under a column is the sum over all cells, whatever order they are taken in.
LEMMA ColumnTotal ==
  ASSUME NEW N, NEW s, IsFiniteSet(Cell), \A cell \in Cell : InShift(N, s)[cell] \in Int
  PROVE  ShiftTotal(N, s) = SumOf(InShift(N, s), Cell)
<1> DEFINE f == InShift(N, s)
           Folds(g) == g = [t \in SUBSET Cell |-> IF t = {} THEN 0
                              ELSE g[t \ {CHOOSE x \in t : TRUE}]
                                     + (IF (CHOOSE x \in t : TRUE)[2] = s /\ IsWhole(N[CHOOSE x \in t : TRUE])
                                        THEN N[CHOOSE x \in t : TRUE] ELSE 0)]
<1>1. ShiftTotal(N, s) = (CHOOSE g : Folds(g))[Cell]
  BY Zenon DEF ShiftTotal, FoldSet, MapThenFoldSet
<1>2. \A g : Folds(g) <=> g = [t \in SUBSET Cell |-> IF t = {} THEN 0 ELSE g[t \ {Pick(t)}] + f[Pick(t)]]
  <2>1. \A t \in SUBSET Cell : t # {} => f[Pick(t)] = IF (CHOOSE x \in t : TRUE)[2] = s /\ IsWhole(N[CHOOSE x \in t : TRUE])
                                        THEN N[CHOOSE x \in t : TRUE] ELSE 0
    BY PickIn DEF InShift, Pick
  <2> HIDE DEF f
  <2> QED BY <2>1 DEF Pick
<1>3. PICK k : Adds(k, f, Cell) /\ SumOf(f, Cell) = k[Cell]
  BY SumAdds
<1>4. \A t \in SUBSET Cell : k[t] \in Int
  BY <1>3, AnyFirst
<1> HIDE DEF f, Folds
<1>5. Folds(k)
  <2>1. \A t \in SUBSET Cell : t # {} => f[Pick(t)] \in Int /\ k[t \ {Pick(t)}] \in Int
    BY <1>4, PickIn DEF f
  <2>2. ASSUME NEW t \in SUBSET Cell, t # {}
        PROVE  f[Pick(t)] + k[t \ {Pick(t)}] = k[t \ {Pick(t)}] + f[Pick(t)]
    <3> DEFINE a == f[Pick(t)]
               b == k[t \ {Pick(t)}]
    <3>1. a \in Int /\ b \in Int
      BY <2>1, <2>2
    <3> HIDE DEF a, b
    <3>2. a + b = b + a
      BY <3>1
    <3> QED BY <3>2 DEF a, b
  <2>3. k = [t \in SUBSET Cell |-> IF t = {} THEN 0 ELSE f[Pick(t)] + k[t \ {Pick(t)}]]
    BY <1>3 DEF Adds
  <2>4. k = [t \in SUBSET Cell |-> IF t = {} THEN 0 ELSE k[t \ {Pick(t)}] + f[Pick(t)]]
    BY <2>2, <2>3
  <2> QED BY <1>2, <2>4
<1> DEFINE h == CHOOSE g : Folds(g)
<1>6. Folds(h)
  BY <1>5
<1>7. h = [t \in SUBSET Cell |-> IF t = {} THEN 0 ELSE h[t \ {Pick(t)}] + f[Pick(t)]]
  BY <1>2, <1>6
<1> HIDE DEF h
<1>8. h[Cell] = k[Cell]
  <2> DEFINE Bad == {t \in SUBSET Cell : h[t] # k[t]}
  <2> SUFFICES ASSUME Bad # {} PROVE FALSE
    OBVIOUS
  <2>1. PICK t \in Bad : \A u \in Bad : ~(u \subseteq t /\ u # t)
    <3>1. Bad \in SUBSET SUBSET Cell
      OBVIOUS
    <3> HIDE DEF Bad
    <3> QED BY <3>1, SmallestSubset
  <2>2. t \in SUBSET Cell /\ h[t] # k[t]
    OBVIOUS
  <2>3. /\ h[t] = IF t = {} THEN 0 ELSE h[t \ {Pick(t)}] + f[Pick(t)]
        /\ k[t] = IF t = {} THEN 0 ELSE k[t \ {Pick(t)}] + f[Pick(t)]
    BY <1>2, <1>5, <1>7, <2>2
  <2>4. t # {} /\ Pick(t) \in t
    BY <2>2, <2>3, PickIn
  <2>5. t \ {Pick(t)} \notin Bad /\ t \ {Pick(t)} \in SUBSET Cell
    BY <2>1, <2>2, <2>4
  <2> QED BY <2>2, <2>3, <2>4, <2>5
<1> QED BY <1>1, <1>3, <1>8 DEF h, f

\* The sum of a shift's headcounts over the roles.
LEMMA RolesTotal ==
  ASSUME NEW N, NEW s, IsFiniteSet(Role)
  PROVE  MapThenSumSet(LAMBDA r : N[<<r, s>>], Role) = SumOf(OfShift(N, s), Role)
<1> DEFINE f == OfShift(N, s)
           Sums(g) == g = [t \in SUBSET Role |-> IF t = {} THEN 0
                            ELSE N[<<CHOOSE x \in t : TRUE, s>>] + g[t \ {CHOOSE x \in t : TRUE}]]
<1>1. MapThenSumSet(LAMBDA r : N[<<r, s>>], Role) = (CHOOSE g : Sums(g))[Role]
  BY Zenon DEF MapThenSumSet, MapThenFoldSet
<1>2. \A g : Sums(g) <=> Adds(g, f, Role)
  <2>1. \A t \in SUBSET Role : t # {} => f[Pick(t)] = N[<<CHOOSE x \in t : TRUE, s>>]
    BY PickIn DEF OfShift, Pick
  <2> HIDE DEF f
  <2> QED BY <2>1 DEF Adds, Pick
<1>3. PICK k : Adds(k, f, Role) /\ SumOf(f, Role) = k[Role]
  BY SumAdds
<1> DEFINE h == CHOOSE g : Sums(g)
<1>4. Sums(h)
  <2>1. Sums(k)
    BY <1>2, <1>3
  <2> HIDE DEF Sums
  <2> QED BY <2>1
<1>5. Adds(h, f, Role)
  BY <1>2, <1>4
<1> HIDE DEF h, f, Sums
<1>6. h[Role] = k[Role]
  <2>1. Role \in SUBSET Role
    OBVIOUS
  <2> QED BY <1>3, <1>5, <2>1, AddsAlike
<1> QED BY <1>1, <1>3, <1>6 DEF h, f

\* A row of cells adds what its role has in the shift.
LEMMA CellsOfShift ==
  ASSUME IsFiniteSet(Role), NEW s \in Shift, NEW N \in [Cell -> Nat], \A cell \in Cell : IsWhole(N[cell])
  PROVE  SumOf(InShift(N, s), Cell) = SumOf(OfShift(N, s), Role)
<1> DEFINE f == InShift(N, s)
           h == OfShift(N, s)
           Bad == {R \in SUBSET Role : SumOf(f, R \X Shift) # SumOf(h, R)}
<1>1. \A cell \in Cell : f[cell] \in Int /\ f[cell] = IF cell[2] = s THEN N[cell] ELSE 0
  BY DEF InShift
<1>2. \A r \in Role : h[r] \in Int /\ h[r] = N[<<r, s>>] /\ <<r, s>> \in Cell
  BY DEF OfShift, Cell
<1> HIDE DEF f, h
<1>3. ASSUME NEW T \in SUBSET Cell
      PROVE  SumOf(f, T) \in Int /\ SumOf(f, {}) = 0 /\ \A cell \in T : SumOf(f, T) = f[cell] + SumOf(f, T \ {cell})
  <2>1. IsFiniteSet(Cell)
    BY ShiftFinite, FS_Product DEF Cell
  <2>2. IsFiniteSet(T) /\ \A cell \in T : f[cell] \in Int
    BY <1>1, <2>1, FS_Subset
  <2> QED BY <2>2, SumTakes
<1>4. ASSUME NEW R \in SUBSET Role
      PROVE  SumOf(h, R) \in Int /\ SumOf(h, {}) = 0 /\ \A r \in R : SumOf(h, R) = h[r] + SumOf(h, R \ {r})
  <2>1. IsFiniteSet(R) /\ \A r \in R : h[r] \in Int
    BY <1>2, FS_Subset
  <2> QED BY <2>1, SumTakes
<1>5. ASSUME NEW R \in SUBSET Role, NEW r \in R
      PROVE  SumOf(f, R \X Shift) = h[r] + SumOf(f, (R \ {r}) \X Shift)
  <2> DEFINE T0 == R \X Shift
             T1 == T0 \ {<<r, "A">>}
             T2 == T1 \ {<<r, "B">>}
             T3 == T2 \ {<<r, "C">>}
  <2>1. Shift = {"A", "B", "C"}
    BY DEF Shift, ShiftTypes
  <2>2. T3 = (R \ {r}) \X Shift
    BY <2>1
  <2>3. T0 \in SUBSET Cell /\ T1 \in SUBSET Cell /\ T2 \in SUBSET Cell /\ T3 \in SUBSET Cell
    BY DEF Cell
  <2>4. <<r, "A">> \in T0 /\ <<r, "B">> \in T1 /\ <<r, "C">> \in T2
    BY <2>1
  <2> HIDE DEF T0
  <2>5. SumOf(f, T0) = f[<<r, "A">>] + SumOf(f, T1)
    BY <1>3, <2>3, <2>4
  <2> HIDE DEF T1
  <2>6. SumOf(f, T1) = f[<<r, "B">>] + SumOf(f, T2)
    BY <1>3, <2>3, <2>4
  <2> HIDE DEF T2
  <2>7. SumOf(f, T2) = f[<<r, "C">>] + SumOf(f, T3)
    BY <1>3, <2>3, <2>4
  <2> HIDE DEF T3
  <2>8. SumOf(f, T3) \in Int
    BY <1>3, <2>3
  <2>9. \A t \in Shift : f[<<r, t>>] = IF t = s THEN h[r] ELSE 0
    <3> TAKE t \in Shift
    <3>1. <<r, t>> \in Cell
      BY DEF Cell
    <3> QED BY <1>1, <1>2, <3>1
  <2>10. h[r] \in Int
    BY <1>2
  <2>11. SumOf(f, T0) = h[r] + SumOf(f, T3)
    BY <2>1, <2>5, <2>6, <2>7, <2>8, <2>9, <2>10
  <2> QED BY <2>2, <2>11 DEF T0
<1>6. Bad = {}
  <2> SUFFICES ASSUME Bad # {} PROVE FALSE
    OBVIOUS
  <2>1. PICK R \in Bad : \A Q \in Bad : ~(Q \subseteq R /\ Q # R)
    <3>1. Bad \in SUBSET SUBSET Role
      OBVIOUS
    <3> HIDE DEF Bad
    <3> QED BY <3>1, SmallestSubset
  <2>2. R \in SUBSET Role /\ SumOf(f, R \X Shift) # SumOf(h, R)
    OBVIOUS
  <2>3. R # {}
    <3>1. {} \X Shift = {} /\ {} \in SUBSET Cell /\ {} \in SUBSET Role
      OBVIOUS
    <3>2. SumOf(f, {} \X Shift) = SumOf(h, {})
      BY <1>3, <1>4, <3>1
    <3> QED BY <2>2, <3>2
  <2>4. PICK r : r \in R
    BY <2>3
  <2>5. R \ {r} \notin Bad /\ R \ {r} \in SUBSET Role
    BY <2>1, <2>2, <2>4
  <2>6. SumOf(f, (R \ {r}) \X Shift) = SumOf(h, R \ {r})
    BY <2>5
  <2>7. SumOf(h, R) = h[r] + SumOf(h, R \ {r})
    BY <1>4, <2>2, <2>4
  <2>8. SumOf(f, R \X Shift) = h[r] + SumOf(f, (R \ {r}) \X Shift)
    BY <1>5, <2>2, <2>4
  <2> QED BY <2>2, <2>6, <2>7, <2>8
<1>7. Role \in SUBSET Role /\ Role \notin Bad
  BY <1>6
<1>8. SumOf(f, Role \X Shift) = SumOf(h, Role)
  BY <1>7
<1> QED BY <1>8 DEF Cell, f, h

-----------------------------------------------------------------------------
(* The session *)

\* Nobody is imported where the grid is saved: the sheet's workers are still its firm's.
SaveInv ==
  /\ left.save = 0 \/ (left.upload = 0 /\ run = None)
  /\ left.save > 0 /\ sheet # None => DOMAIN sheet.draft \subseteq Staff(sheet.firm)

IInv == TableTypeOK /\ FileInv /\ DraftInv /\ ProblemInv /\ FormInv /\ ProcessInv /\ SaveInv

SavedStep ==
  left'.save # left.save =>
    \A w \in Member, m \in Month : \A d \in Days(m) :
      Letters(table'[w][m][d]) =
        IF w \in Staff(sheet.firm) /\ m = sheet.month
        THEN {s \in Shift : <<w, d, s>> \in sheet.marks} ELSE Letters(table[w][m][d])

\* What the grid saves.
LEMMA SavedTable ==
  ASSUME TableTypeOK, DraftInv, SaveSheet
  PROVE  /\ TableTypeOK'
         /\ DOMAIN sheet.draft \subseteq Staff(sheet.firm) => SavedStep
<1> DEFINE saves == DOMAIN sheet.draft \subseteq Staff(sheet.firm)
<1>1. /\ sheet # None /\ sheet.month \in Month /\ DraftOK(sheet.draft, sheet.month)
      /\ UNCHANGED <<people, needs>>
  BY DEF SaveSheet, DraftInv
<1>2. Payload(sheet.draft) = sheet.draft /\ PayloadSchema(sheet.draft, sheet.month)
  BY <1>1, DraftPays
<1>3. \A w, d : CellShifts(sheet.draft, w, d) \in DayCell
  BY <1>1, LookedUp
<1>4. /\ table \in [Member -> [Month -> Seq(DayCell)]]
      /\ \A w \in Member, m \in Month : table[w][m] \in MonthRows(m)
  BY DEF TableTypeOK, Timetable
<1>5. table' = IF saves
               THEN [w \in Member |-> IF w \in Staff(sheet.firm)
                      THEN [table[w] EXCEPT ![sheet.month] =
                              [d \in Days(sheet.month) |-> CellShifts(sheet.draft, w, d)]]
                      ELSE table[w]]
               ELSE table
  BY <1>2 DEF SaveSheet
<1> DEFINE month(w) == [d \in Days(sheet.month) |-> CellShifts(sheet.draft, w, d)]
<1>6. \A w : /\ month(w) \in MonthRows(sheet.month)
             /\ \A d \in Days(sheet.month) : month(w)[d] = CellShifts(sheet.draft, w, d)
  BY <1>3 DEF MonthRows
<1>7. MonthRows(sheet.month) \subseteq Seq(DayCell)
  <2>1. DayCount[sheet.month] \in Nat
    BY <1>1, MonthTableAssumption
  <2> QED BY <2>1 DEF MonthRows, Days
<1>8. ASSUME saves, NEW w \in Member
      PROVE  table'[w] = IF w \in Staff(sheet.firm) THEN [table[w] EXCEPT ![sheet.month] = month(w)] ELSE table[w]
  BY <1>5, <1>8
<1> HIDE DEF month
<1>9. ASSUME saves, NEW w \in Member, NEW m \in Month
      PROVE  /\ table'[w] \in [Month -> Seq(DayCell)]
             /\ table'[w][m] = IF w \in Staff(sheet.firm) /\ m = sheet.month THEN month(w) ELSE table[w][m]
             /\ table'[w][m] \in MonthRows(m)
  <2> DEFINE f == table[w]
             rows == month(w)
  <2>1. f \in [Month -> Seq(DayCell)] /\ f[m] \in MonthRows(m)
    BY <1>4
  <2>2. rows \in Seq(DayCell) /\ rows \in MonthRows(sheet.month)
    BY <1>6, <1>7
  <2>3. table'[w] = IF w \in Staff(sheet.firm) THEN [f EXCEPT ![sheet.month] = rows] ELSE f
    BY <1>8, <1>9
  <2> HIDE DEF f, rows
  <2>4. /\ table'[w] \in [Month -> Seq(DayCell)]
        /\ table'[w][m] = IF w \in Staff(sheet.firm) /\ m = sheet.month THEN rows ELSE f[m]
    BY <1>1, <2>1, <2>2, <2>3
  <2>5. table'[w][m] \in MonthRows(m)
    BY <2>1, <2>2, <2>4
  <2> QED BY <2>4, <2>5 DEF f, rows
<1>10. TableTypeOK'
  <2>1. CASE saves
    <3>1. table' = [w \in Member |-> table'[w]]
      BY <1>5, <2>1
    <3>2. table' \in [Member -> [Month -> Seq(DayCell)]]
      <4>1. \A w \in Member : table'[w] \in [Month -> Seq(DayCell)]
        BY <1>1, <1>9, <2>1
      <4> QED BY <3>1, <4>1
    <3>3. \A w \in Member, m \in Month : table'[w][m] \in MonthRows(m)
      BY <1>9, <2>1
    <3> QED BY <1>1, <3>2, <3>3 DEF TableTypeOK, Timetable
  <2>2. CASE ~saves
    BY <1>1, <1>5, <2>2 DEF TableTypeOK
  <2> QED BY <2>1, <2>2
<1>11. ASSUME saves PROVE SavedStep
  <2> SUFFICES ASSUME NEW w \in Member, NEW m \in Month, NEW d \in Days(m)
               PROVE  Letters(table'[w][m][d]) =
                        IF w \in Staff(sheet.firm) /\ m = sheet.month
                        THEN {s \in Shift : <<w, d, s>> \in sheet.marks} ELSE Letters(table[w][m][d])
    BY DEF SavedStep
  <2>1. CASE w \in Staff(sheet.firm) /\ m = sheet.month
    <3>1. table'[w][m][d] = CellShifts(sheet.draft, w, d)
      BY <1>6, <1>9, <1>11, <2>1
    <3>2. Letters(CellShifts(sheet.draft, w, d)) = {s \in Shift : <<w, d, s>> \in sheet.marks}
      BY <1>1, <2>1 DEF DraftInv
    <3> QED BY <2>1, <3>1, <3>2
  <2>2. CASE ~(w \in Staff(sheet.firm) /\ m = sheet.month)
    BY <1>9, <1>11, <2>2
  <2> QED BY <2>1, <2>2
<1> QED BY <1>10, <1>11

LEMMA Starts == Init => IInv
<1> SUFFICES ASSUME Init PROVE IInv
  OBVIOUS
<1>1. left \in Session /\ people \in left.people /\ needs = left.needs /\ table \in left.table
  BY DEF Init, TableInit
<1>2. TableTypeOK
  BY <1>1, SessionAssumption DEF TableTypeOK
<1>3. left.save = 0 \/ left.upload = 0
  BY <1>1, SessionAssumption
<1>4. run = None /\ sheet = None
  BY DEF Init, FileInit, DraftInit
<1>5. SaveInv
  BY <1>3, <1>4 DEF SaveInv
<1> QED BY <1>2, <1>5, FileStarts, DraftStarts, ProblemStarts, FormStarts, ProcessStarts DEF IInv

\* A step that does not touch the process, its counters apart.
LEMMA StepsLeave ==
  ASSUME IInv, UNCHANGED processVars, NEW kinds \in SUBSET (Kind \ {"start", "solve"}), Spend(kinds)
  PROVE  ProcessInv'
<1>1. LeftOK' /\ \A k \in Kind \ kinds : left'[k] = left[k]
  BY SpendLeft DEF IInv, ProcessInv
<1>2. "start" \in Kind \ kinds /\ "solve" \in Kind \ kinds
  BY DEF Kind
<1>3. left'.start = left.start /\ left'.solve = left.solve
  BY <1>1, <1>2
<1> QED BY <1>1, <1>3, ProcessQuiet DEF IInv

LEMMA SaveQuiet ==
  ASSUME IInv, NEW kinds \in SUBSET Kind, Spend(kinds), UNCHANGED sheet,
         run # None \/ UNCHANGED people, run' # None => run # None \/ left.upload > 0
  PROVE  SaveInv'
<1>1. /\ left.save \in Nat /\ left'.save \in Nat /\ left'.save <= left.save
      /\ left.upload \in Nat /\ left'.upload \in Nat /\ left'.upload <= left.upload
  BY SpendLeft DEF IInv, ProcessInv, Kind
<1>2. left.save = 0 \/ (left.upload = 0 /\ run = None)
  BY DEF IInv, SaveInv
<1>3. left'.save = 0 \/ (left'.upload = 0 /\ run' = None)
  BY <1>1, <1>2
<1>4. ASSUME left'.save > 0, sheet' # None PROVE DOMAIN sheet'.draft \subseteq Staff(sheet.firm)'
  <2>1. left.save > 0 /\ UNCHANGED people
    BY <1>1, <1>2, <1>4
  <2>2. DOMAIN sheet.draft \subseteq Staff(sheet.firm)
    BY <1>4, <2>1 DEF IInv, SaveInv
  <2>3. Staff(sheet.firm)' = Staff(sheet.firm)
    BY <2>1 DEF Staff
  <2> QED BY <2>2, <2>3
<1> QED BY <1>3, <1>4 DEF SaveInv

LEMMA DraftSaves ==
  ASSUME IInv, DraftNext, UNCHANGED run
  PROVE  SaveInv'
<1>1. Spend({"open", "toggle", "save"}) /\ {"open", "toggle", "save"} \in SUBSET Kind
  BY PartsSpend DEF Kind
<1>2. /\ left.save \in Nat /\ left'.save \in Nat /\ left'.save <= left.save
      /\ left'.upload = left.upload /\ left.upload \in Nat
  <2>1. "save" \in Kind /\ "upload" \in Kind /\ "upload" \notin {"open", "toggle", "save"}
    BY DEF Kind
  <2> QED BY <1>1, <2>1, SpendLeft DEF IInv, ProcessInv
<1>3. left'.save = 0 \/ (left'.upload = 0 /\ run' = None)
  BY <1>2 DEF IInv, SaveInv
<1>4. UNCHANGED people
  BY DEF DraftNext, OpenSheet, MarkRow, ToggleCell, SaveSheet, tableVars
<1>5. \A c : Staff(c)' = Staff(c)
  BY <1>4 DEF Staff
<1>6. ASSUME left'.save > 0, sheet' # None
      PROVE  DOMAIN sheet'.draft \subseteq Staff(sheet'.firm)
  <2>1. left.save > 0
    BY <1>2, <1>6
  <2>2. CASE \E c \in Firm, m \in Month : OpenSheet(c, m)
    <3>1. PICK c \in Firm, m \in Month : OpenSheet(c, m)
      BY <2>2
    <3>2. sheet'.firm = c
      BY <3>1 DEF OpenSheet
    <3> QED BY <3>1, <3>2, OpenDraft DEF IInv
  <2>3. ASSUME NEW w \in Member, sheet # None, w \in Staff(sheet.firm), sheet'.firm = sheet.firm,
               DOMAIN sheet'.draft \subseteq DOMAIN sheet.draft \cup {w}
        PROVE  DOMAIN sheet'.draft \subseteq Staff(sheet'.firm)
    BY <2>1, <2>3 DEF IInv, SaveInv
  <2>4. ASSUME NEW w \in Member, MarkRow(w) PROVE DOMAIN sheet'.draft \subseteq Staff(sheet'.firm)
    <3>1. sheet # None /\ w \in Staff(sheet.firm)
      BY <2>4 DEF MarkRow
    <3> QED BY <2>3, <2>4, <3>1, MarkedDraft DEF IInv
  <2>5. ASSUME NEW w \in Member, NEW d \in 1 .. 31, NEW s \in Shift, ToggleCell(w, d, s)
        PROVE  DOMAIN sheet'.draft \subseteq Staff(sheet'.firm)
    <3>1. sheet # None /\ w \in Staff(sheet.firm)
      BY <2>5 DEF ToggleCell
    <3> QED BY <2>3, <2>5, <3>1, ToggledDraft DEF IInv
  <2>6. CASE SaveSheet
    BY <1>6, <2>1, <2>6 DEF SaveSheet, IInv, SaveInv
  <2> QED BY <2>2, <2>4, <2>5, <2>6 DEF DraftNext
<1>7. ASSUME left'.save > 0, sheet' # None PROVE DOMAIN sheet'.draft \subseteq Staff(sheet.firm)'
  BY <1>5, <1>6, <1>7 DEF Staff
<1> QED BY <1>3, <1>7 DEF SaveInv

LEMMA Steps == IInv /\ [Next]_vars => IInv'
<1> SUFFICES ASSUME IInv, [Next]_vars PROVE IInv'
  OBVIOUS
<1>1. CASE FileNext /\ UNCHANGED <<sheet, problem, answer, formVars, processVars>>
  <2>1. Spend({"export", "file", "upload"})
        /\ {"export", "file", "upload"} \in SUBSET (Kind \ {"start", "solve"})
    BY <1>1, PartsSpend DEF Kind
  <2>2. FileInv' /\ TableTypeOK'
    BY <1>1, FileSteps DEF IInv
  <2>3. UNCHANGED needs
    BY <1>1 DEF FileNext, ImportRow, Applied, Finish, Export, Upload, EditFile, tableVars
  <2>4. DraftInv' /\ ProblemInv' /\ FormInv'
    BY <1>1, <2>3, DraftQuiet, ProblemQuiet, FormQuiet DEF IInv
  <2>5. ProcessInv'
    BY <1>1, <2>1, StepsLeave
  <2>6. run # None \/ UNCHANGED people
    BY <1>1 DEF FileNext, ImportRow, Finish, Export, Upload, EditFile, tableVars
  <2>7. run' # None => run # None \/ left.upload > 0
    BY <1>1 DEF FileNext, ImportRow, Finish, Export, Upload, EditFile, Uses
  <2>8. SaveInv'
    BY <1>1, <2>1, <2>6, <2>7, SaveQuiet
  <2> QED BY <2>2, <2>4, <2>5, <2>8 DEF IInv
<1>2. CASE DraftNext /\ UNCHANGED <<fileVars, problem, answer, formVars, processVars>>
  <2>1. Spend({"open", "toggle", "save"})
        /\ {"open", "toggle", "save"} \in SUBSET (Kind \ {"start", "solve"})
    BY <1>2, PartsSpend DEF Kind
  <2>2. DraftInv'
    BY <1>2, DraftSteps DEF IInv
  <2>3. TableTypeOK' /\ (SaveSheet \/ UNCHANGED table) /\ UNCHANGED <<people, needs>>
    <3>1. CASE SaveSheet
      BY <3>1, SavedTable DEF IInv, SaveSheet
    <3>2. CASE UNCHANGED tableVars
      BY <3>2 DEF IInv, TableTypeOK, tableVars
    <3> QED BY <1>2, <3>1, <3>2 DEF DraftNext, OpenSheet, MarkRow, ToggleCell, tableVars
  <2>4. UNCHANGED run
    BY <1>2 DEF fileVars
  <2>5. run # None => UNCHANGED table
    <3>1. ASSUME SaveSheet PROVE left.save > 0
      BY <3>1 DEF SaveSheet, Uses
    <3>2. left.save \in Nat
      BY DEF IInv, ProcessInv, LeftOK, Kind
    <3> QED BY <2>3, <3>1, <3>2 DEF IInv, SaveInv
  <2>6. FileInv'
    BY <1>2, <2>3, <2>5, FileQuiet DEF IInv
  <2>7. ProblemInv' /\ FormInv'
    BY <1>2, <2>3, ProblemQuiet, FormQuiet DEF IInv
  <2>8. ProcessInv'
    BY <1>2, <2>1, StepsLeave
  <2>9. SaveInv'
    BY <1>2, <2>4, DraftSaves
  <2> QED BY <2>2, <2>3, <2>6, <2>7, <2>8, <2>9 DEF IInv
<1>3. CASE ProblemNext /\ UNCHANGED <<fileVars, sheet, formVars, processVars>>
  <2>1. Spend({"build"}) /\ {"build"} \in SUBSET (Kind \ {"start", "solve"})
    BY <1>3, PartsSpend DEF Kind
  <2>2. UNCHANGED <<people, needs, table>>
    BY <1>3 DEF ProblemNext, Solve, BuildProblem, tableVars
  <2>3. TableTypeOK' /\ FileInv' /\ DraftInv' /\ FormInv'
    BY <1>3, <2>2, FileQuiet, DraftQuiet, FormQuiet DEF IInv, TableTypeOK
  <2>4. ProblemInv'
    BY <1>3, ProblemSteps DEF IInv
  <2>5. ProcessInv'
    BY <1>3, <2>1, StepsLeave
  <2>6. SaveInv'
    BY <1>3, <2>1, <2>2, SaveQuiet DEF fileVars
  <2> QED BY <2>3, <2>4, <2>5, <2>6 DEF IInv
<1>4. CASE FormNext /\ UNCHANGED <<fileVars, sheet, problem, answer, processVars>>
  <2>1. Spend({"form", "cell"}) /\ {"form", "cell"} \in SUBSET (Kind \ {"start", "solve"})
    BY <1>4, PartsSpend DEF Kind
  <2>2. UNCHANGED <<people, table>>
    BY <1>4 DEF FormNext, Submit, CloseForm, OpenForm, SetCell, tableVars
  <2>3. FormInv'
    BY <1>4, FormSteps DEF IInv
  <2>4. TableTypeOK'
    <3>1. 0 .. DbMax \subseteq Nat
      BY FormAssumption
    <3>2. Matrices(needs', Nat)
      <4>1. /\ needs' = [c \in Firm |-> needs'[c]]
            /\ \A c \in Firm : DOMAIN needs'[c] \subseteq Cell /\ needs'[c] \in [DOMAIN needs'[c] -> 0 .. DbMax]
        BY <2>3 DEF FormInv, NeedsOK, Matrices
      <4>2. \A c \in Firm : needs'[c] \in [DOMAIN needs'[c] -> Nat]
        BY <3>1, <4>1
      <4> QED BY <4>1, <4>2 DEF Matrices
    <3> QED BY <2>2, <3>2 DEF IInv, TableTypeOK
  <2>5. FileInv' /\ DraftInv' /\ ProblemInv'
    BY <1>4, <2>2, FileQuiet, DraftQuiet, ProblemQuiet DEF IInv
  <2>6. ProcessInv'
    BY <1>4, <2>1, StepsLeave
  <2>7. SaveInv'
    BY <1>4, <2>1, <2>2, SaveQuiet DEF fileVars
  <2> QED BY <2>3, <2>4, <2>5, <2>6, <2>7 DEF IInv
<1>5. CASE ProcessNext /\ UNCHANGED <<tableVars, fileVars, sheet, problem, answer, formVars>>
  <2>1. Spend({"start", "solve"}) /\ {"start", "solve"} \in SUBSET Kind
    BY <1>5, PartsSpend DEF Kind
  <2>2. UNCHANGED <<people, needs, table>>
    BY <1>5 DEF tableVars
  <2>3. TableTypeOK' /\ FileInv' /\ DraftInv' /\ ProblemInv' /\ FormInv'
    BY <1>5, <2>2, FileQuiet, DraftQuiet, ProblemQuiet, FormQuiet DEF IInv, TableTypeOK
  <2>4. ProcessInv'
    BY <1>5, ProcessSteps DEF IInv
  <2>5. SaveInv'
    BY <1>5, <2>1, <2>2, SaveQuiet DEF fileVars
  <2> QED BY <2>3, <2>4, <2>5 DEF IInv
<1>6. CASE UNCHANGED vars
  <2>1. UNCHANGED <<people, needs, table, left, fileVars, sheet, problem, answer, formVars, processVars>>
    BY <1>6 DEF vars
  <2>2. TableTypeOK' /\ FileInv' /\ DraftInv' /\ ProblemInv' /\ FormInv'
    BY <2>1, FileQuiet, DraftQuiet, ProblemQuiet, FormQuiet DEF IInv, TableTypeOK
  <2>3. Spend({}) /\ {} \in SUBSET (Kind \ {"start", "solve"})
    BY <2>1 DEF Spend
  <2>4. ProcessInv'
    BY <2>1, <2>3, StepsLeave
  <2>5. SaveInv'
    BY <2>1, <2>3, SaveQuiet DEF fileVars
  <2> QED BY <2>2, <2>4, <2>5 DEF IInv
<1> QED BY <1>1, <1>2, <1>3, <1>4, <1>5, <1>6 DEF Next

\* The inductive invariant of the session.
LEMMA InductiveInvariant == Spec => []IInv
<1>1. Init => IInv
  BY Starts
<1>2. IInv /\ [Next]_vars => IInv'
  BY Steps
<1> QED BY <1>1, <1>2, PTL DEF Spec

-----------------------------------------------------------------------------
(* Theorems *)

\* Types, with those of every part: nothing that is imported, saved, entered or solved
\* leaves a row that the tables cannot hold.
THEOREM TypeCorrect == Spec => []TypeOK
<1>1. IInv => TypeOK
  BY FileMeans DEF IInv, TypeOK, ProblemInv, FormInv, FormRow, FormTypeOK, ProcessInv
<1> QED BY <1>1, InductiveInvariant, PTL

\* However a file was exported, changed by hand and uploaded, its import leaves every
\* worker as the last good row that names it says and the report names the bad rows; a
\* file that nobody touched changes nothing, but for quoted triggers (csv/guard.ts,
\* csv/workforce.ts, importRow).
THEOREM FileKept == Spec => []FileIsKept
<1>1. IInv => FileIsKept
  BY FileMeans DEF IInv
<1> QED BY <1>1, InductiveInvariant, PTL

\* The grid's draft is at any time what was marked, and a payload that the server's schema
\* takes (availabilityDraft.ts, monthAvailabilitySchema).
THEOREM DraftPayable == Spec => []DraftIsPayload
<1>1. IInv => DraftIsPayload
  BY DraftIs DEF IInv, Staff
<1> QED BY <1>1, InductiveInvariant, PTL

\* A save of the grid leaves in the table exactly what is marked (replaceMonth).
THEOREM SavedMarked == Spec => SavedIsMarked
<1>1. IInv /\ [Next]_vars => [SavedStep]_<<left, table>>
  <2> SUFFICES ASSUME IInv, [Next]_vars, left'.save # left.save PROVE SavedStep
    BY DEF SavedStep
  <2>1. ASSUME NEW kinds \in SUBSET (Kind \ {"save"}), Spend(kinds) PROVE FALSE
    <3>1. "save" \in Kind \ kinds
      BY DEF Kind
    <3> QED BY <2>1, <3>1, SpendLeft DEF IInv, ProcessInv
  <2>2. {"export", "file", "upload"} \in SUBSET (Kind \ {"save"}) /\ {"build"} \in SUBSET (Kind \ {"save"})
        /\ {"form", "cell"} \in SUBSET (Kind \ {"save"}) /\ {"start", "solve"} \in SUBSET (Kind \ {"save"})
        /\ {"open", "toggle"} \in SUBSET (Kind \ {"save"})
    BY DEF Kind
  <2>3. DraftNext
    <3>1. Next
      BY DEF vars
    <3> QED BY <2>1, <2>2, <3>1, PartsSpend DEF Next
  <2>4. SaveSheet
    BY <2>1, <2>2, <2>3, PartsSpend
  <2>5. left.save > 0 /\ sheet # None
    BY <2>4 DEF SaveSheet, Uses
  <2>6. DOMAIN sheet.draft \subseteq Staff(sheet.firm)
    BY <2>5 DEF IInv, SaveInv
  <2> QED BY <2>4, <2>6, SavedTable DEF IInv
<1>2. [][SavedStep]_<<left, table>> => SavedIsMarked
  BY PTL DEF SavedIsMarked, SavedStep
<1> HIDE DEF SavedStep
<1> QED BY <1>1, <1>2, InductiveInvariant, PTL DEF Spec

\* The form's save fails for a number that is too large for its column, and for nothing
\* else (staffingRequirementsMatrix.ts, staffingRequirementsInputSchema, replaceAll).
THEOREM RefusedForSize == Spec => []RefusedIsTooLarge
<1>1. IInv => RefusedIsTooLarge
  BY DEF IInv, FormInv
<1> QED BY <1>1, InductiveInvariant, PTL

\* A save of the form stores the number that was in each cell, and nothing of any other
\* firm's (validateMatrix, replaceAll, buildMatrixState).
THEOREM StoredShown == Spec => StoredIsShown
<1> DEFINE Step == form # None /\ form' = None /\ saved' = "stored" =>
                     /\ needs'[form.firm] = form.matrix
                     /\ \A c \in Firm \ {form.firm} : needs'[c] = needs[c]
<1>1. IInv /\ [Next]_vars => [Step]_<<form, saved, needs>>
  <2> SUFFICES ASSUME IInv, [Next]_vars, form # None, form' = None, saved' = "stored"
               PROVE  needs'[form.firm] = form.matrix /\ \A c \in Firm \ {form.firm} : needs'[c] = needs[c]
    OBVIOUS
  <2>1. saved # "stored" /\ form \in FormRow /\ NeedsOK
    BY DEF IInv, FormInv
  <2>2. FormNext
    BY <2>1 DEF Next, vars, formVars
  <2>3. Submit
    BY <2>1, <2>2 DEF FormNext, CloseForm, OpenForm, SetCell
  <2>4. needs' = [needs EXCEPT ![form.firm] = Stored(RowsOf(form.matrix), form.firm)]
    BY <2>3 DEF Submit
  <2>5. Stored(RowsOf(form.matrix), form.firm) = form.matrix
    BY <2>1, StoredMatrix DEF FormRow
  <2>6. needs = [c \in Firm |-> needs[c]] /\ form.firm \in Firm
    BY <2>1 DEF FormRow, NeedsOK, Matrices
  <2> QED BY <2>4, <2>5, <2>6
<1>2. [][Step]_<<form, saved, needs>> => StoredIsShown
  BY PTL DEF StoredIsShown
<1> HIDE DEF Step
<1> QED BY <1>1, <1>2, InductiveInvariant, PTL DEF Spec

\* An answer's alerts name every open place with how many are missing there and everyone
\* short of hours, never by too few, for every problem and solution (solve_roster.py).
THEOREM AlertsTell == Spec => []OpenPlacesAreTold /\ []OwedHoursAreTold
<1>1. ASSUME IInv, answer # None PROVE OpenPlacesAreTold /\ OwedHoursAreTold
  <2> DEFINE slots == answer.sol.slots
             deficit == answer.sol.deficit
             on(slot) == On(problem, slots, slot)
             worked(w) == WorkedBy(slots, w)
  <2>1. /\ problem # None /\ answer.sol \in Solutions(problem) /\ answer.alerts = Alerts(problem, answer.sol)
        /\ DOMAIN problem.crew \subseteq Member
        /\ \A w \in DOMAIN problem.crew : problem.crew[w].min \in Nat
        /\ \E m \in Month : problem.days = Days(m)
        /\ problem.requirements \in [DOMAIN problem.requirements -> Nat]
    BY <1>1 DEF IInv, ProblemInv, Asked, Answered
  <2>2. IsFiniteSet(slots)
    <3>0. IsFiniteSet(Member)
      BY MonthTableAssumption, FS_Interval DEF Member
    <3>1. IsFiniteSet(DOMAIN problem.crew)
      BY <2>1, <3>0, FS_Subset
    <3>2. IsFiniteSet(problem.days)
      BY <2>1, MonthTableAssumption, FS_Interval DEF Days
    <3>3. IsFiniteSet((DOMAIN problem.crew) \X problem.days \X Shift)
      BY <3>1, <3>2, ShiftFinite, FiniteTriples
    <3>4. slots \subseteq (DOMAIN problem.crew) \X problem.days \X Shift
      <4>1. slots \in SUBSET SolverVars(problem)
        BY <2>1 DEF Solutions
      <4>2. SolverVars(problem) \subseteq (DOMAIN problem.crew) \X problem.days \X Shift
        BY DEF SolverVars
      <4> QED BY <4>1, <4>2
    <3> QED BY <3>3, <3>4, FS_Subset
  <2>3. \A slot : on(slot) \in Nat
    <3> SUFFICES ASSUME NEW slot PROVE on(slot) \in Nat
      OBVIOUS
    <3> DEFINE there == {v \in slots : v[2] = slot[1] /\ problem.crew[v[1]].role = slot[2][1] /\ v[3] = slot[2][2]}
    <3>1. IsFiniteSet(there)
      BY <2>2, FS_Subset
    <3>2. on(slot) = Cardinality(there)
      BY DEF On
    <3> QED BY <3>1, <3>2, FS_CardinalityType
  <2>4. \A w : worked(w) \in Nat
    BY <2>2, FS_Subset, FS_CardinalityType DEF WorkedBy, ShiftHours
  <2>5. \A w \in DOMAIN problem.crew :
          /\ deficit[w] \in Nat /\ worked(w) + deficit[w] >= problem.crew[w].min
    <3>1. \A w \in DOMAIN problem.crew :
            deficit[w] = Deficit(problem, slots, w) \/ deficit[w] = problem.crew[w].min
      BY <2>1 DEF Solutions
    <3> HIDE DEF worked, deficit
    <3> QED BY <2>1, <2>4, <3>1 DEF Deficit, worked, deficit
  <2>6. /\ answer.alerts.unfillable = {<<slot, Short(problem, slots, slot)>> : slot \in {t \in DOMAIN problem.requirements : Short(problem, slots, t) > 0}}
        /\ answer.alerts.shortfall = {<<w, deficit[w]>> : w \in {v \in DOMAIN problem.crew : deficit[v] > 0}}
    BY <2>1 DEF Alerts
  <2>7. \A slot \in DOMAIN problem.requirements :
          problem.requirements[slot] \in Nat /\ Short(problem, slots, slot) = problem.requirements[slot] - on(slot)
    BY <2>1 DEF Short
  <2> HIDE DEF slots, deficit, on, worked
  <2>8. OpenPlacesAreTold
    BY <2>3, <2>6, <2>7 DEF OpenPlacesAreTold, on, slots
  <2>9. ASSUME NEW w \in DOMAIN problem.crew, worked(w) < problem.crew[w].min
        PROVE  \E a \in answer.alerts.shortfall : a[1] = w
    <3>1. deficit[w] > 0
      BY <2>1, <2>4, <2>5, <2>9
    <3>2. <<w, deficit[w]>> \in answer.alerts.shortfall
      BY <2>6, <3>1
    <3> QED BY <3>2
  <2>10. \A a \in answer.alerts.shortfall :
           a[1] \in DOMAIN problem.crew /\ worked(a[1]) + a[2] >= problem.crew[a[1]].min
    BY <2>5, <2>6
  <2>11. OwedHoursAreTold
    BY <2>9, <2>10 DEF OwedHoursAreTold, worked, slots
  <2> QED BY <2>8, <2>11
<1>2. answer = None => OpenPlacesAreTold /\ OwedHoursAreTold
  BY DEF OpenPlacesAreTold, OwedHoursAreTold
<1>3. IInv => OpenPlacesAreTold /\ OwedHoursAreTold
  BY <1>1, <1>2
<1> QED BY <1>3, InductiveInvariant, PTL

\* The solver gets a variable for exactly the shifts that no row excludes (problem.ts).
THEOREM ExcludedNeverOffered == Spec => []ExcludedIsExcluded
<1>1. IInv => ExcludedIsExcluded
  BY DEF IInv, ProblemInv
<1> QED BY <1>1, InductiveInvariant, PTL

\* At every size of company, neither the timer nor the queue's expiry cuts off a search
\* that keeps within its budget (runSolver.ts, timeBudget.ts, solve_roster.py, ensureQueues).
THEOREM ClocksAgree == Spec => []KilledOnlyOverHeadroom /\ []ExpiredOnlyByOthers
<1>1. IInv => KilledOnlyOverHeadroom
  BY DEF IInv, ProcessInv
<1>2. IInv => ExpiredOnlyByOthers
  <2> SUFFICES ASSUME IInv, solve # None, Elapsed + solve.outside >= solve.expiry
               PROVE  solve.inside + solve.outside >= 900
    BY DEF ExpiredOnlyByOthers
  <2>1. Clocks /\ solve.crew \in Nat
    BY ProcessAssumption DEF IInv, ProcessInv, Clocks, SolveRow
  <2>2. solve.search \in Nat /\ solve.inside \in Nat /\ solve.outside \in Nat /\ solve.expiry = 2700
    BY <2>1 DEF Clocks, SolveRow, JobExpiry
  <2>3. solve.search <= 1800
    BY <2>1, <2>2, BudgetsAgree DEF Clocks
  <2> QED BY <2>2, <2>3 DEF Elapsed
<1> QED BY <1>1, <1>2, InductiveInvariant, PTL

\* It adds up, in every shift, to the totals that were shown under the cells
\* (computeShiftTotals, replaceAll).
THEOREM TotalsStored == Spec => TotalsAreStored
<1> DEFINE Step == form # None /\ form' = None /\ saved' = "stored" =>
                     \A s \in Shift :
                       ShiftTotal(form.matrix, s) = MapThenSumSet(LAMBDA r : needs'[form.firm][<<r, s>>], Role)
<1>1. IInv /\ [Next]_vars => [Step]_<<form, saved, needs>>
  <2> SUFFICES ASSUME IInv, [Next]_vars, form # None, form' = None, saved' = "stored", NEW s \in Shift
               PROVE  ShiftTotal(form.matrix, s) = MapThenSumSet(LAMBDA r : needs'[form.firm][<<r, s>>], Role)
    OBVIOUS
  <2>1. saved # "stored" /\ form \in FormRow /\ NeedsOK
    BY DEF IInv, FormInv
  <2>2. Submit
    BY <2>1 DEF Next, vars, formVars, FormNext, CloseForm, OpenForm, SetCell
  <2>3. needs'[form.firm] = form.matrix
    <3>1. needs' = [needs EXCEPT ![form.firm] = Stored(RowsOf(form.matrix), form.firm)]
      BY <2>2 DEF Submit
    <3>2. Stored(RowsOf(form.matrix), form.firm) = form.matrix
      BY <2>1, StoredMatrix DEF FormRow
    <3>3. needs = [c \in Firm |-> needs[c]] /\ form.firm \in Firm
      BY <2>1 DEF FormRow, NeedsOK, Matrices
    <3> QED BY <3>1, <3>2, <3>3
  <2>4. CellErrors(form.matrix) = {}
    BY <2>2 DEF Submit
  <2> DEFINE N == form.matrix
  <2>5. N \in [Cell -> Nat] /\ \A cell \in Cell : IsWhole(N[cell])
    <3>1. N \in [Cell -> Text \cup 0 .. DbMax]
      BY <2>1 DEF FormRow
    <3>2. \A cell \in Cell : IsWhole(N[cell]) /\ ~(N[cell] < 0)
      BY <2>4 DEF CellErrors
    <3>3. \A cell \in Cell : N[cell] \in Nat
      BY <3>1, <3>2, FormAssumption DEF IsWhole
    <3> QED BY <3>1, <3>2, <3>3
  <2> HIDE DEF N
  <2>6. IsFiniteSet(Role) /\ IsFiniteSet(Cell) /\ \A cell \in Cell : InShift(N, s)[cell] \in Int
    BY <2>5, FormAssumption, ShiftFinite, FS_Product DEF Cell, InShift
  <2>7. ShiftTotal(N, s) = MapThenSumSet(LAMBDA r : N[<<r, s>>], Role)
    <3>1. ShiftTotal(N, s) = SumOf(InShift(N, s), Cell)
      BY <2>6, ColumnTotal
    <3>2. SumOf(InShift(N, s), Cell) = SumOf(OfShift(N, s), Role)
      BY <2>5, <2>6, CellsOfShift
    <3>3. MapThenSumSet(LAMBDA r : N[<<r, s>>], Role) = SumOf(OfShift(N, s), Role)
      BY <2>6, RolesTotal
    <3> QED BY <3>1, <3>2, <3>3
  <2>8. MapThenSumSet(LAMBDA r : needs'[form.firm][<<r, s>>], Role) = MapThenSumSet(LAMBDA r : N[<<r, s>>], Role)
    BY <2>3 DEF N
  <2> QED BY <2>7, <2>8 DEF N
<1>2. [][Step]_<<form, saved, needs>> => TotalsAreStored
  BY PTL DEF TotalsAreStored, Step
<1> HIDE DEF Step
<1> QED BY <1>1, <1>2, InductiveInvariant, PTL DEF Spec

\* What the grid and the form hold arrives as it was on the screen, for any sizes
\* (availabilityDraft.ts, staffingRequirementsMatrix.ts, replaceMonth, replaceAll).
THEOREM EntriesArrived == Spec => EntriesArrive
<1>1. Spec => []DraftIsPayload /\ []RefusedIsTooLarge /\ SavedIsMarked /\ StoredIsShown /\ TotalsAreStored
  BY DraftPayable, RefusedForSize, SavedMarked, StoredShown, TotalsStored
<1> QED BY <1>1 DEF EntriesArrive

\* The solver is given what availability allows; what CP-SAT proves optimal leaves as few
\* places open as any roster, and no more hours but for one tie, and nobody who owes hours
\* a shift he could work; its alerts tell all of what is missing, to the place and the hour.
\* The matrix may lack cells, where nothing bounds who works (problem.ts, solve_roster.py).
THEOREM RosterBest == Spec => []RosterIsBest
<1>1. ASSUME IInv, answer # None, answer.status = "optimal"
      PROVE  CoverageComesFirst /\ HoursComeSecond /\ OwedHoursHadNoPlace /\ OptimalTellsHours
  <2> DEFINE best == answer.sol
  <2>1. /\ Posed(problem) /\ best \in Solutions(problem) /\ answer.alerts = Alerts(problem, best)
        /\ Cost(problem, best) = Min({Cost(problem, sol) : sol \in Solutions(problem)})
    BY <1>1, PosedProblem DEF IInv, ProblemInv, Answered
  <2> HIDE DEF best
  <2>2. \A sol \in Solutions(problem) : Cost(problem, best) <= Cost(problem, sol)
    BY <2>1, OptimalCostsLeast
  <2>3. CoverageComesFirst
    BY <2>1, <2>2, PlacesFirst DEF CoverageComesFirst, best
  <2>4. HoursComeSecond
    <3> SUFFICES ASSUME NEW sol \in Solutions(problem), TotalShort(problem, sol) = TotalShort(problem, best),
                        TotalDeficit(problem, best) > TotalDeficit(problem, sol)
                 PROVE  /\ TotalDeficit(problem, best) = TotalDeficit(problem, sol) + 1
                        /\ Spread(problem, best) = 0 /\ Spread(problem, sol) = 100
      BY DEF HoursComeSecond, best
    <3> QED BY <2>1, <2>2, HoursSecond
  <2>5. OptimalTellsHours
    <3> SUFFICES ASSUME NEW a \in answer.alerts.shortfall
                 PROVE  WorkedBy(best.slots, a[1]) + a[2] = problem.crew[a[1]].min
      BY DEF OptimalTellsHours, best
    <3>1. answer.alerts.shortfall = {<<w, best.deficit[w]>> : w \in {v \in DOMAIN problem.crew : best.deficit[v] > 0}}
      BY <2>1 DEF Alerts
    <3>2. PICK w \in DOMAIN problem.crew : a = <<w, best.deficit[w]>> /\ best.deficit[w] > 0
      BY <3>1
    <3>3. best.deficit[w] = Deficit(problem, best.slots, w)
      BY <2>1, <2>2, SlacksAreTight
    <3>4. WorkedBy(best.slots, w) \in Nat /\ problem.crew[w].min \in Nat
      <4>1. best.slots \in SUBSET SolverVars(problem)
        BY <2>1, CostParts
      <4> QED BY <2>1, <4>1, Numbers DEF Posed
    <3> QED BY <3>2, <3>3, <3>4 DEF Deficit
  <2>6. OwedHoursHadNoPlace
    <3> SUFFICES ASSUME NEW v \in SolverVars(problem) \ best.slots, best.deficit[v[1]] >= 2,
                        ~(WorkedBy(best.slots, v[1]) + ShiftHours > problem.crew[v[1]].max),
                        ~(Cardinality(DayOf(best.slots, v[1], v[2])) >= 2),
                        LET cell == <<problem.crew[v[1]].role, v[3]>>
                        IN ~(/\ cell \in DOMAIN problem.matrix
                             /\ On(problem, best.slots, <<v[2], cell>>) >= problem.matrix[cell])
                 PROVE  FALSE
      BY DEF OwedHoursHadNoPlace, DayOf, best
    <3> DEFINE cell == <<problem.crew[v[1]].role, v[3]>>
               slot == SlotOf(problem, v)
    <3>1. best.slots \in SUBSET SolverVars(problem)
      BY <2>1, CostParts
    <3>2. /\ WorkedBy(best.slots, v[1]) \in Nat /\ Cardinality(DayOf(best.slots, v[1], v[2])) \in Nat
          /\ v[1] \in DOMAIN problem.crew /\ v[2] \in problem.days /\ problem.crew[v[1]].max \in Nat
      BY <2>1, <3>1, Numbers, VarsFinite DEF Posed
    <3>3. WorkedBy(best.slots, v[1]) + ShiftHours <= problem.crew[v[1]].max
          /\ Cardinality(DayOf(best.slots, v[1], v[2])) < 2
      BY <3>2 DEF ShiftHours
    <3>4. ASSUME slot \in DOMAIN problem.requirements PROVE Short(problem, best.slots, slot) > 0
      <4>1. problem.requirements = [s \in problem.days \X DOMAIN problem.matrix |-> problem.matrix[s[2]]]
        BY <1>1 DEF IInv, ProblemInv, Asked, ProblemTypeOK
      <4>2. slot = <<v[2], cell>> /\ cell \in DOMAIN problem.matrix /\ problem.requirements[slot] = problem.matrix[cell]
        BY <3>4, <4>1 DEF SlotOf
      <4>3. /\ On(problem, best.slots, slot) \in Nat /\ problem.requirements[slot] \in Nat
            /\ Short(problem, best.slots, slot) = problem.requirements[slot] - On(problem, best.slots, slot)
        BY <2>1, <3>1, <3>4, Numbers
      <4>4. ~(On(problem, best.slots, slot) >= problem.matrix[cell])
        BY <4>2
      <4> HIDE DEF slot, cell
      <4> QED BY <4>2, <4>3, <4>4
    <3> QED BY <2>1, <2>2, <3>3, <3>4, NoShiftLeft
  <2> QED BY <2>3, <2>4, <2>5, <2>6
<1>2. ~(answer # None /\ answer.status = "optimal") => CoverageComesFirst /\ HoursComeSecond /\ OwedHoursHadNoPlace /\ OptimalTellsHours
  BY DEF CoverageComesFirst, HoursComeSecond, OwedHoursHadNoPlace, OptimalTellsHours
<1>3. IInv => ExcludedIsExcluded /\ CoverageComesFirst /\ HoursComeSecond /\ OwedHoursHadNoPlace /\ OptimalTellsHours
  BY <1>1, <1>2 DEF IInv, ProblemInv
<1>4. OpenPlacesAreTold /\ OwedHoursAreTold /\ OptimalTellsHours <=> AlertsAreExact
  BY DEF AlertsAreExact
<1>5. ExcludedIsExcluded /\ CoverageComesFirst /\ HoursComeSecond /\ OwedHoursHadNoPlace /\ AlertsAreExact <=> RosterIsBest
  BY DEF RosterIsBest
<1> QED BY <1>3, <1>4, <1>5, InductiveInvariant, AlertsTell, PTL
=============================================================================
