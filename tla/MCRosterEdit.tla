----------------------------- MODULE MCRosterEdit -----------------------------
(* Instances of RosterEdit that TLC checks: the three shifts of one day, two  *)
(* guards with different contracts, one of whom cannot work the last shift.   *)
EXTENDS RosterEdit, TLC

CONSTANTS w1, w2, e1, e2, e3

Slots == [date : {1}, shift : {"A", "B", "C"}]

Profiles ==
  [w \in Worker |->
     [role |-> "GUARD", status |-> "ACTIVE",
      minHours |-> IF w = w1 THEN 0 ELSE 16,
      maxHours |-> IF w = w1 THEN 8 ELSE 24,
      excluded |-> IF w = w1 THEN [date : {1}, shift : {"C"}] ELSE {}]]

Requirements ==
  [cell \in {"GUARD"} \X {"A", "B", "C"} |-> IF cell[2] = "A" THEN 2 ELSE 1]

EditorSymmetry == Permutations(Editor)
=============================================================================
