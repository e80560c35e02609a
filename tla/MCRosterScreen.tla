---------------------------- MODULE MCRosterScreen ----------------------------
(* Instances of RosterScreen that TLC checks.  A session bounds what a planner *)
(* does with each part of the page; together they cover each part in depth and *)
(* every pair of them.                                                         *)
EXTENDS RosterScreen

CONSTANTS c1, c2, m1, m2, s1, s2, w1, w2

Month1 == [company : {c1, c2}, month : {m1}]
FirstScope == [company : {c1}, month : {m1}]

S(switch, generate, gate, edit, import, click, elsewhere) ==
  [switch |-> switch, generate |-> generate, gate |-> gate, edit |-> edit,
   import |-> import, click |-> click, elsewhere |-> elsewhere]

Sessions == {S(1, 2, 0, 0, 0, 0, 0), S(1, 1, 0, 0, 0, 0, 1), S(2, 1, 1, 0, 0, 0, 0), S(0, 1, 0, 1, 0, 0, 0),
             S(0, 0, 1, 0, 0, 0, 2), S(0, 0, 0, 2, 0, 0, 0), S(1, 0, 0, 0, 2, 2, 0), S(1, 0, 0, 0, 1, 3, 0),
             S(2, 0, 0, 0, 1, 2, 0), S(1, 0, 0, 1, 1, 1, 0)}
=============================================================================
