-------------------------- MODULE MCRosterLifecycle --------------------------
(* Model values for the instances of RosterLifecycle that TLC checks. *)
EXTENDS RosterLifecycle

CONSTANTS u1, u2, u3, e1, e2, p1, p2, d1, w1, w2, w3
=============================================================================
