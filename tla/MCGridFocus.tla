---------------------------- MODULE MCGridFocus ----------------------------
(* Two months of different lengths and two companies, one with fewer workers. *)
EXTENDS GridFocus

MCSize == {[rows |-> 5, cols |-> 3], [rows |-> 5, cols |-> 2], [rows |-> 3, cols |-> 3]}
=============================================================================
