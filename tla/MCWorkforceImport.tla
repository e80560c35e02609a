-------------------------- MODULE MCWorkforceImport --------------------------
(* Instances of WorkforceImport: a few uploads of files that share workers. *)
EXTENDS WorkforceImport, TLC

CONSTANTS u1, u2, u3, w1, w2, w3

\* Files that share workers without naming the same ones.
MixedFiles == [u \in Upload |-> CASE u = u1 -> <<w1, w2>>
                                  [] u = u2 -> <<w2>>
                                  [] u = u3 -> <<w1>>]

\* Rows enough for a check interval of two to fall inside the file; w3 belongs
\* to another company, so its row fails.
LongFiles == [u \in Upload |-> <<w1, w2, w1, w3>>]

OneRowFiles == [u \in Upload |-> <<w1>>]
=============================================================================
