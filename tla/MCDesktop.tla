----------------------------- MODULE MCDesktop -----------------------------
EXTENDS Desktop
CONSTANTS n1, n2
\* A network with its password, and next to it one with a wrong one.
OneOfEach == {[n \in Names |-> IF n = n1 THEN "right" ELSE "wrong"]}
\* Any program, and one of the command line after it.
Small == starts = 2 => program.cmd \in {"none", "join", "id", "forget"}
=============================================================================
