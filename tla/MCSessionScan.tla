--------------------------- MODULE MCSessionScan ---------------------------
(* SessionScan with the kinds of process that its rules tell apart.        *)
EXTENDS SessionScan, TLC

CONSTANTS p1, p2, p3

Kind(name, agent) == [name |-> name, agent |-> agent, print |-> FALSE, here |-> TRUE,
                      marked |-> FALSE, readable |-> TRUE]

Kinds == {Kind("shell", FALSE), Kind("claude", TRUE), Kind("node", TRUE), Kind("node", FALSE)}

Symmetry == Permutations(Pids)
=============================================================================
