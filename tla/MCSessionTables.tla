-------------------------- MODULE MCSessionTables --------------------------
(* SessionTables on a few transcripts, one of which has a subagent.        *)
EXTENDS SessionTables

CONSTANTS main, resumed, agent

MCSubagentsOf == [f \in Parents |-> IF f = main THEN {agent} ELSE {}]

Turn(id, at) == [kind |-> "turn", id |-> id, at |-> at]

\* Two turns that may be repeated, and a typed prompt.
MCLines == {Turn("x", 1), Turn("y", 1), [kind |-> "prompt"]}

\* Turns of one session in the order of their times.
MCTimedLines == {Turn("x", 1), Turn("y", 4), Turn("z", 6)}
=============================================================================
