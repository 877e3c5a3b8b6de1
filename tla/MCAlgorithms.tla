---------------------------- MODULE MCAlgorithms ----------------------------
(* Short inputs of each algorithm.                                         *)
EXTENDS Algorithms

MCDirectories == {"a", "b"}
MCTimes == 1..8
MCCounts == {1, 2}

MCBeaconLists ==
    {<<b>> : b \in Beacon({0, 5, 7})}
        \cup {<<[kind |-> "begin", eta |-> 5], [kind |-> k, eta |-> 0]>> : k \in {"report", "end"}}

\* Turns with no time, too early, at the end of the first hour, at the start of
\* the second, and too late.  One that has no id has no model either.
MCTurnLines ==
    {l \in Line({0, 1}, {0, 1, 3, 4, 6}, {"", "m"}) : l.kind = "turn" /\ l.id = 0 => l.model = ""}

MCMaxLength == [debounce |-> 4, anchors |-> 3, pace |-> 4, hooks |-> 4]
=============================================================================
