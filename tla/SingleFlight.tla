---------------------------- MODULE SingleFlight ----------------------------
(***************************************************************************)
(* What the refresh pool promises to its callers, without threads, locks   *)
(* or a queue: of one key at most one job is waiting or running, and no    *)
(* job is accepted once the pool has been closed.                          *)
(***************************************************************************)
CONSTANT Keys   \* what a job is for: a refresh kind and its argument

VARIABLES
    job,        \* the job of each key: "none", "waiting" or "running"
    open        \* the pool still takes jobs

vars == <<job, open>>

Init ==
    /\ job = [k \in Keys |-> "none"]
    /\ open = TRUE

Accept(k) ==
    /\ open
    /\ job[k] = "none"
    /\ job' = [job EXCEPT ![k] = "waiting"]
    /\ UNCHANGED open

Begin(k) ==
    /\ job[k] = "waiting"
    /\ job' = [job EXCEPT ![k] = "running"]
    /\ UNCHANGED open

Finish(k) ==
    /\ job[k] = "running"
    /\ job' = [job EXCEPT ![k] = "none"]
    /\ UNCHANGED open

Close ==
    /\ open' = FALSE
    /\ UNCHANGED job

Next == Close \/ \E k \in Keys : Accept(k) \/ Begin(k) \/ Finish(k)

Spec == Init /\ [][Next]_vars
=============================================================================
