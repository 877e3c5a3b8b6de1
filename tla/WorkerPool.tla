----------------------------- MODULE WorkerPool -----------------------------
(***************************************************************************)
(* server_jobs.WorkerPool: a fixed number of threads draining one queue,   *)
(* with at most one job in flight for each key.                            *)
(*                                                                         *)
(* submit() claims the key under the lock and puts the job on the queue    *)
(* after letting the lock go; a worker counts itself in under the lock,    *)
(* runs the job without it and gives the claim back under it; stop() sets  *)
(* its flag under the lock and then puts one sentinel for each thread.     *)
(* Each hold of the lock and each queue operation is one step.             *)
(***************************************************************************)
EXTENDS Naturals, Sequences, FiniteSets

CONSTANTS
    Workers,     \* the worker threads; the pool's size is their number
    Callers,     \* threads that call submit and stop
    Keys,        \* (kind, str(argument)) pairs
    Shutdown,    \* the sentinel stop() puts on the queue
    NoKey        \* no job in hand

ASSUME ConstantsAssumption ==
    /\ IsFiniteSet(Workers)
    /\ Shutdown \notin Keys
    /\ NoKey \notin Keys

VARIABLES
    queue,       \* _queue
    claimed,     \* _claimed
    inFlight,    \* _in_flight
    peak,        \* _peak_in_flight
    stopped,     \* _stopped
    worker,      \* where each thread of _threads is
    inHand,      \* the job each worker has taken
    caller,      \* where each caller is
    offered,     \* the key each caller is putting
    left         \* sentinels or joins a stopping caller has yet to do

poolVars == <<queue, claimed, inFlight, peak, stopped>>
workerVars == <<worker, inHand>>
callerVars == <<caller, offered, left>>
vars == <<poolVars, workerVars, callerVars>>

Size == Cardinality(Workers)

TypeOK ==
    /\ queue \in Seq(Keys \cup {Shutdown})
    /\ claimed \in SUBSET Keys
    /\ inFlight \in Nat
    /\ peak \in Nat
    /\ stopped \in BOOLEAN
    /\ worker \in [Workers -> {"new", "getting", "empty", "taken", "running",
                               "ending", "exited"}]
    /\ inHand \in [Workers -> Keys \cup {NoKey}]
    /\ caller \in [Callers -> {"idle", "putting", "sentinels", "joining"}]
    /\ offered \in [Callers -> Keys \cup {NoKey}]
    /\ left \in [Callers -> Nat]

Init ==
    /\ queue = <<>>
    /\ claimed = {}
    /\ inFlight = 0
    /\ peak = 0
    /\ stopped = FALSE
    /\ worker = [w \in Workers |-> "new"]
    /\ inHand = [w \in Workers |-> NoKey]
    /\ caller = [c \in Callers |-> "idle"]
    /\ offered = [c \in Callers |-> NoKey]
    /\ left = [c \in Callers |-> 0]

Started == \A w \in Workers : worker[w] # "new"

-----------------------------------------------------------------------------
(* The callers.                                                            *)

\* start: every thread is published and started in one hold of the lock, and
\* only once, and never after stop.
Start ==
    /\ ~Started
    /\ ~stopped
    /\ worker' = [w \in Workers |-> "getting"]
    /\ UNCHANGED <<poolVars, inHand, callerVars>>

\* Mutant of SubmitClaims: the key's claim is not looked at.
SubmitClaimsAnyway(c, k) ==
    /\ caller[c] = "idle"
    /\ ~stopped
    /\ claimed' = claimed \cup {k}
    /\ caller' = [caller EXCEPT ![c] = "putting"]
    /\ offered' = [offered EXCEPT ![c] = k]
    /\ UNCHANGED <<queue, inFlight, peak, stopped, workerVars, left>>

\* submit, under the lock: an unclaimed key is claimed.  A claimed key or a
\* stopped pool is a refusal, which changes nothing.
SubmitClaims(c, k) ==
    /\ caller[c] = "idle"
    /\ ~stopped
    /\ k \notin claimed
    /\ claimed' = claimed \cup {k}
    /\ caller' = [caller EXCEPT ![c] = "putting"]
    /\ offered' = [offered EXCEPT ![c] = k]
    /\ UNCHANGED <<queue, inFlight, peak, stopped, workerVars, left>>

\* submit, after the lock: by now the pool may have stopped.
SubmitPuts(c) ==
    /\ caller[c] = "putting"
    /\ queue' = Append(queue, offered[c])
    /\ caller' = [caller EXCEPT ![c] = "idle"]
    /\ offered' = [offered EXCEPT ![c] = NoKey]
    /\ UNCHANGED <<claimed, inFlight, peak, stopped, workerVars, left>>

\* stop, under the lock; a second stop returns at once.
StopBegins(c) ==
    /\ caller[c] = "idle"
    /\ ~stopped
    /\ stopped' = TRUE
    /\ caller' = [caller EXCEPT ![c] = "sentinels"]
    /\ left' = [left EXCEPT ![c] = IF Started THEN Size ELSE 0]
    /\ UNCHANGED <<queue, claimed, inFlight, peak, workerVars, offered>>

StopPutsSentinel(c) ==
    /\ caller[c] = "sentinels"
    /\ IF left[c] > 0
       THEN /\ queue' = Append(queue, Shutdown)
            /\ left' = [left EXCEPT ![c] = @ - 1]
            /\ UNCHANGED caller
       ELSE /\ caller' = [caller EXCEPT ![c] = "joining"]
            /\ left' = [left EXCEPT ![c] = IF Started THEN Size ELSE 0]
            /\ UNCHANGED queue
    /\ UNCHANGED <<claimed, inFlight, peak, stopped, workerVars, offered>>

\* Each join ends when its thread does or after two seconds, so that it may
\* end in any state.
StopJoins(c) ==
    /\ caller[c] = "joining"
    /\ IF left[c] > 0
       THEN left' = [left EXCEPT ![c] = @ - 1] /\ UNCHANGED caller
       ELSE caller' = [caller EXCEPT ![c] = "idle"] /\ UNCHANGED left
    /\ UNCHANGED <<poolVars, workerVars, offered>>

-----------------------------------------------------------------------------
(* The workers: _drain.                                                    *)

Goto(w, phase) == worker' = [worker EXCEPT ![w] = phase]

\* Mutant of GetItem: the sentinel is not told from a job.
GetItemTakesSentinel(w) ==
    /\ worker[w] = "getting"
    /\ queue # <<>>
    /\ queue' = Tail(queue)
    /\ Goto(w, "taken")
    /\ inHand' = [inHand EXCEPT ![w] = Head(queue)]
    /\ UNCHANGED <<claimed, inFlight, peak, stopped, callerVars>>

\* Mutant of GetItem: the claim goes back when the job leaves the queue.
GetItemFreesClaim(w) ==
    /\ worker[w] = "getting"
    /\ queue # <<>>
    /\ queue' = Tail(queue)
    /\ IF Head(queue) = Shutdown
       THEN Goto(w, "exited") /\ UNCHANGED inHand
       ELSE Goto(w, "taken") /\ inHand' = [inHand EXCEPT ![w] = Head(queue)]
    /\ claimed' = claimed \ {Head(queue)}
    /\ UNCHANGED <<inFlight, peak, stopped, callerVars>>

\* Queue.get: a sentinel ends the thread, anything else is a job.
GetItem(w) ==
    /\ worker[w] = "getting"
    /\ queue # <<>>
    /\ queue' = Tail(queue)
    /\ IF Head(queue) = Shutdown
       THEN Goto(w, "exited") /\ UNCHANGED inHand
       ELSE Goto(w, "taken") /\ inHand' = [inHand EXCEPT ![w] = Head(queue)]
    /\ UNCHANGED <<claimed, inFlight, peak, stopped, callerVars>>

\* A quarter of a second without an item.
GetTimesOut(w) ==
    /\ worker[w] = "getting"
    /\ queue = <<>>
    /\ Goto(w, "empty")
    /\ UNCHANGED <<poolVars, inHand, callerVars>>

\* The flag is read without the lock, some time after the queue was empty.
CheckStopped(w) ==
    /\ worker[w] = "empty"
    /\ Goto(w, IF stopped THEN "exited" ELSE "getting")
    /\ UNCHANGED <<poolVars, inHand, callerVars>>

\* Under the lock, before the runner.
CountIn(w) ==
    /\ worker[w] = "taken"
    /\ inFlight' = inFlight + 1
    /\ peak' = IF inFlight' > peak THEN inFlight' ELSE peak
    /\ Goto(w, "running")
    /\ UNCHANGED <<queue, claimed, stopped, inHand, callerVars>>

\* Mutant of JobEnds: without the finally, a job that raises is not counted out.
JobEndsWithoutFinally(w) ==
    /\ worker[w] = "running"
    /\ \/ Goto(w, "ending") /\ UNCHANGED inHand
       \/ Goto(w, "getting") /\ inHand' = [inHand EXCEPT ![w] = NoKey]
    /\ UNCHANGED <<poolVars, callerVars>>

\* The runner returns or raises anything at all: it is logged, no more.
JobEnds(w) ==
    /\ worker[w] = "running"
    /\ Goto(w, "ending")
    /\ UNCHANGED <<poolVars, inHand, callerVars>>

\* Mutant of CountOut: the claim is not given back.
CountOutKeepsClaim(w) ==
    /\ worker[w] = "ending"
    /\ inFlight' = inFlight - 1
    /\ inHand' = [inHand EXCEPT ![w] = NoKey]
    /\ Goto(w, "getting")
    /\ UNCHANGED <<claimed, queue, peak, stopped, callerVars>>

\* The finally clause, under the lock.
CountOut(w) ==
    /\ worker[w] = "ending"
    /\ inFlight' = inFlight - 1
    /\ claimed' = claimed \ {inHand[w]}
    /\ inHand' = [inHand EXCEPT ![w] = NoKey]
    /\ Goto(w, "getting")
    /\ UNCHANGED <<queue, peak, stopped, callerVars>>

WorkerStep(w) ==
    \/ GetItem(w) \/ GetTimesOut(w) \/ CheckStopped(w)
    \/ CountIn(w) \/ JobEnds(w) \/ CountOut(w)

Next ==
    \/ Start
    \/ \E c \in Callers :
          \/ \E k \in Keys : SubmitClaims(c, k)
          \/ SubmitPuts(c) \/ StopBegins(c) \/ StopPutsSentinel(c) \/ StopJoins(c)
    \/ \E w \in Workers : WorkerStep(w)

Spec == Init /\ [][Next]_vars

\* bind starts the pool; threads are scheduled; a call that has begun goes on;
\* and every job ends, by the timeouts of its own subprocesses and requests.
Fairness ==
    /\ WF_vars(Start)
    /\ \A w \in Workers : WF_vars(WorkerStep(w))
    /\ \A c \in Callers : WF_vars(SubmitPuts(c))

FairSpec == Spec /\ Fairness

-----------------------------------------------------------------------------
(* What the pool promises.                                                 *)

\* The workers that have counted themselves in and not yet out.
Busy == {w \in Workers : worker[w] \in {"running", "ending"}}

\* Where the job for k is, among the callers' hands, the queue and the
\* workers' hands.
Places(k) ==
    {<<"caller", c>> : c \in {d \in Callers : offered[d] = k}}
      \cup {<<"queue", i>> : i \in {j \in 1..Len(queue) : queue[j] = k}}
      \cup {<<"worker", w>> : w \in {v \in Workers : inHand[v] = k}}

\* A claimed key has exactly one job somewhere, and an unclaimed one none: no
\* claim leaks, which would keep a cache stale for the life of the server, and
\* no key is ever queued or run twice at once (submit and _drain).
ClaimsAreExact ==
    \A k \in Keys : Cardinality(Places(k)) = IF k \in claimed THEN 1 ELSE 0

\* The counters tell the truth, and no load lifts the number of jobs in flight
\* above the number of threads (_in_flight and _peak_in_flight).
CountersAreExact ==
    /\ inFlight = Cardinality(Busy)
    /\ peak <= Size

\* Each accepted job runs, unless the pool is stopped first (submit and
\* _drain).
AcceptedJobsRun ==
    \A k \in Keys : k \in claimed ~> (k \notin claimed \/ stopped)

\* A job is accepted where its key is claimed, begins where a worker counts
\* itself in, and is finished where the claim is given back.
JobOf(k) ==
    IF \E w \in Busy : inHand[w] = k THEN "running"
    ELSE IF k \in claimed THEN "waiting" ELSE "none"

Jobs == INSTANCE SingleFlight WITH
    open <- ~stopped,
    job <- [k \in Keys |-> JobOf(k)]

\* To its callers the pool is an atomic single-flight table (WorkerPool).
ImplementsSingleFlight == Jobs!Spec
=============================================================================
