----------------------------- MODULE QwenQuota -----------------------------
(***************************************************************************)
(* qwen_quota: the usage of a plan key, estimated from an anchor, the      *)
(* reading of a dashboard that the user stores as a preference, and from   *)
(* the calls this host has recorded since, in one file per month.          *)
(*                                                                         *)
(* A refresh reads the preference, walks the files its span begins and     *)
(* ends in, reads the preference again for the key and writes the counts.  *)
(* A render serves them if the key is that of the anchor in force.  The    *)
(* reading of the week is left out of the figure it is added to.           *)
(***************************************************************************)
EXTENDS Naturals, FiniteSets

CONSTANTS
    Servers,
    None,            \* no anchor, no entry, no figure
    FiveHours,       \* _FIVE_HOUR_SECONDS in the unit of the model
    Week, Month,     \* lengths of the fixed windows and of the files
    Phase,           \* of its week that has passed at time 0
    FiveHourLimit,
    Readings,        \* five-hour readings of the dashboard
    MaxNow,          \* bound: the time
    MaxEvents        \* bound: calls, settings and faults, all together

ASSUME ConstantsAssumption ==
    /\ FiveHours \in Nat \ {0} /\ Week \in Nat \ {0} /\ Month \in Nat \ {0}
    /\ Phase \in Nat /\ FiveHours <= Week /\ Week <= Month
    /\ FiveHourLimit \in Nat /\ Readings \subseteq Nat
    /\ MaxNow \in Nat /\ MaxEvents \in Nat

VARIABLES
    now,
    calls,     \* times of the recorded calls, at most one per unit
    anchor,    \* the preference: [five, at] or None
    cache,     \* the entry of the cache file or None
    job,       \* of each server, its "qwen-quota" refresh
    events     \* so far

vars == <<now, calls, anchor, cache, job, events>>

\* A time less a span, which ends at the beginning of all records.
Before(t, span) == IF t < span THEN 0 ELSE t - span

WeekStart(t) == Before(t, (t + Phase) % Week)

MonthOf(t) == t \div Month

CallsIn(from) == Cardinality({t \in calls : t >= from})

-----------------------------------------------------------------------------
(* What a render shows.                                                    *)

Expired(a) == now - a.at >= FiveHours

Exhausted(a) == a.five >= FiveHourLimit

\* In FiveHours parts of a call: the reading decays along its window.
FiveHourUsed(entry, a) ==
    IF Expired(a) THEN FiveHours * entry.five
    ELSE IF Exhausted(a) THEN FiveHours * a.five
    ELSE a.five * (FiveHours - (now - a.at)) + FiveHours * entry.since

WeekUsed(entry, a) == IF WeekStart(now) > a.at THEN None ELSE entry.since

\* The entry a render may use, if any.
Served == IF cache # None /\ cache.key = anchor THEN cache ELSE None

\* Mutant of Asks: only a missing entry is asked for.
AsksOnce == Served = None

Asks == Served # None => ~ cache.fresh

-----------------------------------------------------------------------------
(* The user, the calls, time.                                              *)

\* An anchor may be left from an earlier day.
Init ==
    /\ now = 0 /\ calls = {}
    /\ anchor \in [five : Readings, at : {0}] \cup {None}
    /\ cache = None
    /\ job = [s \in Servers |-> None]
    /\ events = 0

SetAnchor ==
    /\ events < MaxEvents
    /\ anchor' \in [five : Readings, at : {now}] \cup {None}
    /\ events' = events + 1
    /\ UNCHANGED <<now, calls, cache, job>>

Call ==
    /\ now \notin calls /\ events < MaxEvents
    /\ calls' = calls \cup {now}
    /\ events' = events + 1
    /\ UNCHANGED <<now, anchor, cache, job>>

\* Past its TTL an entry is stale; so is every entry a unit of time later.
Expire ==
    /\ cache # None /\ cache.fresh
    /\ cache' = [cache EXCEPT !.fresh = FALSE]
    /\ UNCHANGED <<now, calls, anchor, job, events>>

Tick ==
    /\ now < MaxNow
    /\ now' = now + 1
    /\ cache' = IF cache = None THEN None ELSE [cache EXCEPT !.fresh = FALSE]
    /\ UNCHANGED <<calls, anchor, job, events>>

-----------------------------------------------------------------------------
(* refresh_qwen_quota_cache.                                               *)

\* Mutant of UsageMonths: the file of today alone.
UsageMonthOfToday(spanStart) == {MonthOf(now)}

\* _usage_file_paths: the months of the two ends of the span, and no other.
UsageMonths(spanStart) == {MonthOf(now), MonthOf(spanStart)}

\* `known` is a history of the run: the calls it must count.
Begin(s) ==
    /\ job[s] = None /\ anchor # None /\ Asks
    /\ LET five == Before(now, FiveHours)
           spanStart == IF anchor.at < five THEN anchor.at ELSE five
       IN  job' = [job EXCEPT ![s] =
               [step |-> "walk", at |-> anchor.at, from |-> five, months |-> UsageMonths(spanStart),
                since |-> 0, five |-> 0, known |-> CallsIn(anchor.at)]]
    /\ UNCHANGED <<now, calls, anchor, cache, events>>

\* One file read: its calls of the span count for either figure or for both.
AfterFile(j, m) ==
    LET file == {t \in calls : MonthOf(t) = m}
    IN  [step |-> IF j.months = {m} THEN "key" ELSE "walk",
         at |-> j.at, from |-> j.from, months |-> j.months \ {m},
         since |-> j.since + Cardinality({t \in file : t >= j.at}),
         five |-> j.five + Cardinality({t \in file : t >= j.from}),
         known |-> j.known]

\* The files are read in the order of their months.
ReadFile(s) ==
    /\ job[s] # None /\ job[s].step = "walk"
    /\ \E m \in job[s].months :
          /\ \A n \in job[s].months : m <= n
          /\ job' = [job EXCEPT ![s] = AfterFile(job[s], m)]
    /\ UNCHANGED <<now, calls, anchor, cache, events>>

\* The key is the preference of now, and not of the walk.
ReadKey(s) ==
    /\ job[s] # None /\ job[s].step = "key"
    /\ job' = [job EXCEPT ![s] =
           [step |-> "write",
            entry |-> [key |-> anchor, at |-> @.at, since |-> @.since, five |-> @.five,
                       known |-> @.known, fresh |-> TRUE]]]
    /\ UNCHANGED <<now, calls, anchor, cache, events>>

Write(s) ==
    /\ job[s] # None /\ job[s].step = "write"
    /\ cache' = job[s].entry
    /\ job' = [job EXCEPT ![s] = None]
    /\ UNCHANGED <<now, calls, anchor, events>>

\* The write fails, or the server dies.
Abandon(s) ==
    /\ job[s] # None /\ events < MaxEvents
    /\ events' = events + 1
    /\ job' = [job EXCEPT ![s] = None]
    /\ UNCHANGED <<now, calls, anchor, cache>>

Refresh(s) == Begin(s) \/ ReadFile(s) \/ ReadKey(s) \/ Write(s)

Next ==
    \/ SetAnchor \/ Call \/ Expire \/ Tick
    \/ \E s \in Servers : Refresh(s) \/ Abandon(s)

\* Sessions render, entries grow stale and a refresh runs to its end.
Fairness == WF_vars(Expire) /\ \A s \in Servers : WF_vars(Refresh(s))

Spec == Init /\ [][Next]_vars /\ Fairness

-----------------------------------------------------------------------------

\* As long as the week of the anchor an entry was counted from lasts, the
\* entry holds every call recorded before the refresh began and none from
\* before the anchor, across the turn of a month and with calls arriving
\* between the reads of two files (qwen_quota.py: "exact while the anchor
\* sits inside the current window").
WeekIsExact ==
    cache # None /\ WeekStart(now) <= cache.at =>
        cache.since \in cache.known..CallsIn(cache.at)

\* The window of five hours has no part in a month that the walk leaves out.
WindowIsWalked(a) ==
    MonthOf(Before(now, FiveHours)) \in {MonthOf(now), MonthOf(a.at)}

\* Once the user, the calls and the clock rest, an anchor shows the figures
\* of the calls there are, whatever anchor an earlier refresh had counted
\* from or was keyed to: the calls of its week, and the calls of the last
\* five hours once its own reading has left that window.  Until then the
\* figure is never below the calls since, as far as the limit.
FiguresCatchUp ==
    <>[](anchor # None =>
            /\ Served # None
            /\ WeekUsed(Served, anchor) \in {None, CallsIn(anchor.at)}
            /\ Expired(anchor) /\ WindowIsWalked(anchor) =>
                  FiveHourUsed(Served, anchor) = FiveHours * CallsIn(Before(now, FiveHours))
            /\ ~ Expired(anchor) =>
                  \/ FiveHourUsed(Served, anchor) >= FiveHours * FiveHourLimit
                  \/ FiveHourUsed(Served, anchor) >= FiveHours * CallsIn(anchor.at))
=============================================================================
