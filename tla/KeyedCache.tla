----------------------------- MODULE KeyedCache -----------------------------
(***************************************************************************)
(* The caches that keep several entries in one file and are rewritten in   *)
(* place: the spend of the trailing windows and the hourly series          *)
(* (burnrate, pace), the bias factors (beacon), the session counts         *)
(* (sessions).  Refreshers of one server for different entries, and those  *)
(* of two servers for any, each read the file, change their entry and      *)
(* write everything back; opening the file for writing empties it.         *)
(***************************************************************************)
EXTENDS Naturals, SequencesExt, FiniteSetsExt

CONSTANTS
    Keys,         \* windows, periods or directories
    Threads,      \* pool threads, of all servers
    ServerOf,     \* of a thread
    Nothing,      \* no job
    Unreadable,   \* a file that is missing, empty or torn
    MaxEntries,   \* _SPEND_CACHE_MAX_ENTRIES, _PACE_CACHE_MAX_ENTRIES
    MaxSpend,     \* bound: how often what is cached changes or a day passes
    MaxFaults     \* bound: deaths and failures to write

\* `at` is the day of the time stamp.
KeyedEntry == [key : Keys, value : 0..MaxSpend, at : 0..MaxSpend]

ASSUME KeyedAssumption ==
    /\ IsFiniteSet(Keys)
    /\ ServerOf \in [Threads -> STRING]
    /\ MaxEntries \in Nat \ {0} /\ MaxSpend \in Nat /\ MaxFaults \in Nat

VARIABLES
    kind,      \* which of the caches this is; it never changes
    spend,     \* what the entries are computed from, growing
    today,     \* the days that have passed
    file,      \* its entries, oldest first, or Unreadable
    thread,
    faults

keyedVars == <<kind, spend, today, file, thread, faults>>

Servers == {ServerOf[t] : t \in Threads}

\* A job recomputes one entry; that of the session counts those of all the
\* directories the server knows at the time.
Jobs == IF kind = "sessions" THEN SUBSET Keys \ {{}} ELSE {{k} : k \in Keys}

\* `now` is the day a job began on, `copy` what the thread read, `value` what it computed, `mixed` says that
\* another thread has emptied or written the file since this one opened it.
\* History: `alone` says that none did, or was about to write, since it read.
Idle == [step |-> "idle", job |-> Nothing, now |-> 0, value |-> 0, copy |-> <<>>,
         mixed |-> FALSE, alone |-> TRUE]

KeysOf(entries) == {entries[i].key : i \in DOMAIN entries}

KeyedTypeOK ==
    /\ kind \in {"windows", "bias", "sessions"}
    /\ spend \in 0..MaxSpend /\ today \in 0..MaxSpend
    /\ file # Unreadable => /\ \A i \in DOMAIN file : file[i] \in KeyedEntry
                              /\ Cardinality(KeysOf(file)) = Len(file)
                              /\ kind = "windows" => Len(file) <= MaxEntries
    /\ \A t \in Threads : thread[t].step \in {"idle", "compute", "read", "open", "write"}
    /\ faults \in 0..MaxFaults

KeyedInit ==
    /\ kind \in {"windows", "bias", "sessions"}
    /\ spend = 0 /\ today = 0
    /\ file = Unreadable
    /\ thread = [t \in Threads |-> Idle]
    /\ faults = 0

-----------------------------------------------------------------------------

\* External: sessions are used, started and closed.
UseSessions ==
    /\ spend + today < MaxSpend
    /\ spend' = spend + 1
    /\ UNCHANGED <<kind, today, file, thread, faults>>

\* More than a day passes (_SESSION_COUNT_CACHE_MAX_AGE_SECONDS).  The time
\* stamps of the other caches only say when to ask again.
DayPasses ==
    /\ kind = "sessions" /\ spend + today < MaxSpend
    /\ today' = today + 1
    /\ UNCHANGED <<kind, spend, file, thread, faults>>

Claimed(s) == {thread[t].job : t \in {t \in Threads : ServerOf[t] = s}}

\* A render finds no entry, or one that has reached its TTL, and asks; the pool
\* refuses a job it has, and a thread takes it.  The session counts read the
\* cache between the scan and the counting; the others when they have a value.
Take(t, job) ==
    /\ thread[t].step = "idle"
    /\ job \notin Claimed(ServerOf[t])
    /\ thread' = [thread EXCEPT ![t] = [Idle EXCEPT !.step = IF kind = "sessions" THEN "read" ELSE "compute",
                                                    !.job = job, !.now = today]]
    /\ UNCHANGED <<kind, spend, today, file, faults>>

\* _sum_window_spend, _walk_pace_hourly, _walker_subcommand, _count_one
Compute(t) ==
    /\ thread[t].step = "compute"
    /\ thread' = [thread EXCEPT ![t].value = spend,
                                ![t].step = IF kind = "sessions" THEN "open" ELSE "read"]
    /\ UNCHANGED <<kind, spend, today, file, faults>>

Writing(t) == thread[t].step = "write"

\* The thread holds a copy it is to write back.
HoldsCopy(t) ==
    \/ thread[t].step \in {"open", "write"}
    \/ thread[t].step = "compute" /\ kind = "sessions"

\* A file that does not parse reads as no entries.
ReadEntries(t) ==
    /\ thread[t].step = "read"
    /\ thread' = [thread EXCEPT
          ![t].copy = IF file = Unreadable THEN <<>> ELSE file,
          ![t].alone = ~\E u \in Threads \ {t} : Writing(u),
          ![t].step = IF kind = "sessions" THEN "compute" ELSE "open"]
    /\ UNCHANGED <<kind, spend, today, file, faults>>

\* What it is to the other threads that t opens or writes the file.
Disturbed(t, new) ==
    [u \in Threads |->
        IF u = t THEN new
        ELSE [thread[u] EXCEPT !.alone = ~HoldsCopy(u), !.mixed = Writing(u)]]

\* open(path, "w") empties the file.
Open(t) ==
    /\ thread[t].step = "open"
    /\ file' = Unreadable
    /\ thread' = Disturbed(t, [thread[t] EXCEPT !.step = "write"])
    /\ UNCHANGED <<kind, spend, today, faults>>

Remaining(entries, gone) ==
    FlattenSeq([i \in DOMAIN entries |-> IF entries[i] \in gone THEN <<>> ELSE <<entries[i]>>])

\* The entries that the job does not recompute.
Remade(job) == {e \in KeyedEntry : e.key \in job}
Others(entries, job) == Remaining(entries, Remade(job))

Made(job, value, now) == {[key |-> k, value |-> value, at |-> now] : k \in job}

\* What no save of the session counts writes again: counts that were more than
\* a day old when the job began, of directories it does not recount.
Outdated(now) == IF kind = "sessions" THEN {e \in KeyedEntry : e.at < now} ELSE {}

\* Mutant of Updated: the oldest entries are kept.
UpdatedOldest(copy, job, value, now) ==
    LET all == Remaining(copy, Remade(job) \cup Outdated(now)) \o SetToSeq(Made(job, value, now))
    IN  IF kind = "windows" /\ Len(all) > MaxEntries THEN SubSeq(all, 1, MaxEntries) ELSE all

\* Mutant of Updated: nothing is shed.
UpdatedUnpruned(copy, job, value, now) == Others(copy, job) \o SetToSeq(Made(job, value, now))

\* Mutant of Updated: a count is outdated that was taken before this job began.
UpdatedTooStrict(copy, job, value, now) ==
    LET old == {e \in KeyedEntry : kind = "sessions" /\ e.at <= now}
        all == Remaining(copy, Remade(job) \cup old) \o SetToSeq(Made(job, value, now))
    IN  IF kind = "windows" /\ Len(all) > MaxEntries
        THEN SubSeq(all, Len(all) - MaxEntries + 1, Len(all)) ELSE all

\* The entries of the job are the newest; the windows keep so many of them, and
\* the session counts those that are not outdated.
Updated(copy, job, value, now) ==
    LET all == Remaining(copy, Remade(job) \cup Outdated(now)) \o SetToSeq(Made(job, value, now))
    IN  IF kind = "windows" /\ Len(all) > MaxEntries
        THEN SubSeq(all, Len(all) - MaxEntries + 1, Len(all)) ELSE all

Release(t) == Disturbed(t, Idle)

\* The text goes in and the file is closed.  Over what another thread has
\* written since this one opened the file it may leave a mixture.
Write(t) ==
    /\ Writing(t)
    /\ LET new == Updated(thread[t].copy, thread[t].job, thread[t].value, thread[t].now)
       IN  file' \in {new} \cup (IF thread[t].mixed THEN {Unreadable} ELSE {})
    /\ thread' = Release(t)
    /\ UNCHANGED <<kind, spend, today, faults>>

\* The file cannot be opened, or not be written to the end.
FailToWrite(t) ==
    /\ thread[t].step \in {"open", "write"}
    /\ faults < MaxFaults
    /\ faults' = faults + 1
    /\ thread' = IF Writing(t) THEN Release(t) ELSE [thread EXCEPT ![t] = Idle]
    /\ UNCHANGED <<kind, spend, today, file>>

\* A server dies, wherever its threads are; the next one starts idle.
Die(s) ==
    /\ faults < MaxFaults
    /\ faults' = faults + 1
    /\ thread' = [t \in Threads |-> IF ServerOf[t] = s THEN Idle ELSE thread[t]]
    /\ UNCHANGED <<kind, spend, today, file>>

Work(t) == (\E job \in Jobs : Take(t, job)) \/ Compute(t) \/ ReadEntries(t) \/ Open(t) \/ Write(t)

KeyedNext ==
    \/ UseSessions \/ DayPasses
    \/ \E t \in Threads : Work(t) \/ FailToWrite(t)
    \/ \E s \in Servers : Die(s)

\* Threads are scheduled; entries reach their TTL and sessions render, so jobs
\* keep being asked for, and the queue of a pool gives each its turn.
Fairness ==
    /\ \A t \in Threads : WF_keyedVars(Work(t))
    /\ \A s \in Servers, k \in Keys : SF_keyedVars(\E t \in Threads : ServerOf[t] = s /\ Take(t, {k}))

KeyedSpec == KeyedInit /\ [][KeyedNext]_keyedVars /\ Fairness

-----------------------------------------------------------------------------

\* A thread that had the file to itself from its read to its write loses no
\* entry of another: those it did not recompute are all there, with the value
\* they had, but for the oldest beyond what the windows keep and for session
\* counts that were more than a day old when it began.  Whatever else an update
\* loses it loses to another that overlaps it.
LossesAreOverlaps ==
    [][\A t \in Threads :
          /\ thread[t].step = "open" /\ thread[t].alone /\ thread'[t].step = "write"
                => thread[t].copy = IF file = Unreadable THEN <<>> ELSE file
          /\ Writing(t) /\ thread[t].alone /\ thread'[t] = Idle /\ file' # Unreadable
                => LET was == Others(thread[t].copy, thread[t].job)
                       is == Others(file', thread[t].job)
                   IN  /\ kind = "bias" => is = was
                       /\ kind = "windows" => /\ IsSuffix(is, was)
                                              /\ is = was \/ Len(file') = MaxEntries
                       /\ kind = "sessions" =>
                             Range(is) = {e \in Range(was) : e.at >= thread[t].now}]_keyedVars

Mixing == \E t, u \in Threads : t # u /\ Writing(t) /\ Writing(u)

\* Whatever overlapping writes, deaths and failures have lost or torn, once
\* no two write at the same moment every entry is there again and again, with
\* the value of now (a lost entry is asked for again, a torn file is
\* no entries, and room is made for a new key).
EntriesComeBack ==
    <>[]~Mixing =>
        \A k \in Keys : []<>(file # Unreadable /\ \E i \in DOMAIN file : file[i].key = k /\ file[i].value = spend)
=============================================================================
