------------------------------ MODULE TtlCache ------------------------------
(***************************************************************************)
(* ttlcache and its caller fable_quota: a cache of one entry in one file,  *)
(* read by renders and rewritten by refreshers on pool threads.            *)
(*                                                                         *)
(* write_ttl_cache writes `path.<pid>.tmp` and renames it over `path`.     *)
(* The file system is modelled as far as that protocol leans on it: names  *)
(* refer to inodes, opening for writing truncates, a rename moves a name,  *)
(* and an open handle follows its inode wherever that is named.            *)
(***************************************************************************)
EXTENDS Naturals, FiniteSets

CONSTANTS
    Threads,       \* pool threads that run the refresher
    Processes,     \* server processes
    ProcessOf,     \* the process of each thread
    Inodes,
    None,          \* no inode, no entry
    Empty, Torn,   \* of a file: nothing in it yet, or text that is no entry
    MaxReadings,   \* bound: distinct answers of the dashboard
    MaxFailures,   \* bound: failed fetches and failed writes
    MaxCrashes     \* bound: deaths of a process

ASSUME ConstantsAssumption ==
    /\ ProcessOf \in [Threads -> Processes]
    /\ None \notin Inodes
    /\ {None, Empty, Torn} \cap [reading : Nat, failed : BOOLEAN] = {}
    /\ MaxReadings \in Nat \ {0}
    /\ MaxFailures \in Nat
    /\ MaxCrashes \in Nat

\* Reading 0 is the null of an entry that only marks a failure.
Entry == [reading : 0..MaxReadings, failed : BOOLEAN]

Content == Entry \cup {Empty, Torn}

VARIABLES
    reading,    \* what the dashboard answers now
    content,    \* of each inode
    path,       \* the inode of the cache file
    tmp,        \* of each process, the inode of its temporary file
    expired,    \* the entry has reached its TTL, of a failure or of an answer
    thread,     \* of each thread, its step, the entry it writes, its handle
    render,     \* the render's handle, and whether it read a whole entry last
    failures, crashes

fileVars == <<content, path, tmp, expired>>
vars == <<reading, fileVars, thread, render, failures, crashes>>

Idle == [step |-> "idle", entry |-> [reading |-> 0, failed |-> TRUE], file |-> None]

TypeOK ==
    /\ reading \in 1..MaxReadings
    /\ content \in [Inodes -> Content]
    /\ path \in Inodes \cup {None}
    /\ tmp \in [Processes -> Inodes \cup {None}]
    /\ expired \in BOOLEAN
    /\ thread \in [Threads ->
                     [step : {"idle", "fetch", "merge", "open", "write", "replace"},
                      entry : Entry, file : Inodes \cup {None}]]
    /\ render \in [file : Inodes \cup {None}, whole : BOOLEAN]
    /\ failures \in 0..MaxFailures
    /\ crashes \in 0..MaxCrashes

Init ==
    /\ reading = 1
    /\ content = [i \in Inodes |-> Empty]
    /\ path = None
    /\ tmp = [p \in Processes |-> None]
    /\ expired = FALSE
    /\ thread = [t \in Threads |-> Idle]
    /\ render = [file |-> None, whole |-> TRUE]
    /\ failures = 0
    /\ crashes = 0

\* Inodes that no name and no handle refers to.
Free ==
    Inodes \ ({path, render.file} \cup {tmp[p] : p \in Processes}
                \cup {thread[t].file : t \in Threads})

\* read_raw_cache: a missing file and one that does not parse are no entry.
Cached == IF path = None THEN None
          ELSE IF content[path] \in Entry THEN content[path] ELSE None

-----------------------------------------------------------------------------
(* refresh_fable_quota_cache, on a pool thread.  The pool's claims do not  *)
(* keep two apart: a claim is for a kind and its argument, here the rate   *)
(* limits of the session that asked, and the file is the same for all.     *)

\* Mutant of Begin: an entry that marks a failure is never asked about again.
BeginUnlessFailed(t) ==
    /\ thread[t].step = "idle"
    /\ Cached = None \/ (expired /\ ~Cached.failed)
    /\ thread' = [thread EXCEPT ![t].step = "fetch"]
    /\ UNCHANGED <<reading, fileVars, render, failures, crashes>>

\* _fable_quota_cached asks, where it finds no entry or one past its TTL.  The
\* job waits in the pool before it fetches.
Begin(t) ==
    /\ thread[t].step = "idle"
    /\ Cached = None \/ expired
    /\ thread' = [thread EXCEPT ![t].step = "fetch"]
    /\ UNCHANGED <<reading, fileVars, render, failures, crashes>>

FetchAnswers(t) ==
    /\ thread[t].step = "fetch"
    /\ thread' = [thread EXCEPT ![t].step = "open",
                                ![t].entry = [reading |-> reading, failed |-> FALSE]]
    /\ UNCHANGED <<reading, fileVars, render, failures, crashes>>

\* No answer, or one without the metric.
FetchFails(t) ==
    /\ thread[t].step = "fetch"
    /\ failures < MaxFailures
    /\ failures' = failures + 1
    /\ thread' = [thread EXCEPT ![t].step = "merge"]
    /\ UNCHANGED <<reading, fileVars, render, crashes>>

\* Mutant of Merge: the marker takes the place of the entry.
MergeKeepsOnlyMarker(t) ==
    /\ thread[t].step = "merge"
    /\ thread' = [thread EXCEPT ![t].step = "open", ![t].entry = [failed |-> TRUE]]
    /\ UNCHANGED <<reading, fileVars, render, failures, crashes>>

\* _write_failure_cache: failed=True is merged into the entry it reads.
Merge(t) ==
    /\ thread[t].step = "merge"
    /\ thread' = [thread EXCEPT
          ![t].step = "open",
          ![t].entry = [reading |-> IF Cached = None THEN 0 ELSE Cached.reading,
                        failed |-> TRUE]]
    /\ UNCHANGED <<reading, fileVars, render, failures, crashes>>

-----------------------------------------------------------------------------
(* write_ttl_cache.                                                        *)

\* Mutant of OpenTmp: the cache file is written in place.
OpenTmpInPlace(t) ==
    LET file == IF path # None THEN path ELSE CHOOSE i \in Free : TRUE
    IN  /\ thread[t].step = "open"
        /\ path # None \/ Free # {}
        /\ path' = file
        /\ content' = [content EXCEPT ![file] = Empty]
        /\ thread' = [thread EXCEPT ![t].step = "write", ![t].file = file]
        /\ UNCHANGED <<reading, tmp, expired, render, failures, crashes>>

\* open(tmp, "w") creates the file or truncates the one that is there.
OpenTmp(t) ==
    LET p == ProcessOf[t]
        file == IF tmp[p] # None THEN tmp[p] ELSE CHOOSE i \in Free : TRUE
    IN  /\ thread[t].step = "open"
        /\ tmp[p] # None \/ Free # {}
        /\ tmp' = [tmp EXCEPT ![p] = file]
        /\ content' = [content EXCEPT ![file] = Empty]
        /\ thread' = [thread EXCEPT ![t].step = "write", ![t].file = file]
        /\ UNCHANGED <<reading, path, expired, render, failures, crashes>>

\* The entry, written when the handle is closed; over another's text of
\* another length it leaves a tail of that text behind.
WriteTmp(t) ==
    /\ thread[t].step = "write"
    /\ LET file == thread[t].file
       IN  \/ content' = [content EXCEPT ![file] = thread[t].entry]
           \/ /\ content[file] # Empty
              /\ content' = [content EXCEPT ![file] = Torn]
    /\ thread' = [thread EXCEPT ![t] = [Idle EXCEPT !.step = "replace"]]
    /\ UNCHANGED <<reading, path, tmp, expired, render, failures, crashes>>

\* An OSError is swallowed.  The temporary file stays, cut short.
WriteFails(t) ==
    /\ thread[t].step = "write"
    /\ failures < MaxFailures
    /\ failures' = failures + 1
    /\ content' = [content EXCEPT ![thread[t].file] = Torn]
    /\ thread' = [thread EXCEPT ![t] = Idle]
    /\ UNCHANGED <<reading, path, tmp, expired, render, crashes>>

\* os.replace; when another thread's rename has taken the name, it raises.  The
\* entry was stamped when it was written, just before.
Replace(t) ==
    LET p == ProcessOf[t]
    IN  /\ thread[t].step = "replace"
        /\ path' = IF tmp[p] # None THEN tmp[p] ELSE path
        /\ tmp' = [tmp EXCEPT ![p] = None]
        /\ expired' = (expired /\ tmp[p] = None)
        /\ thread' = [thread EXCEPT ![t] = Idle]
        /\ UNCHANGED <<reading, content, render, failures, crashes>>

ThreadStep(t) ==
    Begin(t) \/ FetchAnswers(t) \/ Merge(t) \/ OpenTmp(t) \/ WriteTmp(t) \/ Replace(t)

-----------------------------------------------------------------------------

\* A render opens the cache file and reads it; nothing locks in between.
RenderOpens ==
    /\ render.file = None
    /\ path # None
    /\ render' = [file |-> path, whole |-> TRUE]
    /\ UNCHANGED <<reading, fileVars, thread, failures, crashes>>

RenderReads ==
    /\ render.file # None
    /\ render' = [file |-> None, whole |-> content[render.file] \in Entry]
    /\ UNCHANGED <<reading, fileVars, thread, failures, crashes>>

\* A server process dies.  Its temporary file survives it, and the name comes
\* back with a process of the same id.
Crash(p) ==
    /\ crashes < MaxCrashes
    /\ crashes' = crashes + 1
    /\ thread' = [t \in Threads |-> IF ProcessOf[t] = p THEN Idle ELSE thread[t]]
    /\ UNCHANGED <<reading, fileVars, render, failures>>

\* The entry reaches _QUOTA_FAILURE_TTL_SECONDS or _QUOTA_TTL_SECONDS.
Expire ==
    /\ Cached # None /\ ~expired
    /\ expired' = TRUE
    /\ UNCHANGED <<reading, content, path, tmp, thread, render, failures, crashes>>

\* The harness: the quota moves.
ReadingMoves ==
    /\ reading < MaxReadings
    /\ reading' = reading + 1
    /\ UNCHANGED <<fileVars, thread, render, failures, crashes>>

Next ==
    \/ \E t \in Threads : ThreadStep(t) \/ FetchFails(t) \/ WriteFails(t)
    \/ \E p \in Processes : Crash(p)
    \/ RenderOpens
    \/ RenderReads
    \/ Expire
    \/ ReadingMoves

Spec == Init /\ [][Next]_vars

\* Entries reach their TTL and sessions render, so refreshes keep coming; a
\* fetch times out or answers; the threads are scheduled.
FairSpec == Spec /\ WF_vars(Expire) /\ \A t \in Threads : WF_vars(ThreadStep(t))

-----------------------------------------------------------------------------
(* What the cache promises.                                                *)

\* A render that opens the cache file reads a whole entry, whoever is writing,
\* renaming, failing or dying meanwhile (write_ttl_cache: concurrent writers
\* never see a partial file).
RendersReadWholeEntries == render.whole

\* Whatever failed or died, the dashboard's current reading comes to be cached:
\* a failure marker holds refreshes back for its TTL only, and no abandoned
\* temporary file does (_fable_quota_cached, write_ttl_cache).
CachesCurrentReading == []<>(Cached # None /\ Cached.reading = reading)
=============================================================================
